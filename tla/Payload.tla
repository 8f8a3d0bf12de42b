------------------------------- MODULE Payload -------------------------------
(***************************************************************************)
(* The two readings of one webhook body: ingest.py parses it for the       *)
(* partition key, and consumer.py parses the same bytes again, later and   *)
(* in another task, for the event.                                         *)
(*                                                                         *)
(* A body is a record                                                      *)
(*   signature   whether the X-OP-Signature header matches the body        *)
(*   kind        "object", or what else the bytes are: "array" (JSON, but  *)
(*               no object), "empty", "garbage" (no JSON), "binary" (not   *)
(*               even text)                                                *)
(*   id, action_id, project_id   fields of the object                      *)
(*   project     the field _embedded.project.id, or NoProject when         *)
(*               _embedded or its project is missing, or Misshapen when    *)
(*               the project is no object                                  *)
(*   times       created_at, updated_at and timestamp                      *)
(*                                                                         *)
(* A field is missing, null, the number 0, the empty string, or a name;    *)
(* only names are true to Python's `or`.  One name has no UTF-8 encoding.  *)
(***************************************************************************)
EXTENDS SequencesExt

Missing == "missing"
Null    == "None"     \* str(None)
Zero    == "0"
Empty   == ""

Surrogate == "surrogate"   \* a string with half of a surrogate pair

NoProject == "no project"
Misshapen == "misshapen"

\* A missing header or secret is a signature that differs, too.
Signatures == {"matches", "differs", "not ascii"}
Kinds == {"object", "array", "empty", "garbage", "binary"}
Falsy == {Missing, Null, Zero, Empty}

\* payload.get(...)
Get(field) == IF field = Missing THEN Null ELSE field

\* a or b or ... : the first that is true, or else the last.
FirstOf(fields) ==
  LET true == {i \in 1..Len(fields) : fields[i] \notin Falsy}
  IN  IF true = {} THEN Get(Last(fields)) ELSE fields[Min(true)]

-----------------------------------------------------------------------------
(* ingest.py *)

\* verify_signature does not raise: a header, a secret, and the body's own digest.
Authentic(b) == b.signature = "matches"

\* compare_digest raises TypeError, which is no InvalidSignature.
SignatureRaises(b) == b.signature = "not ascii"

\* json.loads(body or b"{}") returns something.
Parses(b) == b.kind \in {"object", "array", "empty"}

\* Mutant of KeyOf: action_id is not considered.
KeyOfIdOnly(b) ==
  IF b.kind # "object" THEN Empty
  ELSE IF b.id \notin Falsy THEN b.id
  ELSE IF b.project \in {NoProject, Misshapen} \/ Get(b.project) = Null THEN Empty
  ELSE b.project

\* The key of the record; the empty key is sent as no key.
KeyOf(b) ==
  LET candidate == FirstOf(<<b.id, b.action_id>>)
  IN  IF b.kind # "object" THEN Empty
      ELSE IF candidate # Null THEN candidate
      ELSE IF b.project = NoProject \/ Get(b.project) = Null THEN Empty
      ELSE b.project

(* _extract_event_key raises AttributeError on what is not the expected    *)
(* object, and UnicodeEncodeError on a key that cannot be encoded.         *)
KeyRaises(b) ==
  \/ b.kind = "array"
  \/ /\ b.kind = "object"
     /\ FirstOf(<<b.id, b.action_id>>) = Null
     /\ b.project = Misshapen
  \/ KeyOf(b) = Surrogate

-----------------------------------------------------------------------------
(* consumer.py, transform_raw *)

IdOf(b) == FirstOf(<<b.id, b.action_id, Empty>>)

\* The record is an event; otherwise transform_raw returns None.
IsEvent(b) == b.kind = "object" /\ IdOf(b) # Empty

\* str(proj.get("id", "")): the string of a null id is not empty.
ProjectOf(b) ==
  IF b.project \in {NoProject, Misshapen, Missing, Empty}
  THEN FirstOf(<<b.project_id, "unknown">>)
  ELSE b.project

TimeOf(b) == FirstOf(b.times \o <<Empty>>)

Transform(b) == [id |-> IdOf(b), project |-> ProjectOf(b), at |-> TimeOf(b)]
=============================================================================
