------------------------------ MODULE ApiClient ------------------------------
(***************************************************************************)
(* OpenProjectClient (api_client.py): concurrent tool calls that write to  *)
(* one work package, each through _make_request_with_retry.                *)
(*                                                                         *)
(* An attempt that times out is sent again, although OpenProject may have  *)
(* carried it out or may yet do so: the request goes on travelling when    *)
(* its caller has given it up.  OpenProject and the network are not part   *)
(* of the repository and are modelled as the client relies on them.        *)
(*                                                                         *)
(* Delays are left out: the loop sleeps for an arbitrary time.             *)
(***************************************************************************)
EXTENDS Integers, FiniteSets, Sequences

CONSTANTS
  Call,        \* tool calls
  MaxRetries   \* self.max_retries

ASSUME RetriesAssumption == MaxRetries \in Nat

VARIABLES
  phase,       \* call: where it is in _make_request_with_retry
  op,          \* call: "create", "update" or "delete"
  lock,        \* call: the lockVersion of an update's payload
  attempt,     \* call: the loop variable
  reply,       \* call: the status code on its way to the current attempt
  result,      \* call: what it returned to the tool
  observed,    \* call: observations of openproject_api_latency_seconds
  travelling,  \* network: requests OpenProject has not dealt with
  item,        \* OpenProject: the work package
  applied,     \* history, call: how often OpenProject carried it out
  silent       \* history: calls with an attempt that did not say what became of it

calls == << phase, op, lock, attempt, reply, result, observed >>
vars  == << calls, travelling, item, applied, silent >>

Ops == {"create", "update", "delete"}
Phases == {"idle", "waiting", "sleeping", "returned", "cancelled"}
Results == {"none", "ok", "unreadable", "not found", "failed"}

NoReply == 0
OK == 200
NotFound == 404
Conflict == 409
Refused == 422       \* and every other client error the loop does not retry: 401, 403, ...
Throttled == 429
ServerError == 500
Codes == {OK, NotFound, Conflict, Refused, Throttled, ServerError}

Request == [call : Call, attempt : 0..MaxRetries, lock : Nat]

Init ==
  /\ phase = [c \in Call |-> "idle"]
  /\ op = [c \in Call |-> "create"]
  /\ lock = [c \in Call |-> 0]
  /\ attempt = [c \in Call |-> 0]
  /\ reply = [c \in Call |-> NoReply]
  /\ result = [c \in Call |-> "none"]
  /\ observed = [c \in Call |-> [success |-> 0, error |-> 0]]
  /\ travelling = {}
  /\ item = [exists |-> TRUE, version |-> 0]
  /\ applied = [c \in Call |-> 0]
  /\ silent = {}

-----------------------------------------------------------------------------
(* The client. *)

\* Mutant of LockOf: every attempt reads the version again.
LockRefreshed(c) == item.version

\* Every attempt sends the same payload, with the lockVersion the tool was given.
LockOf(c) == lock[c]

RequestOf(c) == [call |-> c, attempt |-> attempt[c], lock |-> LockOf(c)]

(* A tool begins a call.  The lockVersion is one its caller once read.     *)
Begin(c, kind, version) ==
  /\ phase[c] = "idle"
  /\ phase' = [phase EXCEPT ![c] = "waiting"]
  /\ op' = [op EXCEPT ![c] = kind]
  /\ lock' = [lock EXCEPT ![c] = version]
  /\ travelling' = travelling \union {[call |-> c, attempt |-> 0, lock |-> version]}
  /\ UNCHANGED << attempt, reply, result, observed, item, applied, silent >>

\* The sleep of the backoff ends and the next attempt is sent.
Wake(c) ==
  /\ phase[c] = "sleeping"
  /\ phase' = [phase EXCEPT ![c] = "waiting"]
  /\ travelling' = travelling \union {RequestOf(c)}
  /\ UNCHANGED << op, lock, attempt, reply, result, observed, item, applied, silent >>

\* One observation in the histogram, with this outcome.
Observe(c, outcome) == observed' = [observed EXCEPT ![c][outcome] = @ + 1]

Return(c, what) ==
  /\ phase' = [phase EXCEPT ![c] = "returned"]
  /\ result' = [result EXCEPT ![c] = what]
  /\ UNCHANGED attempt

\* Mutant of Again: one attempt too many.
AgainOnceMore(c) ==
  \/ /\ attempt[c] <= MaxRetries
     /\ attempt' = [attempt EXCEPT ![c] = @ + 1]
     /\ phase' = [phase EXCEPT ![c] = "sleeping"]
     /\ UNCHANGED << result, observed >>
  \/ /\ attempt[c] > MaxRetries
     /\ Observe(c, "error")
     /\ Return(c, "failed")

\* Mutant of Again: attempts are not counted.
AgainForever(c) ==
  /\ phase' = [phase EXCEPT ![c] = "sleeping"]
  /\ UNCHANGED << attempt, result, observed >>

\* Mutant of Again: every failed attempt is observed.
AgainObserved(c) ==
  /\ Observe(c, "error")
  /\ \/ /\ attempt[c] < MaxRetries
        /\ attempt' = [attempt EXCEPT ![c] = @ + 1]
        /\ phase' = [phase EXCEPT ![c] = "sleeping"]
        /\ UNCHANGED result
     \/ /\ attempt[c] = MaxRetries
        /\ Return(c, "failed")

(* Another attempt if the loop has one left; otherwise the last exception  *)
(* is raised.                                                              *)
Again(c) ==
  \/ /\ attempt[c] < MaxRetries
     /\ attempt' = [attempt EXCEPT ![c] = @ + 1]
     /\ phase' = [phase EXCEPT ![c] = "sleeping"]
     /\ UNCHANGED << result, observed >>
  \/ /\ attempt[c] = MaxRetries
     /\ Observe(c, "error")
     /\ Return(c, "failed")

\* Mutant of ResultsOf: a deletion that finds nothing is reported as done.
ResultsLenient(c, code) ==
  IF code = OK \/ (code = NotFound /\ op[c] = "delete") THEN {"ok"}
  ELSE IF code = NotFound /\ op[c] = "update" THEN {"not found"} ELSE {"failed"}

\* Mutant of ResultsOf: an update that lost the race is reported as done.
ResultsConflictDone(c, code) ==
  IF code \in {OK, Conflict} THEN {"ok"}
  ELSE IF code = NotFound /\ op[c] # "create" THEN {"not found"} ELSE {"failed"}

(* What a wrapper makes of an answer.  The body of a success may be no     *)
(* JSON: response.json() then raises, except that of a deletion, which is  *)
(* not read.  A 404 is a ValueError of its own.                            *)
ResultsOf(c, code) ==
  IF code = OK THEN (IF op[c] = "delete" THEN {"ok"} ELSE {"ok", "unreadable"})
  ELSE IF code = NotFound /\ op[c] # "create" THEN {"not found"} ELSE {"failed"}

\* The answer to the current attempt arrives.
Receive(c) ==
  /\ phase[c] = "waiting" /\ reply[c] # NoReply
  /\ reply' = [reply EXCEPT ![c] = NoReply]
  /\ \/ /\ reply[c] \in {Throttled, ServerError}
        /\ Again(c)
     \/ /\ reply[c] \notin {Throttled, ServerError}
        /\ Observe(c, IF reply[c] = OK THEN "success" ELSE "error")
        /\ \E what \in ResultsOf(c, reply[c]) : Return(c, what)
  /\ UNCHANGED << op, lock, travelling, item, applied, silent >>

\* httpx.TimeoutException; the request goes on its way.
Timeout(c) ==
  /\ phase[c] = "waiting" /\ reply[c] = NoReply
  /\ Again(c)
  /\ silent' = silent \union {c}
  /\ UNCHANGED << op, lock, reply, travelling, item, applied >>

\* httpx.ConnectError: the request was never sent.
ConnectError(c) ==
  /\ phase[c] = "waiting" /\ RequestOf(c) \in travelling
  /\ Again(c)
  /\ travelling' = travelling \ {RequestOf(c)}
  /\ UNCHANGED << op, lock, reply, item, applied, silent >>

(* What the loop does not catch: the connection breaks off while it waits  *)
(* (httpx.ReadError, RemoteProtocolError), or the Retry-After header of a  *)
(* 429 is a date and float() raises.  The call ends unobserved.            *)
Escape(c) ==
  /\ phase[c] = "waiting"
  /\ \/ reply[c] = NoReply /\ silent' = silent \union {c}
     \/ reply[c] = Throttled /\ attempt[c] < MaxRetries /\ UNCHANGED silent
  /\ reply' = [reply EXCEPT ![c] = NoReply]
  /\ Return(c, "failed")
  /\ UNCHANGED << op, lock, observed, travelling, item, applied >>

(* The tool call is cancelled: CancelledError is no Exception, so nothing  *)
(* catches it on its way out.  The request goes on its way.                *)
Cancel(c) ==
  /\ phase[c] \in {"waiting", "sleeping"}
  /\ phase' = [phase EXCEPT ![c] = "cancelled"]
  /\ reply' = [reply EXCEPT ![c] = NoReply]
  /\ UNCHANGED << op, lock, attempt, result, observed, travelling, item, applied, silent >>

-----------------------------------------------------------------------------
(* OpenProject. *)

\* What becomes of a request that is carried out.
Verdict(r) ==
  IF op[r.call] = "create" THEN OK
  ELSE IF ~item.exists THEN NotFound
  ELSE IF op[r.call] = "update" /\ r.lock # item.version THEN Conflict ELSE OK

Effect(r) ==
  IF op[r.call] = "create" THEN item
  ELSE IF op[r.call] = "delete" THEN [item EXCEPT !.exists = FALSE]
  ELSE [item EXCEPT !.version = @ + 1]

\* An answer only finds the attempt that still waits for it.
Answer(r, code) ==
  reply' = IF phase[r.call] = "waiting" /\ attempt[r.call] = r.attempt
           THEN [reply EXCEPT ![r.call] = code] ELSE reply

(* OpenProject carries a request out; a gateway may fail after it did.     *)
Serve(r, code) ==
  /\ r \in travelling
  /\ travelling' = travelling \ {r}
  /\ code \in {Verdict(r), ServerError}
  /\ Answer(r, code)
  /\ IF Verdict(r) = OK
     THEN item' = Effect(r) /\ applied' = [applied EXCEPT ![r.call] = @ + 1]
     ELSE UNCHANGED << item, applied >>
  /\ silent' = IF code = Verdict(r) THEN silent ELSE silent \union {r.call}
  /\ UNCHANGED << phase, op, lock, attempt, result, observed >>

\* OpenProject turns a request away: invalid, not permitted, throttled or in trouble.
Reject(r, code) ==
  /\ r \in travelling /\ code \in {Refused, Throttled, ServerError}
  /\ travelling' = travelling \ {r}
  /\ Answer(r, code)
  /\ UNCHANGED << phase, op, lock, attempt, result, observed, item, applied, silent >>

CallStep(c) ==
  \/ \E kind \in Ops, version \in 0..item.version : Begin(c, kind, version)
  \/ Wake(c) \/ Receive(c) \/ Timeout(c) \/ ConnectError(c) \/ Escape(c) \/ Cancel(c)

Next ==
  \/ \E c \in Call : CallStep(c)
  \/ \E r \in travelling, code \in Codes : Serve(r, code) \/ Reject(r, code)

Spec == Init /\ [][Next]_vars

\* The event loop runs, timeouts pass and sleeps end; nobody need answer.
Fairness ==
  \A c \in Call : WF_vars(Wake(c)) /\ WF_vars(Receive(c)) /\ WF_vars(Timeout(c))

FairSpec == Spec /\ Fairness

-----------------------------------------------------------------------------
TypeOK ==
  /\ phase \in [Call -> Phases]
  /\ op \in [Call -> Ops]
  /\ lock \in [Call -> Nat]
  /\ attempt \in [Call -> 0..MaxRetries]
  /\ reply \in [Call -> Codes \union {NoReply}]
  /\ result \in [Call -> Results]
  /\ observed \in [Call -> [success : Nat, error : Nat]]
  /\ travelling \subseteq Request
  /\ item \in [exists : BOOLEAN, version : Nat]
  /\ applied \in [Call -> Nat]
  /\ silent \subseteq Call

(* "OpenProject requires a lockVersion in the payload" (update_work_package): *)
(* since every attempt of an update carries the version its caller read,   *)
(* it takes effect at most once however often it is sent and however late  *)
(* its attempts arrive, and of the calls that read the same version at     *)
(* most one takes effect: no update is lost.                               *)
NoLostUpdate ==
  \A c, d \in Call :
     op[c] = "update" /\ op[d] = "update" /\ lock[c] = lock[d] =>
       IF c = d THEN applied[c] <= 1 ELSE applied[c] + applied[d] <= 1

(* A tool that reports success has changed something, be it by an attempt  *)
(* before the one that was answered.                                       *)
SuccessIsReal == \A c \in Call : result[c] = "ok" => applied[c] >= 1

(* Unless an attempt ended in silence or in a gateway's error, what a call *)
(* returned says what became of it: throttled and rejected attempts never  *)
(* make a create happen twice, and no call that failed happened, but for   *)
(* the failure to read the body of a success, after which the change is    *)
(* there although the tool reports an error.                               *)
ClearAnswersAreExact ==
  \A c \in Call : phase[c] = "returned" /\ c \notin silent =>
     applied[c] = IF result[c] \in {"ok", "unreadable"} THEN 1 ELSE 0

(* The latency histogram counts a call at most once, and only one that has *)
(* returned, however many attempts it took.  A result was counted as a     *)
(* success; a success stands for a change, also if the tool was told of a  *)
(* failure because the body could not be read; and an error stands for a   *)
(* call that changed nothing, unless an attempt of it ended in silence.    *)
MetricsAgree ==
  \A c \in Call :
     /\ observed[c].success + observed[c].error <= IF phase[c] = "returned" THEN 1 ELSE 0
     /\ result[c] = "ok" => observed[c].success = 1
     /\ observed[c].success = 1 => applied[c] >= 1
     /\ observed[c].error = 1 /\ c \notin silent => applied[c] = 0

(* Every call returns unless it is cancelled, even if no answer ever comes. *)
EveryCallReturns ==
  \A c \in Call : phase[c] = "waiting" ~> phase[c] \in {"returned", "cancelled"}

-----------------------------------------------------------------------------
\* A call as the tool that waits for it sees it.
RemoteStage(c) ==
  CASE phase[c] \in {"waiting", "sleeping"} -> "open"
    [] phase[c] = "cancelled" -> "left"
    [] phase[c] = "returned" -> (IF result[c] = "ok" THEN "succeeded" ELSE "failed")
    [] OTHER -> "idle"

Remote == INSTANCE RemoteCall WITH
  MaxSends <- MaxRetries + 1, remote <- [c \in Call |-> RemoteStage(c)]

(* The retry loop and the wrappers over it are what a tool takes them for: *)
(* one call that succeeds only if it was carried out, and is carried out   *)
(* at most once for each attempt, however late.                            *)
ImplementsRemoteCall == Remote!RemoteSpec
=============================================================================
