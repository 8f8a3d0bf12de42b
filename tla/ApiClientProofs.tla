---------------------------- MODULE ApiClientProofs ----------------------------
(***************************************************************************)
(* Proofs about ApiClient, for every number of calls and retries.          *)
(***************************************************************************)
EXTENDS ApiClient, FiniteSetTheorems, TLAPS

-----------------------------------------------------------------------------
(* The inductive invariant. *)

(* What travels was sent by a call that has begun, with the lockVersion of *)
(* its payload, for an attempt it has come to and has no answer for.       *)
RequestsKnown ==
  \A r \in travelling :
     /\ r.lock = lock[r.call]
     /\ phase[r.call] # "idle"
     /\ r.attempt <= attempt[r.call]
     /\ phase[r.call] = "sleeping" => r.attempt < attempt[r.call]
     /\ r.attempt = attempt[r.call] => reply[r.call] = NoReply

\* The results of a call that was answered with a success.
Done == {"ok", "unreadable"}

\* A call that has not begun has no effect; an answered success is one.
EffectsKnown ==
  \A c \in Call :
     /\ phase[c] = "idle" => applied[c] = 0 /\ attempt[c] = 0
     /\ phase[c] = "waiting" /\ reply[c] = OK => applied[c] > 0
     /\ phase[c] # "waiting" => reply[c] = NoReply
     /\ result[c] # "none" => phase[c] = "returned"
     /\ result[c] \in Done => applied[c] > 0

\* An update that took effect has left its lockVersion behind.
LocksSpent ==
  \A c \in Call : op[c] = "update" /\ applied[c] > 0 => lock[c] < item.version

(* Nothing travels for a call that was told everything but what it waits   *)
(* for, and what it was told, or is being told, is what was carried out.   *)
NothingLoose ==
  \A c \in Call : c \notin silent /\ phase[c] # "cancelled" =>
     /\ \A r \in travelling : r.call = c => phase[c] = "waiting" /\ r.attempt = attempt[c]
     /\ applied[c] = IF result[c] \in Done \/ reply[c] = OK THEN 1 ELSE 0

(* A call that goes on was not observed; one that was has the result that  *)
(* goes with its outcome.                                                  *)
ObservedOnce ==
  \A c \in Call :
     /\ observed[c].success + observed[c].error <= 1
     /\ phase[c] # "returned" => observed[c].success = 0 /\ observed[c].error = 0
     /\ observed[c].success = 1 <=> result[c] \in Done

ClientInv ==
  /\ TypeOK
  /\ RequestsKnown
  /\ EffectsKnown
  /\ LocksSpent
  /\ NoLostUpdate
  /\ ObservedOnce
  /\ NothingLoose

-----------------------------------------------------------------------------
(* The steps. *)

LEMMA AgainCases ==
  ASSUME NEW c \in Call, Again(c)
  PROVE  \/ /\ attempt[c] < MaxRetries /\ attempt' = [attempt EXCEPT ![c] = @ + 1]
            /\ phase' = [phase EXCEPT ![c] = "sleeping"]
            /\ UNCHANGED << result, observed >>
         \/ /\ phase' = [phase EXCEPT ![c] = "returned"]
            /\ result' = [result EXCEPT ![c] = "failed"]
            /\ observed' = [observed EXCEPT ![c]["error"] = @ + 1]
            /\ UNCHANGED attempt
BY Zenon DEF Again, Return, Observe

LEMMA ObserveType ==
  ASSUME TypeOK, NEW c \in Call, NEW o \in {"success", "error"}
  PROVE  [observed EXCEPT ![c][o] = @ + 1] \in [Call -> [success : Nat, error : Nat]]
<1>1. observed[c] \in [success : Nat, error : Nat]
  BY DEF TypeOK
<1>2. [observed[c] EXCEPT ![o] = observed[c][o] + 1] \in [success : Nat, error : Nat]
  BY <1>1
<1>3. QED
  BY <1>2 DEF TypeOK

LEMMA AgainTypes ==
  ASSUME TypeOK, NEW c \in Call, Again(c)
  PROVE  /\ phase' \in [Call -> Phases] /\ attempt' \in [Call -> 0..MaxRetries]
         /\ result' \in [Call -> Results]
         /\ observed' \in [Call -> [success : Nat, error : Nat]]
<1>1. CASE attempt[c] < MaxRetries /\ attempt' = [attempt EXCEPT ![c] = @ + 1]
           /\ phase' = [phase EXCEPT ![c] = "sleeping"] /\ UNCHANGED << result, observed >>
  <2>1. attempt[c] + 1 \in 0..MaxRetries
    BY <1>1, RetriesAssumption DEF TypeOK
  <2>2. QED
    BY <1>1, <2>1 DEF TypeOK, Phases
<1>2. CASE phase' = [phase EXCEPT ![c] = "returned"]
           /\ result' = [result EXCEPT ![c] = "failed"]
           /\ observed' = [observed EXCEPT ![c]["error"] = @ + 1] /\ UNCHANGED attempt
  BY <1>2, ObserveType DEF TypeOK, Phases, Results
<1>3. QED
  BY <1>1, <1>2, AgainCases

LEMMA RequestType ==
  ASSUME TypeOK, NEW c \in Call
  PROVE  RequestOf(c) \in Request
BY DEF TypeOK, RequestOf, LockOf, Request

LEMMA EffectCases ==
  ASSUME TypeOK, NEW r
  PROVE  /\ Effect(r) \in [exists : BOOLEAN, version : Nat]
         /\ Effect(r).version >= item.version
         /\ op[r.call] = "update" => Effect(r).version = item.version + 1
<1>1. item \in [exists : BOOLEAN, version : Nat] /\ item.version \in Nat
  BY DEF TypeOK
<1>2. /\ [item EXCEPT !.exists = FALSE] \in [exists : BOOLEAN, version : Nat]
      /\ [item EXCEPT !.exists = FALSE].version = item.version
  BY <1>1
<1>3. /\ [item EXCEPT !.version = item.version + 1] \in [exists : BOOLEAN, version : Nat]
      /\ [item EXCEPT !.version = item.version + 1].version = item.version + 1
  BY <1>1
<1>4. QED
  BY <1>1, <1>2, <1>3 DEF Effect

LEMMA TypesStep == TypeOK /\ [Next]_vars => TypeOK'
<1> SUFFICES ASSUME TypeOK, [Next]_vars PROVE TypeOK'
  OBVIOUS
<1>1. ASSUME NEW c \in Call, NEW kind \in Ops, NEW version \in 0..item.version,
             Begin(c, kind, version)
      PROVE  TypeOK'
  <2>1. item.version \in Nat /\ version \in Nat
    BY DEF TypeOK
  <2>2. [call |-> c, attempt |-> 0, lock |-> version] \in Request
    BY <2>1, RetriesAssumption DEF Request
  <2>3. QED
    BY <1>1, <2>1, <2>2 DEF Begin, TypeOK, Phases
<1>2. ASSUME NEW c \in Call, Wake(c) \/ Cancel(c)
      PROVE  TypeOK'
  BY <1>2, RequestType DEF Wake, Cancel, TypeOK, Phases
<1>3. ASSUME NEW c \in Call, Receive(c)
      PROVE  TypeOK'
  <2>1. reply' \in [Call -> Codes \union {NoReply}]
    BY <1>3 DEF Receive, TypeOK
  <2>2. CASE Again(c)
    BY <1>3, <2>1, <2>2, AgainTypes DEF Receive, TypeOK
  <2>3. CASE /\ Observe(c, IF reply[c] = OK THEN "success" ELSE "error")
             /\ \E what \in ResultsOf(c, reply[c]) : Return(c, what)
    <3>1. observed' \in [Call -> [success : Nat, error : Nat]]
      BY <2>3, ObserveType DEF Observe
    <3>2. ResultsOf(c, reply[c]) \subseteq Results
      BY DEF ResultsOf, Results
    <3>3. PICK what \in Results : Return(c, what)
      BY <2>3, <3>2
    <3>4. phase' \in [Call -> Phases] /\ result' \in [Call -> Results] /\ UNCHANGED attempt
      BY <3>3 DEF Return, TypeOK, Phases
    <3>5. UNCHANGED << op, lock, travelling, item, applied, silent >>
      BY <1>3 DEF Receive
    <3>6. QED
      BY <2>1, <3>1, <3>4, <3>5 DEF TypeOK
  <2>4. QED
    BY <1>3, <2>2, <2>3 DEF Receive
<1>4. ASSUME NEW c \in Call, Timeout(c) \/ ConnectError(c)
      PROVE  TypeOK'
  BY <1>4, AgainTypes DEF Timeout, ConnectError, TypeOK
<1>5. ASSUME NEW c \in Call, Escape(c)
      PROVE  TypeOK'
  BY <1>5 DEF Escape, Return, TypeOK, Phases, Results
<1>6. ASSUME NEW r \in travelling, NEW code \in Codes, Serve(r, code)
      PROVE  TypeOK'
  <2>1. r.call \in Call
    BY DEF TypeOK, Request
  <2>2. reply' \in [Call -> Codes \union {NoReply}]
    BY <1>6, <2>1 DEF Serve, Answer, TypeOK
  <2>3. Effect(r) \in [exists : BOOLEAN, version : Nat]
    BY EffectCases
  <2>4. applied' \in [Call -> Nat] /\ item' \in [exists : BOOLEAN, version : Nat]
    BY <1>6, <2>1, <2>3 DEF Serve, TypeOK
  <2>5. QED
    BY <1>6, <2>1, <2>2, <2>4 DEF Serve, TypeOK
<1>7. ASSUME NEW r \in travelling, NEW code \in Codes, Reject(r, code)
      PROVE  TypeOK'
  <2>1. r.call \in Call
    BY DEF TypeOK, Request
  <2>2. reply' \in [Call -> Codes \union {NoReply}]
    BY <1>7, <2>1 DEF Reject, Answer, TypeOK
  <2>3. QED
    BY <1>7, <2>2 DEF Reject, TypeOK
<1>8. CASE UNCHANGED vars
  BY <1>8 DEF vars, calls, TypeOK
<1>9. QED
  BY <1>1, <1>2, <1>3, <1>4, <1>5, <1>6, <1>7, <1>8 DEF Next, CallStep

(* Only OpenProject carries anything out; everything else leaves what was  *)
(* carried out, and the work package, alone.                               *)
LEMMA ServeCases ==
  ASSUME TypeOK, NEW r \in travelling, NEW code \in Codes, Serve(r, code)
  PROVE  /\ r.call \in Call /\ travelling' = travelling \ {r}
         /\ UNCHANGED << phase, op, lock, attempt, result >>
         /\ reply' = reply \/ (phase[r.call] = "waiting" /\ reply' = [reply EXCEPT ![r.call] = code])
         /\ \/ code # OK /\ UNCHANGED << item, applied >>
            \/ /\ Verdict(r) = OK
               /\ item' = Effect(r) /\ applied' = [applied EXCEPT ![r.call] = @ + 1]
<1>1. ServerError # OK
  BY DEF ServerError, OK
<1>2. QED
  BY <1>1, Zenon DEF Serve, Answer, TypeOK, Request

LEMMA ServeType ==
  ASSUME TypeOK, NEW r \in travelling
  PROVE  r \in Request /\ r.call \in Call /\ r.attempt \in 0..MaxRetries
BY DEF TypeOK, Request

\* An attempt is one request: what travels for a call is told apart by its attempt.
LEMMA RequestUnique ==
  ASSUME TypeOK, RequestsKnown, NEW r \in travelling, NEW s \in travelling,
         r.call = s.call, r.attempt = s.attempt
  PROVE  r = s
<1>1. r \in Request /\ s \in Request
  BY ServeType
<1>2. r.lock = s.lock
  BY DEF RequestsKnown
<1>3. QED
  BY <1>1, <1>2 DEF Request

LEMMA RequestsStep == ClientInv /\ [Next]_vars => RequestsKnown'
<1> SUFFICES ASSUME ClientInv, [Next]_vars PROVE RequestsKnown'
  OBVIOUS
<1>1. TypeOK /\ RequestsKnown /\ EffectsKnown
  BY DEF ClientInv
<1>2. ASSUME NEW c \in Call, NEW kind \in Ops, NEW version \in 0..item.version,
             Begin(c, kind, version)
      PROVE  RequestsKnown'
  <2> DEFINE new == [call |-> c, attempt |-> 0, lock |-> version]
  <2>1. /\ phase[c] = "idle" /\ phase' = [phase EXCEPT ![c] = "waiting"]
        /\ lock' = [lock EXCEPT ![c] = version] /\ attempt' = attempt /\ reply' = reply
        /\ travelling' = travelling \union {new}
    BY <1>2 DEF Begin
  <2>2. ASSUME NEW r \in travelling
        PROVE  r.call \in Call /\ r.call # c
    BY <1>1, <2>1, ServeType DEF RequestsKnown
  <2>3. attempt[c] = 0 /\ reply[c] = NoReply
    BY <1>1, <2>1 DEF EffectsKnown
  <2>4. /\ new.lock = lock'[c] /\ phase'[c] = "waiting" /\ new.attempt <= attempt'[c]
        /\ new.call = c /\ reply'[c] = NoReply
    BY <1>1, <2>1, <2>3 DEF TypeOK
  <2>5. QED
    BY <1>1, <2>1, <2>2, <2>4 DEF RequestsKnown, TypeOK
<1>3. ASSUME NEW c \in Call, Wake(c)
      PROVE  RequestsKnown'
  <2>1. /\ phase[c] = "sleeping" /\ phase' = [phase EXCEPT ![c] = "waiting"]
        /\ UNCHANGED << lock, attempt, reply >>
        /\ travelling' = travelling \union {RequestOf(c)}
    BY <1>3 DEF Wake
  <2>2. /\ RequestOf(c).call = c /\ RequestOf(c).lock = lock[c]
        /\ RequestOf(c).attempt = attempt[c] /\ attempt[c] \in Nat /\ reply[c] = NoReply
    BY <1>1, <2>1 DEF RequestOf, LockOf, TypeOK, EffectsKnown
  <2>3. QED
    BY <1>1, <2>1, <2>2 DEF RequestsKnown, TypeOK
<1>4. ASSUME NEW c \in Call, Again(c), phase[c] = "waiting", lock' = lock,
             travelling' \subseteq travelling,
             reply' = reply \/ reply' = [reply EXCEPT ![c] = NoReply]
      PROVE  RequestsKnown'
  <2> SUFFICES ASSUME NEW r \in travelling'
               PROVE  /\ r.lock = lock'[r.call] /\ phase'[r.call] # "idle"
                      /\ r.attempt <= attempt'[r.call]
                      /\ phase'[r.call] = "sleeping" => r.attempt < attempt'[r.call]
                      /\ r.attempt = attempt'[r.call] => reply'[r.call] = NoReply
    BY DEF RequestsKnown
  <2>1. /\ r.lock = lock[r.call] /\ phase[r.call] # "idle" /\ r.attempt <= attempt[r.call]
        /\ phase[r.call] = "sleeping" => r.attempt < attempt[r.call]
        /\ r.attempt = attempt[r.call] => reply[r.call] = NoReply
    BY <1>1, <1>4 DEF RequestsKnown
  <2>2. r.call \in Call /\ r.attempt \in Nat /\ attempt[r.call] \in Nat
    BY <1>1, <1>4, ServeType DEF TypeOK
  <2>3. reply[r.call] = NoReply => reply'[r.call] = NoReply
    BY <1>1, <1>4, <2>2 DEF TypeOK
  <2>4. CASE attempt' = [attempt EXCEPT ![c] = @ + 1] /\ phase' = [phase EXCEPT ![c] = "sleeping"]
    BY <1>1, <1>4, <2>1, <2>2, <2>3, <2>4 DEF TypeOK
  <2>5. CASE phase' = [phase EXCEPT ![c] = "returned"] /\ UNCHANGED attempt
    BY <1>1, <1>4, <2>1, <2>2, <2>3, <2>5 DEF TypeOK
  <2>6. QED
    BY <1>4, <2>4, <2>5, AgainCases
<1>5. ASSUME NEW c \in Call, Timeout(c) \/ ConnectError(c) \/ (Receive(c) /\ Again(c))
      PROVE  RequestsKnown'
  BY <1>4, <1>5 DEF Timeout, ConnectError, Receive
<1>6. ASSUME NEW c \in Call, UNCHANGED << lock, attempt, travelling >>,
             \/ phase' = [phase EXCEPT ![c] = "returned"]
             \/ phase' = [phase EXCEPT ![c] = "cancelled"],
             reply' = [reply EXCEPT ![c] = NoReply]
      PROVE  RequestsKnown'
  <2>1. \A d \in Call : /\ phase'[d] = phase[d] \/ phase'[d] \in {"returned", "cancelled"}
                        /\ reply[d] = NoReply => reply'[d] = NoReply
    BY <1>1, <1>6 DEF TypeOK
  <2>2. QED
    BY <1>1, <1>6, <2>1, ServeType DEF RequestsKnown
<1>7. ASSUME NEW c \in Call, Escape(c) \/ Cancel(c) \/ (Receive(c) /\ ~Again(c))
      PROVE  RequestsKnown'
  BY <1>6, <1>7 DEF Escape, Cancel, Receive, Return
<1>8. ASSUME NEW r \in travelling, NEW code \in Codes, Serve(r, code) \/ Reject(r, code)
      PROVE  RequestsKnown'
  <2>1. travelling' = travelling \ {r} /\ UNCHANGED << phase, lock, attempt >>
    BY <1>8 DEF Serve, Reject
  <2>2. \/ reply' = reply
        \/ attempt[r.call] = r.attempt /\ reply' = [reply EXCEPT ![r.call] = code]
    BY <1>8 DEF Serve, Reject, Answer
  <2>3. ASSUME NEW s \in travelling', s.attempt = attempt[s.call]
        PROVE  reply'[s.call] = NoReply
    <3>1. s \in travelling /\ s # r /\ reply[s.call] = NoReply /\ s.call \in Call
      BY <1>1, <2>1, <2>3, ServeType DEF RequestsKnown
    <3>2. s.call = r.call => s.attempt # r.attempt
      BY <1>1, <3>1, RequestUnique
    <3>3. QED
      BY <1>1, <2>2, <2>3, <3>1, <3>2, ServeType DEF TypeOK
  <2>4. QED
    BY <1>1, <2>1, <2>3 DEF RequestsKnown
<1>9. CASE UNCHANGED vars
  BY <1>1, <1>9 DEF vars, calls, RequestsKnown
<1>10. QED
  BY <1>2, <1>3, <1>5, <1>7, <1>8, <1>9 DEF Next, CallStep

LEMMA EffectsStep == ClientInv /\ [Next]_vars => EffectsKnown'
<1> SUFFICES ASSUME ClientInv, [Next]_vars PROVE EffectsKnown'
  OBVIOUS
<1>1. TypeOK /\ RequestsKnown /\ EffectsKnown
  BY DEF ClientInv
<1>2. ASSUME NEW c \in Call, NEW kind \in Ops, NEW version \in 0..item.version,
             Begin(c, kind, version)
      PROVE  EffectsKnown'
  BY <1>1, <1>2 DEF Begin, EffectsKnown, TypeOK, NoReply, OK
<1>3. ASSUME NEW c \in Call, Wake(c)
      PROVE  EffectsKnown'
  BY <1>1, <1>3 DEF Wake, EffectsKnown, TypeOK, NoReply, OK
<1>4. ASSUME NEW c \in Call, Again(c), phase[c] = "waiting", applied' = applied,
             (reply' = reply /\ reply[c] = NoReply) \/ reply' = [reply EXCEPT ![c] = NoReply]
      PROVE  EffectsKnown'
  <2>1. reply'[c] = NoReply /\ \A d \in Call : d # c => reply'[d] = reply[d]
    BY <1>1, <1>4 DEF TypeOK
  <2>2. CASE attempt' = [attempt EXCEPT ![c] = @ + 1] /\ phase' = [phase EXCEPT ![c] = "sleeping"]
             /\ result' = result
    BY <1>1, <1>4, <2>1, <2>2 DEF EffectsKnown, TypeOK
  <2>3. CASE phase' = [phase EXCEPT ![c] = "returned"] /\ attempt' = attempt
             /\ result' = [result EXCEPT ![c] = "failed"]
    BY <1>1, <1>4, <2>1, <2>3 DEF EffectsKnown, TypeOK, Done
  <2>4. QED
    BY <1>4, <2>2, <2>3, AgainCases
<1>5. ASSUME NEW c \in Call, Timeout(c) \/ (Receive(c) /\ Again(c))
      PROVE  EffectsKnown'
  BY <1>4, <1>5 DEF Timeout, Receive
<1>6. ASSUME NEW c \in Call, ConnectError(c)
      PROVE  EffectsKnown'
  <2>1. reply[c] = NoReply /\ phase[c] = "waiting"
    BY <1>1, <1>6 DEF ConnectError, RequestsKnown, RequestOf
  <2>2. QED
    BY <1>4, <1>6, <2>1 DEF ConnectError
<1>7. ASSUME NEW c \in Call, Receive(c), ~Again(c)
      PROVE  EffectsKnown'
  <2>1. /\ phase[c] = "waiting" /\ phase' = [phase EXCEPT ![c] = "returned"]
        /\ \E what \in ResultsOf(c, reply[c]) : result' = [result EXCEPT ![c] = what]
        /\ reply' = [reply EXCEPT ![c] = NoReply] /\ UNCHANGED << attempt, applied >>
    BY <1>7 DEF Receive, Return
  <2>2. \A what \in ResultsOf(c, reply[c]) : what \in Done => applied[c] > 0
    BY <1>1, <2>1 DEF ResultsOf, EffectsKnown, Done
  <2>3. PICK what \in ResultsOf(c, reply[c]) : result' = [result EXCEPT ![c] = what]
    BY <2>1
  <2>4. what \in Done => applied[c] > 0
    BY <2>2
  <2>5. QED
    BY <1>1, <2>1, <2>3, <2>4 DEF EffectsKnown, TypeOK
<1>8. ASSUME NEW c \in Call, Escape(c) \/ Cancel(c)
      PROVE  EffectsKnown'
  BY <1>1, <1>8 DEF Escape, Cancel, Return, EffectsKnown, TypeOK, Done
<1>9. ASSUME NEW r \in travelling, NEW code \in Codes, Serve(r, code)
      PROVE  EffectsKnown'
  <2>1. phase[r.call] # "idle" /\ r.call \in Call
    BY <1>1, ServeType DEF RequestsKnown
  <2>2. ASSUME NEW c \in Call
        PROVE  /\ applied'[c] >= applied[c] /\ (applied[c] > 0 => applied'[c] > 0)
               /\ c # r.call => applied'[c] = applied[c] /\ reply'[c] = reply[c]
               /\ phase[c] # "waiting" => reply'[c] = reply[c]
               /\ reply'[c] = OK => reply[c] = OK \/ applied'[c] > 0
    <3>1. applied[c] \in Nat
      BY <1>1 DEF TypeOK
    <3>2. QED
      BY <1>1, <1>9, <2>1, <3>1, ServeCases DEF TypeOK, OK, ServerError
  <2>3. UNCHANGED << phase, attempt, result >>
    BY <1>9 DEF Serve
  <2>4. QED
    BY <1>1, <2>1, <2>2, <2>3 DEF EffectsKnown
<1>10. ASSUME NEW r \in travelling, NEW code \in Codes, Reject(r, code)
       PROVE  EffectsKnown'
  BY <1>1, <1>10, ServeType DEF Reject, Answer, EffectsKnown, TypeOK, OK, Refused, Throttled, ServerError
<1>11. CASE UNCHANGED vars
  BY <1>1, <1>11 DEF vars, calls, EffectsKnown
<1>12. QED
  BY <1>2, <1>3, <1>5, <1>6, <1>7, <1>8, <1>9, <1>10, <1>11 DEF Next, CallStep

(* Whether an update is lost depends on what was carried out and on what   *)
(* version; few steps touch either.                                        *)
LEMMA StepKinds ==
  ASSUME ClientInv, [Next]_vars
  PROVE  \/ UNCHANGED << op, lock, item, applied >>
         \/ \E c \in Call, kind \in Ops, version \in 0..item.version : Begin(c, kind, version)
         \/ \E r \in travelling : /\ Verdict(r) = OK /\ item' = Effect(r)
                                 /\ applied' = [applied EXCEPT ![r.call] = @ + 1]
                                 /\ UNCHANGED << op, lock >>
<1>1. ASSUME NEW c \in Call, \/ Wake(c) \/ Receive(c) \/ Timeout(c) \/ ConnectError(c)
                             \/ Escape(c) \/ Cancel(c)
      PROVE  UNCHANGED << op, lock, item, applied >>
  BY <1>1 DEF Wake, Receive, Timeout, ConnectError, Escape, Cancel
<1>2. ASSUME NEW r \in travelling, NEW code \in Codes, Serve(r, code)
      PROVE  \/ UNCHANGED << op, lock, item, applied >>
             \/ /\ Verdict(r) = OK /\ item' = Effect(r)
                /\ applied' = [applied EXCEPT ![r.call] = @ + 1] /\ UNCHANGED << op, lock >>
  BY <1>2 DEF Serve
<1>3. ASSUME NEW r \in travelling, NEW code \in Codes, Reject(r, code)
      PROVE  UNCHANGED << op, lock, item, applied >>
  BY <1>3 DEF Reject
<1>4. CASE UNCHANGED vars
  BY <1>4 DEF vars, calls
<1>5. QED
  BY <1>1, <1>2, <1>3, <1>4 DEF Next, CallStep

\* An update is carried out only at the version it names.
LEMMA UpdateAtItsVersion ==
  ASSUME ClientInv, NEW r \in travelling, Verdict(r) = OK, op[r.call] = "update"
  PROVE  lock[r.call] = item.version /\ Effect(r).version = item.version + 1
<1>1. r.lock = item.version
  BY DEF Verdict, OK, NotFound, Conflict
<1>2. r.lock = lock[r.call]
  BY DEF ClientInv, RequestsKnown
<1>3. QED
  BY <1>1, <1>2, EffectCases DEF ClientInv

LEMMA LocksStep == ClientInv /\ [Next]_vars => LocksSpent' /\ NoLostUpdate'
<1> SUFFICES ASSUME ClientInv, [Next]_vars PROVE LocksSpent' /\ NoLostUpdate'
  OBVIOUS
<1>1. TypeOK /\ RequestsKnown /\ EffectsKnown /\ LocksSpent /\ NoLostUpdate
  BY DEF ClientInv
<1>2. applied \in [Call -> Nat] /\ lock \in [Call -> Nat] /\ op \in [Call -> Ops]
  BY <1>1 DEF TypeOK
<1>3. CASE UNCHANGED << op, lock, item, applied >>
  BY <1>1, <1>3 DEF LocksSpent, NoLostUpdate
<1>4. ASSUME NEW c \in Call, NEW kind \in Ops, NEW version \in 0..item.version,
             Begin(c, kind, version)
      PROVE  LocksSpent' /\ NoLostUpdate'
  <2>1. /\ op' = [op EXCEPT ![c] = kind] /\ lock' = [lock EXCEPT ![c] = version]
        /\ applied' = applied /\ item' = item /\ applied[c] = 0
    BY <1>1, <1>4 DEF Begin, EffectsKnown
  <2>2. \A d \in Call : d # c => op'[d] = op[d] /\ lock'[d] = lock[d]
    BY <1>2, <2>1
  <2>3. LocksSpent'
    BY <1>1, <2>1, <2>2 DEF LocksSpent
  <2>4. ASSUME NEW a \in Call, NEW b \in Call,
               op'[a] = "update", op'[b] = "update", lock'[a] = lock'[b]
        PROVE  IF a = b THEN applied[a] <= 1 ELSE applied[a] + applied[b] <= 1
    <3>1. a # c => applied[a] <= 1
      BY <1>1, <2>2, <2>4 DEF NoLostUpdate
    <3>2. b # c => applied[b] <= 1
      BY <1>1, <2>2, <2>4 DEF NoLostUpdate
    <3>3. CASE a = c \/ b = c
      BY <1>2, <2>1, <3>1, <3>2, <3>3
    <3>4. CASE a # c /\ b # c
      BY <1>1, <2>2, <2>4, <3>4 DEF NoLostUpdate
    <3>5. QED
      BY <3>3, <3>4
  <2>5. QED
    BY <2>1, <2>3, <2>4 DEF NoLostUpdate
<1>5. ASSUME NEW r \in travelling, Verdict(r) = OK, item' = Effect(r),
             applied' = [applied EXCEPT ![r.call] = @ + 1], UNCHANGED << op, lock >>
      PROVE  LocksSpent' /\ NoLostUpdate'
  <2>1. r.call \in Call /\ \A d \in Call : d # r.call => applied'[d] = applied[d]
    BY <1>1, <1>2, <1>5, ServeType
  <2>2. item.version \in Nat /\ item'.version \in Nat /\ item'.version >= item.version
    BY <1>1, <1>5, EffectCases DEF TypeOK
  <2>3. CASE op[r.call] = "update"
    <3>1. lock[r.call] = item.version /\ item'.version = item.version + 1
      BY <1>5, <2>3, UpdateAtItsVersion
    <3>2. ASSUME NEW d \in Call, op[d] = "update", lock[d] = item.version
          PROVE  applied[d] = 0
      BY <1>1, <1>2, <2>2, <3>2 DEF LocksSpent
    <3>3. LocksSpent'
      BY <1>1, <1>2, <1>5, <2>1, <2>2, <3>1 DEF LocksSpent
    <3>4. applied'[r.call] = 1
      BY <1>2, <1>5, <2>1, <2>3, <3>1, <3>2
    <3>5. NoLostUpdate'
      BY <1>1, <1>2, <1>5, <2>1, <3>1, <3>2, <3>4 DEF NoLostUpdate
    <3>6. QED
      BY <3>3, <3>5
  <2>4. CASE op[r.call] # "update"
    BY <1>1, <1>2, <1>5, <2>1, <2>2, <2>4 DEF LocksSpent, NoLostUpdate
  <2>5. QED
    BY <2>3, <2>4
<1>6. QED
  BY <1>3, <1>4, <1>5, StepKinds

\* What is observed changes only with the end of the call it belongs to.
LEMMA ObservedStep == ClientInv /\ [Next]_vars => ObservedOnce'
<1> SUFFICES ASSUME ClientInv, [Next]_vars PROVE ObservedOnce'
  OBVIOUS
<1>1. TypeOK /\ EffectsKnown /\ ObservedOnce
  BY DEF ClientInv
<1>2. ASSUME NEW c \in Call, phase[c] \in {"waiting", "sleeping"}
      PROVE  result[c] \notin Done /\ observed[c].success = 0 /\ observed[c].error = 0
  BY <1>1, <1>2 DEF EffectsKnown, ObservedOnce
<1>3. ASSUME NEW c \in Call, NEW what \in Results, NEW outcome \in {"success", "error"},
             phase[c] = "waiting", phase' = [phase EXCEPT ![c] = "returned"],
             result' = [result EXCEPT ![c] = what], what \in Done <=> outcome = "success",
             observed' = [observed EXCEPT ![c][outcome] = @ + 1]
      PROVE  ObservedOnce'
  <2>1. /\ observed'[c].success = IF outcome = "success" THEN 1 ELSE 0
        /\ observed'[c].error = IF outcome = "error" THEN 1 ELSE 0
    <3>1. observed[c] \in [success : Nat, error : Nat]
      BY <1>1 DEF TypeOK
    <3>2. observed'[c] = [observed[c] EXCEPT ![outcome] = observed[c][outcome] + 1]
      BY <1>1, <1>3 DEF TypeOK
    <3>3. QED
      BY <1>2, <1>3, <3>1, <3>2
  <2>2. \A d \in Call : d # c => /\ observed'[d] = observed[d] /\ result'[d] = result[d]
                                /\ phase'[d] = phase[d]
    BY <1>1, <1>3 DEF TypeOK
  <2>3. result'[c] = what /\ phase'[c] = "returned"
    BY <1>1, <1>3 DEF TypeOK
  <2>4. QED
    BY <1>1, <1>3, <2>1, <2>2, <2>3 DEF ObservedOnce
<1>4. ASSUME NEW c \in Call, phase[c] \in {"waiting", "sleeping", "idle"}, observed' = observed,
             \/ phase' = [phase EXCEPT ![c] = "sleeping"] /\ result' = result
             \/ phase' = [phase EXCEPT ![c] = "waiting"] /\ result' = result
             \/ phase' = [phase EXCEPT ![c] = "cancelled"] /\ result' = result
             \/ /\ phase' = [phase EXCEPT ![c] = "returned"] /\ phase[c] = "waiting"
                /\ result' = [result EXCEPT ![c] = "failed"]
      PROVE  ObservedOnce'
  <2>1. observed[c].error = 0 /\ observed[c].success = 0
    BY <1>1, <1>4 DEF ObservedOnce
  <2>2. \A d \in Call : result'[d] \in Done <=> result[d] \in Done
    BY <1>1, <1>2, <1>4 DEF TypeOK, Done
  <2>3. QED
    BY <1>1, <1>4, <2>1, <2>2 DEF ObservedOnce, TypeOK
<1>5. ASSUME NEW c \in Call, phase[c] = "waiting", Again(c)
      PROVE  ObservedOnce'
  <2>1. CASE phase' = [phase EXCEPT ![c] = "sleeping"] /\ UNCHANGED << result, observed >>
    BY <1>4, <1>5, <2>1
  <2>2. CASE /\ phase' = [phase EXCEPT ![c] = "returned"]
             /\ result' = [result EXCEPT ![c] = "failed"]
             /\ observed' = [observed EXCEPT ![c]["error"] = @ + 1]
    BY <1>3, <1>5, <2>2 DEF Results, Done
  <2>3. QED
    BY <1>5, <2>1, <2>2, AgainCases
<1>6. ASSUME NEW c \in Call, Receive(c), ~Again(c)
      PROVE  ObservedOnce'
  <2> DEFINE outcome == IF reply[c] = OK THEN "success" ELSE "error"
  <2>1. /\ phase[c] = "waiting" /\ phase' = [phase EXCEPT ![c] = "returned"]
        /\ \E what \in ResultsOf(c, reply[c]) : result' = [result EXCEPT ![c] = what]
        /\ observed' = [observed EXCEPT ![c][outcome] = @ + 1]
    BY <1>6 DEF Receive, Return, Observe
  <2>2. \A what \in ResultsOf(c, reply[c]) :
           what \in Results /\ (what \in Done <=> outcome = "success")
    BY DEF ResultsOf, Results, Done
  <2>3. outcome \in {"success", "error"}
    OBVIOUS
  <2> HIDE DEF outcome
  <2>4. QED
    BY <1>3, <2>1, <2>2, <2>3
<1>7. ASSUME NEW c \in Call, Receive(c) \/ Timeout(c) \/ ConnectError(c)
      PROVE  ObservedOnce'
  BY <1>5, <1>6, <1>7 DEF Receive, Timeout, ConnectError
<1>8. ASSUME NEW c \in Call, NEW kind \in Ops, NEW version \in 0..item.version,
             Begin(c, kind, version)
      PROVE  ObservedOnce'
  BY <1>4, <1>8 DEF Begin
<1>9. ASSUME NEW c \in Call, Wake(c) \/ Escape(c) \/ Cancel(c)
      PROVE  ObservedOnce'
  BY <1>4, <1>9 DEF Wake, Escape, Cancel, Return
<1>10. ASSUME NEW r \in travelling, NEW code \in Codes, Serve(r, code) \/ Reject(r, code)
       PROVE  ObservedOnce'
  BY <1>1, <1>10 DEF Serve, Reject, ObservedOnce
<1>11. CASE UNCHANGED vars
  BY <1>1, <1>11 DEF vars, calls, ObservedOnce
<1>12. QED
  BY <1>7, <1>8, <1>9, <1>10, <1>11 DEF Next, CallStep

LEMMA LooseStep == ClientInv /\ [Next]_vars => NothingLoose'
<1> SUFFICES ASSUME ClientInv, [Next]_vars PROVE NothingLoose'
  OBVIOUS
<1>1. TypeOK /\ RequestsKnown /\ EffectsKnown /\ NothingLoose
  BY DEF ClientInv
<1> DEFINE Tight(d) ==
      /\ \A r \in travelling : r.call = d => phase[d] = "waiting" /\ r.attempt = attempt[d]
      /\ applied[d] = IF result[d] \in Done \/ reply[d] = OK THEN 1 ELSE 0
    Same(d) == /\ phase'[d] = phase[d] /\ attempt'[d] = attempt[d] /\ applied'[d] = applied[d]
               /\ result'[d] = result[d] /\ reply'[d] = reply[d]
               /\ \A r \in travelling' : r.call = d => r \in travelling
<1>2. ASSUME NEW d \in Call, d \notin silent', phase'[d] # "cancelled",
             silent \subseteq silent', Same(d)
      PROVE  Tight(d)'
  BY <1>1, <1>2 DEF NothingLoose
<1>3. ASSUME NEW c \in Call, silent \subseteq silent', \A d \in Call : d # c => Same(d),
             c \notin silent' /\ phase'[c] # "cancelled" => Tight(c)'
      PROVE  NothingLoose'
  BY <1>2, <1>3 DEF NothingLoose
<1> HIDE DEF Same
<1>4. ASSUME NEW c \in Call, NEW kind \in Ops, NEW version \in 0..item.version,
             Begin(c, kind, version)
      PROVE  NothingLoose'
  <2>1. \A d \in Call : d # c => Same(d)
    BY <1>1, <1>4 DEF Begin, TypeOK, Same
  <2>2. \A r \in travelling : r.call # c
    BY <1>1, <1>4 DEF Begin, RequestsKnown
  <2>3. /\ applied'[c] = 0 /\ attempt'[c] = 0 /\ result'[c] \notin Done /\ reply'[c] # OK
        /\ phase'[c] = "waiting"
    BY <1>1, <1>4 DEF Begin, EffectsKnown, TypeOK, NoReply, OK, Done
  <2>4. QED
    BY <1>3, <1>4, <2>1, <2>2, <2>3 DEF Begin
<1>5. ASSUME NEW c \in Call, Wake(c)
      PROVE  NothingLoose'
  <2>1. \A d \in Call : d # c => Same(d)
    BY <1>1, <1>5 DEF Wake, TypeOK, Same, RequestOf
  <2>2. phase'[c] = "waiting" /\ phase[c] = "sleeping"
    BY <1>1, <1>5 DEF Wake, TypeOK
  <2>3. c \notin silent => Tight(c)'
    BY <1>1, <1>5, <2>2 DEF Wake, NothingLoose, RequestOf
  <2>4. QED
    BY <1>3, <1>5, <2>1, <2>3 DEF Wake
\* The current attempt is over, and the call was told how.
<1>6. ASSUME NEW c \in Call, phase[c] = "waiting", applied' = applied, travelling' \subseteq travelling,
             silent \subseteq silent', \A d \in Call : d # c => Same(d),
             c \notin silent' => \A r \in travelling' : r.call = c => r.attempt # attempt[c],
             c \notin silent' => (result'[c] \in Done <=> reply[c] = OK),
             reply'[c] = NoReply
      PROVE  NothingLoose'
  <2>1. result[c] \notin Done /\ reply'[c] # OK
    BY <1>1, <1>6 DEF EffectsKnown, NoReply, OK, Done
  <2>2. c \notin silent' => Tight(c)'
    BY <1>1, <1>6, <2>1 DEF NothingLoose
  <2>3. QED
    BY <1>3, <1>6, <2>2
<1>7. ASSUME NEW c \in Call, Receive(c) \/ Timeout(c) \/ ConnectError(c) \/ Escape(c)
      PROVE  NothingLoose'
  <2>1. /\ phase[c] = "waiting" /\ applied' = applied /\ travelling' \subseteq travelling
        /\ silent \subseteq silent'
    BY <1>7 DEF Receive, Timeout, ConnectError, Escape
  <2>2. \A d \in Call : d # c => Same(d)
    <3>1. \A d \in Call : d # c => reply'[d] = reply[d]
      BY <1>1, <1>7 DEF Receive, Timeout, ConnectError, Escape, TypeOK
    <3>2. \A d \in Call : d # c => phase'[d] = phase[d] /\ result'[d] = result[d]
                                 /\ attempt'[d] = attempt[d]
      BY <1>1, <1>7 DEF Receive, Timeout, ConnectError, Escape, Again, Return, TypeOK
    <3>3. QED
      BY <2>1, <3>1, <3>2 DEF Same
  <2>3. reply'[c] = NoReply
    BY <1>1, <1>7 DEF Receive, Timeout, ConnectError, Escape, TypeOK, RequestsKnown, RequestOf
  <2>4. c \notin silent' => \A r \in travelling' : r.call = c => r.attempt # attempt[c]
    <3>1. CASE ConnectError(c)
      <4>1. RequestOf(c) \in travelling /\ travelling' = travelling \ {RequestOf(c)}
        BY <3>1 DEF ConnectError
      <4>2. RequestOf(c).call = c /\ RequestOf(c).attempt = attempt[c]
        BY DEF RequestOf
      <4>3. QED
        BY <1>1, <4>1, <4>2, RequestUnique
    <3>2. CASE Timeout(c) \/ (Escape(c) /\ reply[c] = NoReply)
      BY <3>2 DEF Timeout, Escape, NoReply, Throttled
    <3>3. CASE Receive(c) \/ (Escape(c) /\ reply[c] # NoReply)
      BY <1>1, <2>1, <3>3 DEF Receive, Escape, RequestsKnown
    <3>4. QED
      BY <1>7, <3>1, <3>2, <3>3
  <2>5. c \notin silent' => (result'[c] \in Done <=> reply[c] = OK)
    <3>1. Again(c) => result'[c] \notin Done
      BY <1>1, <2>1, AgainCases DEF EffectsKnown, TypeOK, Done
    <3>2. CASE Timeout(c) \/ ConnectError(c)
      BY <1>1, <3>1, <3>2 DEF Timeout, ConnectError, RequestsKnown, RequestOf, NoReply, OK
    <3>3. CASE Receive(c)
      <4>1. CASE reply[c] \in {Throttled, ServerError}
        BY <3>1, <3>3, <4>1 DEF Receive, Throttled, ServerError, OK
      <4>2. CASE reply[c] \notin {Throttled, ServerError}
        <5>1. PICK what \in ResultsOf(c, reply[c]) : Return(c, what)
          BY <3>3, <4>2 DEF Receive
        <5>2. result'[c] = what /\ (what \in Done <=> reply[c] = OK)
          BY <1>1, <5>1 DEF Return, ResultsOf, TypeOK, Done
        <5>3. QED
          BY <5>2
      <4>3. QED
        BY <4>1, <4>2
    <3>4. CASE Escape(c)
      BY <1>1, <3>4 DEF Escape, Return, TypeOK, NoReply, Throttled, OK, Done
    <3>5. QED
      BY <1>7, <3>2, <3>3, <3>4
  <2>6. QED
    BY <1>6, <2>1, <2>2, <2>3, <2>4, <2>5
<1>8. ASSUME NEW c \in Call, Cancel(c)
      PROVE  NothingLoose'
  <2>1. \A d \in Call : d # c => Same(d)
    BY <1>1, <1>8 DEF Cancel, TypeOK, Same
  <2>2. phase'[c] = "cancelled"
    BY <1>1, <1>8 DEF Cancel, TypeOK
  <2>3. QED
    BY <1>3, <1>8, <2>1, <2>2 DEF Cancel
<1>9. ASSUME NEW r \in travelling, NEW code \in Codes, Serve(r, code) \/ Reject(r, code)
      PROVE  NothingLoose'
  <2> DEFINE c == r.call
  <2>1. c \in Call /\ c = r.call
    BY <1>1, ServeType
  <2> HIDE DEF c
  <2>2. \A d \in Call : d # c => Same(d)
    BY <1>1, <1>9, <2>1 DEF Serve, Reject, Answer, TypeOK, Same
  <2>3. silent \subseteq silent' /\ travelling' = travelling \ {r}
        /\ UNCHANGED << phase, attempt, result >>
    BY <1>9 DEF Serve, Reject
  <2>4. ASSUME c \notin silent', phase'[c] # "cancelled"
        PROVE  Tight(c)'
    <3>1. /\ phase[c] = "waiting" /\ r.attempt = attempt[c] /\ reply[c] = NoReply
          /\ result[c] \notin Done /\ applied[c] = 0
      BY <1>1, <2>1, <2>3, <2>4 DEF NothingLoose, RequestsKnown, EffectsKnown, NoReply, OK, Done
    <3>2. reply'[c] = code
      BY <1>1, <1>9, <2>1, <3>1 DEF Serve, Reject, Answer, TypeOK
    <3>3. applied'[c] = IF code = OK THEN 1 ELSE 0
      <4>1. CASE Reject(r, code)
        BY <3>1, <4>1 DEF Reject, Refused, Throttled, ServerError, OK
      <4>2. CASE Serve(r, code)
        <5>1. code = Verdict(r)
          BY <2>1, <2>4, <4>2 DEF Serve
        <5>2. QED
          BY <1>1, <2>1, <3>1, <4>2, <5>1 DEF Serve, TypeOK
      <4>3. QED
        BY <1>9, <4>1, <4>2
    <3>4. \A s \in travelling' : s.call = c => phase'[c] = "waiting" /\ s.attempt = attempt'[c]
      BY <1>1, <2>1, <2>3, <2>4, <3>1 DEF NothingLoose
    <3>5. QED
      BY <2>3, <3>1, <3>2, <3>3, <3>4
  <2>5. QED
    BY <1>3, <2>1, <2>2, <2>3, <2>4
<1>10. CASE UNCHANGED vars
  BY <1>1, <1>10 DEF vars, calls, NothingLoose
<1>11. QED
  BY <1>4, <1>5, <1>7, <1>8, <1>9, <1>10 DEF Next, CallStep

-----------------------------------------------------------------------------
(* The theorems. *)

LEMMA ClientInit == Init => ClientInv
<1> SUFFICES ASSUME Init PROVE ClientInv
  OBVIOUS
<1>1. TypeOK
  BY RetriesAssumption DEF Init, TypeOK, Phases, Ops, Results
<1>2. RequestsKnown /\ EffectsKnown
  BY DEF Init, RequestsKnown, EffectsKnown, NoReply, OK, Done
<1>3. LocksSpent /\ NoLostUpdate /\ ObservedOnce /\ NothingLoose
  BY DEF Init, LocksSpent, NoLostUpdate, ObservedOnce, NothingLoose, NoReply, OK, Done
<1>4. QED
  BY <1>1, <1>2, <1>3 DEF ClientInv

LEMMA ClientInvariant == Spec => []ClientInv
<1>1. ClientInv /\ [Next]_vars => ClientInv'
  BY TypesStep, RequestsStep, EffectsStep, LocksStep, ObservedStep, LooseStep DEF ClientInv
<1>2. QED
  BY ClientInit, <1>1, PTL DEF Spec

(* For every number of concurrent calls and of retries, every variable of  *)
(* the client, of the network and of the work package keeps its type.      *)
THEOREM TypeCorrect == Spec => []TypeOK
<1>1. ClientInv => TypeOK
  BY DEF ClientInv
<1>2. QED
  BY ClientInvariant, <1>1, PTL

(* However often an update is sent again and however late its attempts     *)
(* arrive, the lockVersion the retry loop sends unchanged lets one of the  *)
(* calls that read a version take effect once, and no more.                *)
THEOREM UpdatesAreNotLost == Spec => []NoLostUpdate
<1>1. ClientInv => NoLostUpdate
  BY DEF ClientInv
<1>2. QED
  BY ClientInvariant, <1>1, PTL

(* A wrapper returns a result only for a call OpenProject carried out,     *)
(* whichever of its attempts did it.                                       *)
THEOREM SuccessMeansDone == Spec => []SuccessIsReal
<1>1. ClientInv => SuccessIsReal
  BY DEF ClientInv, EffectsKnown, SuccessIsReal, TypeOK, Done
<1>2. QED
  BY ClientInvariant, <1>1, PTL

(* Unless an attempt timed out, broke off or ended in a gateway's error,   *)
(* what a call returned says exactly what became of it, after any number   *)
(* of throttled and rejected attempts: a call was carried out once if it   *)
(* returned a result or raised because the body of a success was no JSON,  *)
(* and not at all if it raised anything else.                              *)
THEOREM ClearAnswersStayExact == Spec => []ClearAnswersAreExact
<1>1. ClientInv => ClearAnswersAreExact
  BY DEF ClientInv, NothingLoose, EffectsKnown, ClearAnswersAreExact, NoReply, OK, Done
<1>2. QED
  BY ClientInvariant, <1>1, PTL

(* However many attempts _make_request_with_retry took, the histogram has  *)
(* one observation of a call at most: a success for every call that        *)
(* returned a result, and for none that OpenProject did not carry out; an  *)
(* error for none that it did carry out, unless an attempt was silent.     *)
THEOREM MetricsStayTrue == Spec => []MetricsAgree
<1>1. ASSUME ClientInv, NEW c \in Call
      PROVE  /\ observed[c].success + observed[c].error <= IF phase[c] = "returned" THEN 1 ELSE 0
             /\ result[c] = "ok" => observed[c].success = 1
             /\ observed[c].success = 1 => applied[c] >= 1
             /\ observed[c].error = 1 /\ c \notin silent => applied[c] = 0
  <2>1. /\ observed[c].success \in Nat /\ observed[c].error \in Nat /\ applied[c] \in Nat
        /\ phase[c] # "cancelled" \/ observed[c].error = 0
    BY <1>1 DEF ClientInv, TypeOK, ObservedOnce
  <2>2. /\ observed[c].success + observed[c].error <= 1
        /\ phase[c] # "returned" => observed[c].success = 0 /\ observed[c].error = 0
        /\ observed[c].success = 1 <=> result[c] \in Done
    BY <1>1 DEF ClientInv, ObservedOnce
  <2>3. /\ result[c] \in Done => applied[c] > 0
        /\ phase[c] # "waiting" => reply[c] = NoReply
    BY <1>1 DEF ClientInv, EffectsKnown
  <2>4. CASE observed[c].error = 1
    <3>1. phase[c] = "returned" /\ result[c] \notin Done /\ reply[c] # OK
      BY <2>1, <2>2, <2>3, <2>4 DEF NoReply, OK
    <3>2. c \notin silent => applied[c] = 0
      BY <1>1, <3>1 DEF ClientInv, NothingLoose
    <3>3. QED
      BY <2>1, <2>2, <2>3, <3>1, <3>2 DEF Done
  <2>5. CASE observed[c].error # 1
    BY <2>1, <2>2, <2>3, <2>5 DEF Done
  <2>6. QED
    BY <2>4, <2>5
<1>2. ClientInv => MetricsAgree
  BY <1>1 DEF MetricsAgree
<1>3. QED
  BY ClientInvariant, <1>2, PTL

-----------------------------------------------------------------------------
(* The client implements RemoteCall: an attempt is carried out once, so a  *)
(* call is carried out at most once for each attempt that was sent and     *)
(* travels no more.                                                        *)

Settled(c) ==
  {a \in 0..MaxRetries :
     /\ phase[c] # "idle" /\ a <= attempt[c]
     /\ phase[c] = "sleeping" => a < attempt[c]
     /\ \A r \in travelling : r.call = c => r.attempt # a}

SendsCounted == \A c \in Call : applied[c] <= Cardinality(Settled(c))

LEMMA SettledFinite ==
  ASSUME NEW c
  PROVE  /\ IsFiniteSet(Settled(c)) /\ Cardinality(Settled(c)) \in Nat
         /\ IsFiniteSet(Settled(c))' /\ Cardinality(Settled(c))' \in Nat
<1>1. IsFiniteSet(0..MaxRetries)
  BY RetriesAssumption, FS_Interval
<1>2. Settled(c) \in SUBSET (0..MaxRetries) /\ Settled(c)' \in SUBSET (0..MaxRetries)
  BY DEF Settled
<1>3. IsFiniteSet(Settled(c)) /\ IsFiniteSet(Settled(c)')
  BY <1>1, <1>2, FS_Subset
<1>4. QED
  BY <1>3, FS_CardinalityType

\* An attempt that was settled stays so.
LEMMA SettledGrows ==
  ASSUME ClientInv, [Next]_vars, NEW d \in Call
  PROVE  Settled(d) \subseteq Settled(d)'
<1>1. TypeOK /\ RequestsKnown /\ EffectsKnown
  BY DEF ClientInv
<1>2. ASSUME NEW c \in Call, NEW kind \in Ops, NEW version \in 0..item.version,
             Begin(c, kind, version)
      PROVE  Settled(d) \subseteq Settled(d)'
  BY <1>1, <1>2 DEF Begin, Settled, TypeOK
<1>3. ASSUME NEW c \in Call, Wake(c)
      PROVE  Settled(d) \subseteq Settled(d)'
  <2>1. RequestOf(c).call = c /\ RequestOf(c).attempt = attempt[c] /\ attempt[c] \in Nat
    BY <1>1 DEF RequestOf, TypeOK
  <2>2. QED
    BY <1>1, <1>3, <2>1 DEF Wake, Settled, TypeOK
<1>4. ASSUME NEW c \in Call, Again(c), phase[c] = "waiting", travelling' \subseteq travelling
      PROVE  Settled(d) \subseteq Settled(d)'
  <2>1. attempt[c] \in Nat
    BY <1>1 DEF TypeOK
  <2>2. \/ attempt' = [attempt EXCEPT ![c] = @ + 1] /\ phase' = [phase EXCEPT ![c] = "sleeping"]
        \/ attempt' = attempt /\ phase' = [phase EXCEPT ![c] = "returned"]
    BY <1>4, AgainCases
  <2>3. QED
    BY <1>1, <1>4, <2>1, <2>2 DEF Settled, TypeOK
<1>5. ASSUME NEW c \in Call, travelling' \subseteq travelling, attempt' = attempt,
             \/ phase' = phase
             \/ phase' = [phase EXCEPT ![c] = "returned"]
             \/ phase' = [phase EXCEPT ![c] = "cancelled"]
      PROVE  Settled(d) \subseteq Settled(d)'
  BY <1>1, <1>5 DEF Settled, TypeOK
<1>6. ASSUME NEW c \in Call, \/ Receive(c) \/ Timeout(c) \/ ConnectError(c)
                             \/ Escape(c) \/ Cancel(c)
      PROVE  Settled(d) \subseteq Settled(d)'
  BY <1>4, <1>5, <1>6 DEF Receive, Timeout, ConnectError, Escape, Cancel, Return
<1>7. ASSUME NEW r \in travelling, NEW code \in Codes, Serve(r, code) \/ Reject(r, code)
      PROVE  Settled(d) \subseteq Settled(d)'
  BY <1>5, <1>7 DEF Serve, Reject
<1>8. CASE UNCHANGED vars
  BY <1>8 DEF vars, calls, Settled
<1>9. QED
  BY <1>2, <1>3, <1>6, <1>7, <1>8 DEF Next, CallStep

\* Dealing with a request settles its attempt, which was not settled before.
LEMMA ServeSettles ==
  ASSUME ClientInv, [Next]_vars, NEW r \in travelling, travelling' = travelling \ {r},
         UNCHANGED << phase, attempt >>
  PROVE  /\ Cardinality(Settled(r.call)) < MaxRetries + 1
         /\ Cardinality(Settled(r.call)) + 1 <= Cardinality(Settled(r.call))'
<1> DEFINE c == r.call
           a == r.attempt
<1>1. TypeOK /\ RequestsKnown /\ c \in Call /\ a \in 0..MaxRetries
  BY ServeType DEF ClientInv
<1>2. a \notin Settled(c)
  BY DEF Settled
<1>3. a \in Settled(c)'
  <2>1. \A s \in travelling' : s.call = c => s.attempt # a
    BY <1>1, RequestUnique
  <2>2. phase[c] # "idle" /\ a <= attempt[c] /\ (phase[c] = "sleeping" => a < attempt[c])
    BY <1>1 DEF RequestsKnown
  <2>3. QED
    BY <1>1, <2>1, <2>2 DEF Settled
<1>4. Settled(c) \union {a} \in SUBSET (Settled(c)') /\ Settled(c)' \in SUBSET (0..MaxRetries)
  BY <1>1, <1>3, SettledGrows DEF Settled
<1>5. Cardinality(Settled(c) \union {a}) = Cardinality(Settled(c)) + 1
  BY <1>2, SettledFinite, FS_AddElement
<1>6. Cardinality(Settled(c) \union {a}) <= Cardinality(Settled(c)')
  BY <1>4, SettledFinite, FS_Subset
<1>7. Cardinality(Settled(c)') <= MaxRetries + 1
  <2>1. IsFiniteSet(0..MaxRetries) /\ Cardinality(0..MaxRetries) = MaxRetries + 1
    BY RetriesAssumption, FS_Interval
  <2>2. QED
    BY <1>4, <2>1, FS_Subset
<1>8. QED
  BY <1>5, <1>6, <1>7, SettledFinite, RetriesAssumption

LEMMA SendsStep == ClientInv /\ SendsCounted /\ [Next]_vars => SendsCounted'
<1> SUFFICES ASSUME ClientInv, SendsCounted, [Next]_vars, NEW d \in Call
             PROVE  applied'[d] <= Cardinality(Settled(d))'
  BY DEF SendsCounted
<1>1. TypeOK /\ applied[d] \in Nat /\ applied[d] <= Cardinality(Settled(d))
  BY DEF ClientInv, TypeOK, SendsCounted
<1>2. Cardinality(Settled(d)) <= Cardinality(Settled(d))'
  <2>1. Settled(d) \in SUBSET (Settled(d)')
    BY SettledGrows
  <2>2. QED
    BY <2>1, SettledFinite, FS_Subset
<1>3. CASE applied' = applied
  BY <1>1, <1>2, <1>3, SettledFinite
<1>4. ASSUME NEW r \in travelling, NEW code \in Codes, Serve(r, code)
      PROVE  applied'[d] <= Cardinality(Settled(d))'
  <2>1. CASE d # r.call
    BY <1>1, <1>2, <1>4, <2>1, SettledFinite DEF Serve, TypeOK
  <2>2. CASE d = r.call
    <3>1. applied'[d] <= applied[d] + 1 /\ applied'[d] \in Nat
      BY <1>1, <1>4, <2>2 DEF Serve, TypeOK
    <3>2. Cardinality(Settled(d)) + 1 <= Cardinality(Settled(d))'
      BY <1>4, <2>2, ServeSettles DEF Serve
    <3>3. QED
      BY <1>1, <3>1, <3>2, SettledFinite
  <2>3. QED
    BY <2>1, <2>2
<1>5. QED
  <2>1. \/ applied' = applied
        \/ \E r \in travelling, code \in Codes : Serve(r, code)
    BY DEF Next, CallStep, vars, calls, Begin, Wake, Receive, Timeout, ConnectError, Escape,
           Cancel, Reject
  <2>2. QED
    BY <1>3, <1>4, <2>1

LEMMA SendsInvariant == Spec => [](ClientInv /\ SendsCounted)
<1>1. Init => SendsCounted
  BY SettledFinite DEF Init, SendsCounted
<1>2. QED
  BY ClientInvariant, <1>1, SendsStep, PTL DEF Spec

LEMMA StageCases ==
  ASSUME NEW c \in Call
  PROVE  /\ phase[c] \in {"waiting", "sleeping"} => RemoteStage(c) = "open"
         /\ phase[c] = "cancelled" => RemoteStage(c) = "left"
         /\ phase[c] = "returned" =>
              RemoteStage(c) = IF result[c] = "ok" THEN "succeeded" ELSE "failed"
         /\ phase[c] = "idle" => RemoteStage(c) = "idle"
BY DEF RemoteStage

LEMMA StageCasesNext ==
  ASSUME NEW c \in Call
  PROVE  /\ phase'[c] \in {"waiting", "sleeping"} => RemoteStage(c)' = "open"
         /\ phase'[c] = "cancelled" => RemoteStage(c)' = "left"
         /\ phase'[c] = "returned" =>
              RemoteStage(c)' = IF result'[c] = "ok" THEN "succeeded" ELSE "failed"
         /\ phase'[c] = "idle" => RemoteStage(c)' = "idle"
BY DEF RemoteStage

\* A step of the client at one call is a move of that call, or none.
LEMMA StageMoves ==
  ASSUME NEW c \in Call, NEW from, NEW to, RemoteStage(c) = from, RemoteStage(c)' = to,
         \A d \in Call : d # c => phase'[d] = phase[d] /\ result'[d] = result[d],
         applied' = applied
  PROVE  Remote!Move(c, from, to)
<1> DEFINE st == [d \in Call |-> RemoteStage(d)]
<1>1. \A d \in Call : d # c => RemoteStage(d)' = RemoteStage(d)
  BY DEF RemoteStage
<1>2. st' = [st EXCEPT ![c] = to]
  BY <1>1
<1>3. QED
  BY <1>2 DEF Remote!Move

LEMMA StageStays ==
  ASSUME \A d \in Call : RemoteStage(d)' = RemoteStage(d), applied' = applied
  PROVE  UNCHANGED Remote!remoteVars
BY DEF Remote!remoteVars

LEMMA RefinementStep ==
  ClientInv /\ SendsCounted /\ [Next]_vars => [Remote!RemoteNext]_(Remote!remoteVars)
<1> SUFFICES ASSUME ClientInv, SendsCounted, [Next]_vars
             PROVE  [Remote!RemoteNext]_(Remote!remoteVars)
  OBVIOUS
<1>1. TypeOK /\ RequestsKnown /\ EffectsKnown
  BY DEF ClientInv
<1>2. ASSUME NEW c \in Call, NEW kind \in Ops, NEW version \in 0..item.version,
             Begin(c, kind, version)
      PROVE  Remote!RemoteNext
  <2>1. RemoteStage(c) = "idle" /\ RemoteStage(c)' = "open"
    BY <1>1, <1>2, StageCases, StageCasesNext DEF Begin, TypeOK
  <2>2. Remote!Move(c, "idle", "open")
    BY <1>1, <1>2, <2>1, StageMoves DEF Begin, TypeOK
  <2>3. QED
    BY <2>2 DEF Remote!RemoteNext, Remote!Send
\* From a stage that is open to what the call becomes.
<1>3. ASSUME NEW c \in Call, phase[c] \in {"waiting", "sleeping"}, applied' = applied,
             \A d \in Call : d # c => phase'[d] = phase[d] /\ result'[d] = result[d],
             \/ phase'[c] \in {"waiting", "sleeping", "cancelled"}
             \/ phase'[c] = "returned" /\ (result'[c] = "ok" => applied[c] > 0)
      PROVE  [Remote!RemoteNext]_(Remote!remoteVars)
  <2>1. RemoteStage(c) = "open"
    BY <1>3, StageCases
  <2>2. CASE RemoteStage(c)' = "open"
    <3>1. \A d \in Call : RemoteStage(d)' = RemoteStage(d)
      BY <1>3, <2>1, <2>2 DEF RemoteStage
    <3>2. QED
      BY <1>3, <3>1, StageStays
  <2>3. CASE RemoteStage(c)' = "left"
    <3>1. Remote!Move(c, "open", "left")
      BY <1>3, <2>1, <2>3, StageMoves
    <3>2. QED
      BY <3>1 DEF Remote!RemoteNext, Remote!Leave
  <2>4. CASE RemoteStage(c)' = "failed"
    <3>1. Remote!Move(c, "open", "failed")
      BY <1>3, <2>1, <2>4, StageMoves
    <3>2. QED
      BY <3>1 DEF Remote!RemoteNext, Remote!Fail
  <2>5. CASE RemoteStage(c)' = "succeeded" /\ applied[c] > 0
    <3>1. Remote!Move(c, "open", "succeeded")
      BY <1>3, <2>1, <2>5, StageMoves
    <3>2. QED
      BY <2>5, <3>1 DEF Remote!RemoteNext, Remote!Succeed
  <2>6. QED
    BY <1>3, <2>2, <2>3, <2>4, <2>5, StageCasesNext
<1>4. ASSUME NEW c \in Call, Again(c), phase[c] = "waiting", applied' = applied
      PROVE  [Remote!RemoteNext]_(Remote!remoteVars)
  <2>1. \/ phase' = [phase EXCEPT ![c] = "sleeping"] /\ result' = result
        \/ phase' = [phase EXCEPT ![c] = "returned"] /\ result' = [result EXCEPT ![c] = "failed"]
    BY <1>4, AgainCases
  <2>2. QED
    BY <1>1, <1>3, <1>4, <2>1 DEF TypeOK
<1>5. ASSUME NEW c \in Call, Timeout(c) \/ ConnectError(c)
      PROVE  [Remote!RemoteNext]_(Remote!remoteVars)
  BY <1>4, <1>5 DEF Timeout, ConnectError
<1>6. ASSUME NEW c \in Call, Wake(c) \/ Cancel(c)
      PROVE  [Remote!RemoteNext]_(Remote!remoteVars)
  BY <1>1, <1>3, <1>6 DEF Wake, Cancel, TypeOK
<1>7. ASSUME NEW c \in Call, Escape(c)
      PROVE  [Remote!RemoteNext]_(Remote!remoteVars)
  BY <1>1, <1>3, <1>7 DEF Escape, Return, TypeOK
<1>8. ASSUME NEW c \in Call, Receive(c)
      PROVE  [Remote!RemoteNext]_(Remote!remoteVars)
  <2>1. CASE Again(c)
    BY <1>4, <1>8, <2>1 DEF Receive
  <2>2. ASSUME NEW what \in ResultsOf(c, reply[c]), Return(c, what)
        PROVE  [Remote!RemoteNext]_(Remote!remoteVars)
    <3>1. what = "ok" => applied[c] > 0
      BY <1>1, <1>8 DEF Receive, ResultsOf, EffectsKnown
    <3>2. phase'[c] = "returned" /\ result'[c] = what
      BY <1>1, <2>2 DEF Return, TypeOK
    <3>3. QED
      BY <1>1, <1>3, <1>8, <2>2, <3>1, <3>2 DEF Receive, Return, TypeOK
  <2>3. QED
    BY <1>8, <2>1, <2>2 DEF Receive
<1>9. ASSUME NEW r \in travelling, NEW code \in Codes, Serve(r, code)
      PROVE  [Remote!RemoteNext]_(Remote!remoteVars)
  <2>1. r.call \in Call /\ phase[r.call] # "idle" /\ \A d \in Call : RemoteStage(d)' = RemoteStage(d)
    BY <1>1, <1>9, ServeType DEF Serve, RequestsKnown, RemoteStage
  <2>2. CASE applied' = applied
    BY <2>1, <2>2, StageStays
  <2>3. CASE applied' = [applied EXCEPT ![r.call] = @ + 1]
    <3>1. RemoteStage(r.call) # "idle"
      BY <1>1, <2>1, StageCases DEF TypeOK, Phases
    <3>2. applied[r.call] < MaxRetries + 1
      <4>1. Cardinality(Settled(r.call)) < MaxRetries + 1
        BY <1>9, ServeSettles DEF Serve
      <4>2. applied[r.call] <= Cardinality(Settled(r.call)) /\ applied[r.call] \in Nat
        BY <1>1, <2>1 DEF SendsCounted, TypeOK
      <4>3. QED
        BY <4>1, <4>2, SettledFinite, RetriesAssumption
    <3>3. Remote!TakeEffect(r.call)
      BY <2>1, <2>3, <3>1, <3>2 DEF Remote!TakeEffect
    <3>4. QED
      BY <2>1, <3>3 DEF Remote!RemoteNext
  <2>4. QED
    BY <1>9, <2>2, <2>3 DEF Serve
<1>10. ASSUME NEW r \in travelling, NEW code \in Codes, Reject(r, code)
       PROVE  [Remote!RemoteNext]_(Remote!remoteVars)
  BY <1>10, StageStays DEF Reject, RemoteStage
<1>11. CASE UNCHANGED vars
  BY <1>11, StageStays DEF vars, calls, RemoteStage
<1>12. QED
  BY <1>2, <1>5, <1>6, <1>7, <1>8, <1>9, <1>10, <1>11 DEF Next, CallStep

(* The retry loop and its wrappers are the one call the tools take them    *)
(* for, and the one the model of the tools' server is built on.            *)
THEOREM ClientImplementsCall == Spec => ImplementsRemoteCall
<1>1. Init => Remote!RemoteInit
  <2>1. Init => \A c \in Call : phase[c] = "idle" /\ applied = [d \in Call |-> 0]
    BY DEF Init
  <2>2. QED
    BY <2>1, StageCases DEF Init, Remote!RemoteInit
<1>2. QED
  BY <1>1, SendsInvariant, RefinementStep, PTL DEF Spec, ImplementsRemoteCall, Remote!RemoteSpec
=============================================================================
