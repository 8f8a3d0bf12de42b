------------------------------ MODULE RemoteCall ------------------------------
(***************************************************************************)
(* What OpenProjectClient promises the tools, with no attempts, timeouts   *)
(* or status codes in it: a call that succeeds has been carried out, and   *)
(* one that fails or is given up may have been, may be later, and may be   *)
(* more than once, but not more often than it was sent.                    *)
(***************************************************************************)
EXTENDS Naturals

CONSTANTS
  Call,       \* tool calls
  MaxSends    \* how often the client sends a request

ASSUME SendsAssumption == MaxSends \in Nat

VARIABLES
  remote,     \* call: what the client is doing for it
  applied     \* call: how often OpenProject carried it out

remoteVars == << remote, applied >>

RemoteStages == {"idle", "open", "succeeded", "failed", "left"}

RemoteInit ==
  /\ remote = [c \in Call |-> "idle"]
  /\ applied = [c \in Call |-> 0]

\* The call goes from one stage to another.
Move(c, from, to) ==
  /\ remote[c] = from
  /\ remote' = [remote EXCEPT ![c] = to]
  /\ UNCHANGED applied

Send(c)    == Move(c, "idle", "open")
Succeed(c) == applied[c] > 0 /\ Move(c, "open", "succeeded")
Fail(c)    == Move(c, "open", "failed")

\* The caller is cancelled; what it sent is not.
Leave(c)   == Move(c, "open", "left")

TakeEffect(c) ==
  /\ remote[c] # "idle" /\ applied[c] < MaxSends
  /\ applied' = [applied EXCEPT ![c] = @ + 1]
  /\ UNCHANGED remote

RemoteNext ==
  \E c \in Call : Send(c) \/ Succeed(c) \/ Fail(c) \/ Leave(c) \/ TakeEffect(c)

RemoteSpec == RemoteInit /\ [][RemoteNext]_remoteVars
=============================================================================
