------------------------------ MODULE ToolServer ------------------------------
(***************************************************************************)
(* One server process as its MCP clients see it: it starts under one of    *)
(* two transports, handle_call_tool of server.py dispatches their tool     *)
(* calls to the handlers of tools/*.py, which wait for OpenProjectClient   *)
(* (RemoteCall), and it ends while calls may be under way.                 *)
(*                                                                         *)
(* A handler that need not wait answers in the step that begins the call:  *)
(* the events cache's lock is never held across an await.  The MCP library *)
(* and uvicorn are not in the repository; the server relies on them to     *)
(* cancel a call on its client's request, and not to return from           *)
(* server.run() while a call is under way, whether they let it finish or   *)
(* cancel it.                                                              *)
(***************************************************************************)
EXTENDS RemoteCall, Tools

CONSTANT Request   \* call: what its client may ask, tool names with arguments

VARIABLES
  stage,      \* process: where it is in its life
  transport,  \* process: MCP_TRANSPORT
  client,     \* process: the global api_client
  events,     \* process: its cache has events of the project
  request,    \* call: what was asked
  answer,     \* call: the text that was returned
  counted     \* call: its part in tool_calls_total, by outcome

process == << stage, transport, client, events >>
vars == << remoteVars, process, request, answer, counted >>

Outcomes == {"success", "error", "unknown"}
NoRequest == [tool |-> "none"]
Asked == UNION {Request[c] : c \in Call}

ASSUME RequestAssumption ==
  /\ NoRequest \notin Asked
  /\ \A q \in Asked : \A field \in DOMAIN q.args : q.args[field] \in ArgumentShape

Answers ==
  {"none", "unknown tool", "no client", "refused", "ok", "failed", "internal error",
   "events", "no events"}

Init ==
  /\ RemoteInit
  /\ stage = "down" /\ transport = "stdio" /\ client = "none" /\ events = FALSE
  /\ request = [c \in Call |-> NoRequest]
  /\ answer = [c \in Call |-> "none"]
  /\ counted = [c \in Call |-> [o \in Outcomes |-> 0]]

-----------------------------------------------------------------------------
(* handle_call_tool *)

\* Mutant of Count: once where the outcome is known, and again on the way out.
CountTwice(c, outcome) == counted' = [counted EXCEPT ![c][outcome] = @ + 2]

Count(c, outcome) == counted' = [counted EXCEPT ![c][outcome] = @ + 1]

(* Handlers return their errors as text, so only an exception none of them *)
(* catches is an error to the dispatcher.                                  *)
OutcomeOf(text) ==
  CASE text = "unknown tool" -> "unknown"
    [] text = "internal error" -> "error"
    [] OTHER -> "success"

Reply(c, text) ==
  /\ answer' = [answer EXCEPT ![c] = text]
  /\ Count(c, OutcomeOf(text))

\* The answer to a request that needs no answer from OpenProject, if it is one.
Immediate(q) ==
  {text \in Answers :
     \/ text = "unknown tool" /\ q.tool \notin DOMAIN Handlers
     \/ /\ q.tool = "get_recent_events"
        /\ \/ text = "internal error" /\ Raises(q)
           \/ text = "refused" /\ ~Raises(q) /\ ~Accepts(q)
           \/ Accepts(q) /\ text = (IF events THEN "events" ELSE "no events")
     \/ /\ q.tool \in DOMAIN Handlers \ {"get_recent_events"}
        /\ \/ text = "no client" /\ client = "none"
           \/ text = "refused" /\ client # "none" /\ ~Accepts(q)}

Begin(c, q) ==
  /\ stage = "serving" /\ request[c] = NoRequest
  /\ request' = [request EXCEPT ![c] = q]
  /\ \/ \E text \in Immediate(q) : Reply(c, text) /\ UNCHANGED remoteVars
     \/ Immediate(q) = {} /\ Send(c) /\ UNCHANGED << answer, counted >>
  /\ UNCHANGED process

\* Mutant of Finish: a failure counts as done if it was carried out or not.
FinishAnyway(c) ==
  /\ \/ Succeed(c) \/ Fail(c)
  /\ Reply(c, "ok")
  /\ UNCHANGED << process, request >>

\* Mutant of Finish: answers are not waited for once the server closes.
FinishServing(c) ==
  /\ stage = "serving"
  /\ \/ Succeed(c) /\ \E text \in {"ok", "failed"} : Reply(c, text)
     \/ Fail(c) /\ Reply(c, "failed")
  /\ UNCHANGED << process, request >>

(* The method returns or raises, also when it cannot read the body of a    *)
(* success.  The handler may still fail on what the method returned, if it *)
(* is not the object the handler expects; a deletion returns no body.      *)
Finish(c) ==
  /\ \/ /\ Succeed(c)
        /\ \E text \in {"ok", "failed"} :
             /\ text = "failed" => MethodOf(request[c]).verb # "DELETE"
             /\ Reply(c, text)
     \/ Fail(c) /\ Reply(c, "failed")
  /\ UNCHANGED << process, request >>

\* Mutant of Cancel: the cancellation also passes the counter by.
CancelUncounted(c) ==
  /\ Leave(c)
  /\ UNCHANGED << process, request, answer, counted >>

(* The call is cancelled while it waits: neither the handler nor the       *)
(* dispatcher catches CancelledError, and `outcome` is still "success".    *)
Cancel(c) ==
  /\ Leave(c) /\ Count(c, "success")
  /\ UNCHANGED << process, request, answer >>

\* OpenProject carries out what was sent, whoever still waits for it.
Apply(c) == TakeEffect(c) /\ UNCHANGED << process, request, answer, counted >>

-----------------------------------------------------------------------------
(* The process. *)

(* _entrypoint: stdio goes through main(), which makes the client and      *)
(* probes OpenProject before it serves; http goes through build_app(),     *)
(* which does not.                                                         *)
Boot(t) ==
  /\ stage = "down"
  /\ transport' = t
  /\ \/ t = "stdio" /\ stage' = "probing" /\ client' = "open"
     \/ t = "stdio" /\ stage' = "exited" /\ client' = "none"   \* Config.from_env raises
     \/ t = "http" /\ stage' = "serving" /\ client' = "none"
  /\ UNCHANGED << events, remoteVars, request, answer, counted >>

\* The probe returns, or fails and is logged.
Probed ==
  /\ stage = "probing" /\ stage' = "serving"
  /\ UNCHANGED << transport, client, events, remoteVars, request, answer, counted >>

\* The replay consumer, which only the http transport starts, has put an event.
EventArrives ==
  /\ stage = "serving" /\ transport = "http" /\ events' = TRUE
  /\ UNCHANGED << stage, transport, client, remoteVars, request, answer, counted >>

\* The input ends or the process is interrupted: no more calls begin.
Interrupt ==
  /\ stage \in {"probing", "serving"} /\ stage' = "closing"
  /\ UNCHANGED << transport, client, events, remoteVars, request, answer, counted >>

InFlight == {c \in Call : remote[c] = "open"}

\* Mutant of Close: main() closes the client when the input ends.
CloseEarly ==
  /\ stage = "closing" /\ stage' = "exited"
  /\ client' = IF client = "open" THEN "closed" ELSE client
  /\ UNCHANGED << transport, events, remoteVars, request, answer, counted >>

\* server.run() has returned, and main()'s finally clause closes the client.
Close ==
  /\ stage = "closing" /\ InFlight = {}
  /\ stage' = "exited"
  /\ client' = IF client = "open" THEN "closed" ELSE client
  /\ UNCHANGED << transport, events, remoteVars, request, answer, counted >>

Next ==
  \/ \E c \in Call :
       (\E q \in Request[c] : Begin(c, q)) \/ Finish(c) \/ Cancel(c) \/ Apply(c)
  \/ \E t \in {"stdio", "http"} : Boot(t)
  \/ Probed \/ EventArrives \/ Interrupt \/ Close

Spec == Init /\ [][Next]_vars

(* ApiClient shows that every method returns in the end; the event loop    *)
(* runs what is ready.  Nobody need interrupt the process.                 *)
Fairness ==
  /\ WF_vars(Probed) /\ WF_vars(Close)
  /\ \A c \in Call : WF_vars(Finish(c))

FairSpec == Spec /\ Fairness

-----------------------------------------------------------------------------
TypeOK ==
  /\ remote \in [Call -> RemoteStages]
  /\ applied \in [Call -> 0..MaxSends]
  /\ stage \in {"down", "probing", "serving", "closing", "exited"}
  /\ transport \in {"stdio", "http"}
  /\ client \in {"none", "open", "closed"}
  /\ events \in BOOLEAN
  /\ request \in [Call -> Asked \union {NoRequest}]
  /\ answer \in [Call -> Answers]
  /\ counted \in [Call -> [Outcomes -> 0..1]]

Ended(c) == answer[c] # "none" \/ remote[c] = "left"

(* tool_calls_total counts each call exactly once, when it ends and        *)
(* however it ends: answered at once, by OpenProject, by an exception, or  *)
(* cancelled; and a call that goes on is not counted.                      *)
CountedOnce ==
  \A c \in Call :
     counted[c]["success"] + counted[c]["error"] + counted[c]["unknown"]
       = IF Ended(c) THEN 1 ELSE 0

(* The model may rely on what it is told: "ok" to a request that changes   *)
(* something means it was changed, and a refusal means it was not and      *)
(* never will be, whatever is still under way.                             *)
AnswersAreTrue ==
  \A c \in Call :
     /\ answer[c] = "ok" => applied[c] > 0
     /\ answer[c] \in {"unknown tool", "no client", "refused"} => applied[c] = 0

(* What a tool checks (tools/*.py) covers what is written into URLs and    *)
(* links (api_client.py and the tools again) and into filters: those are   *)
(* ids, an assignee only if there is one, and filters, left out where they *)
(* are empty, hold what a validator has been through.  No tool lets a      *)
(* missing id become the text "None" in a URL.                             *)
WrittenIsChecked ==
  \A c \in Call : remote[c] # "idle" =>
     LET q == request[c]
         written == Handlers[q.tool].links \union MethodOf(q).path
     IN  /\ \A f \in written :
              LET v == Argument(q, f) IN ValidId(v) \/ (f = "assignee_id" /\ Falsy(v))
         /\ \A f \in MethodOf(q).filter :
              LET v == Argument(q, f) IN ValidText(v, 200) \/ (f # "query" /\ Falsy(v))

(* No call is left waiting on a client that has been closed or that this   *)
(* process never had.                                                      *)
ClientOutlivesCalls == InFlight # {} => client = "open"

(* A process that is told to end does end, although calls are under way    *)
(* and OpenProject may never answer them.                                  *)
ShutdownEnds == stage = "closing" ~> stage = "exited"

(* README.md: "a tool call from the laptop hits Tailscale, terminates TLS  *)
(* at the Istio gateway, lands on the mcp-server pod, which either calls   *)
(* OpenProject's API directly or serves a cached webhook event".           *)
HostedToolsHaveClient == \A c \in Call : answer[c] # "no client"
=============================================================================
