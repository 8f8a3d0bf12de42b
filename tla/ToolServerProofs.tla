--------------------------- MODULE ToolServerProofs ---------------------------
(***************************************************************************)
(* Proofs about ToolServer, for every number of calls and every set of     *)
(* requests.                                                               *)
(***************************************************************************)
EXTENDS ToolServer, TLAPS

-----------------------------------------------------------------------------
(* The inductive invariant. *)

\* A call that has not begun has done nothing yet.
IdleCalls ==
  \A c \in Call :
     /\ request[c] = NoRequest => remote[c] = "idle" /\ answer[c] = "none"
     /\ remote[c] = "idle" => applied[c] = 0

\* A call waits for its answer exactly as long as its request is open.
OpenCalls ==
  \A c \in Call :
     /\ remote[c] \in {"open", "left"} => answer[c] = "none"
     /\ remote[c] = "idle" /\ request[c] # NoRequest => answer[c] # "none"
     /\ remote[c] \in {"succeeded", "failed"} => answer[c] \in {"ok", "failed"}

\* The client is closed last, and calls are only open before.
ClientsLife ==
  /\ client = "closed" => stage = "exited"
  /\ InFlight # {} => client = "open" /\ stage \in {"serving", "closing"}

CallsInv ==
  /\ TypeOK
  /\ IdleCalls
  /\ OpenCalls
  /\ ClientsLife
  /\ CountedOnce
  /\ AnswersAreTrue

-----------------------------------------------------------------------------
(* The outcome and the counters of a call. *)

LEMMA OutcomeType == \A text : OutcomeOf(text) \in Outcomes
BY DEF OutcomeOf, Outcomes

Sum(n) == n["success"] + n["error"] + n["unknown"]

(* Counting an outcome of a call that was not counted makes its sum one,   *)
(* and leaves the other calls' alone.                                      *)
LEMMA CountOnce ==
  ASSUME counted \in [Call -> [Outcomes -> 0..1]], NEW c \in Call, NEW o \in Outcomes,
         Count(c, o), Sum(counted[c]) = 0
  PROVE  /\ counted' \in [Call -> [Outcomes -> 0..1]]
         /\ Sum(counted'[c]) = 1
         /\ \A d \in Call : d # c => counted'[d] = counted[d]
<1>1. counted[c] \in [Outcomes -> 0..1]
  OBVIOUS
<1>2. counted[c]["success"] = 0 /\ counted[c]["error"] = 0 /\ counted[c]["unknown"] = 0
  BY <1>1 DEF Sum, Outcomes
<1>3. counted[c][o] = 0
  BY <1>2 DEF Outcomes
<1> DEFINE n == [counted[c] EXCEPT ![o] = 1]
<1>4. counted' = [counted EXCEPT ![c] = n]
  BY <1>3 DEF Count
<1>5. n \in [Outcomes -> 0..1] /\ Sum(n) = 1
  BY <1>1, <1>2 DEF Sum, Outcomes
<1> HIDE DEF n
<1>6. QED
  BY <1>4, <1>5

(* A call that has not ended gets its answer. *)
LEMMA ReplyCounts ==
  ASSUME TypeOK, CountedOnce, NEW c \in Call, ~Ended(c), NEW text \in Answers \ {"none"},
         Reply(c, text)
  PROVE  /\ counted' \in [Call -> [Outcomes -> 0..1]]
         /\ Sum(counted'[c]) = 1
         /\ \A d \in Call : d # c => counted'[d] = counted[d]
         /\ answer' = [answer EXCEPT ![c] = text]
         /\ answer' \in [Call -> Answers]
<1>1. Sum(counted[c]) = 0
  BY DEF CountedOnce, Sum
<1>2. Count(c, OutcomeOf(text)) /\ answer' = [answer EXCEPT ![c] = text]
  BY DEF Reply
<1>3. QED
  BY <1>1, <1>2, OutcomeType, CountOnce DEF TypeOK

\* The tools that call a method.
CallingTools == DOMAIN Handlers \ {"get_recent_events"}

(* The events tool always answers at once. *)
LEMMA EventsToolAnswers ==
  ASSUME NEW q, q.tool = "get_recent_events", q.tool \in DOMAIN Handlers
  PROVE  Immediate(q) # {}
<1>1. CASE Raises(q)
  <2>1. "internal error" \in Immediate(q)
    BY <1>1 DEF Immediate, Answers
  <2>2. QED
    BY <2>1
<1>2. CASE ~Raises(q) /\ ~Accepts(q)
  <2>1. "refused" \in Immediate(q)
    BY <1>2 DEF Immediate, Answers
  <2>2. QED
    BY <2>1
<1>3. CASE Accepts(q)
  <2>1. (IF events THEN "events" ELSE "no events") \in Immediate(q)
    BY <1>3 DEF Immediate, Answers
  <2>2. QED
    BY <2>1
<1>4. QED
  BY <1>1, <1>2, <1>3

(* A request without an immediate answer is for a tool that calls a method, *)
(* and has passed its checks.                                              *)
LEMMA ImmediateAnswers ==
  ASSUME NEW q
  PROVE  /\ Immediate(q) \subseteq
              {"unknown tool", "no client", "refused", "internal error", "events", "no events"}
         /\ Immediate(q) = {} =>
              client # "none" /\ q.tool \in CallingTools /\ Accepts(q)
<1>1. Immediate(q) \subseteq
        {"unknown tool", "no client", "refused", "internal error", "events", "no events"}
  BY DEF Immediate, Answers
<1>2. ASSUME Immediate(q) = {}
      PROVE  client # "none" /\ q.tool \in CallingTools /\ Accepts(q)
  <2>1. q.tool \in CallingTools
    BY <1>2, EventsToolAnswers DEF Immediate, Answers, CallingTools
  <2>2. client # "none"
    BY <1>2, <2>1 DEF Immediate, Answers, CallingTools
  <2>3. Accepts(q)
    BY <1>2, <2>1, <2>2 DEF Immediate, Answers, CallingTools
  <2>4. QED
    BY <2>1, <2>2, <2>3
<1>3. QED
  BY <1>1, <1>2

-----------------------------------------------------------------------------
(* The steps.  CallsInv is a conjunction over calls and the process: a step *)
(* of one call is shown not to disturb the others first.                    *)

\* The part of the invariant that is about one call.
CallInv(c) ==
  /\ request[c] = NoRequest => remote[c] = "idle" /\ answer[c] = "none"
  /\ remote[c] = "idle" => applied[c] = 0
  /\ remote[c] \in {"open", "left"} => answer[c] = "none"
  /\ remote[c] = "idle" /\ request[c] # NoRequest => answer[c] # "none"
  /\ remote[c] \in {"succeeded", "failed"} => answer[c] \in {"ok", "failed"}
  /\ Sum(counted[c]) = IF Ended(c) THEN 1 ELSE 0
  /\ answer[c] = "ok" => applied[c] > 0
  /\ answer[c] \in {"unknown tool", "no client", "refused"} => applied[c] = 0

LEMMA InvByCall == CallsInv <=> TypeOK /\ ClientsLife /\ \A c \in Call : CallInv(c)
BY DEF CallsInv, IdleCalls, OpenCalls, CountedOnce, AnswersAreTrue, CallInv, Sum

LEMMA InvByCallNext ==
  ASSUME TypeOK', ClientsLife', \A c \in Call : CallInv(c)'
  PROVE  CallsInv'
BY DEF CallsInv, IdleCalls, OpenCalls, CountedOnce, AnswersAreTrue, CallInv, Sum

LEMMA OthersStay ==
  ASSUME NEW d \in Call, CallInv(d),
         request'[d] = request[d], remote'[d] = remote[d], answer'[d] = answer[d],
         applied'[d] = applied[d], counted'[d] = counted[d]
  PROVE  CallInv(d)'
BY DEF CallInv, Ended

LEMMA BeginStep ==
  ASSUME CallsInv, NEW c \in Call, NEW q \in Request[c], Begin(c, q)
  PROVE  CallsInv'
<1>1. /\ TypeOK /\ ClientsLife /\ \A d \in Call : CallInv(d)
  BY InvByCall
<1>2. q \in Asked /\ q # NoRequest
  BY RequestAssumption DEF Asked
<1>3. /\ stage = "serving" /\ request[c] = NoRequest
      /\ request' = [request EXCEPT ![c] = q]
      /\ UNCHANGED process
  BY DEF Begin
<1>4. remote[c] = "idle" /\ answer[c] = "none" /\ applied[c] = 0 /\ ~Ended(c)
  BY <1>1, <1>3 DEF CallInv, Ended
<1>5. request' \in [Call -> Asked \union {NoRequest}] /\ request'[c] = q
  BY <1>1, <1>2, <1>3 DEF TypeOK
<1>6. CASE \E text \in Immediate(q) : Reply(c, text) /\ UNCHANGED remoteVars
  <2>1. PICK text \in Immediate(q) : Reply(c, text) /\ UNCHANGED << remote, applied >>
    BY <1>6 DEF remoteVars
  <2>2. text \in Answers \ {"none"}
        /\ text \in {"unknown tool", "no client", "refused", "internal error", "events", "no events"}
    BY ImmediateAnswers DEF Answers
  <2>3. CountedOnce
    BY DEF CallsInv
  <2>4. /\ counted' \in [Call -> [Outcomes -> 0..1]] /\ Sum(counted'[c]) = 1
        /\ \A d \in Call : d # c => counted'[d] = counted[d]
        /\ answer' = [answer EXCEPT ![c] = text] /\ answer' \in [Call -> Answers]
    BY <1>1, <1>4, <2>1, <2>2, <2>3, ReplyCounts
  <2>5. TypeOK' /\ ClientsLife'
    BY <1>1, <1>3, <1>5, <2>1, <2>4 DEF TypeOK, ClientsLife, InFlight, process
  <2>6. answer'[c] = text /\ remote'[c] = "idle" /\ applied'[c] = 0
    BY <1>1, <1>4, <2>1, <2>4 DEF TypeOK
  <2>7. CallInv(c)'
    BY <1>2, <1>5, <2>2, <2>4, <2>6 DEF CallInv, Ended
  <2>8. ASSUME NEW d \in Call, d # c PROVE CallInv(d)'
    BY <1>1, <1>3, <2>1, <2>4, <2>8, OthersStay DEF TypeOK
  <2>9. QED
    BY <2>5, <2>7, <2>8, InvByCallNext
<1>7. CASE Immediate(q) = {} /\ Send(c) /\ UNCHANGED << answer, counted >>
  <2>1. client # "none"
    BY <1>7, ImmediateAnswers
  <2>2. client = "open"
    BY <1>1, <1>3, <2>1 DEF TypeOK, ClientsLife
  <2>3. remote' = [remote EXCEPT ![c] = "open"] /\ applied' = applied
    BY <1>7 DEF Send, Move
  <2>4. TypeOK' /\ ClientsLife'
    BY <1>1, <1>3, <1>5, <1>7, <2>2, <2>3 DEF TypeOK, ClientsLife, process, RemoteStages
  <2>5. CallInv(c)'
    BY <1>1, <1>2, <1>4, <1>5, <1>7, <2>3 DEF CallInv, Ended, TypeOK
  <2>6. ASSUME NEW d \in Call, d # c PROVE CallInv(d)'
    BY <1>1, <1>3, <1>7, <2>3, <2>6, OthersStay DEF TypeOK
  <2>7. QED
    BY <2>4, <2>5, <2>6, InvByCallNext
<1>8. QED
  BY <1>6, <1>7 DEF Begin

LEMMA FinishStep ==
  ASSUME CallsInv, NEW c \in Call, Finish(c)
  PROVE  CallsInv'
<1>1. /\ TypeOK /\ ClientsLife /\ CountedOnce /\ \A d \in Call : CallInv(d)
  BY InvByCall DEF CallsInv
<1>2. PICK text \in {"ok", "failed"}, to \in {"succeeded", "failed"} :
        /\ Reply(c, text) /\ remote[c] = "open"
        /\ remote' = [remote EXCEPT ![c] = to] /\ UNCHANGED << applied, process, request >>
        /\ text = "ok" => applied[c] > 0
  BY DEF Finish, Succeed, Fail, Move
<1>3. answer[c] = "none" /\ ~Ended(c) /\ request[c] # NoRequest
  BY <1>1, <1>2 DEF CallInv, Ended
<1>4. /\ counted' \in [Call -> [Outcomes -> 0..1]] /\ Sum(counted'[c]) = 1
      /\ \A d \in Call : d # c => counted'[d] = counted[d]
      /\ answer' = [answer EXCEPT ![c] = text] /\ answer' \in [Call -> Answers]
  BY <1>1, <1>2, <1>3, ReplyCounts DEF Answers
<1>5. TypeOK' /\ ClientsLife'
  BY <1>1, <1>2, <1>4 DEF TypeOK, ClientsLife, InFlight, process, RemoteStages
<1>6. CallInv(c)'
  BY <1>1, <1>2, <1>3, <1>4 DEF CallInv, Ended, TypeOK
<1>7. ASSUME NEW d \in Call, d # c PROVE CallInv(d)'
  BY <1>1, <1>2, <1>4, <1>7, OthersStay DEF TypeOK
<1>8. QED
  BY <1>5, <1>6, <1>7, InvByCallNext

LEMMA CancelStep ==
  ASSUME CallsInv, NEW c \in Call, Cancel(c)
  PROVE  CallsInv'
<1>1. /\ TypeOK /\ ClientsLife /\ \A d \in Call : CallInv(d)
  BY InvByCall
<1>2. /\ remote[c] = "open" /\ remote' = [remote EXCEPT ![c] = "left"]
      /\ Count(c, "success") /\ UNCHANGED << applied, process, request, answer >>
  BY DEF Cancel, Leave, Move
<1>3. answer[c] = "none" /\ request[c] # NoRequest /\ Sum(counted[c]) = 0
  BY <1>1, <1>2 DEF CallInv, Ended
<1>4. /\ counted' \in [Call -> [Outcomes -> 0..1]] /\ Sum(counted'[c]) = 1
      /\ \A d \in Call : d # c => counted'[d] = counted[d]
  BY <1>1, <1>2, <1>3, CountOnce DEF TypeOK, Outcomes
<1>5. TypeOK' /\ ClientsLife'
  BY <1>1, <1>2, <1>4 DEF TypeOK, ClientsLife, InFlight, process, RemoteStages
<1>6. CallInv(c)'
  BY <1>1, <1>2, <1>3, <1>4 DEF CallInv, Ended, TypeOK
<1>7. ASSUME NEW d \in Call, d # c PROVE CallInv(d)'
  BY <1>1, <1>2, <1>4, <1>7, OthersStay DEF TypeOK
<1>8. QED
  BY <1>5, <1>6, <1>7, InvByCallNext

LEMMA ApplyStep ==
  ASSUME CallsInv, NEW c \in Call, Apply(c)
  PROVE  CallsInv'
<1>1. /\ TypeOK /\ ClientsLife /\ \A d \in Call : CallInv(d)
  BY InvByCall
<1>2. /\ remote[c] # "idle" /\ applied[c] < MaxSends /\ applied' = [applied EXCEPT ![c] = @ + 1]
      /\ UNCHANGED << remote, process, request, answer, counted >>
  BY DEF Apply, TakeEffect
<1>3. applied[c] + 1 \in 0..MaxSends /\ applied[c] \in Nat
  BY <1>1, <1>2, SendsAssumption DEF TypeOK
<1>4. TypeOK' /\ ClientsLife'
  BY <1>1, <1>2, <1>3 DEF TypeOK, ClientsLife, InFlight, process
<1>5. applied'[c] = applied[c] + 1
  BY <1>1, <1>2 DEF TypeOK
<1>6. answer[c] \notin {"unknown tool", "no client", "refused"}
  BY <1>1, <1>2 DEF CallInv, TypeOK, RemoteStages
<1>7. CallInv(c)'
  <2>1. applied'[c] > 0
    BY <1>3, <1>5
  <2>2. remote'[c] = remote[c] /\ request'[c] = request[c] /\ answer'[c] = answer[c]
        /\ counted'[c] = counted[c]
    BY <1>2
  <2>3. CallInv(c) /\ (Ended(c)' <=> Ended(c))
    BY <1>1, <2>2 DEF Ended
  <2>4. QED
    BY <1>2, <1>6, <2>1, <2>2, <2>3 DEF CallInv
<1>8. ASSUME NEW d \in Call, d # c PROVE CallInv(d)'
  BY <1>1, <1>2, <1>8, OthersStay DEF TypeOK
<1>9. QED
  BY <1>4, <1>7, <1>8, InvByCallNext

(* The steps of the process leave the calls alone; the one that closes the *)
(* client waits for them.                                                  *)
LEMMA ProcessStep ==
  ASSUME CallsInv,
         \/ \E t \in {"stdio", "http"} : Boot(t)
         \/ Probed \/ EventArrives \/ Interrupt \/ Close \/ UNCHANGED vars
  PROVE  CallsInv'
<1>1. /\ TypeOK /\ ClientsLife /\ \A d \in Call : CallInv(d)
  BY InvByCall
<1>2. UNCHANGED << remote, applied, request, answer, counted >>
  BY DEF Boot, Probed, EventArrives, Interrupt, Close, vars, remoteVars
<1>3. /\ stage' \in {"down", "probing", "serving", "closing", "exited"}
      /\ transport' \in {"stdio", "http"} /\ client' \in {"none", "open", "closed"}
      /\ events' \in BOOLEAN
  BY <1>1 DEF Boot, Probed, EventArrives, Interrupt, Close, vars, process, TypeOK
<1>4. TypeOK'
  BY <1>1, <1>2, <1>3 DEF TypeOK
<1>5. InFlight' = InFlight
  BY <1>2 DEF InFlight
<1>6. ClientsLife'
  BY <1>1, <1>5 DEF ClientsLife, Boot, Probed, EventArrives, Interrupt, Close, vars, process, TypeOK
<1>7. ASSUME NEW d \in Call PROVE CallInv(d)'
  BY <1>1, <1>2, OthersStay
<1>8. QED
  BY <1>4, <1>6, <1>7, InvByCallNext

LEMMA CallsInvariant == Spec => []CallsInv
<1>1. Init => CallsInv
  <2> SUFFICES ASSUME Init PROVE CallsInv
    OBVIOUS
  <2>1. TypeOK
    <3>1. [o \in Outcomes |-> 0] \in [Outcomes -> 0..1] /\ 0 \in 0..MaxSends
      BY SendsAssumption
    <3>2. counted \in [Call -> [Outcomes -> 0..1]] /\ applied \in [Call -> 0..MaxSends]
      BY <3>1 DEF Init, RemoteInit
    <3>3. QED
      BY <3>2 DEF Init, RemoteInit, TypeOK, RemoteStages, Answers
  <2>2. ClientsLife
    BY DEF Init, RemoteInit, ClientsLife, InFlight
  <2>3. ASSUME NEW c \in Call PROVE CallInv(c)
    BY DEF Init, RemoteInit, CallInv, Ended, Sum, Outcomes
  <2>4. QED
    BY <2>1, <2>2, <2>3, InvByCall
<1>2. CallsInv /\ [Next]_vars => CallsInv'
  BY BeginStep, FinishStep, CancelStep, ApplyStep, ProcessStep DEF Next
<1>3. QED
  BY <1>1, <1>2, PTL DEF Spec

-----------------------------------------------------------------------------
(* What the tools check covers what they and their methods write: the      *)
(* tables of Tools, joined, method by method and tool by tool.             *)

(* An entry of two joined tables comes from one of them. *)
LEMMA JoinedEntry ==
  ASSUME NEW f, NEW g, NEW x \in DOMAIN (f ++ g)
  PROVE  (x \in DOMAIN f /\ (f ++ g)[x] = f[x]) \/ (x \in DOMAIN g /\ (f ++ g)[x] = g[x])
BY DEF ++

(* And it comes from the only one that has it. *)
LEMMA JoinedTables ==
  ASSUME NEW f, NEW g
  PROVE  /\ DOMAIN (f ++ g) = DOMAIN f \union DOMAIN g
         /\ \A x \in DOMAIN f : (f ++ g)[x] = f[x]
         /\ \A x \in DOMAIN g \ DOMAIN f : (f ++ g)[x] = g[x]
BY DEF ++

(* What OtherMethods, joined of several tables, has for each method.      *)
LEMMA OtherMethodTable ==
  /\ \A m \in {"list_attachments", "list_activities", "list_relations", "list_watchers"} :
        m \in DOMAIN OtherMethods /\ OtherMethods[m] = Api("GET", {"work_package_id"}, {})
  /\ \A m \in {"list_categories", "list_versions"} :
        m \in DOMAIN OtherMethods /\ OtherMethods[m] = Api("GET", {"project_id"}, {})
  /\ \A m \in {"list_queries", "get_project_hierarchy", "list_statuses", "list_types",
               "list_priorities"} :
        m \in DOMAIN OtherMethods /\ OtherMethods[m] = Api("GET", {}, {})
  /\ OtherMethods["list_memberships"] = Api("GET", {}, {"project_id"})
  /\ OtherMethods["list_time_entries"] = Api("GET", {}, {"work_package_id"})
  /\ OtherMethods["search_work_packages"] = Api("GET", {}, {"query"})
  /\ OtherMethods["get_user"] = Api("GET", {"user_id"}, {})
  /\ OtherMethods["create_membership"] = Api("POST", {}, {})
  /\ OtherMethods["create_time_entry"] = Api("POST", {}, {})
  /\ OtherMethods["create_version"] = Api("POST", {"project_id"}, {})
  /\ OtherMethods["create_relation"] = Api("POST", {"work_package_id"}, {})
  /\ OtherMethods["add_watcher"] = Api("POST", {"work_package_id", "user_id"}, {})
BY DEF OtherMethods, ++

\* The methods that OtherMethods is about.
LEMMA OtherMethodNames ==
  DOMAIN OtherMethods =
    {"list_attachments", "list_activities", "list_relations", "list_watchers",
     "list_categories", "list_versions", "list_queries", "get_project_hierarchy",
     "list_statuses", "list_types", "list_priorities", "list_memberships",
     "list_time_entries", "search_work_packages", "get_user", "create_membership",
     "create_time_entry", "create_version", "create_relation", "add_watcher"}
BY DEF OtherMethods, ++

(* No method is in two tables. *)
LEMMA MethodTables ==
  /\ \A m \in DOMAIN ProjectAndPackageMethods : Methods[m] = ProjectAndPackageMethods[m]
  /\ \A m \in DOMAIN OtherMethods : Methods[m] = OtherMethods[m]
  /\ \A m \in DOMAIN ChangeMethods : Methods[m] = ChangeMethods[m]
<1> DEFINE T == ProjectAndPackageMethods ++ OtherMethods
<1>1. /\ \A m \in DOMAIN OtherMethods : m \notin DOMAIN ProjectAndPackageMethods
      /\ \A m \in DOMAIN ChangeMethods :
            m \notin DOMAIN ProjectAndPackageMethods /\ m \notin DOMAIN OtherMethods
  BY OtherMethodNames DEF ProjectAndPackageMethods, ChangeMethods
<1>2. \A m \in DOMAIN OtherMethods : m \in DOMAIN OtherMethods \ DOMAIN ProjectAndPackageMethods
  BY <1>1
<1>3. /\ DOMAIN T = DOMAIN ProjectAndPackageMethods \union DOMAIN OtherMethods
      /\ \A m \in DOMAIN ProjectAndPackageMethods : T[m] = ProjectAndPackageMethods[m]
      /\ \A m \in DOMAIN OtherMethods \ DOMAIN ProjectAndPackageMethods : T[m] = OtherMethods[m]
  BY JoinedTables
<1>4. Methods = T ++ ChangeMethods
  BY DEF Methods
<1> HIDE DEF T
<1>5. /\ \A m \in DOMAIN T : (T ++ ChangeMethods)[m] = T[m]
      /\ \A m \in DOMAIN ChangeMethods \ DOMAIN T : (T ++ ChangeMethods)[m] = ChangeMethods[m]
  BY JoinedTables
<1>6. \A m \in DOMAIN ChangeMethods : m \in DOMAIN ChangeMethods \ DOMAIN T
  BY <1>1, <1>3
<1>7. QED
  BY <1>2, <1>3, <1>4, <1>5, <1>6

\* What the method m writes.
Writes(m, path, filter) == Methods[m].path = path /\ Methods[m].filter = filter

(* The methods of api_client.py by the arguments they write: into their    *)
(* URL, and into a filter.                                                 *)
LEMMA WhatMethodsWrite ==
  /\ \A m \in {"list_attachments", "list_activities", "list_relations", "list_watchers",
               "get_work_package", "update_work_package", "delete_work_package",
               "create_relation"} :
        Writes(m, {"work_package_id"}, {})
  /\ \A m \in {"list_categories", "list_versions", "create_version", "get_project_details",
               "update_project", "delete_project"} :
        Writes(m, {"project_id"}, {})
  /\ \A m \in {"list_queries", "get_project_hierarchy", "list_statuses", "list_types",
               "list_priorities", "create_membership", "create_time_entry", "get_users",
               "create_project", "create_work_package"} :
        Writes(m, {}, {})
  /\ Writes("get_projects", {}, {"status", "name"})
  /\ Writes("get_work_packages", {}, {"project_id", "assignee", "status", "type"})
  /\ Writes("list_memberships", {}, {"project_id"})
  /\ Writes("list_time_entries", {}, {"work_package_id"})
  /\ Writes("search_work_packages", {}, {"query"})
  /\ Writes("get_user", {"user_id"}, {})
  /\ Writes("add_watcher", {"work_package_id", "user_id"}, {})
<1>1. ASSUME NEW m \in DOMAIN ProjectAndPackageMethods, NEW p, NEW f, NEW verb,
             ProjectAndPackageMethods[m] = Api(verb, p, f)
      PROVE  Writes(m, p, f)
  BY <1>1, MethodTables DEF Writes, Api
<1>2. ASSUME NEW m \in DOMAIN OtherMethods, NEW p, NEW f, NEW verb,
             OtherMethods[m] = Api(verb, p, f)
      PROVE  Writes(m, p, f)
  BY <1>2, MethodTables DEF Writes, Api
<1>3. ASSUME NEW m \in DOMAIN ChangeMethods, NEW p, NEW f, NEW verb,
             ChangeMethods[m] = Api(verb, p, f)
      PROVE  Writes(m, p, f)
  BY <1>3, MethodTables DEF Writes, Api
<1>4. /\ \A m \in {"list_attachments", "list_activities", "list_relations", "list_watchers",
                   "create_relation"} : Writes(m, {"work_package_id"}, {})
      /\ \A m \in {"list_categories", "list_versions", "create_version"} :
            Writes(m, {"project_id"}, {})
      /\ \A m \in {"list_queries", "get_project_hierarchy", "list_statuses", "list_types",
                   "list_priorities", "create_membership", "create_time_entry"} :
            Writes(m, {}, {})
      /\ Writes("list_memberships", {}, {"project_id"})
      /\ Writes("list_time_entries", {}, {"work_package_id"})
      /\ Writes("search_work_packages", {}, {"query"})
      /\ Writes("get_user", {"user_id"}, {})
      /\ Writes("add_watcher", {"work_package_id", "user_id"}, {})
  BY <1>2, OtherMethodTable, OtherMethodNames
<1>5. /\ \A m \in {"update_work_package", "delete_work_package"} :
            Writes(m, {"work_package_id"}, {})
      /\ \A m \in {"update_project", "delete_project"} : Writes(m, {"project_id"}, {})
      /\ \A m \in {"get_users", "create_project"} : Writes(m, {}, {})
  BY <1>3 DEF ChangeMethods
<1>6. /\ Writes("get_work_package", {"work_package_id"}, {})
      /\ Writes("get_project_details", {"project_id"}, {})
      /\ Writes("create_work_package", {}, {})
      /\ Writes("get_projects", {}, {"status", "name"})
      /\ Writes("get_work_packages", {}, {"project_id", "assignee", "status", "type"})
  BY <1>1 DEF ProjectAndPackageMethods
<1>7. QED
  BY <1>4, <1>5, <1>6

\* The checks of the tool h cover what it and its method write.
Covered(h) ==
  LET m == Methods[h.method]
  IN  /\ \A f \in h.links \union m.path :
           Id(f) \in h.checks \/ (f = "assignee_id" /\ IfGiven(Id(f)) \in h.checks)
      /\ \A f \in m.filter :
           \/ Text(f, 200) \in h.checks
           \/ f # "query" /\ (IfGiven(Id(f)) \in h.checks \/ IfGiven(Text(f, 100)) \in h.checks)

(* The tools of each module of tools/ check what is written of them.       *)
LEMMA ProjectToolsCovered == \A t \in DOMAIN ProjectTools : Covered(ProjectTools[t])
BY WhatMethodsWrite DEF ProjectTools, Covered, Writes, Tool
LEMMA WorkPackageToolsCovered == \A t \in DOMAIN WorkPackageTools : Covered(WorkPackageTools[t])
BY WhatMethodsWrite DEF WorkPackageTools, Covered, Writes, Tool, Linking
LEMMA UserToolsCovered == \A t \in DOMAIN UserTools : Covered(UserTools[t])
BY WhatMethodsWrite DEF UserTools, Covered, Writes, Tool, Linking
LEMMA TimeEntryToolsCovered == \A t \in DOMAIN TimeEntryTools : Covered(TimeEntryTools[t])
BY WhatMethodsWrite DEF TimeEntryTools, Covered, Writes, Tool, Linking
LEMMA LookupToolsCovered == \A t \in DOMAIN LookupTools : Covered(LookupTools[t])
BY WhatMethodsWrite DEF LookupTools, Covered, Writes, Tool, Linking
LEMMA RelationToolsCovered == \A t \in DOMAIN RelationTools : Covered(RelationTools[t])
BY WhatMethodsWrite DEF RelationTools, Covered, Writes, Tool, Linking
LEMMA MembershipToolsCovered == \A t \in DOMAIN MembershipTools : Covered(MembershipTools[t])
BY WhatMethodsWrite DEF MembershipTools, Covered, Writes, Tool, Linking
(* So do those of misc.py, whose table is joined of several.               *)
LEMMA MiscToolsCovered == \A t \in DOMAIN MiscTools : Covered(MiscTools[t])
<1>1. \A t \in DOMAIN MiscTools :
        MiscTools[t] \in
          {Tool(m, {Id("work_package_id")}) : m \in {"list_attachments", "list_activities"}}
          \union {Tool(m, {Id("project_id")}) : m \in {"list_categories", "list_versions"}}
          \union {Tool(m, {}) : m \in {"list_queries", "get_project_hierarchy"}}
          \union {Tool("create_version", {Id("project_id"), Text("name", 255)}),
                  Tool("search_work_packages", {Text("query", 200)})}
  BY DEF MiscTools, ++
<1>2. QED
  BY <1>1, WhatMethodsWrite DEF Covered, Writes, Tool

AllCovered(table) == \A t \in DOMAIN table : Covered(table[t])

\* Joined tables of such tools are a table of such tools.
LEMMA JoinedCovered ==
  ASSUME NEW f, NEW g, AllCovered(f), AllCovered(g)
  PROVE  AllCovered(f ++ g)
<1>1. ASSUME NEW t \in DOMAIN (f ++ g)
      PROVE  Covered((f ++ g)[t])
  <2>1. \/ t \in DOMAIN f /\ (f ++ g)[t] = f[t]
        \/ t \in DOMAIN g /\ (f ++ g)[t] = g[t]
    BY JoinedEntry
  <2>2. CASE t \in DOMAIN f /\ (f ++ g)[t] = f[t]
    <3>1. Covered(f[t])
      BY <2>2 DEF AllCovered
    <3>2. QED
      BY <2>2, <3>1
  <2>3. CASE t \in DOMAIN g /\ (f ++ g)[t] = g[t]
    <3>1. Covered(g[t])
      BY <2>3 DEF AllCovered
    <3>2. QED
      BY <2>3, <3>1
  <2>4. QED
    BY <2>1, <2>2, <2>3
<1>2. QED
  BY <1>1 DEF AllCovered

(* Every tool that calls a method checks what is written.                  *)
LEMMA ToolsAreCovered == \A t \in CallingTools : Covered(Handlers[t])
<1>1. AllCovered(ProjectTools) /\ AllCovered(WorkPackageTools) /\ AllCovered(UserTools)
      /\ AllCovered(TimeEntryTools) /\ AllCovered(LookupTools) /\ AllCovered(RelationTools)
      /\ AllCovered(MembershipTools) /\ AllCovered(MiscTools)
  BY ProjectToolsCovered, WorkPackageToolsCovered, UserToolsCovered, TimeEntryToolsCovered,
     LookupToolsCovered, RelationToolsCovered, MembershipToolsCovered, MiscToolsCovered
     DEF AllCovered
<1> DEFINE T2 == ProjectTools ++ WorkPackageTools
           T3 == T2 ++ UserTools
           T4 == T3 ++ TimeEntryTools
           T5 == T4 ++ LookupTools
           T6 == T5 ++ RelationTools
           T7 == T6 ++ MembershipTools
           T8 == T7 ++ MiscTools
<1>2. Handlers = T8 ++ EventTools
  BY DEF Handlers
<1>3. AllCovered(T2)
  BY <1>1, JoinedCovered
<1> HIDE DEF T2
<1>4. AllCovered(T3)
  BY <1>1, <1>3, JoinedCovered
<1> HIDE DEF T3
<1>5. AllCovered(T4)
  BY <1>1, <1>4, JoinedCovered
<1> HIDE DEF T4
<1>6. AllCovered(T5)
  BY <1>1, <1>5, JoinedCovered
<1> HIDE DEF T5
<1>7. AllCovered(T6)
  BY <1>1, <1>6, JoinedCovered
<1> HIDE DEF T6
<1>8. AllCovered(T7)
  BY <1>1, <1>7, JoinedCovered
<1> HIDE DEF T7
<1>9. AllCovered(T8)
  BY <1>1, <1>8, JoinedCovered
<1> HIDE DEF T8
<1>10. DOMAIN EventTools = {"get_recent_events"}
  BY DEF EventTools
<1>11. ASSUME NEW t \in CallingTools
       PROVE  Covered(Handlers[t])
  <2>1. t \in DOMAIN (T8 ++ EventTools) /\ t \notin DOMAIN EventTools
    BY <1>2, <1>10 DEF CallingTools
  <2>2. t \in DOMAIN T8 /\ (T8 ++ EventTools)[t] = T8[t]
    BY <2>1, JoinedEntry
  <2>3. QED
    BY <1>2, <1>9, <2>2 DEF AllCovered
<1>12. QED
  BY <1>11

\* What a request gives for a field, or does not give, has a shape.
LEMMA ArgumentType ==
  ASSUME NEW q \in Asked, NEW f
  PROVE  Argument(q, f) \in ArgumentShape
BY RequestAssumption DEF Argument, Absent, ArgumentShape

\* What a check that was passed says of its argument.
LEMMA PassedChecks ==
  ASSUME NEW v \in ArgumentShape, NEW f
  PROVE  /\ Passes(Id(f), v) => ValidId(v)
         /\ Passes(Text(f, 200), v) => ValidText(v, 200)
         /\ Passes(IfGiven(Id(f)), v) => Falsy(v) \/ (ValidId(v) /\ ValidText(v, 200))
         /\ Passes(IfGiven(Text(f, 100)), v) => Falsy(v) \/ ValidText(v, 200)
BY DEF Passes, Id, Text, IfGiven, Check, ValidId, ValidText, Falsy, Null, ArgumentShape

\* A request that was asked, and what its tool and method write of it.
WellWritten(q) ==
  /\ \A f \in Handlers[q.tool].links \union MethodOf(q).path :
       ValidId(Argument(q, f)) \/ (f = "assignee_id" /\ Falsy(Argument(q, f)))
  /\ \A f \in MethodOf(q).filter :
       ValidText(Argument(q, f), 200) \/ (f # "query" /\ Falsy(Argument(q, f)))

(* An accepted request is one.                                             *)
LEMMA AcceptedIsWellWritten ==
  ASSUME NEW q \in Asked, q.tool \in CallingTools, Accepts(q)
  PROVE  WellWritten(q)
<1> DEFINE h == Handlers[q.tool]
<1>1. Covered(h) /\ MethodOf(q) = Methods[h.method] /\ Checks(q) = h.checks
  BY ToolsAreCovered DEF MethodOf, Checks
<1> HIDE DEF h
<1>2. \A check \in h.checks : Passes(check, Argument(q, check.field))
  BY <1>1 DEF Accepts
<1>3. \A f : /\ Id(f).field = f /\ Text(f, 200).field = f
             /\ IfGiven(Id(f)).field = f /\ IfGiven(Text(f, 100)).field = f
  BY DEF Id, Text, IfGiven, Check
<1>4. ASSUME NEW f \in h.links \union MethodOf(q).path
      PROVE  ValidId(Argument(q, f)) \/ (f = "assignee_id" /\ Falsy(Argument(q, f)))
  <2>1. Id(f) \in h.checks \/ (f = "assignee_id" /\ IfGiven(Id(f)) \in h.checks)
    BY <1>1, <1>4 DEF Covered
  <2>2. \/ Passes(Id(f), Argument(q, f))
        \/ f = "assignee_id" /\ Passes(IfGiven(Id(f)), Argument(q, f))
    BY <1>2, <1>3, <2>1
  <2>3. QED
    BY <2>2, ArgumentType, PassedChecks
<1>5. ASSUME NEW f \in MethodOf(q).filter
      PROVE  ValidText(Argument(q, f), 200) \/ (f # "query" /\ Falsy(Argument(q, f)))
  <2>1. \/ Text(f, 200) \in h.checks
        \/ f # "query" /\ (IfGiven(Id(f)) \in h.checks \/ IfGiven(Text(f, 100)) \in h.checks)
    BY <1>1, <1>5 DEF Covered
  <2>2. \/ Passes(Text(f, 200), Argument(q, f))
        \/ f # "query" /\ (\/ Passes(IfGiven(Id(f)), Argument(q, f))
                           \/ Passes(IfGiven(Text(f, 100)), Argument(q, f)))
    BY <1>2, <1>3, <2>1
  <2>3. QED
    BY <2>2, ArgumentType, PassedChecks
<1>6. QED
  BY <1>4, <1>5 DEF WellWritten, h

-----------------------------------------------------------------------------
(* What is sent has been accepted. *)

\* A request that was sent had been asked and had passed its tool's checks.
SentAreAccepted ==
  \A c \in Call : remote[c] # "idle" =>
     request[c] \in Asked /\ request[c].tool \in CallingTools /\ Accepts(request[c])

(* No step changes a request, but the one that begins its call and sends   *)
(* it only if there is nothing to answer at once.                          *)
LEMMA SentStep ==
  ASSUME CallsInv, SentAreAccepted, [Next]_vars
  PROVE  SentAreAccepted'
<1>1. TypeOK /\ IdleCalls
  BY DEF CallsInv
<1>2. ASSUME NEW c \in Call, NEW q \in Request[c], Begin(c, q)
      PROVE  SentAreAccepted'
  <2>1. request[c] = NoRequest /\ request' = [request EXCEPT ![c] = q] /\ q \in Asked
    BY <1>2 DEF Begin, Asked
  <2>2. CASE \E text \in Immediate(q) : Reply(c, text) /\ UNCHANGED remoteVars
    BY <1>1, <2>1, <2>2 DEF SentAreAccepted, IdleCalls, TypeOK, remoteVars, Accepts, Argument, Checks
  <2>3. CASE Immediate(q) = {} /\ Send(c)
    <3>1. q.tool \in CallingTools /\ Accepts(q)
      BY <2>3, ImmediateAnswers
    <3>2. remote' = [remote EXCEPT ![c] = "open"]
      BY <2>3 DEF Send, Move
    <3>3. QED
      BY <1>1, <2>1, <3>1, <3>2 DEF SentAreAccepted, TypeOK, Accepts, Argument, Checks
  <2>4. QED
    BY <1>2, <2>2, <2>3 DEF Begin
<1>3. ASSUME NEW c \in Call, Finish(c) \/ Cancel(c)
      PROVE  SentAreAccepted'
  <2>1. PICK to : remote[c] = "open" /\ remote' = [remote EXCEPT ![c] = to] /\ request' = request
    BY <1>3 DEF Finish, Cancel, Succeed, Fail, Leave, Move
  <2>2. QED
    BY <1>1, <2>1 DEF SentAreAccepted, TypeOK, Accepts, Argument, Checks
<1>4. ASSUME UNCHANGED << remote, request >>
      PROVE  SentAreAccepted'
  BY <1>4 DEF SentAreAccepted, Accepts, Argument, Checks
<1>5. ASSUME NEW c \in Call, Apply(c)
      PROVE  SentAreAccepted'
  BY <1>4, <1>5 DEF Apply, TakeEffect
<1>6. ASSUME \/ \E t \in {"stdio", "http"} : Boot(t)
             \/ Probed \/ EventArrives \/ Interrupt \/ Close \/ UNCHANGED vars
      PROVE  SentAreAccepted'
  BY <1>4, <1>6 DEF Boot, Probed, EventArrives, Interrupt, Close, vars, remoteVars
<1>7. QED
  BY <1>2, <1>3, <1>5, <1>6 DEF Next

-----------------------------------------------------------------------------
(* The theorems. *)

\* Every variable of the server and its calls keeps its type.
THEOREM TypeCorrect == Spec => []TypeOK
<1>1. CallsInv => TypeOK
  BY DEF CallsInv
<1>2. QED
  BY <1>1, CallsInvariant, PTL

(* However a call ends, tool_calls_total has counted it once, and never    *)
(* while it goes on.                                                       *)
THEOREM CallsAreCountedOnce == Spec => []CountedOnce
<1>1. CallsInv => CountedOnce
  BY DEF CallsInv
<1>2. QED
  BY <1>1, CallsInvariant, PTL

(* What a caller is told is so: done means done, refused means that        *)
(* nothing was or will be.                                                 *)
THEOREM AnswersStayTrue == Spec => []AnswersAreTrue
<1>1. CallsInv => AnswersAreTrue
  BY DEF CallsInv
<1>2. QED
  BY <1>1, CallsInvariant, PTL

\* No call waits on a client that is not there.
THEOREM NoCallIsStranded == Spec => []ClientOutlivesCalls
<1>1. CallsInv => ClientOutlivesCalls
  BY DEF CallsInv, ClientsLife, ClientOutlivesCalls
<1>2. QED
  BY <1>1, CallsInvariant, PTL

(* Whatever is written into a URL, a filter or a link has been checked:    *)
(* the requests are sent only once they are accepted, and what each tool   *)
(* checks covers what it and the method it calls write.                    *)
THEOREM WhatIsWrittenIsChecked == Spec => []WrittenIsChecked
<1>1. Init => SentAreAccepted
  BY DEF Init, RemoteInit, SentAreAccepted
<1>2. CallsInv /\ SentAreAccepted /\ [Next]_vars => SentAreAccepted'
  BY SentStep
<1>3. SentAreAccepted => WrittenIsChecked
  BY AcceptedIsWellWritten DEF SentAreAccepted, WrittenIsChecked, WellWritten
<1>4. QED
  BY <1>1, <1>2, <1>3, CallsInvariant, PTL DEF Spec
=============================================================================
