------------------------------- MODULE Pipeline -------------------------------
(***************************************************************************)
(* The push path from end to end: the server processes of transport.py,    *)
(* each with the webhook route and its producer (Ingest) and with a replay *)
(* consumer and its cache (ReplayConsumer), around one topic.              *)
(*                                                                         *)
(* What the parts do is said in their modules.  Here is what they share:   *)
(* the topic, which holds bodies when the producer writes it and is read   *)
(* as events; the broker; and the lifespan, whose start, end and sudden    *)
(* death are those of a producer and of a consumer at once.                *)
(***************************************************************************)
EXTENDS Payload, Integers

CONSTANTS
  Server, Webhook, Body, Partition, PartitionOf,            \* as in Ingest
  Rank,             \* the place of a time among all times, in lexicographic order
  ConsumerTopic,    \* KAFKA_EVENTS_TOPIC, the topic the consumers subscribe to
  Poison, MaxEntries, Modes,                                \* as in ReplayConsumer
  MaxAttempts, MaxDeaths, MaxOutages, MaxGiveUps,       \* bounds of Ingest
  MaxRebalances, MaxPollErrors                              \* bounds of ReplayConsumer

ASSUME RouteAssumption ==
  /\ "nobody" \notin Server
  /\ \A b \in Body : b.signature \in Signatures /\ b.kind \in Kinds
  /\ \A b \in Body : KeyOf(b) # Empty => PartitionOf[KeyOf(b)] \in Partition
ASSUME RankAssumption == \A b \in Body : IsEvent(b) => Rank[TimeOf(b)] \in Nat
ASSUME MembersAssumption == MaxEntries \in Nat /\ Modes \subseteq {"earliest", "latest"}
ASSUME BoundAssumption ==
  /\ IsFiniteSet(Webhook) /\ MaxAttempts \in Nat \ {0}
  /\ MaxDeaths \in Nat /\ MaxOutages \in Nat /\ MaxGiveUps \in Nat
  /\ MaxRebalances \in Nat /\ MaxPollErrors \in Nat

VARIABLES
  \* Ingest
  process, producer, buffer, sender, body, answer, log, brokerUp,
  attempts, refused, dropped, deaths, outages, giveUps,
  \* ReplayConsumer; its log is the topic below
  committed, owner, task, mode, position, request, fenced, cache,
  handled, missed, downs, rebalances, pollErrors

route   == << process, producer, buffer, sender, body, answer, log, brokerUp,
              attempts, refused, dropped, deaths, outages, giveUps >>
members == << committed, owner, task, mode, position, request, fenced, cache,
              handled, missed, downs, rebalances, pollErrors >>

-----------------------------------------------------------------------------
(* What the consumers read. *)

\* The event of a body as the cache keeps it, which compares times by rank.
EventIn(b) == LET e == Transform(b) IN [e EXCEPT !.at = Rank[e.at]]

Events == {EventIn(b) : b \in {c \in Body : IsEvent(c)}}

ASSUME PoisonAssumption == Poison \notin Events

RecordOf == [b \in Body |-> IF IsEvent(b) THEN EventIn(b) ELSE Poison]

Route == INSTANCE Ingest

\* The name the route sends to, whatever the environment says.
EVENTS_TOPIC == "openproject.events.raw"

\* The topic as the consumers see it.
Topic ==
  [p \in Partition |->
     IF ConsumerTopic = EVENTS_TOPIC
     THEN [i \in 1..Len(log[p]) |-> RecordOf[Route!BodyOf(log[p][i])]]
     ELSE << >>]

Group == INSTANCE ReplayConsumer WITH
  log <- Topic,
  Replica <- Server,
  Event <- Events,
  EventId <- {e.id : e \in Events},
  Project <- {e.project : e \in Events},
  PartitionOf <- [id \in {e.id : e \in Events} |-> PartitionOf[id]],
  MaxLog <- Cardinality(Route!Request),
  MaxDowns <- MaxDeaths

vars == << route, members >>

Init == Route!Init /\ Group!Init

-----------------------------------------------------------------------------
(* The lifespan. *)

(* Producer and consumer are started one after the other, and either may   *)
(* fail to without the other or the server caring.                         *)
Start(s, producing, consuming) ==
  /\ Route!Start(s, producing)
  /\ \/ consuming /\ brokerUp /\ \E m \in Modes : Group!Start(s, m)
     \/ ~consuming /\ UNCHANGED members

\* consumer.stop(), if there is a consumer, with a commit under way in doubt.
LeaveGroup(s) ==
  IF Group!Up(s) THEN \E accepted \in BOOLEAN : Group!Stop(s, accepted)
                 ELSE UNCHANGED members

\* The lifespan ends: the consumer leaves its group before the producer is stopped.
BeginFlush(s) == Route!BeginFlush(s) /\ LeaveGroup(s)

Crash(s) == Route!Crash(s) /\ LeaveGroup(s)

-----------------------------------------------------------------------------
(* What does not concern the other part. *)

Post(s, w, b) == Route!Post(s, w, b) /\ UNCHANGED members

GiveUp(w) == Route!GiveUp(w) /\ UNCHANGED members

Settle(q) ==
  /\ Route!SendRaises(q) \/ \E p \in Partition : Route!SendReturns(q, p)
  /\ UNCHANGED members

Deliver(s, p) == Route!Deliver(s, p) /\ UNCHANGED members
Expire(s, p) == Route!Expire(s, p) /\ UNCHANGED members
BrokerFails == Route!BrokerFails /\ UNCHANGED members
BrokerRecovers == Route!BrokerRecovers /\ UNCHANGED members
Drain(s) == Route!Drain(s) /\ UNCHANGED members
Exit(s) == Route!Exit(s) /\ UNCHANGED members

\* What the coordinator answers, it answers while the broker is there.
Rebalance(assignment) ==
  UNCHANGED route /\ brokerUp /\ Group!Rebalance(assignment)
ResolvePosition(s, p) ==
  UNCHANGED route /\ brokerUp /\ Group!ResolvePosition(s, p)
Consume(s, p) == UNCHANGED route /\ Group!Consume(s, p)
FinishCommit(s, accepted) ==
  UNCHANGED route /\ (accepted => brokerUp) /\ Group!FinishCommit(s, accepted)
PollFails(s) == UNCHANGED route /\ Group!PollFails(s)

-----------------------------------------------------------------------------
Assignments == [Partition -> Server]

ServerStep(s) ==
  \/ \E producing, consuming \in BOOLEAN : Start(s, producing, consuming)
  \/ Drain(s) \/ BeginFlush(s) \/ Exit(s) \/ Crash(s)
  \/ \E w \in Webhook, b \in Body : Post(s, w, b)
  \/ \E p \in Partition :
       Deliver(s, p) \/ Expire(s, p) \/ ResolvePosition(s, p) \/ Consume(s, p)
  \/ \E accepted \in BOOLEAN : FinishCommit(s, accepted)
  \/ PollFails(s)

Next ==
  \/ \E s \in Server : ServerStep(s)
  \/ \E w \in Webhook : GiveUp(w)
  \/ \E q \in Route!Request : Settle(q)
  \/ \E assignment \in Assignments : Rebalance(assignment)
  \/ BrokerFails \/ BrokerRecovers

Spec == Init /\ [][Next]_vars

Lifespan(s) == BeginFlush(s) \/ Exit(s)
Sender(s) == \E p \in Partition : Deliver(s, p)
PollLoop(s) ==
  \/ \E p \in Partition : ResolvePosition(s, p) \/ Consume(s, p)
  \/ \E accepted \in BOOLEAN : FinishCommit(s, accepted)

(* The scheduler runs every task that is ready: a send() returns or        *)
(* raises, a producer's task delivers while the broker is there, a poll    *)
(* loop reads on, its commits coming back with one result or another, a    *)
(* lifespan goes on to its end.  The coordinator reassigns the partitions  *)
(* of members that are gone, Kubernetes starts processes again, and        *)
(* outages end.  Nothing makes anyone post, stop or fail, nor a commit     *)
(* succeed or a client start.                                              *)
Fairness ==
  /\ \A q \in Route!Request : WF_vars(Settle(q))
  /\ \A s \in Server :
       /\ WF_vars(\E producing, consuming \in BOOLEAN : Start(s, producing, consuming))
       /\ WF_vars(Lifespan(s)) /\ WF_vars(Sender(s)) /\ WF_vars(PollLoop(s))
  /\ WF_vars(\E assignment \in Assignments :
               (\E p \in Partition : Group!Orphaned(p)) /\ Rebalance(assignment))
  /\ WF_vars(BrokerRecovers)

FairSpec == Spec /\ Fairness

-----------------------------------------------------------------------------
(* Whatever a replica holds in its cache was sent by OpenProject: it is    *)
(* what a signed body that went through some server's route says.          *)
CachedWasSigned ==
  \A s \in Server : \A i \in 1..Len(cache[s].store) :
     \E q \in Route!Logged :
        Authentic(Route!BodyOf(q)) /\ cache[s].store[i] = RecordOf[Route!BodyOf(q)]

\* Some replica has dealt with the record of a request, or a reset to latest passed it over.
Seen(q) ==
  \E p \in Partition : \E i \in 1..Len(log[p]) :
     /\ log[p][i] = q
     /\ Group!HandledBySome(p, i - 1) \/ <<p, i - 1>> \in missed

\* Nobody reads the partition: its owner's poll task has died, or it has no owner.
Abandoned(p) == Group!Orphaned(p) \/ task[owner[p]] = "dead"

(* An event OpenProject was told is accepted gets into some replica's      *)
(* cache (or is skipped as poison, or passed over by a reset to latest),   *)
(* through stops, crashes and rebalances; unless its record went down with *)
(* a process or in an outage, or lies in a partition left for good to a    *)
(* poll task that has died, or to no consumer at all.                      *)
AcceptedIsSeen ==
  \A w \in Webhook :
     Route!Accepted(w) ~>
       \/ Seen(Route!LastOf(w))
       \/ Route!LastOf(w) \in dropped
       \/ \E p \in Partition : [](Abandoned(p) /\ Route!LastOf(w) \in ToSet(log[p]))

(* Shutdowns come to an end: requests under way are answered, the consumer *)
(* stops with its commit, and the buffer is flushed as soon as the broker  *)
(* is back.                                                                *)
ShutdownsEnd == []<>(\A s \in Server : process[s] \in {"down", "serving"})

(* The replicas, fed by the route, are the consumer group that             *)
(* ReplayConsumer describes: the route keeps its producer's promise to     *)
(* keep an event in one partition, and the lifespan stops and starts       *)
(* consumers as the group expects it.                                      *)
ImplementsGroup == Group!Spec
=============================================================================
