---------------------------- MODULE PipelineProofs ----------------------------
(***************************************************************************)
(* Proofs about Pipeline, for every number of servers, webhooks, bodies    *)
(* and partitions, and whatever the bounds: every step of the whole is a   *)
(* step of the route or leaves the route alone, and it is a step of the    *)
(* consumer group or leaves the group alone.  So what IngestProofs and     *)
(* ReplayConsumerProofs prove of the parts holds of the whole.             *)
(*                                                                         *)
(* The proofs about the parts are instances of their own here (RouteP and  *)
(* GroupP); the lemmas called Same... say that what they define is what    *)
(* Route and Group, the instances Pipeline is made of, define.             *)
(***************************************************************************)
EXTENDS Pipeline, SequenceTheorems, FiniteSetTheorems, TLAPS

RouteP == INSTANCE IngestProofs

GroupP == INSTANCE ReplayConsumerProofs WITH
  log <- Topic,
  Replica <- Server,
  Event <- Events,
  EventId <- {e.id : e \in Events},
  Project <- {e.project : e \in Events},
  PartitionOf <- [id \in {e.id : e \in Events} |-> PartitionOf[id]],
  MaxLog <- Cardinality(Route!Request),
  MaxDowns <- MaxDeaths

-----------------------------------------------------------------------------
(* The route of the proofs is the route of the pipeline. *)

LEMMA SameWords ==
  /\ \A f : Route!FirstOf(f) = FirstOf(f) /\ RouteP!FirstOf(f) = FirstOf(f)
  /\ Route!Null = Null /\ RouteP!Null = Null
  /\ Route!Misshapen = Misshapen /\ RouteP!Misshapen = Misshapen
  /\ Route!Surrogate = Surrogate /\ RouteP!Surrogate = Surrogate
BY DEF Route!FirstOf, RouteP!FirstOf, FirstOf, Route!Get, RouteP!Get, Get, Route!Last,
       RouteP!Last, Last, Route!Min, RouteP!Min, Min, Route!Falsy, RouteP!Falsy, Falsy,
       Route!Missing, RouteP!Missing, Missing, Route!Null, RouteP!Null, Null,
       Route!Zero, RouteP!Zero, Zero, Route!Empty, RouteP!Empty, Empty,
       Route!Misshapen, RouteP!Misshapen, Misshapen,
       Route!Surrogate, RouteP!Surrogate, Surrogate

LEMMA SameKeys ==
  /\ \A b : Route!KeyOf(b) = KeyOf(b) /\ RouteP!KeyOf(b) = KeyOf(b)
  /\ Route!Empty = Empty /\ RouteP!Empty = Empty
BY SameWords
   DEF Route!KeyOf, RouteP!KeyOf, KeyOf, Route!Get, RouteP!Get, Get, Route!Null, RouteP!Null,
       Null, Route!Missing, RouteP!Missing, Missing, Route!Empty, RouteP!Empty, Empty,
       Route!NoProject, RouteP!NoProject, NoProject

LEMMA SamePayload ==
  /\ \A b : Route!KeyOf(b) = KeyOf(b)
  /\ \A b : Route!KeyRaises(b) = KeyRaises(b)
  /\ \A b : Route!Authentic(b) = Authentic(b)
  /\ \A b : Route!Parses(b) = Parses(b)
  /\ \A b : Route!IsEvent(b) = IsEvent(b)
  /\ \A b : Route!IdOf(b) = IdOf(b)
  /\ \A s : Route!ToSet(s) = ToSet(s)
  /\ Route!Empty = Empty /\ Route!Kinds = Kinds
  /\ \A b : RouteP!KeyOf(b) = KeyOf(b)
  /\ \A b : RouteP!KeyRaises(b) = KeyRaises(b)
  /\ \A b : RouteP!Authentic(b) = Authentic(b)
  /\ \A b : RouteP!Parses(b) = Parses(b)
  /\ \A b : RouteP!IsEvent(b) = IsEvent(b)
  /\ \A b : RouteP!IdOf(b) = IdOf(b)
  /\ \A s : RouteP!ToSet(s) = ToSet(s)
  /\ RouteP!Empty = Empty /\ RouteP!Kinds = Kinds /\ RouteP!Signatures = Signatures
  /\ RouteP!NoBody = Route!NoBody
<1>1. \A b : Route!IdOf(b) = IdOf(b) /\ RouteP!IdOf(b) = IdOf(b)
  BY SameWords, SameKeys DEF Route!IdOf, RouteP!IdOf, IdOf
<1>2. \A b : Route!KeyRaises(b) = KeyRaises(b) /\ RouteP!KeyRaises(b) = KeyRaises(b)
  BY SameWords, SameKeys, Zenon DEF Route!KeyRaises, RouteP!KeyRaises, KeyRaises
<1>3. \A b : Route!IsEvent(b) = IsEvent(b) /\ RouteP!IsEvent(b) = IsEvent(b)
  BY SameKeys, <1>1, Zenon DEF Route!IsEvent, RouteP!IsEvent, IsEvent
<1>4. \A b : /\ Route!Authentic(b) = Authentic(b) /\ RouteP!Authentic(b) = Authentic(b)
            /\ Route!Parses(b) = Parses(b) /\ RouteP!Parses(b) = Parses(b)
  BY DEF Route!Authentic, RouteP!Authentic, Authentic, Route!Parses, RouteP!Parses, Parses
<1>5. \A s : Route!ToSet(s) = ToSet(s) /\ RouteP!ToSet(s) = ToSet(s)
  BY DEF Route!ToSet, RouteP!ToSet, ToSet
<1>6. /\ Route!Kinds = Kinds /\ RouteP!Kinds = Kinds /\ RouteP!Signatures = Signatures
      /\ RouteP!NoBody = Route!NoBody
  BY DEF Route!Kinds, RouteP!Kinds, Kinds, RouteP!Signatures, Signatures, Route!NoBody,
         RouteP!NoBody
<1>7. QED
  BY SameKeys, <1>1, <1>2, <1>3, <1>4, <1>5, <1>6, Zenon

\* Names of tuples and of constants are used without being cited.
USE DEF Route!vars, Route!servers, Route!client, Route!broker, Route!bounds,
        RouteP!vars, RouteP!servers, RouteP!client, RouteP!broker, RouteP!bounds,
        Route!None, Route!Waiting, Route!NoAnswer, Route!Codes, Route!Nobody,
        RouteP!None, RouteP!Waiting, RouteP!NoAnswer, RouteP!Codes, RouteP!Nobody,
        Route!Request, RouteP!Request, Route!BodyOf, RouteP!BodyOf,
        Route!LastOf, RouteP!LastOf

LEMMA SameRefusals == \A s, b : Route!Refusal(s, b) = RouteP!Refusal(s, b)
<1> TAKE s, b
<1>1. /\ Route!Authentic(b) = RouteP!Authentic(b) /\ Route!Parses(b) = RouteP!Parses(b)
      /\ Route!KeyRaises(b) = RouteP!KeyRaises(b) /\ Route!Codes = RouteP!Codes
      /\ Route!SignatureRaises(b) = RouteP!SignatureRaises(b)
  <2>1. Route!SignatureRaises(b) = RouteP!SignatureRaises(b)
    BY DEF Route!SignatureRaises, RouteP!SignatureRaises
  <2>2. QED
    BY <2>1, SamePayload, Zenon
<1>2. \A code \in Route!Codes : code \in Route!Refusal(s, b) <=> code \in RouteP!Refusal(s, b)
  BY <1>1 DEF Route!Refusal, RouteP!Refusal
<1>3. Route!Refusal(s, b) \subseteq Route!Codes /\ RouteP!Refusal(s, b) \subseteq Route!Codes
  BY DEF Route!Refusal, RouteP!Refusal
<1>4. QED
  BY <1>2, <1>3

LEMMA SamePosts ==
  ASSUME NEW s, NEW w, NEW b
  PROVE  Route!Post(s, w, b) <=> RouteP!Post(s, w, b)
BY SamePayload, SameRefusals DEF Route!Post, RouteP!Post, Route!MayPost, RouteP!MayPost

LEMMA SameSends ==
  ASSUME NEW q, NEW p
  PROVE  /\ Route!SendReturns(q, p) <=> RouteP!SendReturns(q, p)
         /\ Route!SendRaises(q) <=> RouteP!SendRaises(q)
<1>1. Route!PartitionsFor(Route!BodyOf(q)) = RouteP!PartitionsFor(RouteP!BodyOf(q))
  BY SamePayload DEF Route!PartitionsFor, RouteP!PartitionsFor
<1>2. \A c : Route!Hears(q, c) <=> RouteP!Hears(q, c)
  BY DEF Route!Hears, RouteP!Hears
<1>3. QED
  BY <1>1, <1>2
     DEF Route!SendReturns, RouteP!SendReturns, Route!SendRaises, RouteP!SendRaises

LEMMA SameLifespan ==
  ASSUME NEW s
  PROVE  /\ \A started : Route!Start(s, started) <=> RouteP!Start(s, started)
         /\ Route!Drain(s) <=> RouteP!Drain(s)
         /\ Route!BeginFlush(s) <=> RouteP!BeginFlush(s)
         /\ Route!Exit(s) <=> RouteP!Exit(s)
         /\ Route!Crash(s) <=> RouteP!Crash(s)
BY DEF Route!Start, RouteP!Start, Route!Drain, RouteP!Drain,
       Route!BeginFlush, RouteP!BeginFlush, Route!Exit, RouteP!Exit,
       Route!Crash, RouteP!Crash, Route!InFlight, RouteP!InFlight,
       Route!Flushed, RouteP!Flushed, Route!InBuffer, RouteP!InBuffer,
       Route!ToSet, RouteP!ToSet, Route!EmptyBuffer, RouteP!EmptyBuffer

LEMMA SameSteps ==
  /\ \A w : Route!GiveUp(w) <=> RouteP!GiveUp(w)
  /\ \A s, p : Route!Deliver(s, p) <=> RouteP!Deliver(s, p)
  /\ \A s, p : Route!Expire(s, p) <=> RouteP!Expire(s, p)
  /\ Route!BrokerFails <=> RouteP!BrokerFails
  /\ Route!BrokerRecovers <=> RouteP!BrokerRecovers
BY DEF Route!GiveUp, RouteP!GiveUp, Route!Deliver, RouteP!Deliver,
       Route!Expire, RouteP!Expire, Route!BrokerFails, RouteP!BrokerFails,
       Route!BrokerRecovers, RouteP!BrokerRecovers

-----------------------------------------------------------------------------
(* Every step is a step of the route or leaves it alone. *)

StepOfRoute == [RouteP!Next]_RouteP!vars

LEMMA RouteStep == [Next]_vars => StepOfRoute
<1> SUFFICES ASSUME [Next]_vars PROVE StepOfRoute
  OBVIOUS
<1>1. ASSUME NEW s \in Server, NEW a \in BOOLEAN, NEW c \in BOOLEAN, Start(s, a, c)
      PROVE  StepOfRoute
  BY <1>1, SameLifespan DEF Start, RouteP!Next, RouteP!Lifespan, StepOfRoute
<1>2. ASSUME NEW s \in Server, Drain(s) \/ BeginFlush(s) \/ Exit(s) \/ Crash(s)
      PROVE  StepOfRoute
  BY <1>2, SameLifespan
     DEF Drain, BeginFlush, Exit, Crash, RouteP!Next, RouteP!Lifespan, StepOfRoute
<1>3. ASSUME NEW s \in Server, NEW w \in Webhook, NEW b \in Body, Post(s, w, b)
      PROVE  StepOfRoute
  BY <1>3, SamePosts DEF Post, RouteP!Next, StepOfRoute
<1>4. ASSUME NEW s \in Server, NEW p \in Partition, Deliver(s, p) \/ Expire(s, p)
      PROVE  StepOfRoute
  BY <1>4, SameSteps DEF Deliver, Expire, RouteP!Next, StepOfRoute
<1>5. ASSUME NEW w \in Webhook, GiveUp(w)
      PROVE  StepOfRoute
  BY <1>5, SameSteps DEF GiveUp, RouteP!Next, StepOfRoute
<1>6. ASSUME NEW q \in Route!Request, Settle(q)
      PROVE  StepOfRoute
  BY <1>6, SameSends DEF Settle, RouteP!Next, StepOfRoute
<1>7. CASE BrokerFails \/ BrokerRecovers
  BY <1>7, SameSteps DEF BrokerFails, BrokerRecovers, RouteP!Next, StepOfRoute
<1>8. CASE UNCHANGED route
  BY <1>8 DEF route, StepOfRoute
<1> HIDE DEF Route!Request
<1>9. QED
  BY <1>1, <1>2, <1>3, <1>4, <1>5, <1>6, <1>7, <1>8
     DEF Next, ServerStep, Rebalance, ResolvePosition, Consume, FinishCommit,
         PollFails, vars

(* The servers of the whole run the route as Ingest describes it, whatever *)
(* their consumers do.                                                     *)
THEOREM ServersRunTheRoute == Spec => RouteP!Spec
<1>1. Init => RouteP!Init
  BY SamePayload
     DEF Init, Route!Init, RouteP!Init, Route!EmptyBuffer, RouteP!EmptyBuffer
<1>2. [Next]_vars => [RouteP!Next]_RouteP!vars
  BY RouteStep DEF StepOfRoute
<1>3. QED
  BY <1>1, <1>2, PTL DEF Spec, RouteP!Spec


(* The assumptions of Ingest, in the terms of the instance. *)
LEMMA RouteAssumptions ==
  /\ MaxAttempts \in Nat \ {0}
  /\ MaxDeaths \in Nat /\ MaxOutages \in Nat /\ MaxGiveUps \in Nat
  /\ RouteP!Nobody \notin Server
  /\ \A b \in Body : b.signature \in RouteP!Signatures /\ b.kind \in RouteP!Kinds
  /\ \A b \in Body : RouteP!KeyOf(b) # RouteP!Empty
                       => PartitionOf[RouteP!KeyOf(b)] \in Partition
BY RouteAssumption, BoundAssumption, SamePayload

\* What is proved of the route and used here.
RouteHolds == RouteP!RouteInv /\ RouteP!RecordedOnce

LEMMA RouteInvariant == Spec => []RouteHolds
<1>1. RouteP!Spec => []RouteP!RouteInv
  BY RouteAssumptions, RouteP!RouteInvariant
<1>2. RouteP!Spec => []RouteP!RecordedOnce
  BY RouteAssumptions, RouteP!PostsAreRecordedOnce
<1>3. RouteP!RouteInv /\ RouteP!RecordedOnce => RouteHolds
  BY DEF RouteHolds
<1>4. QED
  BY <1>1, <1>2, <1>3, ServersRunTheRoute, PTL

(* A body the consumer reads as an event has its id for a key. *)
LEMMA EventsHaveKeys ==
  ASSUME NEW b, IsEvent(b)
  PROVE  /\ KeyOf(b) = IdOf(b) /\ KeyOf(b) # Empty
         /\ RouteP!PartitionsFor(b) = {PartitionOf[IdOf(b)]}
<1>1. /\ RouteP!KeyOf(b) = RouteP!IdOf(b) /\ RouteP!KeyOf(b) # RouteP!Empty
  BY SamePayload, RouteAssumptions, RouteP!KeyIsId
<1>2. QED
  BY <1>1, SamePayload DEF RouteP!PartitionsFor

-----------------------------------------------------------------------------
(* The topic, as it is written and as it is read. *)

\* What the consumers may find in a record.
Shown == Events \union {Poison}

LEMMA RecordsAreShown == \A b \in Body : RecordOf[b] \in Shown
BY DEF RecordOf, Shown, Events

(* What is in the topic is a signed body that was posted. *)
LEMMA LoggedBodies ==
  ASSUME RouteHolds, NEW p \in Partition
  PROVE  /\ log[p] \in Seq(Route!Request) /\ Len(log[p]) \in Nat
         /\ \A i \in 1..Len(log[p]) :
              /\ log[p][i] \in Route!Request /\ log[p][i][1] \in Webhook
              /\ Route!BodyOf(log[p][i]) \in Body /\ Authentic(Route!BodyOf(log[p][i]))
<1>1. RouteP!TypeOK /\ RouteP!RecordsPlaced
  BY DEF RouteHolds, RouteP!RouteInv
<1>2. log[p] \in Seq(Route!Request) /\ Len(log[p]) \in Nat
  BY <1>1, LenProperties DEF RouteP!TypeOK
<1>3. ASSUME NEW i \in 1..Len(log[p])
      PROVE  /\ log[p][i] \in Route!Request /\ log[p][i][1] \in Webhook
             /\ Route!BodyOf(log[p][i]) \in Body /\ Authentic(Route!BodyOf(log[p][i]))
  <2>1. log[p][i] \in ToSet(log[p]) /\ log[p][i] \in Route!Request
    BY <1>2, LenProperties, ElementOfSeq DEF ToSet
  <2>2. RouteP!Sound(RouteP!BodyOf(log[p][i]))
    BY <1>1, <2>1, SamePayload DEF RouteP!RecordsPlaced, RouteP!Placed
  <2>3. QED
    BY <2>1, <2>2, SamePayload DEF RouteP!Sound
<1>4. QED
  BY <1>2, <1>3

LEMMA TopicType ==
  ASSUME RouteHolds, NEW p \in Partition
  PROVE  /\ Topic \in [Partition -> Seq(Shown)]
         /\ ConsumerTopic = EVENTS_TOPIC =>
              /\ Len(Topic[p]) = Len(log[p])
              /\ \A i \in 1..Len(log[p]) : Topic[p][i] = RecordOf[Route!BodyOf(log[p][i])]
         /\ ConsumerTopic # EVENTS_TOPIC => Topic[p] = << >>
<1> DEFINE Read(q) == [i \in 1..Len(log[q]) |-> RecordOf[Route!BodyOf(log[q][i])]]
<1>1. ASSUME NEW q \in Partition PROVE Read(q) \in Seq(Shown) /\ Len(Read(q)) = Len(log[q])
  <2>1. /\ Len(log[q]) \in Nat
        /\ \A i \in 1..Len(log[q]) : RecordOf[Route!BodyOf(log[q][i])] \in Shown
    BY LoggedBodies, RecordsAreShown
  <2>2. QED
    BY <2>1, IsASeq, LenProperties
<1>2. \A q \in Partition : Topic[q] = IF ConsumerTopic = EVENTS_TOPIC THEN Read(q) ELSE << >>
  BY DEF Topic
<1>3. DOMAIN Topic = Partition /\ Topic = [q \in Partition |-> Topic[q]]
  BY DEF Topic
<1>4. \A q \in Partition : Topic[q] \in Seq(Shown)
  BY <1>1, <1>2, EmptySeq
<1>5. Topic \in [Partition -> Seq(Shown)]
  BY <1>3, <1>4
<1>6. QED
  BY <1>1, <1>2, <1>5

(* A record is read as the same event for ever: the body of a webhook does *)
(* not change from one post to the next.                                   *)
LEMMA TopicStays ==
  ASSUME RouteHolds, [Next]_vars, UNCHANGED log
  PROVE  UNCHANGED Topic
<1>1. RouteP!TypeOK /\ [RouteP!Next]_RouteP!vars
  BY RouteStep DEF RouteHolds, RouteP!RouteInv, StepOfRoute
<1>2. ASSUME NEW p \in Partition, NEW i \in 1..Len(log[p])
      PROVE  RecordOf[body[log[p][i][1]]] = RecordOf[body'[log[p][i][1]]]
  <2>1. log[p][i][1] \in Webhook /\ body[log[p][i][1]] \in Body
    BY LoggedBodies
  <2>2. body'[log[p][i][1]] = body[log[p][i][1]]
    BY <1>1, <2>1, RouteAssumptions, RouteP!BodiesStay
  <2>3. QED
    BY <2>2
<1>3. QED
  BY <1>2 DEF Topic

(* A delivered record is new to the topic, and where its event belongs. *)
LEMMA DeliveredRecord ==
  ASSUME RouteHolds, NEW s \in Server, NEW p \in Partition, Route!Deliver(s, p),
         NEW q, q = Head(buffer[s][p])
  PROVE  /\ q \in Route!Request /\ Route!BodyOf(q) \in Body
         /\ IsEvent(Route!BodyOf(q)) => p = PartitionOf[IdOf(Route!BodyOf(q))]
         /\ \A r \in Partition : \A i \in 1..Len(log[r]) : log[r][i] # q
         /\ log' = [log EXCEPT ![p] = Append(@, q)] /\ body' = body
<1>1. RouteP!TypeOK /\ RouteP!RecordsPlaced /\ RouteP!RecordedOnce
  BY DEF RouteHolds, RouteP!RouteInv
<1>2. /\ buffer[s][p] # << >>
      /\ log' = [log EXCEPT ![p] = Append(@, q)] /\ body' = body
  BY DEF Route!Deliver
<1>3. buffer[s][p] \in Seq(Route!Request)
  BY <1>1 DEF RouteP!TypeOK
<1>4. q \in Route!Request /\ q \in RouteP!ToSet(buffer[s][p])
  BY <1>2, <1>3, RouteAssumptions, RouteP!HeadAndTail
<1>5. RouteP!Placed(RouteP!BodyOf(q), p)
  BY <1>1, <1>4 DEF RouteP!RecordsPlaced
<1>6. Route!BodyOf(q) \in Body
  BY <1>5 DEF RouteP!Placed, RouteP!Sound
<1>7. IsEvent(Route!BodyOf(q)) => p = PartitionOf[IdOf(Route!BodyOf(q))]
  BY <1>5, EventsHaveKeys DEF RouteP!Placed
<1>8. ASSUME NEW r \in Partition, NEW i \in 1..Len(log[r]), log[r][i] = q PROVE FALSE
  <2>1. q \in RouteP!ToSet(log[r])
    BY <1>8, LoggedBodies, LenProperties DEF RouteP!ToSet
  <2>2. QED
    BY <1>1, <1>4, <2>1 DEF RouteP!RecordedOnce
<1>9. QED
  BY <1>2, <1>4, <1>6, <1>7, <1>8

LEMMA TopicGrows ==
  ASSUME RouteHolds, NEW s \in Server, NEW p \in Partition, Route!Deliver(s, p),
         ConsumerTopic = EVENTS_TOPIC,
         NEW rec, rec = RecordOf[Route!BodyOf(Head(buffer[s][p]))]
  PROVE  rec \in Shown /\ Topic' = [Topic EXCEPT ![p] = Append(@, rec)]
<1>1. PICK q : q = Head(buffer[s][p])
  OBVIOUS
<1>2. /\ q \in Route!Request /\ rec \in Shown /\ rec = RecordOf[Route!BodyOf(q)]
      /\ log' = [log EXCEPT ![p] = Append(@, q)] /\ body' = body
  BY <1>1, DeliveredRecord, RecordsAreShown
<1>3. /\ log[p] \in Seq(Route!Request) /\ Len(log[p]) \in Nat
      /\ log \in [Partition -> Seq(Route!Request)]
  BY LoggedBodies DEF RouteHolds, RouteP!RouteInv, RouteP!TypeOK
<1>4. /\ log'[p] = Append(log[p], q) /\ Len(log'[p]) = Len(log[p]) + 1
      /\ \A i \in 1..Len(log[p]) : log'[p][i] = log[p][i]
      /\ log'[p][Len(log[p]) + 1] = q
  BY <1>2, <1>3, AppendProperties
<1>5. /\ Topic[p] \in Seq(Shown) /\ Len(Topic[p]) = Len(log[p])
      /\ \A i \in 1..Len(log[p]) : Topic[p][i] = RecordOf[Route!BodyOf(log[p][i])]
  BY TopicType
<1>6. /\ Append(Topic[p], rec) \in Seq(Shown)
      /\ Len(Append(Topic[p], rec)) = Len(log[p]) + 1
      /\ \A i \in 1..Len(log[p]) : Append(Topic[p], rec)[i] = Topic[p][i]
      /\ Append(Topic[p], rec)[Len(log[p]) + 1] = rec
  BY <1>2, <1>5, AppendProperties
<1> DEFINE new == [i \in 1..Len(log'[p]) |-> RecordOf[body[log'[p][i][1]]]]
<1>7. \A i \in 1..(Len(log[p]) + 1) : new[i] = Append(Topic[p], rec)[i]
  <2>0. \A i \in 1..(Len(log[p]) + 1) : new[i] = RecordOf[body[log'[p][i][1]]]
    BY <1>4
  <2>1. ASSUME NEW i \in 1..Len(log[p]) PROVE new[i] = Append(Topic[p], rec)[i]
    <3>1. i \in 1..(Len(log[p]) + 1) /\ log'[p][i] = log[p][i]
      BY <1>3, <1>4
    <3>2. Append(Topic[p], rec)[i] = RecordOf[body[log[p][i][1]]]
      BY <1>5, <1>6
    <3> HIDE DEF new
    <3>3. QED
      BY <2>0, <3>1, <3>2
  <2>2. new[Len(log[p]) + 1] = Append(Topic[p], rec)[Len(log[p]) + 1]
    <3>1. Len(log[p]) + 1 \in 1..(Len(log[p]) + 1)
      BY <1>3
    <3> HIDE DEF new
    <3>2. QED
      BY <1>2, <1>4, <1>6, <2>0, <3>1
  <2>3. \A i \in 1..(Len(log[p]) + 1) : i \in 1..Len(log[p]) \/ i = Len(log[p]) + 1
    BY <1>3
  <2> HIDE DEF new
  <2>4. QED
    BY <2>1, <2>2, <2>3
<1>8. DOMAIN new = 1..(Len(log[p]) + 1) /\ new = [i \in 1..(Len(log[p]) + 1) |-> new[i]]
  BY <1>4
<1>9. Append(Topic[p], rec) = [i \in 1..(Len(log[p]) + 1) |-> Append(Topic[p], rec)[i]]
  BY <1>6, LenProperties
<1>10. new = Append(Topic[p], rec)
  <2> HIDE DEF new
  <2>1. QED
    BY <1>7, <1>8, <1>9
<1>11. Topic'[p] = Append(Topic[p], rec)
  BY <1>2, <1>10 DEF Topic
<1>12. \A r \in Partition : r # p => Topic'[r] = Topic[r]
  BY <1>2, <1>3 DEF Topic
<1>13. Topic' = [r \in Partition |-> Topic'[r]] /\ Topic = [r \in Partition |-> Topic[r]]
  BY DEF Topic
<1>14. QED
  BY <1>2, <1>11, <1>12, <1>13

LEMMA RequestsAreFinite == IsFiniteSet(Route!Request) /\ Cardinality(Route!Request) \in Nat
<1>1. IsFiniteSet(1..MaxAttempts)
  BY BoundAssumption, FS_Interval
<1>2. QED
  BY <1>1, BoundAssumption, FS_Product, FS_CardinalityType

(* Every post leaves at most one record (RecordedOnce), so that a post that *)
(* is still in a buffer finds the topic with fewer records than there are  *)
(* posts.                                                                  *)
LEMMA RoomForRecord ==
  ASSUME RouteHolds, NEW s \in Server, NEW p \in Partition, Route!Deliver(s, p),
         ConsumerTopic = EVENTS_TOPIC
  PROVE  Cardinality(Group!Places) < Cardinality(Route!Request)
<1>1. PICK q : q = Head(buffer[s][p])
  OBVIOUS
<1>2. q \in Route!Request /\ \A r \in Partition : \A i \in 1..Len(log[r]) : log[r][i] # q
  BY <1>1, DeliveredRecord
<1> DEFINE Rest == Route!Request \ {q}
           at == [x \in Group!Places |-> log[x[1]][x[2] + 1]]
<1>3. \A x \in Group!Places :
         /\ x = <<x[1], x[2]>> /\ x[1] \in Partition /\ x[2] \in Nat
         /\ x[2] + 1 \in 1..Len(log[x[1]])
  BY TopicType, LoggedBodies DEF Group!Places, Group!OffsetsBelow, Group!End
<1>4. at \in [Group!Places -> Rest]
  BY <1>2, <1>3, LoggedBodies
<1>5. ASSUME NEW x \in Group!Places, NEW y \in Group!Places, at[x] = at[y] PROVE x = y
  <2>1. log[x[1]][x[2] + 1] = log[y[1]][y[2] + 1]
    BY <1>5
  <2>2. RouteP!RecordedOnce
    BY DEF RouteHolds
  <2>3. \A z \in Group!Places : log[z[1]][z[2] + 1] \in RouteP!ToSet(log[z[1]])
    BY <1>3, LoggedBodies, LenProperties DEF RouteP!ToSet
  <2>4. x[1] = y[1]
    BY <1>3, <2>1, <2>2, <2>3 DEF RouteP!RecordedOnce
  <2>5. x[2] + 1 = y[2] + 1
    BY <1>3, <2>1, <2>2, <2>4 DEF RouteP!RecordedOnce, RouteP!Distinct
  <2>6. QED
    BY <1>3, <2>4, <2>5
<1> HIDE DEF at
<1>6. at \in Injection(Group!Places, Rest)
  BY <1>4, <1>5 DEF Injection, IsInjective
<1>7. IsFiniteSet(Rest) /\ Cardinality(Rest) = Cardinality(Route!Request) - 1
  BY <1>2, RequestsAreFinite, FS_RemoveElement
<1>8. Cardinality(Group!Places) <= Cardinality(Rest) /\ Cardinality(Group!Places) \in Nat
  BY <1>6, <1>7, FS_Injection, FS_CardinalityType
<1>9. QED
  BY <1>7, <1>8, RequestsAreFinite

-----------------------------------------------------------------------------
(* Every step is a step of the consumer group or leaves it alone. *)

USE DEF Group!vars, Group!broker, Group!replica, Group!history, Group!bounds

StepOfGroup == [Group!Next]_Group!vars

LEMMA SameCardinality == \A S : Group!Cardinality(S) = Cardinality(S)
BY DEF Group!Cardinality, Cardinality

LEMMA DeliverIsProduce ==
  ASSUME RouteHolds, [Next]_vars, NEW s \in Server, NEW p \in Partition, Deliver(s, p)
  PROVE  StepOfGroup
<1>1. Route!Deliver(s, p) /\ UNCHANGED members
  BY DEF Deliver
<1>2. CASE ConsumerTopic = EVENTS_TOPIC
  <2>1. PICK b, rec : b = Route!BodyOf(Head(buffer[s][p])) /\ rec = RecordOf[b]
    OBVIOUS
  <2>2. rec \in Shown /\ Topic' = [Topic EXCEPT ![p] = Append(@, rec)]
    BY <1>1, <1>2, <2>1, TopicGrows
  <2>3. rec # Poison => rec.id \in {e.id : e \in Events} /\ PartitionOf[rec.id] = p
    <3>1. b \in Body /\ (IsEvent(b) => p = PartitionOf[IdOf(b)])
      BY <1>1, <2>1, DeliveredRecord
    <3>2. rec # Poison => IsEvent(b) /\ rec = EventIn(b) /\ rec \in Events
      BY <2>1, <3>1 DEF RecordOf, Events
    <3>3. EventIn(b).id = IdOf(b)
      BY DEF EventIn, Transform
    <3>4. QED
      BY <3>1, <3>2, <3>3
  <2>4. Cardinality(Group!Places) < Cardinality(Route!Request)
    BY <1>1, <1>2, RoomForRecord
  <2>5. Group!Produce(p, rec)
    BY <1>1, <2>2, <2>3, <2>4, SameCardinality DEF Group!Produce, members
  <2>6. QED
    BY <2>2, <2>5 DEF Group!Next, Group!Record, Shown, StepOfGroup
<1>3. CASE ConsumerTopic # EVENTS_TOPIC
  <2>1. UNCHANGED Topic
    BY <1>3 DEF Topic
  <2>2. QED
    BY <1>1, <2>1 DEF members, StepOfGroup
<1>4. QED
  BY <1>2, <1>3

LEMMA GroupStep == RouteHolds /\ [Next]_vars => StepOfGroup
<1> SUFFICES ASSUME RouteHolds, [Next]_vars PROVE StepOfGroup
  OBVIOUS
<1>0. ASSUME UNCHANGED log, UNCHANGED members PROVE StepOfGroup
  BY <1>0, TopicStays DEF members, StepOfGroup
<1>1. ASSUME NEW s \in Server, NEW a \in BOOLEAN, NEW c \in BOOLEAN, Start(s, a, c)
      PROVE  StepOfGroup
  <2>1. CASE \E m \in Modes : Group!Start(s, m)
    BY <2>1 DEF Group!Next, Group!ReplicaStep, StepOfGroup
  <2>2. CASE UNCHANGED members
    BY <1>0, <1>1, <2>2 DEF Start, Route!Start
  <2>3. QED
    BY <1>1, <2>1, <2>2 DEF Start
<1>2. ASSUME NEW s \in Server, BeginFlush(s) \/ Crash(s)
      PROVE  StepOfGroup
  <2>1. CASE \E accepted \in BOOLEAN : Group!Stop(s, accepted)
    BY <2>1 DEF Group!Next, Group!ReplicaStep, StepOfGroup
  <2>2. CASE UNCHANGED members
    BY <1>0, <1>2, <2>2 DEF BeginFlush, Crash, Route!BeginFlush, Route!Crash
  <2>3. QED
    BY <1>2, <2>1, <2>2 DEF BeginFlush, Crash, LeaveGroup
<1>3. ASSUME NEW s \in Server, NEW w \in Webhook, NEW b \in Body, Post(s, w, b)
      PROVE  StepOfGroup
  BY <1>0, <1>3 DEF Post, Route!Post
<1>4. ASSUME NEW s \in Server, NEW p \in Partition, Deliver(s, p)
      PROVE  StepOfGroup
  BY <1>4, DeliverIsProduce
<1>5. ASSUME NEW s \in Server, NEW p \in Partition, Expire(s, p)
      PROVE  StepOfGroup
  BY <1>0, <1>5 DEF Expire, Route!Expire
<1>6. ASSUME NEW s \in Server, Drain(s) \/ Exit(s)
      PROVE  StepOfGroup
  BY <1>0, <1>6 DEF Drain, Exit, Route!Drain, Route!Exit
<1>7. ASSUME NEW w \in Webhook, GiveUp(w)
      PROVE  StepOfGroup
  BY <1>0, <1>7 DEF GiveUp, Route!GiveUp
<1>8. ASSUME NEW q \in Route!Request, Settle(q)
      PROVE  StepOfGroup
  BY <1>0, <1>8 DEF Settle, Route!SendRaises, Route!SendReturns
<1>9. CASE BrokerFails \/ BrokerRecovers
  BY <1>0, <1>9 DEF BrokerFails, BrokerRecovers, Route!BrokerFails, Route!BrokerRecovers
<1>10. ASSUME NEW s \in Server, NEW p \in Partition, ResolvePosition(s, p) \/ Consume(s, p)
       PROVE  StepOfGroup
  BY <1>10 DEF ResolvePosition, Consume, Group!Next, Group!ReplicaStep, StepOfGroup
<1>11. ASSUME NEW s \in Server, NEW accepted \in BOOLEAN, FinishCommit(s, accepted)
       PROVE  StepOfGroup
  BY <1>11 DEF FinishCommit, Group!Next, Group!ReplicaStep, StepOfGroup
<1>12. ASSUME NEW s \in Server, PollFails(s)
       PROVE  StepOfGroup
  BY <1>12 DEF PollFails, Group!Next, Group!ReplicaStep, StepOfGroup
<1>13. ASSUME NEW assignment \in Assignments, Rebalance(assignment)
       PROVE  StepOfGroup
  BY <1>13 DEF Rebalance, Assignments, Group!Next, StepOfGroup
<1>14. CASE UNCHANGED vars
  BY <1>0, <1>14 DEF vars, route
<1> HIDE DEF Route!Request
<1>15. QED
  BY <1>1, <1>2, <1>3, <1>4, <1>5, <1>6, <1>7, <1>8, <1>9, <1>10, <1>11, <1>12, <1>13, <1>14
     DEF Next, ServerStep

LEMMA GroupInitially == Init => Group!Init
BY DEF Init

(* The replicas of the whole are the consumer group ReplayConsumer         *)
(* describes: the route keeps the producer's promise that group relies on, *)
(* that an event stays in the partition of its id, and servers start,      *)
(* stop and die as the group's members do.                                 *)
THEOREM ReplicasAreAGroup == Spec => ImplementsGroup
<1>1. [Next]_vars /\ RouteHolds => [Group!Next]_Group!vars
  BY GroupStep DEF StepOfGroup
<1>2. QED
  BY <1>1, GroupInitially, RouteInvariant, PTL DEF Spec, ImplementsGroup, Group!Spec

-----------------------------------------------------------------------------
(* The group of the proofs is the group of the pipeline. *)

(* The assumptions of ReplayConsumer, in the terms of the instance. *)
LEMMA GroupAssumptions ==
  /\ Events \subseteq
       [id : {e.id : e \in Events}, project : {e.project : e \in Events}, at : Nat]
  /\ MaxEntries \in Nat
  /\ [id \in {e.id : e \in Events} |-> PartitionOf[id]]
       \in [{e.id : e \in Events} -> Partition]
  /\ Poison \notin Events
  /\ Modes \subseteq {"earliest", "latest"}
  /\ /\ Cardinality(Route!Request) \in Nat /\ MaxDeaths \in Nat
     /\ MaxRebalances \in Nat /\ MaxPollErrors \in Nat
<1>1. ASSUME NEW e \in Events
      PROVE  /\ e = [id |-> e.id, project |-> e.project, at |-> e.at]
             /\ e.at \in Nat /\ PartitionOf[e.id] \in Partition
  <2>1. PICK b \in Body : IsEvent(b) /\ e = EventIn(b)
    BY DEF Events
  <2>2. e = [id |-> IdOf(b), project |-> ProjectOf(b), at |-> Rank[TimeOf(b)]]
    BY <2>1 DEF EventIn, Transform
  <2>3. PartitionOf[IdOf(b)] \in Partition
    BY <2>1, EventsHaveKeys, RouteAssumption
  <2>4. QED
    BY <2>1, <2>2, <2>3, RankAssumption
<1>2. Events \subseteq
        [id : {e.id : e \in Events}, project : {e.project : e \in Events}, at : Nat]
  BY <1>1
<1>3. [id \in {e.id : e \in Events} |-> PartitionOf[id]]
        \in [{e.id : e \in Events} -> Partition]
  BY <1>1
<1>4. QED
  BY <1>2, <1>3, MembersAssumption, PoisonAssumption, BoundAssumption, RequestsAreFinite

LEMMA SameCaches ==
  /\ \A c, e : Group!PutEvent(c, e) = GroupP!PutEvent(c, e)
  /\ Group!EmptyCache = GroupP!EmptyCache
<1>1. \A q, x : Group!RemoveFirst(q, x) = GroupP!RemoveFirst(q, x)
  BY DEF Group!RemoveFirst, GroupP!RemoveFirst, Group!SelectInSeq, GroupP!SelectInSeq,
     Group!RemoveAt, GroupP!RemoveAt, Group!Min, GroupP!Min
<1>2. \A c, e : Group!Touch(c, e) = GroupP!Touch(c, e)
  BY DEF Group!Touch, GroupP!Touch, Group!PositionOf, GroupP!PositionOf,
         Group!RemoveAt, GroupP!RemoveAt
<1>3. \A c, e : Group!Insert(c, e) = GroupP!Insert(c, e)
  BY DEF Group!Insert, GroupP!Insert, Group!ListOf, GroupP!ListOf, Group!SetList,
         GroupP!SetList
<1>4. \A c : Group!EvictOverCap(c) = GroupP!EvictOverCap(c)
  BY <1>1
     DEF Group!EvictOverCap, GroupP!EvictOverCap, Group!EvictOldest,
         GroupP!EvictOldest, Group!ListOf, GroupP!ListOf, Group!SetList,
         GroupP!SetList
<1>5. QED
  BY <1>2, <1>3, <1>4
     DEF Group!PutEvent, GroupP!PutEvent, Group!EmptyCache, GroupP!EmptyCache,
         Group!StoredIds, GroupP!StoredIds

USE DEF GroupP!vars, GroupP!broker, GroupP!replica, GroupP!history, GroupP!bounds,
        Group!NoOffset, GroupP!NoOffset, Group!NoOffsets, GroupP!NoOffsets,
        Group!Nobody, GroupP!Nobody, Group!End, GroupP!End

LEMMA SameProduce == \A p, rec : Group!Produce(p, rec) <=> GroupP!Produce(p, rec)
BY DEF Group!Produce, GroupP!Produce, Group!Places, GroupP!Places,
       Group!OffsetsBelow, GroupP!OffsetsBelow, Group!Cardinality, GroupP!Cardinality

LEMMA SameMembers ==
  /\ \A assignment : Group!Rebalance(assignment) <=> GroupP!Rebalance(assignment)
  /\ \A r, m : Group!Start(r, m) <=> GroupP!Start(r, m)
  /\ \A r, accepted : Group!FinishCommit(r, accepted) <=> GroupP!FinishCommit(r, accepted)
  /\ \A r, accepted : Group!Stop(r, accepted) <=> GroupP!Stop(r, accepted)
  /\ \A r : Group!PollFails(r) <=> GroupP!PollFails(r)
BY SameCaches
   DEF Group!Rebalance, GroupP!Rebalance, Group!Start, GroupP!Start,
       Group!FinishCommit, GroupP!FinishCommit, Group!Stop, GroupP!Stop,
       Group!PollFails, GroupP!PollFails, Group!Up, GroupP!Up,
       Group!Orphaned, GroupP!Orphaned, Group!AfterCommit, GroupP!AfterCommit

LEMMA SameReading ==
  /\ \A r, p : Group!ResolvePosition(r, p) <=> GroupP!ResolvePosition(r, p)
  /\ \A r, p : Group!Consume(r, p) <=> GroupP!Consume(r, p)
BY SameCaches
   DEF Group!ResolvePosition, GroupP!ResolvePosition, Group!Consume, GroupP!Consume,
       Group!Up, GroupP!Up, Group!OffsetsBelow, GroupP!OffsetsBelow,
       Group!HandledBySome, GroupP!HandledBySome

LEMMA SameNext == Group!Next => GroupP!Next
BY SameProduce, SameMembers, SameReading
   DEF Group!Next, GroupP!Next, Group!ReplicaStep, GroupP!ReplicaStep,
       Group!Record, GroupP!Record

LEMMA SameGroup == Group!Spec => GroupP!Spec
<1>1. Group!Init => GroupP!Init
  BY SameCaches DEF Group!Init, GroupP!Init
<1>2. [Group!Next]_Group!vars => [GroupP!Next]_GroupP!vars
  BY SameNext
<1>3. QED
  BY <1>1, <1>2, PTL DEF Group!Spec, GroupP!Spec

\* What is proved of the group and used here.
GroupHolds == GroupP!GroupInv /\ GroupP!CachesInv

LEMMA GroupInvariant == Spec => []GroupHolds
<1>1. GroupP!Spec => []GroupP!GroupInv
  BY GroupAssumptions, GroupP!GroupInvariant
<1>2. GroupP!Spec => []GroupP!CachesInv
  BY GroupAssumptions, GroupP!CachesInvariant
<1>3. GroupP!GroupInv /\ GroupP!CachesInv => GroupHolds
  BY DEF GroupHolds
<1>4. Spec => Group!Spec
  BY ReplicasAreAGroup DEF ImplementsGroup
<1>5. QED
  BY <1>1, <1>2, <1>3, <1>4, SameGroup, PTL

-----------------------------------------------------------------------------
(* From a cache back to a signed body. *)

\* x is what a signed body in the topic says.
WasSent(x) ==
  \E q \in Route!Logged : Authentic(Route!BodyOf(q)) /\ x = RecordOf[Route!BodyOf(q)]

LEMMA LoggedStays ==
  ASSUME RouteHolds, [Next]_vars, NEW q, q \in Route!Logged
  PROVE  q \in Route!Logged'
<1>1. PICK p \in Partition : q \in ToSet(log[p])
  BY SamePayload DEF Route!Logged
<1>2. CASE log' = log
  BY <1>1, <1>2, SamePayload DEF Route!Logged
<1>3. ASSUME NEW s \in Server, NEW r \in Partition, Deliver(s, r)
      PROVE  q \in Route!Logged'
  <2>1. PICK v : v = Head(buffer[s][r])
    OBVIOUS
  <2>2. v \in Route!Request /\ log' = [log EXCEPT ![r] = Append(@, v)]
    BY <1>3, <2>1, DeliveredRecord DEF Deliver
  <2>3. log[r] \in Seq(Route!Request)
    BY LoggedBodies
  <2>4. ToSet(Append(log[r], v)) = ToSet(log[r]) \union {v}
    BY <2>2, <2>3, RouteAssumptions, RouteP!AppendToSet, SamePayload
  <2>5. log \in [Partition -> Seq(Route!Request)]
    BY DEF RouteHolds, RouteP!RouteInv, RouteP!TypeOK
  <2>6. q \in ToSet(log'[p])
    BY <1>1, <2>2, <2>4, <2>5
  <2>7. QED
    BY <2>6, SamePayload DEF Route!Logged
<1>4. log' = log \/ \E s \in Server, r \in Partition : Deliver(s, r)
  BY DEF Next, vars, route, ServerStep, Start, Drain, BeginFlush, Exit, Crash, Post,
         Expire, ResolvePosition, Consume, FinishCommit, PollFails, GiveUp, Settle,
         Rebalance, BrokerFails, BrokerRecovers, Route!Start, Route!Drain,
         Route!BeginFlush, Route!Exit, Route!Crash, Route!Post, Route!Expire,
         Route!GiveUp, Route!SendRaises, Route!SendReturns, Route!BrokerFails,
         Route!BrokerRecovers
<1>5. QED
  BY <1>2, <1>3, <1>4

LEMMA WasSentStays ==
  ASSUME RouteHolds, [Next]_vars, NEW x, WasSent(x)
  PROVE  WasSent(x)'
<1>1. PICK q \in Route!Logged : Authentic(Route!BodyOf(q)) /\ x = RecordOf[Route!BodyOf(q)]
  BY DEF WasSent
<1>2. PICK p \in Partition : q \in ToSet(log[p])
  BY SamePayload DEF Route!Logged
<1>3. q[1] \in Webhook /\ body[q[1]] \in Body
  <2>1. PICK i \in 1..Len(log[p]) : q = log[p][i]
    BY <1>2, LoggedBodies, LenProperties DEF ToSet
  <2>2. QED
    BY <2>1, LoggedBodies
<1>4. RouteP!TypeOK /\ [RouteP!Next]_RouteP!vars
  BY RouteStep DEF RouteHolds, RouteP!RouteInv, StepOfRoute
<1>5. body'[q[1]] = body[q[1]]
  BY <1>3, <1>4, RouteAssumptions, RouteP!BodiesStay
<1>6. q \in Route!Logged'
  BY <1>1, LoggedStays
<1>7. QED
  BY <1>1, <1>5, <1>6 DEF WasSent

(* A step puts at most one event into one cache, one that is in the topic. *)
LEMMA CacheCases ==
  ASSUME RouteHolds, GroupHolds, [Next]_vars
  PROVE  \/ UNCHANGED cache
         \/ \E s \in Server : cache' = [cache EXCEPT ![s] = GroupP!EmptyCache]
         \/ \E s \in Server, e \in Events :
              WasSent(e) /\ cache' = [cache EXCEPT ![s] = GroupP!PutEvent(@, e)]
<1> DEFINE Cases ==
         \/ UNCHANGED cache
         \/ \E s \in Server : cache' = [cache EXCEPT ![s] = GroupP!EmptyCache]
         \/ \E s \in Server, e \in Events :
              WasSent(e) /\ cache' = [cache EXCEPT ![s] = GroupP!PutEvent(@, e)]
<1>1. ASSUME NEW s \in Server, NEW p \in Partition, GroupP!Consume(s, p) PROVE Cases
  <2> DEFINE rec == Topic[p][position[p] + 1]
  <2>1. \/ UNCHANGED cache
        \/ rec # Poison /\ cache' = [cache EXCEPT ![s] = GroupP!PutEvent(@, rec)]
    BY <1>1, GroupAssumptions, GroupP!ConsumeCases
  <2>2. Topic[p] \in Seq(Shown) /\ position[p] + 1 \in 1..Len(Topic[p])
    <3>1. position[p] \in Nat \union {-1} /\ position[p] # -1 /\ position[p] < Len(Topic[p])
      BY <1>1
         DEF GroupHolds, GroupP!GroupInv, GroupP!Types, GroupP!Offset,
             GroupP!Consume
    <3>2. Topic[p] \in Seq(Shown) /\ Len(Topic[p]) \in Nat
      BY TopicType, LenProperties
    <3>3. QED
      BY <3>1, <3>2
  <2>3. ConsumerTopic = EVENTS_TOPIC
    BY <2>2, TopicType, EmptySeq
  <2>4. /\ position[p] + 1 \in 1..Len(log[p])
        /\ rec = RecordOf[Route!BodyOf(log[p][position[p] + 1])]
    BY <2>2, <2>3, TopicType
  <2>5. /\ log[p][position[p] + 1] \in Route!Logged
        /\ Authentic(Route!BodyOf(log[p][position[p] + 1]))
    BY <2>4, LoggedBodies, LenProperties, SamePayload DEF Route!Logged, ToSet
  <2>6. rec \in Shown /\ WasSent(rec)
    BY <2>2, <2>4, <2>5, ElementOfSeq DEF WasSent
  <2> HIDE DEF rec
  <2>7. QED
    BY <2>1, <2>6 DEF Shown
<1>2. ASSUME NEW s \in Server, NEW accepted \in BOOLEAN, GroupP!Stop(s, accepted) PROVE Cases
  BY <1>2 DEF GroupP!Stop
<1> HIDE DEF Cases
<1>3. GroupP!Next \/ UNCHANGED cache
  BY GroupStep, SameNext DEF StepOfGroup
<1>4. Cases
  BY <1>1, <1>2, <1>3
     DEF Cases, GroupP!Next, GroupP!ReplicaStep, GroupP!Produce, GroupP!Rebalance,
         GroupP!Start, GroupP!ResolvePosition, GroupP!FinishCommit, GroupP!PollFails
<1>5. QED
  BY <1>4 DEF Cases

LEMMA CachedStep == RouteHolds /\ GroupHolds /\ CachedWasSigned /\ [Next]_vars => CachedWasSigned'
<1> SUFFICES ASSUME RouteHolds, GroupHolds, CachedWasSigned, [Next]_vars,
                    NEW s \in Server, NEW i \in 1..Len(cache'[s].store),
                    NEW x, x = cache'[s].store[i]
             PROVE  WasSent(x)'
  BY DEF CachedWasSigned, WasSent
<1>1. \A j \in 1..Len(cache[s].store) : WasSent(cache[s].store[j])
  BY DEF CachedWasSigned, WasSent
<1>2. cache = [r \in Server |-> cache[r]] /\ GroupP!IsCache(cache[s]) /\ GroupP!IsBounded(cache[s])
  BY DEF GroupHolds, GroupP!CachesInv
<1>3. WasSent(x)
  <2>1. CASE cache'[s] = cache[s]
    BY <1>1, <2>1
  <2>2. CASE cache'[s] = GroupP!EmptyCache
    BY <2>2, EmptySeq DEF GroupP!EmptyCache
  <2>3. ASSUME NEW e \in Events, WasSent(e), cache'[s] = GroupP!PutEvent(cache[s], e)
        PROVE  WasSent(x)
    <3>1. GroupP!Occurs(GroupP!PutEvent(cache[s], e).store, x)
      BY <2>3 DEF GroupP!Occurs
    <3>2. x = e \/ GroupP!Occurs(cache[s].store, x)
      BY <1>2, <3>1, GroupAssumptions, GroupP!PutElements
    <3>3. QED
      BY <1>1, <2>3, <3>2 DEF GroupP!Occurs
  <2>4. QED
    BY <1>2, <2>1, <2>2, <2>3, CacheCases
<1>4. QED
  BY <1>3, WasSentStays

(* Whatever a replica holds in its cache is what a signed body says that   *)
(* went through some server's route, whatever is posted again, delivered   *)
(* again, or read again after a crash.                                     *)
THEOREM CachedEventsWereSigned == Spec => []CachedWasSigned
<1>1. Init => CachedWasSigned
  BY EmptySeq DEF Init, Group!Init, Group!EmptyCache, CachedWasSigned
<1>2. QED
  BY <1>1, CachedStep, RouteInvariant, GroupInvariant, PTL DEF Spec

(* The promises of the parts hold of the whole: what OpenProject was told  *)
(* is accepted is in the topic or in a buffer unless a crash or an outage  *)
(* took it, what it was refused is in neither, the group commits nothing   *)
(* it has not dealt with and takes no commit back, and a replica that has  *)
(* caught up shows the newest versions it was not spared.                  *)
THEOREM PromisesHold ==
  Spec => /\ [](RouteP!AcceptedKept /\ RouteP!RefusalLeavesNothing)
          /\ [](GroupP!CommitCovered /\ GroupP!StaleOnlyIfMoved)
          /\ GroupP!CommittedMonotone
<1>1. RouteP!Spec => []RouteP!AcceptedKept
  BY RouteAssumptions, RouteP!AcceptedIsKept
<1>2. RouteP!Spec => []RouteP!RefusalLeavesNothing
  BY RouteAssumptions, RouteP!RefusalsLeaveNothing
<1>3. GroupP!Spec => []GroupP!CommitCovered
  BY GroupAssumptions, GroupP!CommitsAreCovered
<1>4. GroupP!Spec => []GroupP!StaleOnlyIfMoved
  BY GroupAssumptions, GroupP!NewestIsShown
<1>5. GroupP!Spec => GroupP!CommittedMonotone
  BY GroupAssumptions, GroupP!CommitsNeverRegress
<1>6. Spec => Group!Spec
  BY ReplicasAreAGroup DEF ImplementsGroup
<1>7. QED
  BY <1>1, <1>2, <1>3, <1>4, <1>5, <1>6, ServersRunTheRoute, SameGroup, PTL

(* If whatever the bodies name keeps its project, the caches of all        *)
(* servers stay within their capacity and exactly indexed, whatever is     *)
(* posted, delivered and read again.                                       *)
THEOREM CachesStaySound ==
  ASSUME GroupP!StableProject
  PROVE  Spec => []GroupP!CachesSound
<1>1. GroupP!Spec => []GroupP!CachesSound
  BY GroupAssumptions, GroupP!CachesStaySound
<1>2. Spec => Group!Spec
  BY ReplicasAreAGroup DEF ImplementsGroup
<1>3. QED
  BY <1>1, <1>2, SameGroup, PTL
=============================================================================
