------------------------- MODULE ReplayConsumerProofs -------------------------
(***************************************************************************)
(* Proofs about ReplayConsumer, for every number of replicas, partitions   *)
(* and records, and whatever the bounds.                                   *)
(***************************************************************************)
EXTENDS ReplayConsumer, CacheOpsProofs

-----------------------------------------------------------------------------
(* The inductive invariant. *)

\* Given what was handled and missed, the first n records of p are accounted for.
CoveredBy(h, m, p, n) ==
  \A o \in 0..(n - 1) : <<p, o>> \in m \/ \E r \in Replica : <<r, p, o>> \in h

Covered(p, n) == CoveredBy(handled, missed, p, n)

\* Positions, committed offsets and requests only cover what was dealt with.
AllCovered ==
  \A p \in Partition :
     /\ Covered(p, committed[p])
     /\ Covered(p, position[p])
     /\ \A r \in Replica : Covered(p, request[r][p])

\* Without a commit under way a replica carries no offsets.
NoStrayRequest ==
  \A r \in Replica : task[r] # "committing" => request[r] = NoOffsets

(* What a commit still carries is where the client now is, unless a        *)
(* rebalance has fenced the commit: this is what keeps an old commit from  *)
(* taking the group back.                                                  *)
RequestCurrent ==
  \A r \in Replica, p \in Partition :
     task[r] = "committing" /\ ~fenced[r] /\ request[r][p] # NoOffset =>
       owner[p] = r /\ position[p] = request[r][p]

\* The types of the variables that are no caches.
Types ==
  /\ log \in [Partition -> Seq(Record)]
  /\ committed \in [Partition -> Offset]
  /\ owner \in [Partition -> Replica \union {Nobody}]
  /\ task \in [Replica -> {"down", "polling", "committing", "dead"}]
  /\ mode \in [Replica -> {"earliest", "latest"}]
  /\ position \in [Partition -> Offset]
  /\ request \in [Replica -> [Partition -> Offset]]
  /\ fenced \in [Replica -> BOOLEAN]
  /\ handled \subseteq Replica \X Partition \X Nat
  /\ missed \subseteq Partition \X Nat

GroupInv ==
  /\ Types
  /\ AllCovered
  /\ NoStrayRequest
  /\ RequestCurrent
  /\ PositionNotBehindCommit

-----------------------------------------------------------------------------
(* The two ways a record is dealt with: skipped, or put and committed. *)
LEMMA ConsumeCases ==
  ASSUME NEW r \in Replica, NEW p \in Partition, Consume(r, p)
  PROVE  LET rec == log[p][position[p] + 1]
             reached == [position EXCEPT ![p] = @ + 1]
         IN  /\ position' = reached
             /\ \/ rec = Poison /\ UNCHANGED << task, request, cache >>
                \/ /\ rec # Poison
                   /\ cache' = [cache EXCEPT ![r] = PutEvent(@, rec)]
                   /\ task' = [task EXCEPT ![r] = "committing"]
                   /\ request' = [request EXCEPT ![r] =
                        [q \in Partition |-> IF owner[q] = r THEN reached[q] ELSE NoOffset]]
BY Zenon DEF Consume

(* What a turn of the loop does to the requests: the replica that puts an  *)
(* event asks for the new positions of its partitions.                     *)
LEMMA ConsumeRequest ==
  ASSUME Types, NEW r \in Replica, NEW p \in Partition, Consume(r, p),
         NEW s \in Replica, NEW q \in Partition
  PROVE  /\ s # r => request'[s] = request[s] /\ task'[s] = task[s]
         /\ q # p => position'[q] = position[q]
         /\ \/ request'[s][q] = request[s][q] /\ task'[s] = task[s]
            \/ /\ s = r /\ task'[s] = "committing"
               /\ request'[s][q] = IF owner[q] = r THEN position'[q] ELSE NoOffset
<1> DEFINE reached == [position EXCEPT ![p] = @ + 1]
           asked == [x \in Partition |-> IF owner[x] = r THEN reached[x] ELSE NoOffset]
<1>1. /\ position' = reached
      /\ \/ UNCHANGED << task, request >>
         \/ /\ task' = [task EXCEPT ![r] = "committing"]
            /\ request' = [request EXCEPT ![r] = asked]
  BY ConsumeCases
<1>2. asked[q] = IF owner[q] = r THEN position'[q] ELSE NoOffset
  BY <1>1
<1>3. q # p => position'[q] = position[q]
  BY <1>1 DEF Types
<1> HIDE DEF asked, reached
<1>4. QED
  BY <1>1, <1>2, <1>3 DEF Types

LEMMA NoOffsetsType == NoOffsets \in [Partition -> Offset] /\ \A p \in Partition : NoOffsets[p] = NoOffset
BY DEF NoOffsets, Offset

LEMMA EndType == Types => \A p \in Partition : End(p) \in Nat
BY LenProperties DEF Types, End

LEMMA AfterCommitType ==
  ASSUME Types, NEW r \in Replica, NEW accepted \in BOOLEAN
  PROVE  /\ AfterCommit(r, accepted) \in [Partition -> Offset]
         /\ \A p \in Partition : AfterCommit(r, accepted)[p] = committed[p]
                                  \/ AfterCommit(r, accepted)[p] = request[r][p]
         /\ \A p \in Partition : AfterCommit(r, accepted)[p] # committed[p] =>
                                   accepted /\ request[r][p] # NoOffset
                                   /\ AfterCommit(r, accepted)[p] = request[r][p]
BY DEF Types, AfterCommit

(* Every step keeps the types of the broker's, the clients' and the loops' *)
(* variables.                                                              *)
LEMMA TypesStep == Types /\ [Next]_vars => Types'
<1> SUFFICES ASSUME Types, [Next]_vars PROVE Types'
  OBVIOUS
<1> USE DEF Types
<1>1. ASSUME NEW p \in Partition, NEW rec \in Record, Produce(p, rec)
      PROVE  Types'
  <2>1. Append(log[p], rec) \in Seq(Record)
    BY AppendProperties
  <2>2. QED
    BY <1>1, <2>1 DEF Produce, replica, history
<1>2. ASSUME NEW assignment \in [Partition -> Replica], Rebalance(assignment)
      PROVE  Types'
  BY <1>2, NoOffsetsType DEF Rebalance, history
<1>3. ASSUME NEW r \in Replica, NEW m \in Modes, Start(r, m)
      PROVE  Types'
  BY <1>3, ModeAssumption DEF Start, broker, history
<1>4. ASSUME NEW r \in Replica, NEW p \in Partition, ResolvePosition(r, p)
      PROVE  Types'
  <2>1. position' \in [Partition -> Offset]
    BY <1>4, EndType DEF ResolvePosition, Offset
  <2>2. missed' \subseteq Partition \X Nat
    BY <1>4, EndType DEF ResolvePosition, OffsetsBelow
  <2>3. QED
    BY <1>4, <2>1, <2>2 DEF ResolvePosition, broker, replica
<1>5. ASSUME NEW r \in Replica, NEW p \in Partition, Consume(r, p)
      PROVE  Types'
  <2>1. position[p] \in Nat /\ position' = [position EXCEPT ![p] = @ + 1]
    <3>1. position[p] \in Nat
      BY <1>5 DEF Consume, Offset
    <3>2. QED
      BY <1>5, <3>1, ConsumeCases
  <2>2. position' \in [Partition -> Offset]
    BY <2>1 DEF Offset
  <2>3. task' \in [Replica -> {"down", "polling", "committing", "dead"}]
    BY <1>5, ConsumeCases
  <2>4. request' \in [Replica -> [Partition -> Offset]]
    <3> DEFINE reached == [position EXCEPT ![p] = @ + 1]
               q1 == [q \in Partition |-> IF owner[q] = r THEN reached[q] ELSE NoOffset]
    <3>1. reached \in [Partition -> Offset]
      BY <2>1 DEF Offset
    <3>2. q1 \in [Partition -> Offset]
      BY <3>1 DEF Offset
    <3>3. request' = request \/ request' = [request EXCEPT ![r] = q1]
      BY <1>5, ConsumeCases
    <3> HIDE DEF q1
    <3>4. QED
      BY <3>2, <3>3
  <2>5. handled' \subseteq Replica \X Partition \X Nat /\ missed' \subseteq Partition \X Nat
    BY <1>5, <2>1 DEF Consume
  <2>6. QED
    BY <1>5, <2>2, <2>3, <2>4, <2>5 DEF Consume, broker
<1>6. ASSUME NEW r \in Replica, NEW accepted \in BOOLEAN, FinishCommit(r, accepted)
      PROVE  Types'
  BY <1>6, AfterCommitType, NoOffsetsType DEF FinishCommit, history
<1>7. ASSUME NEW r \in Replica, NEW accepted \in BOOLEAN, Stop(r, accepted)
      PROVE  Types'
  BY <1>7, AfterCommitType, NoOffsetsType DEF Stop, history, Offset
<1>8. ASSUME NEW r \in Replica, PollFails(r)
      PROVE  Types'
  BY <1>8 DEF PollFails, broker, history
<1>9. CASE UNCHANGED vars
  BY <1>9 DEF vars, broker, replica, history
<1>10. QED
  BY <1>1, <1>2, <1>3, <1>4, <1>5, <1>6, <1>7, <1>8, <1>9 DEF Next, ReplicaStep

(* Nothing that was dealt with is forgotten, and what leaves `missed` has  *)
(* been handled: coverage of a prefix is kept by every step.               *)
LEMMA CoverageKept ==
  ASSUME Types, [Next]_vars, NEW p \in Partition, NEW n,
         CoveredBy(handled, missed, p, n)
  PROVE  CoveredBy(handled', missed', p, n)
<1>1. SUFFICES ASSUME NEW o \in 0..(n - 1)
               PROVE  <<p, o>> \in missed' \/ \E r \in Replica : <<r, p, o>> \in handled'
  BY DEF CoveredBy
<1>2. <<p, o>> \in missed \/ \E r \in Replica : <<r, p, o>> \in handled
  BY DEF CoveredBy
<1>3. handled \subseteq handled'
  BY DEF Next, ReplicaStep, Produce, Rebalance, Start, ResolvePosition, Consume,
         FinishCommit, Stop, PollFails, vars, history
<1>4. ASSUME <<p, o>> \in missed, <<p, o>> \notin missed'
      PROVE  \E r \in Replica : <<r, p, o>> \in handled'
  <2>1. ASSUME NEW r \in Replica, NEW q \in Partition, Consume(r, q)
        PROVE  <<r, p, o>> \in handled'
    <3>1. <<p, o>> = <<q, position[q]>>
      BY <1>4, <2>1 DEF Consume
    <3>2. QED
      BY <2>1, <3>1 DEF Consume
  <2>2. QED
    BY <1>4, <2>1 DEF Next, ReplicaStep, Produce, Rebalance, Start, ResolvePosition,
       FinishCommit, Stop, PollFails, vars, history
<1>5. QED
  BY <1>2, <1>3, <1>4

LEMMA NothingToCover ==
  ASSUME NEW h, NEW m, NEW p
  PROVE  CoveredBy(h, m, p, NoOffset) /\ CoveredBy(h, m, p, 0)
BY DEF CoveredBy, NoOffset

(* What a step does to the offsets kept for a partition: each is left      *)
(* alone, dropped, copied from another offset already covered, or the new  *)
(* position of a step that accounts for all below it.                      *)
NewlyCovered(n, p) == CoveredBy(handled', missed', p, n)

LEMMA ResolveCovers ==
  ASSUME Types, AllCovered, NEW r \in Replica, NEW p \in Partition,
         ResolvePosition(r, p), [Next]_vars
  PROVE  NewlyCovered(position'[p], p)
<1>1. CASE committed[p] # NoOffset
  <2>1. position'[p] = committed[p]
    BY <1>1 DEF ResolvePosition, Types
  <2>2. QED
    BY <2>1, CoverageKept DEF AllCovered, Covered, NewlyCovered
<1>2. CASE committed[p] = NoOffset /\ mode[r] = "earliest"
  <2>1. position'[p] = 0
    BY <1>2 DEF ResolvePosition, Types
  <2>2. QED
    BY <2>1, NothingToCover DEF NewlyCovered
<1>3. CASE committed[p] = NoOffset /\ mode[r] # "earliest"
  <2>1. position'[p] = End(p) /\ mode[r] = "latest"
    BY <1>3 DEF ResolvePosition, Types
  <2>2. OffsetsBelow(p, End(p)) \subseteq missed'
    BY <1>3, <2>1 DEF ResolvePosition
  <2>3. ASSUME NEW o \in 0..(End(p) - 1)
        PROVE  <<p, o>> \in missed' \/ \E s \in Replica : <<s, p, o>> \in handled'
    <3>1. <<p, o>> \in OffsetsBelow(p, End(p))
      BY DEF OffsetsBelow
    <3>2. QED
      BY <2>2, <3>1
  <2>4. QED
    BY <2>1, <2>3 DEF NewlyCovered, CoveredBy
<1>4. QED
  BY <1>1, <1>2, <1>3

LEMMA ConsumeCovers ==
  ASSUME Types, AllCovered, NEW r \in Replica, NEW p \in Partition,
         Consume(r, p), [Next]_vars
  PROVE  NewlyCovered(position'[p], p)
<1>1. position[p] \in Nat
  BY DEF Consume, Types, Offset
<1>2. position'[p] = position[p] + 1
  BY <1>1, ConsumeCases DEF Types
<1>3. CoveredBy(handled', missed', p, position[p])
  BY CoverageKept DEF AllCovered, Covered
<1>4. <<r, p, position[p]>> \in handled'
  BY DEF Consume
<1>5. ASSUME NEW o \in 0..position[p]
      PROVE  <<p, o>> \in missed' \/ \E s \in Replica : <<s, p, o>> \in handled'
  <2>1. CASE o = position[p]
    BY <1>4, <2>1
  <2>2. CASE o # position[p]
    <3>1. o \in 0..(position[p] - 1)
      BY <1>1, <2>2
    <3>2. QED
      BY <1>3, <3>1 DEF CoveredBy
  <2>3. QED
    BY <2>1, <2>2
<1>6. 0..(position'[p] - 1) = 0..position[p]
  BY <1>1, <1>2
<1>7. QED
  BY <1>5, <1>6 DEF NewlyCovered, CoveredBy

LEMMA AllCoveredStep ==
  ASSUME Types, AllCovered, [Next]_vars
  PROVE  AllCovered'
<1>1. SUFFICES ASSUME NEW p \in Partition
               PROVE  /\ NewlyCovered(committed'[p], p)
                      /\ NewlyCovered(position'[p], p)
                      /\ \A s \in Replica : NewlyCovered(request'[s][p], p)
  BY DEF AllCovered, Covered, NewlyCovered
<1>2. /\ NewlyCovered(committed[p], p)
      /\ NewlyCovered(position[p], p)
      /\ \A s \in Replica : NewlyCovered(request[s][p], p)
  BY CoverageKept DEF AllCovered, Covered, NewlyCovered
<1>3. NewlyCovered(NoOffset, p) /\ NoOffsets[p] = NoOffset
  BY NothingToCover, NoOffsetsType DEF NewlyCovered
<1> USE DEF Types
<1>4. ASSUME NEW q \in Partition, NEW rec \in Record, Produce(q, rec)
      PROVE  /\ NewlyCovered(committed'[p], p) /\ NewlyCovered(position'[p], p)
             /\ \A s \in Replica : NewlyCovered(request'[s][p], p)
  BY <1>2, <1>4 DEF Produce, replica
<1>5. ASSUME NEW assignment \in [Partition -> Replica], Rebalance(assignment)
      PROVE  /\ NewlyCovered(committed'[p], p) /\ NewlyCovered(position'[p], p)
             /\ \A s \in Replica : NewlyCovered(request'[s][p], p)
  BY <1>2, <1>3, <1>5 DEF Rebalance
<1>6. ASSUME NEW r \in Replica, NEW m \in Modes, Start(r, m)
      PROVE  /\ NewlyCovered(committed'[p], p) /\ NewlyCovered(position'[p], p)
             /\ \A s \in Replica : NewlyCovered(request'[s][p], p)
  BY <1>2, <1>6 DEF Start, broker
<1>7. ASSUME NEW r \in Replica, NEW q \in Partition, ResolvePosition(r, q)
      PROVE  /\ NewlyCovered(committed'[p], p) /\ NewlyCovered(position'[p], p)
             /\ \A s \in Replica : NewlyCovered(request'[s][p], p)
  <2>1. UNCHANGED << committed, request >>
    BY <1>7 DEF ResolvePosition, broker, replica
  <2>2. NewlyCovered(position'[p], p)
    <3>1. CASE p = q
      BY <1>7, <3>1, ResolveCovers
    <3>2. CASE p # q
      <4>1. position'[p] = position[p]
        BY <1>7, <3>2 DEF ResolvePosition
      <4>2. QED
        BY <1>2, <4>1
    <3>3. QED
      BY <3>1, <3>2
  <2>3. QED
    BY <1>2, <2>1, <2>2
<1>8. ASSUME NEW r \in Replica, NEW q \in Partition, Consume(r, q)
      PROVE  /\ NewlyCovered(committed'[p], p) /\ NewlyCovered(position'[p], p)
             /\ \A s \in Replica : NewlyCovered(request'[s][p], p)
  <2>1. UNCHANGED committed
    BY <1>8 DEF Consume, broker
  <2>2. NewlyCovered(position'[p], p)
    <3>1. CASE p = q
      BY <1>8, <3>1, ConsumeCovers
    <3>2. CASE p # q
      <4>1. position'[p] = position[p]
        BY <1>8, <3>2, ConsumeCases
      <4>2. QED
        BY <1>2, <4>1
    <3>3. QED
      BY <3>1, <3>2
  <2>3. ASSUME NEW s \in Replica
        PROVE  \/ request'[s][p] = request[s][p]
               \/ request'[s][p] = position'[p]
               \/ request'[s][p] = NoOffset
    BY <1>8, ConsumeRequest
  <2>4. QED
    BY <1>2, <1>3, <2>1, <2>2, <2>3
<1>9. ASSUME NEW r \in Replica, NEW accepted \in BOOLEAN, FinishCommit(r, accepted)
      PROVE  /\ NewlyCovered(committed'[p], p) /\ NewlyCovered(position'[p], p)
             /\ \A s \in Replica : NewlyCovered(request'[s][p], p)
  <2>1. committed' = AfterCommit(r, accepted) /\ UNCHANGED position
        /\ request' = [request EXCEPT ![r] = NoOffsets]
    BY <1>9 DEF FinishCommit
  <2>2. committed'[p] = committed[p] \/ committed'[p] = request[r][p]
    BY <2>1, AfterCommitType
  <2>3. \A s \in Replica : request'[s][p] = request[s][p] \/ request'[s][p] = NoOffset
    BY <1>3, <2>1
  <2>4. QED
    BY <1>2, <1>3, <2>1, <2>2, <2>3
<1>10. ASSUME NEW r \in Replica, NEW accepted \in BOOLEAN, Stop(r, accepted)
       PROVE  /\ NewlyCovered(committed'[p], p) /\ NewlyCovered(position'[p], p)
              /\ \A s \in Replica : NewlyCovered(request'[s][p], p)
  <2>1. committed' = AfterCommit(r, accepted)
        /\ request' = [request EXCEPT ![r] = NoOffsets]
        /\ (position'[p] = position[p] \/ position'[p] = NoOffset)
    BY <1>10 DEF Stop
  <2>2. committed'[p] = committed[p] \/ committed'[p] = request[r][p]
    BY <2>1, AfterCommitType
  <2>3. \A s \in Replica : request'[s][p] = request[s][p] \/ request'[s][p] = NoOffset
    BY <1>3, <2>1
  <2>4. QED
    BY <1>2, <1>3, <2>1, <2>2, <2>3
<1>11. ASSUME NEW r \in Replica, PollFails(r)
       PROVE  /\ NewlyCovered(committed'[p], p) /\ NewlyCovered(position'[p], p)
              /\ \A s \in Replica : NewlyCovered(request'[s][p], p)
  BY <1>2, <1>11 DEF PollFails, broker
<1>12. CASE UNCHANGED vars
  BY <1>2, <1>12 DEF vars, broker, replica
<1>13. QED
  BY <1>4, <1>5, <1>6, <1>7, <1>8, <1>9, <1>10, <1>11, <1>12 DEF Next, ReplicaStep

-----------------------------------------------------------------------------
(* The fencing argument. *)

LEMMA NoStrayRequestStep ==
  ASSUME Types, NoStrayRequest, [Next]_vars
  PROVE  NoStrayRequest'
<1> USE DEF Types, NoStrayRequest
<1>1. SUFFICES ASSUME NEW s \in Replica, task'[s] # "committing"
               PROVE  request'[s] = NoOffsets
  OBVIOUS
<1>2. ASSUME NEW r \in Replica, NEW q \in Partition, Consume(r, q)
      PROVE  request'[s] = NoOffsets
  BY <1>1, <1>2, ConsumeCases
<1>3. ASSUME NEW r \in Replica, NEW accepted \in BOOLEAN,
             FinishCommit(r, accepted) \/ Stop(r, accepted)
      PROVE  request'[s] = NoOffsets
  BY <1>1, <1>3 DEF FinishCommit, Stop
<1>4. ASSUME NEW r \in Replica, PollFails(r) \/ \E m \in Modes : Start(r, m)
      PROVE  request'[s] = NoOffsets
  BY <1>1, <1>4 DEF PollFails, Start
<1>5. CASE UNCHANGED << task, request >>
  BY <1>1, <1>5
<1>6. ASSUME NEW r \in Replica, NEW q \in Partition, ResolvePosition(r, q)
      PROVE  UNCHANGED << task, request >>
  BY <1>6 DEF ResolvePosition, replica
<1>7. ASSUME NEW q \in Partition, NEW rec \in Record, Produce(q, rec)
      PROVE  UNCHANGED << task, request >>
  BY <1>7 DEF Produce, replica
<1>8. ASSUME NEW assignment \in [Partition -> Replica], Rebalance(assignment)
      PROVE  UNCHANGED << task, request >>
  BY <1>8 DEF Rebalance
<1>9. CASE UNCHANGED vars
  BY <1>5, <1>9 DEF vars, replica
<1>10. QED
  BY <1>2, <1>3, <1>4, <1>5, <1>6, <1>7, <1>8, <1>9 DEF Next, ReplicaStep

LEMMA RequestCurrentStep ==
  ASSUME Types, NoStrayRequest, RequestCurrent, [Next]_vars
  PROVE  RequestCurrent'
<1> USE DEF Types
<1>1. SUFFICES ASSUME NEW s \in Replica, NEW p \in Partition,
                      task'[s] = "committing", ~fenced'[s], request'[s][p] # NoOffset
               PROVE  owner'[p] = s /\ position'[p] = request'[s][p]
  BY DEF RequestCurrent
<1>2. ASSUME task[s] = "committing", ~fenced[s], request[s][p] # NoOffset
      PROVE  owner[p] = s /\ position[p] = request[s][p]
  BY <1>2 DEF RequestCurrent
<1>3. ASSUME NEW q \in Partition, NEW rec \in Record, Produce(q, rec)
      PROVE  owner'[p] = s /\ position'[p] = request'[s][p]
  BY <1>1, <1>2, <1>3 DEF Produce, replica
<1>4. ASSUME NEW assignment \in [Partition -> Replica], Rebalance(assignment)
      PROVE  owner'[p] = s /\ position'[p] = request'[s][p]
  BY <1>1, <1>4 DEF Rebalance
<1>5. ASSUME NEW r \in Replica, NEW m \in Modes, Start(r, m)
      PROVE  owner'[p] = s /\ position'[p] = request'[s][p]
  BY <1>1, <1>2, <1>5 DEF Start, broker
<1>6. ASSUME NEW r \in Replica, NEW q \in Partition, ResolvePosition(r, q)
      PROVE  owner'[p] = s /\ position'[p] = request'[s][p]
  BY <1>1, <1>2, <1>6 DEF ResolvePosition, broker, replica
<1>7. ASSUME NEW r \in Replica, NEW q \in Partition, Consume(r, q)
      PROVE  owner'[p] = s /\ position'[p] = request'[s][p]
  <2>1. task[r] = "polling" /\ owner[q] = r /\ UNCHANGED << owner, fenced >>
    BY <1>7 DEF Consume, broker
  <2>2. CASE s = r
    <3>1. task'[s] # task[s]
      BY <1>1, <2>1, <2>2
    <3>2. request'[s][p] = IF owner[p] = r THEN position'[p] ELSE NoOffset
      BY <1>7, <3>1, ConsumeRequest
    <3>3. QED
      BY <1>1, <2>1, <2>2, <3>2
  <2>3. CASE s # r
    <3>1. task'[s] = task[s] /\ request'[s] = request[s]
      BY <1>7, <2>3, ConsumeRequest
    <3>2. owner[p] = s /\ position[p] = request[s][p]
      BY <1>1, <1>2, <2>1, <3>1
    <3>3. position'[p] = position[p]
      BY <1>7, <2>1, <2>3, <3>2, ConsumeCases
    <3>4. QED
      BY <2>1, <3>1, <3>2, <3>3
  <2>4. QED
    BY <2>2, <2>3
<1>8. ASSUME NEW r \in Replica, NEW accepted \in BOOLEAN, FinishCommit(r, accepted)
      PROVE  owner'[p] = s /\ position'[p] = request'[s][p]
  BY <1>1, <1>2, <1>8 DEF FinishCommit
<1>9. ASSUME NEW r \in Replica, NEW accepted \in BOOLEAN, Stop(r, accepted)
      PROVE  owner'[p] = s /\ position'[p] = request'[s][p]
  BY <1>1, <1>2, <1>9 DEF Stop
<1>10. ASSUME NEW r \in Replica, PollFails(r)
       PROVE  owner'[p] = s /\ position'[p] = request'[s][p]
  BY <1>1, <1>2, <1>10 DEF PollFails, broker
<1>11. CASE UNCHANGED vars
  BY <1>1, <1>2, <1>11 DEF vars, broker, replica
<1>12. QED
  BY <1>3, <1>4, <1>5, <1>6, <1>7, <1>8, <1>9, <1>10, <1>11 DEF Next, ReplicaStep

(* An accepted commit stores the client's position; every other step       *)
(* leaves the committed offset alone and moves positions up from it.       *)
LEMMA CommitStep ==
  ASSUME Types, NoStrayRequest, RequestCurrent, PositionNotBehindCommit, [Next]_vars,
         NEW p \in Partition
  PROVE  /\ committed'[p] >= committed[p]
         /\ position'[p] # NoOffset => position'[p] >= committed'[p]
<1> USE DEF Types
<1>1. /\ committed[p] \in Offset /\ position[p] \in Offset
      /\ position[p] # NoOffset => position[p] >= committed[p]
      /\ committed[p] >= committed[p]
  BY DEF PositionNotBehindCommit, Offset, NoOffset
<1>2. ASSUME NEW r \in Replica, NEW accepted \in BOOLEAN,
             FinishCommit(r, accepted) \/ Stop(r, accepted)
      PROVE  /\ committed'[p] >= committed[p]
             /\ position'[p] # NoOffset => position'[p] >= committed'[p]
  <2>1. /\ committed' = AfterCommit(r, accepted)
        /\ accepted => task[r] = "committing" /\ ~fenced[r]
        /\ position'[p] = position[p] \/ position'[p] = NoOffset
    BY <1>2 DEF FinishCommit, Stop
  <2>2. CASE committed'[p] = committed[p]
    BY <1>1, <2>1, <2>2
  <2>3. CASE committed'[p] # committed[p]
    <3>1. accepted /\ request[r][p] # NoOffset /\ committed'[p] = request[r][p]
      BY <2>1, <2>3, AfterCommitType
    <3>2. position[p] = request[r][p]
      BY <2>1, <3>1 DEF RequestCurrent
    <3>3. committed'[p] = position[p] /\ position[p] >= committed[p]
      BY <1>1, <3>1, <3>2
    <3>4. position[p] >= position[p]
      BY <1>1 DEF Offset, NoOffset
    <3>5. QED
      BY <2>1, <3>3, <3>4
  <2>4. QED
    BY <2>2, <2>3
<1>3. ASSUME NEW r \in Replica, NEW q \in Partition, ResolvePosition(r, q)
      PROVE  /\ committed'[p] >= committed[p]
             /\ position'[p] # NoOffset => position'[p] >= committed'[p]
  <2>1. UNCHANGED committed
    BY <1>3 DEF ResolvePosition, broker
  <2>2. End(q) \in Nat
    BY EndType
  <2>3. position'[p] = position[p] \/ position'[p] = committed[p]
        \/ (committed[p] = NoOffset /\ position'[p] \in Nat)
    BY <1>3, <2>2 DEF ResolvePosition
  <2>4. QED
    BY <1>1, <2>1, <2>3 DEF NoOffset
<1>4. ASSUME NEW r \in Replica, NEW q \in Partition, Consume(r, q)
      PROVE  /\ committed'[p] >= committed[p]
             /\ position'[p] # NoOffset => position'[p] >= committed'[p]
  <2>1. UNCHANGED committed /\ position[q] # NoOffset
    BY <1>4 DEF Consume, broker
  <2>2. position'[p] = position[p] \/ (position[p] # NoOffset /\ position'[p] = position[p] + 1)
    BY <1>4, <2>1, ConsumeCases
  <2>3. QED
    BY <1>1, <2>1, <2>2 DEF Offset, NoOffset
<1>5. ASSUME committed' = committed, position' = position \/ position' = NoOffsets
      PROVE  /\ committed'[p] >= committed[p]
             /\ position'[p] # NoOffset => position'[p] >= committed'[p]
  BY <1>1, <1>5, NoOffsetsType
<1>6. ASSUME NEW r \in Replica, PollFails(r) \/ \E m \in Modes : Start(r, m)
      PROVE  committed' = committed /\ position' = position
  BY <1>6 DEF PollFails, Start, broker
<1>7. ASSUME NEW q \in Partition, NEW rec \in Record, Produce(q, rec)
      PROVE  committed' = committed /\ position' = position
  BY <1>7 DEF Produce
<1>8. ASSUME NEW assignment \in [Partition -> Replica], Rebalance(assignment)
      PROVE  committed' = committed /\ position' = NoOffsets
  BY <1>8 DEF Rebalance
<1>9. CASE UNCHANGED vars
  BY <1>5, <1>9 DEF vars, broker
<1>10. QED
  BY <1>2, <1>3, <1>4, <1>5, <1>6, <1>7, <1>8, <1>9 DEF Next, ReplicaStep
-----------------------------------------------------------------------------
(* The theorems. *)

LEMMA GroupInitially == Init => GroupInv
<1> SUFFICES ASSUME Init PROVE GroupInv
  OBVIOUS
<1>1. Types
  BY NoOffsetsType DEF Init, Types, Record
<1>2. AllCovered
  BY NothingToCover, NoOffsetsType DEF Init, AllCovered, Covered
<1>3. NoStrayRequest /\ RequestCurrent
  BY DEF Init, NoStrayRequest, RequestCurrent
<1>4. PositionNotBehindCommit
  BY NoOffsetsType DEF Init, PositionNotBehindCommit
<1>5. QED
  BY <1>1, <1>2, <1>3, <1>4 DEF GroupInv

LEMMA GroupStep == GroupInv /\ [Next]_vars => GroupInv'
<1> SUFFICES ASSUME GroupInv, [Next]_vars PROVE GroupInv'
  OBVIOUS
<1>1. Types /\ AllCovered /\ NoStrayRequest /\ RequestCurrent /\ PositionNotBehindCommit
  BY DEF GroupInv
<1>2. PositionNotBehindCommit'
  BY <1>1, CommitStep DEF PositionNotBehindCommit
<1>3. QED
  BY <1>1, <1>2, TypesStep, AllCoveredStep, NoStrayRequestStep, RequestCurrentStep DEF GroupInv

LEMMA GroupInvariant == Spec => []GroupInv
BY GroupInitially, GroupStep, PTL DEF Spec

(* Offsets are only committed once every record below them has been put    *)
(* into a cache or skipped as poison (or passed over by a reset).          *)
THEOREM CommitsAreCovered == Spec => []CommitCovered
<1>1. GroupInv => CommitCovered
  BY DEF GroupInv, AllCovered, Covered, CoveredBy, CommitCovered, HandledBySome
<1>2. QED
  BY <1>1, GroupInvariant, PTL

(* No reader is ever behind what its group has committed. *)
THEOREM ReadersAreNotBehind == Spec => []PositionNotBehindCommit
<1>1. GroupInv => PositionNotBehindCommit
  BY DEF GroupInv
<1>2. QED
  BY <1>1, GroupInvariant, PTL

(* The group's committed offsets never move backwards, however many        *)
(* replicas stop, are fenced, or commit late.                              *)
THEOREM CommitsNeverRegress == Spec => CommittedMonotone
<1>1. GroupInv /\ [Next]_vars =>
        [\A p \in Partition : committed'[p] >= committed[p]]_vars
  BY CommitStep DEF GroupInv
<1>2. QED
  BY <1>1, GroupInvariant, PTL DEF Spec, CommittedMonotone
-----------------------------------------------------------------------------
(* The caches of the replicas. *)

\* Each replica has a cache within its bounds, made of events.
CachesInv ==
  /\ cache = [r \in Replica |-> cache[r]]
  /\ \A r \in Replica : IsCache(cache[r]) /\ IsBounded(cache[r])

(* Every step puts at most one event into one cache, or empties one. *)
LEMMA CacheCases ==
  ASSUME Types, CachesInv, [Next]_vars
  PROVE  \/ UNCHANGED cache
         \/ \E r \in Replica : cache' = [cache EXCEPT ![r] = EmptyCache]
         \/ \E r \in Replica, e \in Event : cache' = [cache EXCEPT ![r] = PutEvent(@, e)]
<1>1. ASSUME NEW r \in Replica, NEW p \in Partition, Consume(r, p)
      PROVE  \/ UNCHANGED cache
             \/ \E e \in Event : cache' = [cache EXCEPT ![r] = PutEvent(@, e)]
  <2> DEFINE rec == log[p][position[p] + 1]
  <2>1. log[p] \in Seq(Record) /\ position[p] \in Nat /\ position[p] < Len(log[p])
    BY <1>1 DEF Consume, End, Types, Offset
  <2>2. position[p] + 1 \in 1..Len(log[p])
    BY <2>1, LenProperties
  <2>3. rec \in Record
    BY <2>1, <2>2, ElementOfSeq
  <2> HIDE DEF rec
  <2>4. UNCHANGED cache \/ (rec # Poison /\ cache' = [cache EXCEPT ![r] = PutEvent(@, rec)])
    BY <1>1, ConsumeCases DEF rec
  <2>5. QED
    BY <2>3, <2>4 DEF Record
<1>2. ASSUME NEW r \in Replica, NEW accepted \in BOOLEAN, Stop(r, accepted)
      PROVE  cache' = [cache EXCEPT ![r] = EmptyCache]
  BY <1>2 DEF Stop
<1>3. QED
  BY <1>1, <1>2 DEF Next, ReplicaStep, Produce, Rebalance, Start, ResolvePosition,
     FinishCommit, PollFails, vars, replica

LEMMA CachesInvariant == Spec => []CachesInv
<1>1. Init => CachesInv
  BY EmptyCacheProperties DEF Init, CachesInv
<1>2. GroupInv /\ CachesInv /\ [Next]_vars => CachesInv'
  <2> SUFFICES ASSUME Types, CachesInv, [Next]_vars PROVE CachesInv'
    BY DEF GroupInv
  <2>1. CASE UNCHANGED cache
    BY <2>1 DEF CachesInv
  <2>2. ASSUME NEW r \in Replica, cache' = [cache EXCEPT ![r] = EmptyCache]
        PROVE  CachesInv'
    BY <2>2, EmptyCacheProperties DEF CachesInv
  <2>3. ASSUME NEW r \in Replica, NEW e \in Event,
               cache' = [cache EXCEPT ![r] = PutEvent(@, e)]
        PROVE  CachesInv'
    BY <2>3, PutProperties DEF CachesInv
  <2>4. QED
    BY <2>1, <2>2, <2>3, CacheCases
<1>3. QED
  BY <1>1, <1>2, GroupInvariant, PTL DEF Spec

(* Every variable keeps its type, for every number of replicas. *)
THEOREM TypeCorrect == Spec => []TypeOK
<1>1. GroupInv /\ CachesInv => TypeOK
  BY DEF GroupInv, Types, CachesInv, TypeOK
<1>2. QED
  BY <1>1, GroupInvariant, CachesInvariant, PTL

(* Whatever is read again and whatever projects the versions of an event   *)
(* name, no replica's cache loses a stored event to its project index.     *)
THEOREM CachesStayReachable == Spec => []CachesReachable
<1>1. Init => CachesReachable
  BY EmptyCacheProperties DEF Init, CachesReachable
<1>2. GroupInv /\ CachesInv /\ CachesReachable /\ [Next]_vars => CachesReachable'
  <2> SUFFICES ASSUME Types, CachesInv, CachesReachable, [Next]_vars PROVE CachesReachable'
    BY DEF GroupInv
  <2>1. CASE UNCHANGED cache
    BY <2>1 DEF CachesReachable
  <2>2. ASSUME NEW r \in Replica, cache' = [cache EXCEPT ![r] = EmptyCache]
        PROVE  CachesReachable'
    BY <2>2, EmptyCacheProperties DEF CachesInv, CachesReachable
  <2>3. ASSUME NEW r \in Replica, NEW e \in Event,
               cache' = [cache EXCEPT ![r] = PutEvent(@, e)]
        PROVE  CachesReachable'
    BY <2>3, PutProperties DEF CachesInv, CachesReachable
  <2>4. QED
    BY <2>1, <2>2, <2>3, CacheCases
<1>3. QED
  BY <1>1, <1>2, GroupInvariant, CachesInvariant, PTL DEF Spec

(* Every replica's cache keeps the promises of the cache it is built from. *)
CachesSound == \A r \in Replica : IsBounded(cache[r]) /\ IsIndexed(cache[r])

(* If an event id always names the same project, every replica's cache is  *)
(* within its capacity and exactly indexed at all times, whatever the      *)
(* group does: records delivered again, by whoever, do no harm to a cache. *)
THEOREM CachesStaySound ==
  ASSUME StableProject
  PROVE  Spec => []CachesSound
<1>1. Init => CachesSound
  BY EmptyCacheProperties DEF Init, CachesSound
<1>2. GroupInv /\ CachesInv /\ CachesSound /\ [Next]_vars => CachesSound'
  <2> SUFFICES ASSUME Types, CachesInv, CachesSound, [Next]_vars PROVE CachesSound'
    BY DEF GroupInv
  <2>1. CASE UNCHANGED cache
    BY <2>1 DEF CachesSound
  <2>2. ASSUME NEW r \in Replica, cache' = [cache EXCEPT ![r] = EmptyCache]
        PROVE  CachesSound'
    BY <2>2, EmptyCacheProperties DEF CachesInv, CachesSound
  <2>3. ASSUME NEW r \in Replica, NEW e \in Event,
               cache' = [cache EXCEPT ![r] = PutEvent(@, e)]
        PROVE  CachesSound'
    BY <2>3, PutProperties, StableProject DEF CachesInv, CachesSound
  <2>4. QED
    BY <2>1, <2>2, <2>3, CacheCases
<1>3. QED
  BY <1>1, <1>2, GroupInvariant, CachesInvariant, PTL DEF Spec
-----------------------------------------------------------------------------
(* What a cache shows of a partition, and what the group has read since.   *)

\* Events are where their key sends them.
RecordsPlaced ==
  \A p \in Partition : \A i \in 1..End(p) :
     log[p][i] # Poison => PartitionOf[log[p][i].id] = p

\* Nobody reads or commits beyond the end of a partition.
NoneBeyond == \A p \in Partition : position[p] <= End(p) /\ committed[p] <= End(p)

\* Of the versions of id from offset v + 1 up to n, r was spared every one.
SparedUpTo(r, p, id, v, n) ==
  \A o \in (v + 1)..(n - 1) : IsVersion(p, o, id) => Spared(r, p, o)

(* r's cache shows the version of id at offset v, and up to where the      *)
(* partition's owner reads, and up to what the group has committed, no     *)
(* newer one should have been put in r's cache.                            *)
Shows(r, p, id, v) ==
  /\ v \in 0..(End(p) - 1)
  /\ log[p][v + 1] = EventOf(cache[r], id)
  /\ SparedUpTo(r, p, id, v, committed[p])
  /\ SparedUpTo(r, p, id, v, position[p])

CachesAccounted ==
  \A r \in Replica : \A id \in StoredIds(cache[r]) :
     \E v \in Nat : Shows(r, PartitionOf[id], id, v)

ShowInv == RecordsPlaced /\ NoneBeyond /\ CachesAccounted

LEMMA LogGrows ==
  ASSUME Types, [Next]_vars, NEW p \in Partition
  PROVE  /\ End(p) \in Nat /\ End(p)' \in Nat /\ End(p) <= End(p)'
         /\ \A i \in 1..End(p) : log'[p][i] = log[p][i]
<1>1. End(p) \in Nat
  BY EndType
<1>2. ASSUME NEW q \in Partition, NEW rec \in Record, Produce(q, rec), p = q
      PROVE  /\ End(p)' = End(p) + 1
             /\ \A i \in 1..End(p) : log'[p][i] = log[p][i]
  <2>1. log[p] \in Seq(Record) /\ log'[p] = Append(log[p], rec)
    BY <1>2 DEF Produce, Types
  <2>2. QED
    BY <2>1, AppendProperties DEF End
<1>3. ASSUME NEW q \in Partition, NEW rec \in Record, Produce(q, rec), p # q
      PROVE  log'[p] = log[p]
  BY <1>3 DEF Produce, Types
<1>4. CASE \A q \in Partition, rec \in Record : ~Produce(q, rec)
  <2>1. UNCHANGED log
    BY <1>4 DEF Next, ReplicaStep, Rebalance, Start, ResolvePosition, Consume,
       FinishCommit, Stop, PollFails, vars, broker
  <2>2. QED
    BY <1>1, <2>1 DEF End
<1>5. CASE log'[p] = log[p]
  BY <1>1, <1>5 DEF End
<1>6. QED
  BY <1>1, <1>2, <1>3, <1>4, <1>5

LEMMA RecordsPlacedStep ==
  ASSUME Types, RecordsPlaced, [Next]_vars
  PROVE  RecordsPlaced'
<1>1. ASSUME NEW p \in Partition, NEW i \in 1..End(p)', log'[p][i] # Poison
      PROVE  PartitionOf[log'[p][i].id] = p
  <2>1. CASE i \in 1..End(p)
    BY <1>1, <2>1, LogGrows DEF RecordsPlaced
  <2>2. ASSUME NEW q \in Partition, NEW rec \in Record, Produce(q, rec), i \notin 1..End(p)
        PROVE  PartitionOf[log'[p][i].id] = p
    <3>1. p = q
      <4>1. p # q => log'[p] = log[p]
        BY <2>2 DEF Produce, Types
      <4>2. QED
        BY <2>2, <4>1 DEF End
    <3>2. log[p] \in Seq(Record) /\ log'[p] = Append(log[p], rec)
      BY <2>2, <3>1 DEF Produce, Types
    <3>3. i = Len(log[p]) + 1 /\ log'[p][i] = rec
      BY <2>2, <3>2, AppendProperties, LenProperties DEF End
    <3>4. QED
      BY <1>1, <2>2, <3>1, <3>3 DEF Produce
  <2>3. CASE \A q \in Partition, rec \in Record : ~Produce(q, rec)
    <3>1. UNCHANGED log
      BY <2>3 DEF Next, ReplicaStep, Rebalance, Start, ResolvePosition, Consume,
         FinishCommit, Stop, PollFails, vars, broker
    <3>2. QED
      BY <1>1, <3>1 DEF RecordsPlaced, End
  <2>4. QED
    BY <2>1, <2>2, <2>3
<1>2. QED
  BY <1>1 DEF RecordsPlaced

(* What a step makes of the two offsets of a partition: an offset that was *)
(* there, none, the next one of the record its owner deals with, or one    *)
(* below which a reset passes everything over.                             *)
FromBefore(p, n) ==
  \/ n \in {committed[p], position[p], NoOffset, 0}
  \/ /\ n = position[p] + 1
     /\ \E s \in Replica : Consume(s, p)
  \/ n = End(p) /\ OffsetsBelow(p, n) \subseteq missed'

LEMMA OffsetCases ==
  ASSUME Types, RequestCurrent, [Next]_vars, NEW p \in Partition
  PROVE  FromBefore(p, committed'[p]) /\ FromBefore(p, position'[p])
<1> USE DEF Types, FromBefore
<1>1. ASSUME NEW r \in Replica, NEW accepted \in BOOLEAN,
             FinishCommit(r, accepted) \/ Stop(r, accepted)
      PROVE  FromBefore(p, committed'[p]) /\ FromBefore(p, position'[p])
  <2>1. /\ committed' = AfterCommit(r, accepted)
        /\ accepted => task[r] = "committing" /\ ~fenced[r]
        /\ position'[p] = position[p] \/ position'[p] = NoOffset
    BY <1>1 DEF FinishCommit, Stop
  <2>2. committed'[p] = committed[p] \/ committed'[p] = position[p]
    BY <2>1, AfterCommitType DEF RequestCurrent
  <2>3. QED
    BY <2>1, <2>2
<1>2. ASSUME NEW r \in Replica, NEW q \in Partition, ResolvePosition(r, q)
      PROVE  FromBefore(p, committed'[p]) /\ FromBefore(p, position'[p])
  <2>1. UNCHANGED committed
    BY <1>2 DEF ResolvePosition, broker
  <2>2. CASE p # q
    BY <1>2, <2>1, <2>2 DEF ResolvePosition
  <2>3. CASE p = q /\ committed[p] = NoOffset /\ mode[r] # "earliest"
    <3>1. position'[p] = End(p) /\ mode[r] = "latest"
      BY <1>2, <2>3 DEF ResolvePosition
    <3>2. OffsetsBelow(p, End(p)) \subseteq missed'
      BY <1>2, <2>3, <3>1 DEF ResolvePosition
    <3>3. QED
      BY <2>1, <3>1, <3>2
  <2>4. CASE p = q /\ ~(committed[p] = NoOffset /\ mode[r] # "earliest")
    <3>1. position'[p] \in {committed[p], 0}
      BY <1>2, <2>4 DEF ResolvePosition
    <3>2. QED
      BY <2>1, <3>1
  <2>5. QED
    BY <2>2, <2>3, <2>4
<1>3. ASSUME NEW r \in Replica, NEW q \in Partition, Consume(r, q)
      PROVE  FromBefore(p, committed'[p]) /\ FromBefore(p, position'[p])
  <2>1. UNCHANGED committed /\ position' = [position EXCEPT ![q] = @ + 1]
    BY <1>3, ConsumeCases DEF Consume, broker
  <2>2. QED
    BY <1>3, <2>1
<1>4. ASSUME NEW assignment \in [Partition -> Replica], Rebalance(assignment)
      PROVE  FromBefore(p, committed'[p]) /\ FromBefore(p, position'[p])
  BY <1>4, NoOffsetsType DEF Rebalance
<1>5. ASSUME NEW r \in Replica, PollFails(r) \/ \E m \in Modes : Start(r, m)
      PROVE  committed' = committed /\ position' = position
  BY <1>5 DEF PollFails, Start, broker
<1>6. ASSUME NEW q \in Partition, NEW rec \in Record, Produce(q, rec)
      PROVE  committed' = committed /\ position' = position
  BY <1>6 DEF Produce
<1>7. CASE UNCHANGED vars
  BY <1>7 DEF vars, broker
<1>8. QED
  BY <1>1, <1>2, <1>3, <1>4, <1>5, <1>6, <1>7 DEF Next, ReplicaStep

LEMMA NoneBeyondStep ==
  ASSUME Types, RequestCurrent, NoneBeyond, [Next]_vars
  PROVE  NoneBeyond'
<1>1. ASSUME NEW p \in Partition, NEW n, FromBefore(p, n)
      PROVE  n <= End(p)'
  <2>1. /\ committed[p] \in Offset /\ position[p] \in Offset
        /\ position[p] <= End(p) /\ committed[p] <= End(p)
    BY DEF Types, NoneBeyond
  <2>2. End(p) \in Nat /\ End(p)' \in Nat /\ End(p) <= End(p)'
    BY LogGrows
  <2>3. (\E s \in Replica : Consume(s, p)) => position[p] < End(p)
    BY DEF Consume
  <2>4. QED
    BY <1>1, <2>1, <2>2, <2>3 DEF FromBefore, Offset, NoOffset
<1>2. QED
  BY <1>1, OffsetCases DEF NoneBeyond

(* r stays spared an offset until it is itself given the record there. *)
LEMMA SparedStays ==
  ASSUME [Next]_vars, NEW r \in Replica, NEW p \in Partition, NEW o, Spared(r, p, o)
  PROVE  Spared(r, p, o)' \/ (Consume(r, p) /\ position[p] = o)
<1>1. handled \subseteq handled'
  BY DEF Next, ReplicaStep, Produce, Rebalance, Start, ResolvePosition, Consume,
         FinishCommit, Stop, PollFails, vars, history
<1>2. ASSUME NEW s \in Replica, NEW q \in Partition, Consume(s, q)
      PROVE  Spared(r, p, o)' \/ (Consume(r, p) /\ position[p] = o)
  <2>1. /\ missed' = missed \ {<<q, position[q]>>}
        /\ <<s, q, position[q]>> \in handled'
    BY <1>2 DEF Consume
  <2>2. CASE p = q /\ o = position[q]
    BY <1>2, <2>1, <2>2 DEF Spared
  <2>3. CASE ~(p = q /\ o = position[q])
    BY <1>1, <2>1, <2>3 DEF Spared
  <2>4. QED
    BY <2>2, <2>3
<1>3. CASE \A s \in Replica, q \in Partition : ~Consume(s, q)
  <2>1. missed \subseteq missed'
    BY <1>3 DEF Next, ReplicaStep, Produce, Rebalance, Start, ResolvePosition,
       FinishCommit, Stop, PollFails, vars, history
  <2>2. QED
    BY <1>1, <2>1 DEF Spared
<1>4. QED
  BY <1>2, <1>3

(* r is given a version of id. *)
Given(r, p, id) ==
  Consume(r, p) /\ log[p][position[p] + 1] # Poison /\ log[p][position[p] + 1].id = id

LEMMA NextRecord ==
  ASSUME Types, NEW r \in Replica, NEW p \in Partition, Consume(r, p)
  PROVE  /\ position[p] \in Nat /\ position[p] \in 0..(End(p) - 1)
         /\ position[p] + 1 \in 1..End(p)
         /\ log[p][position[p] + 1] \in Record
<1>1. log[p] \in Seq(Record) /\ position[p] \in Nat /\ position[p] < End(p) /\ End(p) \in Nat
  BY EndType DEF Consume, Types, Offset
<1>2. position[p] + 1 \in 1..End(p)
  BY <1>1
<1>3. QED
  BY <1>1, <1>2, ElementOfSeq DEF End

(* A step is one turn of one replica's loop in one partition. *)
LEMMA OneReader ==
  ASSUME Types, NEW r \in Replica, NEW p \in Partition, Consume(r, p),
         NEW s \in Replica, NEW q \in Partition, Consume(s, q)
  PROVE  s = r /\ q = p
<1>1. position[p] \in Nat /\ owner[p] = r /\ owner[q] = s
  BY NextRecord DEF Consume
<1>2. position' = [position EXCEPT ![p] = @ + 1]
  BY ConsumeCases
<1>3. position' = [position EXCEPT ![q] = @ + 1]
  BY ConsumeCases
<1>4. position'[p] = position[p] + 1 /\ (p # q => position'[p] = position[p])
  BY <1>2, <1>3 DEF Types
<1>5. QED
  BY <1>1, <1>4

(* What a cache shows is what it was just given, or what it showed before. *)
LEMMA ShownCases ==
  ASSUME Types, CachesInv, RecordsPlaced, [Next]_vars,
         NEW r \in Replica, NEW id \in StoredIds(cache'[r]),
         NEW p \in Partition, p = PartitionOf[id]
  PROVE  \/ Given(r, p, id) /\ EventOf(cache'[r], id) = log[p][position[p] + 1]
         \/ /\ ~Given(r, p, id) /\ id \in StoredIds(cache[r])
            /\ EventOf(cache'[r], id) = EventOf(cache[r], id)
<1> DEFINE Claim == \/ Given(r, p, id) /\ EventOf(cache'[r], id) = log[p][position[p] + 1]
                    \/ /\ ~Given(r, p, id) /\ id \in StoredIds(cache[r])
                       /\ EventOf(cache'[r], id) = EventOf(cache[r], id)
<1>1. CASE cache'[r] = cache[r] /\ ~Given(r, p, id)
  BY <1>1
<1>2. ASSUME NEW s \in Replica, NEW q \in Partition, Consume(s, q)
      PROVE  Claim
  <2> DEFINE rec == log[q][position[q] + 1]
  <2>1. rec \in Record /\ position[q] + 1 \in 1..End(q)
    BY <1>2, NextRecord
  <2>2. Given(r, p, id) => s = r /\ q = p
    BY <1>2, OneReader DEF Given
  <2>3. \/ rec = Poison /\ UNCHANGED cache
        \/ rec # Poison /\ cache' = [cache EXCEPT ![s] = PutEvent(@, rec)]
    BY <1>2, ConsumeCases
  <2>4. CASE rec = Poison \/ r # s
    <3>1. cache'[r] = cache[r]
      BY <2>3, <2>4 DEF CachesInv
    <3>2. ~Given(r, p, id)
      BY <2>2, <2>4 DEF Given
    <3>3. QED
      BY <1>1, <3>1, <3>2
  <2>5. CASE rec # Poison /\ r = s
    <3>1. rec \in Event /\ PartitionOf[rec.id] = q
      BY <2>1, <2>5 DEF Record, RecordsPlaced
    <3>2. cache'[r] = PutEvent(cache[r], rec) /\ IsCache(cache[r]) /\ IsBounded(cache[r])
      BY <2>3, <2>5 DEF CachesInv
    <3> HIDE DEF rec
    <3>3. \/ id = rec.id /\ EventOf(cache'[r], id) = rec
          \/ /\ id # rec.id /\ id \in StoredIds(cache[r])
             /\ EventOf(cache'[r], id) = EventOf(cache[r], id)
      BY <3>1, <3>2, PutShows
    <3>4. CASE id = rec.id
      <4>1. q = p /\ Given(r, p, id)
        BY <1>2, <2>5, <3>1, <3>4 DEF Given, rec
      <4>2. QED
        BY <3>3, <3>4, <4>1 DEF rec
    <3>5. CASE id # rec.id
      <4>1. ~Given(r, p, id)
        BY <2>2, <3>5 DEF Given, rec
      <4>2. QED
        BY <3>3, <3>5, <4>1
    <3>6. QED
      BY <3>4, <3>5
  <2>6. QED
    BY <2>4, <2>5
<1>3. ASSUME NEW s \in Replica, NEW accepted \in BOOLEAN, Stop(s, accepted), ~Given(r, p, id)
      PROVE  Claim
  <2>1. cache' = [cache EXCEPT ![s] = EmptyCache]
    BY <1>3 DEF Stop
  <2>2. StoredIds(EmptyCache) = {}
    BY DEF StoredIds, EmptyCache
  <2>3. s # r
    BY <2>1, <2>2 DEF CachesInv
  <2>4. QED
    BY <1>1, <1>3, <2>1, <2>3 DEF CachesInv
<1>4. CASE UNCHANGED cache /\ ~Given(r, p, id)
  BY <1>1, <1>4
<1>5. CASE \A s \in Replica, q \in Partition : ~Consume(s, q)
  <2>1. \/ UNCHANGED cache
        \/ \E s \in Replica, accepted \in BOOLEAN : Stop(s, accepted)
    BY <1>5 DEF Next, ReplicaStep, Produce, Rebalance, Start, ResolvePosition,
       FinishCommit, PollFails, vars, replica
  <2>2. ~Given(r, p, id)
    BY <1>5 DEF Given
  <2>3. QED
    BY <1>3, <1>4, <2>1, <2>2
<1>6. QED
  BY <1>2, <1>5

(* What r has just been given is the newest it was not spared. *)
LEMMA GivenIsShown ==
  ASSUME Types, PositionNotBehindCommit, [Next]_vars,
         NEW r \in Replica, NEW p \in Partition, NEW id, Given(r, p, id),
         NEW v \in Nat, v = position[p], EventOf(cache'[r], id) = log[p][v + 1]
  PROVE  Shows(r, p, id, v)'
<1>1. /\ v \in Nat /\ v \in 0..(End(p) - 1) /\ v + 1 \in 1..End(p)
      /\ position'[p] = v + 1 /\ committed'[p] = committed[p]
  BY NextRecord, ConsumeCases DEF Given, Types, Consume, broker
<1>2. committed[p] \in Offset /\ committed[p] <= v
  BY <1>1 DEF PositionNotBehindCommit, Types, NoOffset
<1>3. v \in 0..(End(p)' - 1) /\ log'[p][v + 1] = log[p][v + 1]
  BY <1>1, LogGrows
<1>4. (v + 1)..(committed'[p] - 1) = {} /\ (v + 1)..(position'[p] - 1) = {}
  BY <1>1, <1>2 DEF Offset, NoOffset
<1>5. QED
  BY <1>3, <1>4 DEF Shows, SparedUpTo

(* What r showed before stays the newest it was not spared. *)
LEMMA KeptIsShown ==
  ASSUME Types, RequestCurrent, PositionNotBehindCommit, NoneBeyond, [Next]_vars,
         NEW r \in Replica, NEW p \in Partition, NEW id, ~Given(r, p, id),
         EventOf(cache'[r], id) = EventOf(cache[r], id),
         NEW v \in Nat, Shows(r, p, id, v)
  PROVE  Shows(r, p, id, v)'
<1>1. v \in 0..(End(p)' - 1) /\ log'[p][v + 1] = EventOf(cache'[r], id)
  BY LogGrows DEF Shows
<1>2. /\ position[p] \in Offset /\ committed[p] \in Offset
      /\ position[p] <= End(p) /\ committed[p] <= End(p)
      /\ End(p) \in Nat
  BY EndType DEF Types, NoneBeyond
<1>3. ASSUME NEW o \in Nat, o > v, o < committed[p] \/ o < position[p], IsVersion(p, o, id)'
      PROVE  Spared(r, p, o)'
  <2>1. o + 1 \in 1..End(p)
    BY <1>2, <1>3 DEF Offset, NoOffset
  <2>2. IsVersion(p, o, id)
    BY <1>3, <2>1, LogGrows DEF IsVersion
  <2>3. Spared(r, p, o)
    BY <1>2, <1>3, <2>2 DEF Shows, SparedUpTo, Offset, NoOffset
  <2>4. ASSUME Consume(r, p), position[p] = o
        PROVE  FALSE
    <3>1. committed[p] <= o
      BY <1>2, <2>4 DEF PositionNotBehindCommit, Consume, Offset, NoOffset
    <3>2. QED
      BY <1>2, <1>3, <2>4, <3>1 DEF Offset, NoOffset
  <2>5. QED
    BY <2>3, <2>4, SparedStays
<1>4. ASSUME NEW n, FromBefore(p, n), n \in Offset
      PROVE  SparedUpTo(r, p, id, v, n)'
  <2>1. SUFFICES ASSUME NEW o \in (v + 1)..(n - 1), IsVersion(p, o, id)'
                 PROVE  Spared(r, p, o)'
    BY DEF SparedUpTo
  <2>2. o \in Nat /\ o > v /\ o < n
    BY <1>4 DEF Offset, NoOffset
  <2>3. CASE n \in {committed[p], position[p], NoOffset, 0}
    BY <1>3, <2>1, <2>2, <2>3 DEF NoOffset
  <2>4. CASE n = position[p] + 1 /\ \E s \in Replica : Consume(s, p)
    <3>1. PICK s \in Replica : Consume(s, p)
      BY <2>4
    <3>2. position[p] \in Nat /\ position[p] + 1 \in 1..End(p)
      BY <3>1, NextRecord
    <3>3. CASE o < position[p]
      BY <1>3, <2>1, <2>2, <3>3
    <3>4. CASE o = position[p]
      <4>1. IsVersion(p, o, id)
        BY <2>1, <3>2, <3>4, LogGrows DEF IsVersion
      <4>2. s # r
        BY <3>1, <3>4, <4>1 DEF Given, IsVersion
      <4>3. <<s, p, o>> \in handled'
        BY <3>1, <3>4 DEF Consume
      <4>4. QED
        BY <4>2, <4>3 DEF Spared
    <3>5. QED
      BY <2>2, <2>4, <3>2, <3>3, <3>4
  <2>5. CASE n = End(p) /\ OffsetsBelow(p, n) \subseteq missed'
    <3>1. <<p, o>> \in OffsetsBelow(p, n)
      BY <1>2, <2>2, <2>5 DEF OffsetsBelow
    <3>2. QED
      BY <2>5, <3>1 DEF Spared
  <2>6. QED
    BY <1>4, <2>3, <2>4, <2>5 DEF FromBefore
<1>5. FromBefore(p, committed'[p]) /\ FromBefore(p, position'[p])
  BY OffsetCases
<1>6. committed'[p] \in Offset /\ position'[p] \in Offset
  BY TypesStep DEF Types
<1>7. SparedUpTo(r, p, id, v, committed[p])' /\ SparedUpTo(r, p, id, v, position[p])'
  BY <1>4, <1>5, <1>6
<1>8. QED
  BY <1>1, <1>7 DEF Shows

LEMMA ShowInitially == Init => ShowInv
<1> SUFFICES ASSUME Init PROVE ShowInv
  OBVIOUS
<1>1. \A p \in Partition : End(p) = 0 /\ position[p] = NoOffset /\ committed[p] = NoOffset
  BY NoOffsetsType DEF Init, End
<1>2. \A r \in Replica : StoredIds(cache[r]) = {}
  BY DEF Init, StoredIds, EmptyCache
<1>3. QED
  BY <1>1, <1>2 DEF ShowInv, RecordsPlaced, NoneBeyond, CachesAccounted, NoOffset

LEMMA ShowStep == GroupInv /\ CachesInv /\ CachesInv' /\ ShowInv /\ [Next]_vars => ShowInv'
<1> SUFFICES ASSUME GroupInv, CachesInv, CachesInv', ShowInv, [Next]_vars PROVE ShowInv'
  OBVIOUS
<1>1. /\ Types /\ RequestCurrent /\ PositionNotBehindCommit
      /\ RecordsPlaced /\ NoneBeyond /\ CachesAccounted
  BY DEF GroupInv, ShowInv
<1>2. ASSUME NEW r \in Replica, NEW id \in StoredIds(cache'[r])
      PROVE  \E v \in Nat : Shows(r, PartitionOf[id], id, v)'
  <2>1. PICK p \in Partition : p = PartitionOf[id]
    <3>1. id \in EventId
      BY EventOfType DEF CachesInv
    <3>2. QED
      BY <3>1, PartitionAssumption
  <2>2. CASE Given(r, p, id) /\ EventOf(cache'[r], id) = log[p][position[p] + 1]
    <3>1. position[p] \in Nat
      BY <1>1, <2>2, NextRecord DEF Given
    <3>2. PICK v \in Nat : v = position[p]
      BY <3>1
    <3>3. Shows(r, p, id, v)'
      BY <1>1, <2>2, <3>2, GivenIsShown
    <3>4. QED
      BY <2>1, <3>3
  <2>3. CASE /\ ~Given(r, p, id) /\ id \in StoredIds(cache[r])
             /\ EventOf(cache'[r], id) = EventOf(cache[r], id)
    <3>1. PICK v \in Nat : Shows(r, p, id, v)
      BY <1>1, <2>1, <2>3 DEF CachesAccounted
    <3>2. Shows(r, p, id, v)'
      BY <1>1, <2>3, <3>1, KeptIsShown
    <3>3. QED
      BY <2>1, <3>2
  <2>4. QED
    BY <1>1, <2>1, <2>2, <2>3, ShownCases
<1>3. CachesAccounted'
  BY <1>2 DEF CachesAccounted
<1>4. QED
  BY <1>1, <1>3, RecordsPlacedStep, NoneBeyondStep DEF ShowInv

(* A replica that has caught up on a partition shows the newest version of *)
(* every event it holds that no reset passed over and no other replica was *)
(* given, however many commits fail, replicas stop and rebalances make it  *)
(* read older versions again.                                              *)
THEOREM NewestIsShown == Spec => []StaleOnlyIfMoved
<1>1. Types /\ CachesInv /\ ShowInv => StaleOnlyIfMoved
  <2> SUFFICES ASSUME Types, CachesAccounted,
                      NEW r \in Replica, NEW p \in Partition, position[p] = End(p),
                      NEW id \in StoredIds(cache[r]), PartitionOf[id] = p
               PROVE  \E v \in 0..(End(p) - 1) :
                         /\ log[p][v + 1] = EventOf(cache[r], id)
                         /\ \A o \in (v + 1)..(End(p) - 1) :
                               IsVersion(p, o, id) => Spared(r, p, o)
    BY DEF ShowInv, StaleOnlyIfMoved
  <2>1. PICK v \in Nat : Shows(r, p, id, v)
    BY DEF CachesAccounted
  <2>2. QED
    BY <2>1 DEF Shows, SparedUpTo
<1>2. QED
  <2>1. GroupInv => Types
    BY DEF GroupInv
  <2>2. QED
    BY <1>1, <2>1, ShowInitially, ShowStep, GroupInvariant, CachesInvariant, PTL DEF Spec
=============================================================================
