---------------------------- MODULE ReplayConsumer ----------------------------
(***************************************************************************)
(* The replay consumers of webhooks/consumer.py: one per server process,   *)
(* all in the same Kafka consumer group, each filling the cache of its own *)
(* process from the topic.                                                 *)
(*                                                                         *)
(* asyncio only switches tasks at an await that really waits.  Taking a    *)
(* message and putting its event into the cache is one step: the cache's   *)
(* lock is never held across an await, so `await cache.put()` does not     *)
(* wait.  `await commit()` does, and anything may happen until it returns: *)
(* stop(), a crash, a rebalance that fences the request, other replicas.   *)
(*                                                                         *)
(* The broker and the aiokafka client are not part of the repository; they *)
(* are modelled as far as the code relies on them.                         *)
(***************************************************************************)
EXTENDS CacheOps, Integers

CONSTANTS
  Replica,        \* server processes that may run a consumer
  Partition,      \* partitions of the topic
  PartitionOf,    \* the partition the producer's key hash sends an event id to
  Poison,         \* a record transform_raw cannot turn into an event
  Modes,          \* the offset reset modes replicas are configured with
  MaxLog,         \* bound: records of the topic
  MaxDowns,       \* bound: stops and crashes
  MaxRebalances,  \* bound: rebalances without a member having gone
  MaxPollErrors   \* bound: poll loops ended by an error of the iterator

ASSUME PartitionAssumption == PartitionOf \in [EventId -> Partition]
ASSUME PoisonAssumption == Poison \notin Event
ASSUME ModeAssumption == Modes \subseteq {"earliest", "latest"}
ASSUME BoundAssumption ==
  MaxLog \in Nat /\ MaxDowns \in Nat /\ MaxRebalances \in Nat /\ MaxPollErrors \in Nat

VARIABLES
  log,         \* broker: the records of each partition
  committed,   \* broker: the group's committed offset of each partition
  owner,       \* broker: the member each partition is assigned to
  task,        \* replica: where its poll loop is
  mode,        \* replica: offset_reset_mode
  position,    \* client: the next offset the partition's owner reads
  request,     \* replica: the offsets of the commit it awaits
  fenced,      \* replica: a rebalance has invalidated that commit
  cache,       \* replica: its events cache
  handled,     \* history: <<r, p, o>>, r's loop has dealt with offset o of p
  missed,      \* history: <<p, o>>, passed over by a reset to latest and not dealt with
  downs, rebalances, pollErrors   \* how much of the bounds is used

broker  == << log, committed, owner >>
replica == << task, mode, request, fenced, cache >>
history == << handled, missed >>
bounds  == << downs, rebalances, pollErrors >>
vars    == << broker, replica, position, history, bounds >>

NoOffset == -1
NoOffsets == [p \in Partition |-> NoOffset]
Nobody == "nobody"
Offset == Nat \union {NoOffset}
Record == Event \union {Poison}

Up(r) == task[r] # "down"
End(p) == Len(log[p])
OffsetsBelow(p, n) == {<<p, o>> : o \in 0..(n - 1)}
Places == UNION {OffsetsBelow(p, End(p)) : p \in Partition}
HandledBySome(p, o) == \E r \in Replica : <<r, p, o>> \in handled

Init ==
  /\ log = [p \in Partition |-> << >>]
  /\ committed = NoOffsets
  /\ owner = [p \in Partition |-> Nobody]
  /\ task = [r \in Replica |-> "down"]
  /\ mode = [r \in Replica |-> "latest"]
  /\ position = NoOffsets
  /\ request = [r \in Replica |-> NoOffsets]
  /\ fenced = [r \in Replica |-> FALSE]
  /\ cache = [r \in Replica |-> EmptyCache]
  /\ handled = {}
  /\ missed = {}
  /\ downs = 0 /\ rebalances = 0 /\ pollErrors = 0

-----------------------------------------------------------------------------
(* The broker. *)

\* The ingest route appends a record; events are keyed by their id.
Produce(p, rec) ==
  /\ Cardinality(Places) < MaxLog
  /\ rec # Poison => PartitionOf[rec.id] = p
  /\ log' = [log EXCEPT ![p] = Append(@, rec)]
  /\ UNCHANGED << committed, owner, replica, position, history, bounds >>

Orphaned(p) == owner[p] = Nobody

(* An eager rebalance: every member gives up its partitions, the new       *)
(* owners look their positions up afresh, and a commit still under way     *)
(* carries the old generation.  It follows a member's coming or going, or  *)
(* a heartbeat that was too late.                                          *)
Rebalance(assignment) ==
  /\ \A p \in Partition : Up(assignment[p])
  /\ \/ \E p \in Partition : Orphaned(p)
     \/ rebalances < MaxRebalances
  /\ owner' = assignment
  /\ position' = NoOffsets
  /\ fenced' = [r \in Replica |-> task[r] = "committing"]
  /\ rebalances' = IF \E p \in Partition : Orphaned(p) THEN rebalances ELSE rebalances + 1
  /\ UNCHANGED << log, committed, task, mode, request, cache, history, downs, pollErrors >>

-----------------------------------------------------------------------------
(* The consumer of one replica. *)

\* start(): a new process joins the group with an empty cache.
Start(r, m) ==
  /\ task[r] = "down"
  /\ task' = [task EXCEPT ![r] = "polling"]
  /\ mode' = [mode EXCEPT ![r] = m]
  /\ UNCHANGED << broker, position, request, fenced, cache, history, bounds >>

\* Mutant of ResolvePosition: "earliest" rereads a partition the group has committed.
ResolveFromStart(r, p) ==
  /\ Up(r) /\ owner[p] = r /\ position[p] = NoOffset
  /\ position' = [position EXCEPT ![p] =
                    IF mode[r] = "earliest" THEN 0
                    ELSE IF committed[p] # NoOffset THEN committed[p] ELSE End(p)]
  /\ missed' = IF committed[p] = NoOffset /\ mode[r] = "latest"
               THEN missed \union OffsetsBelow(p, End(p)) ELSE missed
  /\ UNCHANGED << broker, replica, handled, bounds >>

(* The client looks up where to read a partition it was assigned: at the   *)
(* group's committed offset; auto_offset_reset decides only when there is  *)
(* none.                                                                   *)
ResolvePosition(r, p) ==
  /\ Up(r) /\ owner[p] = r /\ position[p] = NoOffset
  /\ position' = [position EXCEPT ![p] =
                    IF committed[p] # NoOffset THEN committed[p]
                    ELSE IF mode[r] = "earliest" THEN 0 ELSE End(p)]
  /\ missed' = IF committed[p] = NoOffset /\ mode[r] = "latest"
               THEN missed \union OffsetsBelow(p, End(p)) ELSE missed
  /\ UNCHANGED << broker, replica, handled, bounds >>

\* Mutant of Consume: the commit is one record ahead of what was put.
ConsumeAhead(r, p) ==
  /\ task[r] = "polling" /\ owner[p] = r
  /\ position[p] # NoOffset /\ position[p] < End(p)
  /\ LET rec == log[p][position[p] + 1]
     IN  IF rec = Poison
         THEN UNCHANGED << task, request, cache >>
         ELSE /\ cache' = [cache EXCEPT ![r] = PutEvent(@, rec)]
              /\ task' = [task EXCEPT ![r] = "committing"]
              /\ request' = [request EXCEPT ![r] =
                   [q \in Partition |-> IF q = p THEN position[p] + 2 ELSE NoOffset]]
  /\ position' = [position EXCEPT ![p] = @ + 1]
  /\ handled' = handled \union {<<r, p, position[p]>>}
  /\ missed' = missed \ {<<p, position[p]>>}
  /\ UNCHANGED << broker, mode, fenced, bounds >>

(* One turn of `async for msg`: a record that is no event is skipped with  *)
(* `continue`, without a commit; an event is put into the cache and the    *)
(* loop waits for commit(), which without arguments commits the positions  *)
(* of all partitions assigned to the client.                               *)
Consume(r, p) ==
  /\ task[r] = "polling" /\ owner[p] = r
  /\ position[p] # NoOffset /\ position[p] < End(p)
  /\ LET rec == log[p][position[p] + 1]
         reached == [position EXCEPT ![p] = @ + 1]
     IN  /\ position' = reached
         /\ IF rec = Poison
            THEN UNCHANGED << task, request, cache >>
            ELSE /\ cache' = [cache EXCEPT ![r] = PutEvent(@, rec)]
                 /\ task' = [task EXCEPT ![r] = "committing"]
                 /\ request' = [request EXCEPT ![r] =
                      [q \in Partition |-> IF owner[q] = r THEN reached[q] ELSE NoOffset]]
  /\ handled' = handled \union {<<r, p, position[p]>>}
  /\ missed' = missed \ {<<p, position[p]>>}
  /\ UNCHANGED << broker, mode, fenced, bounds >>

\* The committed offsets once the broker has accepted r's request, if it does.
AfterCommit(r, accepted) ==
  [p \in Partition |-> IF accepted /\ request[r][p] # NoOffset
                       THEN request[r][p] ELSE committed[p]]

(* commit() returns or raises: the loop goes on either way.  The request   *)
(* of an old generation is refused; an error may also reach the client     *)
(* after the broker has stored the offsets.                                *)
FinishCommit(r, accepted) ==
  /\ task[r] = "committing"
  /\ accepted => ~fenced[r]
  /\ committed' = AfterCommit(r, accepted)
  /\ task' = [task EXCEPT ![r] = "polling"]
  /\ request' = [request EXCEPT ![r] = NoOffsets]
  /\ fenced' = [fenced EXCEPT ![r] = FALSE]
  /\ UNCHANGED << log, owner, mode, cache, position, history, bounds >>

(* stop(), or the end of the process: the poll task is cancelled where it  *)
(* waits, a commit under way may or may not reach the broker, the group    *)
(* loses a member and the cache is gone with the process.                  *)
Stop(r, accepted) ==
  /\ Up(r) /\ downs < MaxDowns
  /\ accepted => task[r] = "committing" /\ ~fenced[r]
  /\ committed' = AfterCommit(r, accepted)
  /\ task' = [task EXCEPT ![r] = "down"]
  /\ request' = [request EXCEPT ![r] = NoOffsets]
  /\ fenced' = [fenced EXCEPT ![r] = FALSE]
  /\ cache' = [cache EXCEPT ![r] = EmptyCache]
  /\ owner' = [p \in Partition |-> IF owner[p] = r THEN Nobody ELSE owner[p]]
  /\ position' = [p \in Partition |-> IF owner[p] = r THEN NoOffset ELSE position[p]]
  /\ downs' = downs + 1
  /\ UNCHANGED << log, mode, history, rebalances, pollErrors >>

(* The iterator raises an error the loop does not catch (the topic's       *)
(* authorization was withdrawn): the task ends, nothing restarts it, and   *)
(* the process goes on serving its cache.                                  *)
PollFails(r) ==
  /\ task[r] = "polling" /\ pollErrors < MaxPollErrors
  /\ task' = [task EXCEPT ![r] = "dead"]
  /\ pollErrors' = pollErrors + 1
  /\ UNCHANGED << broker, mode, position, request, fenced, cache, history, downs, rebalances >>

ReplicaStep(r) ==
  \/ \E m \in Modes : Start(r, m)
  \/ \E p \in Partition : ResolvePosition(r, p) \/ Consume(r, p)
  \/ \E accepted \in BOOLEAN : FinishCommit(r, accepted) \/ Stop(r, accepted)
  \/ PollFails(r)

Next ==
  \/ \E p \in Partition, rec \in Record : Produce(p, rec)
  \/ \E assignment \in [Partition -> Replica] : Rebalance(assignment)
  \/ \E r \in Replica : ReplicaStep(r)

Spec == Init /\ [][Next]_vars

-----------------------------------------------------------------------------
TypeOK ==
  /\ log \in [Partition -> Seq(Record)]
  /\ committed \in [Partition -> Offset]
  /\ owner \in [Partition -> Replica \union {Nobody}]
  /\ task \in [Replica -> {"down", "polling", "committing", "dead"}]
  /\ mode \in [Replica -> {"earliest", "latest"}]
  /\ position \in [Partition -> Offset]
  /\ request \in [Replica -> [Partition -> Offset]]
  /\ fenced \in [Replica -> BOOLEAN]
  /\ handled \subseteq Replica \X Partition \X Nat
  /\ missed \subseteq Partition \X Nat
  /\ \A r \in Replica : IsCache(cache[r])

(* "commits offsets only after a cache write succeeds" (kafka_client.py):  *)
(* no committed offset ever covers a record that no replica has put into   *)
(* its cache or skipped as poison, whatever stops, commits in doubt and    *)
(* rebalances come between; only records passed over by a reset to latest  *)
(* are excepted.                                                           *)
CommitCovered ==
  \A p \in Partition : \A o \in 0..(committed[p] - 1) :
     <<p, o>> \in missed \/ HandledBySome(p, o)

(* The group's offsets never move backwards: no replica, restarted,        *)
(* rebalanced or still waiting for an old commit, takes the group back.    *)
CommittedMonotone ==
  [][\A p \in Partition : committed'[p] >= committed[p]]_vars

(* A partition's owner never reads below what the group has committed, so  *)
(* a record is delivered again only while its commit is outstanding.       *)
PositionNotBehindCommit ==
  \A p \in Partition : position[p] # NoOffset => position[p] >= committed[p]

\* Offset o of p holds a version of the event id.
IsVersion(p, o, id) == log[p][o + 1] # Poison /\ log[p][o + 1].id = id

\* r was spared offset o of p: a reset passed it over, or another replica has had it.
Spared(r, p, o) == <<p, o>> \in missed \/ \E q \in Replica \ {r} : <<q, p, o>> \in handled

(* A replica that has caught up on a partition shows the last version of   *)
(* every event it holds, although commits that fail and rebalances make it *)
(* read older versions again; unless each newer version was passed over by *)
(* a reset to latest or delivered to another replica.                      *)
StaleOnlyIfMoved ==
  \A r \in Replica, p \in Partition :
     owner[p] = r /\ position[p] = End(p) =>
       \A id \in StoredIds(cache[r]) :
          PartitionOf[id] = p =>
            \E v \in 0..(End(p) - 1) :
               /\ log[p][v + 1] = EventOf(cache[r], id)
               /\ \A o \in (v + 1)..(End(p) - 1) : IsVersion(p, o, id) => Spared(r, p, o)

(* When an event's versions name different projects, rereading the old     *)
(* ones moves it back and forth between them, while the index keeps the    *)
(* one it was first put under and an eviction looks at the list of the     *)
(* last: still each replica's every event is on some list of its cache, so *)
(* a query can find it.                                                    *)
CachesReachable == \A r \in Replica : IsReachable(cache[r])

(* consumer.py, module doc: `--from-beginning` "does a full replay from    *)
(* the earliest offset".                                                   *)
FromBeginningReplaysAll ==
  [][\A p \in Partition :
       /\ position[p] = NoOffset /\ position'[p] # NoOffset
       /\ mode[owner[p]] = "earliest"
       => position'[p] = 0]_vars
=============================================================================
