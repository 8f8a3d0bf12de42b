--------------------------- MODULE MCReplayConsumer ---------------------------
(* ReplayConsumer for TLC: which events are produced, and where they go.     *)
EXTENDS ReplayConsumer

\* Two versions of one event, which is moved to another project.
Versions == {[id |-> 1, project |-> IF v = 1 THEN "p1" ELSE "p2", at |-> v] : v \in 1..2}

\* An event for each of two partitions.
OnePerPartition == [id : {1, 2}, project : {"p1"}, at : {1}]

\* Two versions of an event and one of another, which the cache has no room for.
Crowded == Versions \union {[id |-> 2, project |-> "p1", at |-> 1]}

OnePartition == [id \in EventId |-> "a"]
TwoPartitions == [id \in EventId |-> IF id = 1 THEN "a" ELSE "b"]

Replicas == Permutations(Replica)
=============================================================================
