------------------------- MODULE MCEventsCacheHistory -------------------------
(* EventsCacheHistory for TLC: three ids in one project, one of them with two *)
(* versions, and an id in another project.  Five puts are enough to fill the *)
(* cache, bump, evict, and put an evicted id again.                          *)
EXTENDS EventsCacheHistory

FeedEvents ==
  {[id |-> i, project |-> IF i = 4 THEN "p2" ELSE "p1", at |-> i % 2] : i \in 1..4}
    \union {[id |-> 1, project |-> "p1", at |-> 0]}
=============================================================================
