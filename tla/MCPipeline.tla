------------------------------ MODULE MCPipeline ------------------------------
(* Pipeline for TLC: a body that is not signed, and one whose id stands in   *)
(* the other of the two fields it may stand in.                              *)
EXTENDS Pipeline

Valid(id, time) ==
  [signature |-> "matches", kind |-> "object", id |-> id, action_id |-> Missing,
   project |-> "p1", project_id |-> Missing, times |-> <<time, Missing, Missing>>]

Bodies ==
  {[Valid("a", "t2") EXCEPT !.signature = "differs"],
   [Valid(Null, "t1") EXCEPT !.action_id = "a"]}

TwoPartitions == [k \in {"a", "p1"} |-> IF k = "a" THEN 1 ELSE 2]
Ranks == [t \in {"t1", "t2"} |-> IF t = "t1" THEN 1 ELSE 2]
=============================================================================
