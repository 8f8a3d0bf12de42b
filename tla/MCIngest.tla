------------------------------- MODULE MCIngest -------------------------------
(* Ingest for TLC: bodies that are accepted, unsigned, not to be keyed, or   *)
(* keyed by another field than the one with the id; or one good body.        *)
EXTENDS Ingest

Valid(id) ==
  [signature |-> "matches", kind |-> "object", id |-> id, action_id |-> Missing,
   project |-> "p1", project_id |-> Missing, times |-> <<"t1", Missing, Missing>>]

GoodBodies == {Valid("a")}
MixedBodies ==
  {Valid("a"), [Valid("a") EXCEPT !.signature = "differs"], [Valid("a") EXCEPT !.kind = "array"],
   [Valid("a") EXCEPT !.signature = "not ascii"], Valid(Surrogate),
   [Valid(Null) EXCEPT !.action_id = "a", !.project = "b"]}

Keys == {Zero, Null, Surrogate, "a", "b"}
OnePartition == [k \in Keys |-> 1]
TwoPartitions == [k \in Keys |-> IF k = "a" THEN 1 ELSE 2]
=============================================================================
