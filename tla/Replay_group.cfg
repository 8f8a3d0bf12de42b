SPECIFICATION Spec
CONSTANTS
  EventId = {1, 2}
  Project = {"p1"}
  Event <- OnePerPartition
  MaxEntries = 2
  Replica = {r1, r2}
  Partition = {"a", "b"}
  PartitionOf <- TwoPartitions
  Poison = poison
  Modes = {"earliest", "latest"}
  MaxLog = 2
  MaxDowns = 1
  MaxRebalances = 2
  MaxPollErrors = 1
SYMMETRY Replicas
INVARIANTS
  TypeOK
  CommitCovered
  PositionNotBehindCommit
PROPERTY CommittedMonotone
CHECK_DEADLOCK FALSE
