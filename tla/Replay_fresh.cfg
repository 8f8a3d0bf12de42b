SPECIFICATION Spec
CONSTANTS
  EventId = {1, 2}
  Project = {"p1", "p2"}
  Event <- Crowded
  MaxEntries = 1
  Replica = {r1, r2}
  Partition = {"a"}
  PartitionOf <- OnePartition
  Poison = poison
  Modes = {"earliest", "latest"}
  MaxLog = 3
  MaxDowns = 1
  MaxRebalances = 2
  MaxPollErrors = 0
SYMMETRY Replicas
INVARIANTS
  StaleOnlyIfMoved
  CachesReachable
CHECK_DEADLOCK FALSE
