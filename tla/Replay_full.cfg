SPECIFICATION Spec
CONSTANTS
  EventId = {1, 2}
  Project = {"p1", "p2"}
  Event <- Crowded
  MaxEntries = 2
  Replica = {r1}
  Partition = {"a"}
  PartitionOf <- OnePartition
  Poison = poison
  Modes = {"earliest", "latest"}
  MaxLog = 1
  MaxDowns = 1
  MaxRebalances = 0
  MaxPollErrors = 0
PROPERTY FromBeginningReplaysAll
CHECK_DEADLOCK FALSE
