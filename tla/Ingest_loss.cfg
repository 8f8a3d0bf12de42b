SPECIFICATION Spec
CONSTANTS
  Server = {s1}
  Webhook = {w1}
  Body <- GoodBodies
  Partition = {1}
  PartitionOf <- OnePartition
  MaxAttempts = 1
  MaxDeaths = 1
  MaxOutages = 0
  MaxGiveUps = 0
INVARIANT AtLeastOnce
CHECK_DEADLOCK FALSE
