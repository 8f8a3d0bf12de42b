SPECIFICATION Spec
CONSTANTS
  Server = {s1, s2}
  Webhook = {w1, w2}
  Body <- MixedBodies
  Partition = {1, 2}
  PartitionOf <- TwoPartitions
  MaxAttempts = 2
  MaxDeaths = 1
  MaxOutages = 1
  MaxGiveUps = 1
INVARIANTS
  TypeOK
  AcceptedKept
  RefusalLeavesNothing
  OnlyCheckedRecords
  SendHasProducer
  SameEventSamePartition
CHECK_DEADLOCK FALSE
