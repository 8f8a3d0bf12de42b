SPECIFICATION FairSpec
CONSTANTS
  Server = {s1, s2}
  Webhook = {w1}
  Body <- Bodies
  Partition = {1, 2}
  PartitionOf <- TwoPartitions
  Rank <- Ranks
  ConsumerTopic = "openproject.events.raw"
  Poison = poison
  MaxEntries = 1
  Modes = {"latest"}
  MaxAttempts = 1
  MaxDeaths = 1
  MaxOutages = 1
  MaxGiveUps = 1
  MaxRebalances = 0
  MaxPollErrors = 1
INVARIANTS
  CachedWasSigned
PROPERTIES
  AcceptedIsSeen
  ShutdownsEnd
  ImplementsGroup
CHECK_DEADLOCK FALSE
