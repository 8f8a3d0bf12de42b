SPECIFICATION FairSpec
CONSTANTS
  Call = {c1, c2}
  MaxRetries = 2
INVARIANTS
  TypeOK
  NoLostUpdate
  SuccessIsReal
  ClearAnswersAreExact
  MetricsAgree
PROPERTIES
  EveryCallReturns
  ImplementsRemoteCall
CHECK_DEADLOCK FALSE
