SPECIFICATION FairSpec
CONSTANTS
  Call = {c1, c2}
  Surveyor = c1
  MaxSends = 2
  Request <- Requests
INVARIANTS
  TypeOK
  CountedOnce
  AnswersAreTrue
  WrittenIsChecked
  ClientOutlivesCalls
PROPERTY ShutdownEnds
CHECK_DEADLOCK FALSE
