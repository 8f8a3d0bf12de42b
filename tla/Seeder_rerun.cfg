SPECIFICATION FairSpec
CONSTANTS
  Seeder = {j1, j2}
  N_PROJECTS = 2
  N_WPS = 1
  PageSize = 1
  Foreign = {f1, f2}
  Lookalike = {f2}
  MaxRuns = 1
  MaxRefusals = 1
  MaxAborts = 1
INVARIANTS
  TypeOK
  OthersSpared
  SuccessMeansSeeded
PROPERTY EveryRunEnds
CHECK_DEADLOCK FALSE
