SPECIFICATION Spec
CONSTANTS
  Seeder = {j1}
  N_PROJECTS = 2
  N_WPS = 2
  PageSize = 2
  Foreign = {f1}
  Lookalike = {}
  MaxRuns = 2
  MaxRefusals = 0
  MaxAborts = 0
INVARIANT Idempotent
CHECK_DEADLOCK FALSE
