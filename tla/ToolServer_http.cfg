SPECIFICATION Spec
CONSTANTS
  Call = {c1}
  Surveyor = c1
  MaxSends = 1
  Request <- Requests
INVARIANT HostedToolsHaveClient
CHECK_DEADLOCK FALSE
