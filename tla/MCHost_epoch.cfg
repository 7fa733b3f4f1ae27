CONSTANTS
  UseVirtualDisplay = FALSE
  StopWaits = TRUE
  ClientInputs = {}
  MaxConnections = 1
  MaxRequests = 1
  MaxSessions = 1
  MaxFrame = 0
SPECIFICATION Spec
INVARIANT
  ShutdownReachesLaunch
