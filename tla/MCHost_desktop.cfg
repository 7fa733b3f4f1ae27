CONSTANTS
  UseVirtualDisplay = TRUE
  StopWaits = TRUE
  ClientInputs = {"mouse", "pad"}
  MaxConnections = 2
  MaxRequests = 2
  MaxSessions = 2
  MaxFrame = 0
SPECIFICATION Spec
INVARIANTS
  CleanWhenIdle
  ScreensStayForTheLaunch
  ShutdownLeavesNothing
  NoButtonLeftDown
