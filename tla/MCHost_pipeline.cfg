CONSTANTS
  UseVirtualDisplay = FALSE
  StopWaits = TRUE
  ClientInputs = {}
  MaxConnections = 2
  MaxRequests = 2
  MaxSessions = 2
  MaxFrame = 1
SPECIFICATION Spec
INVARIANTS
  TypeOK
  SectionOwnsEncoder
  VideoToItsClient
  StoppedIsQuiet
  KeyframeOwed
