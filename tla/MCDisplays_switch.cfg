CONSTANTS
  s1 = s1
  s2 = s2
  Screens = {s1, s2}
  Refusable = {"create", "ping", "mark", "attach", "primary", "keep", "restore", "default",
               "remove"}
  MaxSessions = 2
  MaxCrashes = 2
SPECIFICATION FairSpec
INVARIANTS
  NoScreenLeftOff
  NeverDark
PROPERTIES
  UndoSpec
  ScreensComeBack
