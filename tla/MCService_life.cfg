CONSTANTS
    Hosts = {1, 2}
    Buttons = {b}
    Stopper = 0
    MaxKills = 1
SPECIFICATION FairSpec
INVARIANTS
    OneService
    DownIsRemembered
    CoverDecodes
PROPERTIES
    StopIsObeyed
    ConsoleAnswers
CHECK_DEADLOCK FALSE
