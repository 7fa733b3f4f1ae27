\* One connection, either screen's, every interleaving of its five threads.
CONSTANT
    MaxMessages = 2
SPECIFICATION FairSpec
INVARIANTS
    LiftedBeforeStop
PROPERTIES
    InOrder
    StopGoesOut
    ThreadsEnd
CHECK_DEADLOCK FALSE
