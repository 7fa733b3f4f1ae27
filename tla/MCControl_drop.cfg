\* The screen lets go while connect() is running.
CONSTANT
    MaxMessages = 1
SPECIFICATION Spec
INVARIANT
    DroppedForGood
CHECK_DEADLOCK FALSE
