\* Reassembly under loss, reordering and duplication.
CONSTANTS
    MaxFragments = 2
    SignBit = 3
    MaxFrame = 4
SPECIFICATION Spec
INVARIANTS
    HeldIsWanted
    WholeIsShown
PROPERTY PromiseKept
CHECK_DEADLOCK FALSE
