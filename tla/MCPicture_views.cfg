CONSTANTS
    a1 = a1
    a2 = a2
    a3 = a3
    a4 = a4
    Addresses = {a1, a2, a3, a4}
    Windows <- MCWindows
    Request <- MCRequest
    MaxSide = 14
    MaxPools = 3
    None = None
SYMMETRY MCSymmetry
SPECIFICATION Spec
INVARIANTS
    DrawnIsAsked
    WholeWindow
    FitFits
CHECK_DEADLOCK FALSE
