------------------------------ MODULE MCPicture ------------------------------
\* Three geometries of a window: borderless and full, framed, and one that hangs
\* over the buffer's edge; a client whose screen is smaller than the first.
EXTENDS Picture, TLC

Side(x, y) == [a \in Axes |-> IF a = "x" THEN x ELSE y]

Borderless == [surface |-> Side(8, 6), origin |-> Side(0, 0),
               client |-> Side(8, 6), border |-> 0]
Framed == [surface |-> Side(6, 6), origin |-> Side(1, 2),
           client |-> Side(4, 2), border |-> 1]
Straddling == [surface |-> Side(6, 6), origin |-> Side(-1, 4),
               client |-> Side(4, 3), border |-> 1]

MCWindows == {Borderless, Framed, Straddling}
MCSymmetry == Permutations(Addresses)
MCRequest == Side(4, 4)
=============================================================================
