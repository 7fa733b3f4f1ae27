------------------------------ MODULE UndoRecord ------------------------------
(***************************************************************************)
(* An undo record: something of the user's may be changed only while the   *)
(* way to undo it is recorded where it survives the one who changes it.    *)
(***************************************************************************)

VARIABLES
    owed,       \* the user's state is not as it was
    recorded    \* the way back is on record

Init == ~owed /\ ~recorded

Record == ~owed /\ recorded' = TRUE /\ owed' = owed

Change == recorded /\ owed' \in BOOLEAN /\ recorded' = recorded

Forget == ~owed /\ recorded' = FALSE /\ owed' = owed

Next == Record \/ Change \/ Forget

Spec == Init /\ [][Next]_<<owed, recorded>>
=============================================================================
