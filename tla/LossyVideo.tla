------------------------------ MODULE LossyVideo ------------------------------
(***************************************************************************)
(* What the video channel promises the decoder: no retransmission and no   *)
(* waiting.  A frame is handed over at the moment the last of its          *)
(* datagrams arrives, unless a newer one has been handed over already;     *)
(* frames may be skipped but the numbers never go backwards.               *)
(***************************************************************************)
EXTENDS Integers

VARIABLES
    sent,     \* how many frames the host has numbered
    carried,  \* the frames all of whose datagrams have arrived
    last      \* the newest frame handed over, -1 before the first

Init ==
    /\ sent = 0
    /\ carried = {}
    /\ last = -1

Send ==
    /\ sent' = sent + 1
    /\ UNCHANGED <<carried, last>>

Carry(n) ==
    /\ n \in 0..(sent - 1) \ carried
    /\ carried' = carried \cup {n}
    /\ last' = IF n > last THEN n ELSE last
    /\ UNCHANGED sent

Next == Send \/ \E n \in 0..(sent - 1) : Carry(n)

Spec == Init /\ [][Next]_<<sent, carried, last>>

=============================================================================
