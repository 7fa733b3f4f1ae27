--------------------------- MODULE OrderedChannel ----------------------------
(***************************************************************************)
(* What ControlConnection promises of the messages sent to the host:       *)
(* "enqueueing is what fixes the submission order".  The host gets them in *)
(* that order, each once, and none behind one that was left out; a link    *)
(* that ends cuts the sequence off wherever it has got to.                 *)
(***************************************************************************)
EXTENDS Naturals, Sequences

CONSTANT Messages  \* what may be sent

VARIABLES
    sent,  \* the messages queued for the host, in the order they were queued
    got    \* the messages the host has read

channelVars == <<sent, got>>

Init == sent = <<>> /\ got = <<>>

Submit ==
    /\ \E m \in Messages : sent' = Append(sent, m)
    /\ UNCHANGED got

Deliver ==
    /\ Len(got) < Len(sent)
    /\ got' = Append(got, sent[Len(got) + 1])
    /\ UNCHANGED sent

Spec == Init /\ [][Submit \/ Deliver]_channelVars

=============================================================================
