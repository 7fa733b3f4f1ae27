---------------------------- MODULE VideoReceiver -----------------------------
(***************************************************************************)
(* The video channel: StreamServer::SendVideoFrame cuts a frame into       *)
(* datagrams, the network loses, reorders and duplicates them, and the     *)
(* client's VideoReceiver puts whole frames together again.  One client    *)
(* session: every connect() makes a new receiver on a new port.            *)
(***************************************************************************)
EXTENDS Integers, FiniteSets

CONSTANTS
    MaxFragments,  \* the most datagrams a frame is cut into
    SignBit,       \* the first number that Kotlin reads as negative: 2^31
    MaxFrame       \* bound for checking: how many frames are sent

ASSUME VideoAssumption ==
    MaxFragments \in Nat \ {0} /\ SignBit \in Nat \ {0} /\ MaxFrame \in Nat

VARIABLES
    frameNumber,      \* how many frames were sent: StreamServer::frameNumber_
                      \* is its value in an uint32_t
    net,              \* datagrams on their way
    reached,          \* history: the datagrams the receiver has read
    pending,          \* VideoReceiver.pending: the fragments it holds
    newestCompleted,  \* VideoReceiver.newestCompleted
    running           \* VideoReceiver.running

vars == <<frameNumber, net, reached, pending, newestCompleted, running>>

\* The host writes the n-th frame's number as an uint32_t; the client reads the
\* same four bytes as a signed Int.
AsInt(n) ==
    LET u == n % (2 * SignBit)
    IN  IF u < SignBit THEN u ELSE u - 2 * SignBit

Ints == (-SignBit)..(SignBit - 1)

\* What the receiver reads in the header of a datagram.
Datagrams == {d \in [frame : Ints, index : Nat, count : 1..MaxFragments] : d.index < d.count}

FragmentsOf(number, count) ==
    {[frame |-> number, index |-> i, count |-> count] : i \in 0..(count - 1)}

\* The frames of which `parts' has every fragment.
WholeFrames(parts) == {d.frame : d \in {e \in parts : FragmentsOf(e.frame, e.count) \subseteq parts}}

Init ==
    /\ frameNumber = 0
    /\ net = {}
    /\ reached = {}
    /\ pending = {}
    /\ newestCompleted = -1
    /\ running = TRUE

-----------------------------------------------------------------------------
\* SendVideoFrame numbers the frame and sends its fragments, of which any may
\* be lost; the others arrive in any order.
SendVideoFrame ==
    /\ frameNumber < MaxFrame
    /\ frameNumber' = frameNumber + 1
    /\ \E count \in 1..MaxFragments :
          \E carried \in SUBSET FragmentsOf(AsInt(frameNumber), count) : net' = net \cup carried
    /\ UNCHANGED <<reached, pending, newestCompleted, running>>

-----------------------------------------------------------------------------
\* VideoReceiver.handleDatagram.  A fragment is turned away when its frame is
\* older than the newest completed one, or held with another fragment count.
\* "Unsigned comparison", says the code, of two signed Ints.
\* Mutant of TooOld: the test is forgotten.
TooOldNever(d) == d.frame = -1 /\ newestCompleted # -1

TooOld(d) == d.frame # -1 /\ newestCompleted # -1 /\ d.frame < newestCompleted

Mismatched(d) == \E e \in pending : e.frame = d.frame /\ e.count # d.count

Held(d) == pending \cup {d}

\* Mutant of Completes: the last fragment is taken to arrive last.
CompletesWithLast(d) == d.index = d.count - 1

Completes(d) == FragmentsOf(d.frame, d.count) \subseteq Held(d)

Ignore(d) ==
    /\ TooOld(d) \/ Mismatched(d)
    /\ UNCHANGED <<pending, newestCompleted>>

Hold(d) ==
    /\ ~TooOld(d) /\ ~Mismatched(d) /\ ~Completes(d)
    /\ pending' = Held(d)
    /\ UNCHANGED newestCompleted

\* Mutant of Complete: older fragments stay where they are.
CompleteKeepingOlder(d) ==
    /\ ~TooOld(d) /\ ~Mismatched(d) /\ Completes(d)
    /\ newestCompleted' = d.frame
    /\ pending' = {e \in Held(d) : e.frame # d.frame}

\* The frame is whole: it goes to onFrame, and it and everything older go.
Complete(d) ==
    /\ ~TooOld(d) /\ ~Mismatched(d) /\ Completes(d)
    /\ newestCompleted' = d.frame
    /\ pending' = {e \in Held(d) : e.frame > d.frame}

\* The receiver thread reads a datagram, of which the network may keep a copy.
Receive(d) ==
    /\ running = TRUE
    /\ net' \in {net, net \ {d}}
    /\ reached' = reached \cup {d}
    /\ Ignore(d) \/ Hold(d) \/ Complete(d)
    /\ UNCHANGED <<frameNumber, running>>

\* VideoReceiver.stop: the thread is joined and what it held is cleared.
Stop ==
    /\ running = TRUE
    /\ running' = FALSE
    /\ pending' = {}
    /\ UNCHANGED <<frameNumber, net, reached, newestCompleted>>

Next == SendVideoFrame \/ (\E d \in net : Receive(d)) \/ Stop

Spec == Init /\ [][Next]_vars

-----------------------------------------------------------------------------
TypeOK ==
    /\ frameNumber \in Nat
    /\ net \subseteq Datagrams
    /\ reached \subseteq Datagrams
    /\ pending \subseteq Datagrams
    /\ newestCompleted \in Ints
    /\ running \in BOOLEAN

\* No frame has been sent yet whose number reads as negative.
Unsigned == frameNumber <= SignBit

\* The header of a frame's datagrams is the same in all of them, and no
\* datagram is of a frame that was never sent.
HeadersAgree ==
    /\ \A d, e \in net \cup reached : d.frame = e.frame => d.count = e.count
    /\ \A d \in net \cup reached : d.frame \in 0..(frameNumber - 1)

\* What is held is exactly what has arrived of the frames still wanted: nothing
\* of a newer frame has been thrown away, and nothing older is kept for ever.
\* Of the newest frame itself, copies that came twice may be held.
Wanted ==
    /\ newestCompleted >= -1
    /\ \A d \in pending : d \in reached /\ d.frame >= newestCompleted
    /\ running = TRUE => \A d \in reached : d.frame > newestCompleted => d \in pending

\* The newest frame handed over arrived whole, and every frame that has arrived
\* whole was handed over or is older than one that was ("Never wait for a
\* missing fragment", PROTOCOL.md).
Shown ==
    /\ newestCompleted = -1 \/ newestCompleted \in WholeFrames(reached)
    /\ \A n \in WholeFrames(reached) : n <= newestCompleted

\* Both hold until a frame's number reaches the sign bit, 2^31 frames into a
\* session: from there VideoReceiver.kt turns every new frame away as too old.
HeldIsWanted == Unsigned => Wanted

\* The same of the frames that arrived whole (VideoReceiver.handleDatagram).
WholeIsShown == Unsigned => Shown

ReceiverInv == TypeOK /\ (Unsigned => HeadersAgree /\ Wanted /\ Shown)

\* The receiver keeps the channel's promise (LossyVideo) in every step that
\* leaves the numbers below the sign bit.
Promise == INSTANCE LossyVideo WITH
    sent <- frameNumber, carried <- WholeFrames(reached), last <- newestCompleted

PromiseKept ==
    /\ Promise!Init
    /\ [][Unsigned' => Promise!Next]_<<frameNumber, WholeFrames(reached), newestCompleted>>

=============================================================================
