------------------------------ MODULE VideoProofs ------------------------------
(***************************************************************************)
(* The receiver keeps the video channel's promise while no frame's number  *)
(* reads as negative, for every width of the number and for frames cut     *)
(* into any number of datagrams.                                           *)
(***************************************************************************)
EXTENDS VideoReceiver, TLAPS

\* A frame is whole when one of its fragments is there with all the others.
LEMMA WholeMeans ==
  ASSUME NEW parts, NEW n
  PROVE  n \in WholeFrames(parts) <=>
           \E d \in parts : d.frame = n /\ FragmentsOf(n, d.count) \subseteq parts
BY DEF WholeFrames

\* One more datagram can make at most its own frame whole.
LEMMA WholeGrows ==
  ASSUME NEW parts, NEW d
  PROVE  /\ WholeFrames(parts) \subseteq WholeFrames(parts \cup {d})
         /\ WholeFrames(parts \cup {d}) \subseteq WholeFrames(parts) \cup {d.frame}
<1>1. ASSUME NEW n \in WholeFrames(parts)
      PROVE  n \in WholeFrames(parts \cup {d})
  <2>1. PICK e \in parts : e.frame = n /\ FragmentsOf(n, e.count) \subseteq parts
    BY <1>1, WholeMeans
  <2> QED BY <2>1, WholeMeans
<1>2. ASSUME NEW n \in WholeFrames(parts \cup {d}), n # d.frame
      PROVE  n \in WholeFrames(parts)
  <2>1. PICK e \in parts \cup {d} :
          e.frame = n /\ FragmentsOf(n, e.count) \subseteq parts \cup {d}
    BY <1>2, WholeMeans
  <2>2. \A f \in FragmentsOf(n, e.count) : f.frame = n
    BY DEF FragmentsOf
  <2>3. FragmentsOf(n, e.count) \subseteq parts /\ e \in parts
    BY <1>2, <2>1, <2>2
  <2> QED BY <2>1, <2>3, WholeMeans
<1> QED BY <1>1, <1>2

\* With headers that agree, it makes its frame whole when the frame's other
\* fragments are there.
LEMMA WholeBy ==
  ASSUME NEW parts, NEW d, \A e \in parts : e.frame = d.frame => e.count = d.count
  PROVE  d.frame \in WholeFrames(parts \cup {d}) <=>
           FragmentsOf(d.frame, d.count) \subseteq parts \cup {d}
<1>1. ASSUME d.frame \in WholeFrames(parts \cup {d})
      PROVE  FragmentsOf(d.frame, d.count) \subseteq parts \cup {d}
  <2>1. PICK e \in parts \cup {d} :
          e.frame = d.frame /\ FragmentsOf(d.frame, e.count) \subseteq parts \cup {d}
    BY <1>1, WholeMeans
  <2> QED BY <2>1
<1> QED BY <1>1, WholeMeans

-----------------------------------------------------------------------------
\* What the client reads of a number is a signed Int, ...
LEMMA ReadsAnInt ==
  ASSUME NEW n \in Nat
  PROVE  AsInt(n) \in Ints
<1> DEFINE u == n % (2 * SignBit)
<1>1. SignBit \in Nat /\ SignBit > 0 /\ 2 * SignBit \in Nat /\ 2 * SignBit > 0
  BY VideoAssumption DEF VideoAssumption
<1>2. u \in 0..(2 * SignBit - 1)
  BY <1>1
<1> HIDE DEF u
<1>3. (IF u < SignBit THEN u ELSE u - 2 * SignBit) \in (-SignBit)..(SignBit - 1)
  BY <1>1, <1>2
<1> QED BY <1>3 DEF u, AsInt, Ints

\* ... and the number itself below the sign bit.
LEMMA ReadsTheNumber ==
  ASSUME NEW n \in Nat, n < SignBit
  PROVE  AsInt(n) = n
<1>1. SignBit \in Nat
  BY VideoAssumption DEF VideoAssumption
<1>2. n % (2 * SignBit) = n
  BY <1>1
<1> QED BY <1>2 DEF AsInt

-----------------------------------------------------------------------------
\* What a datagram on its way is, under the invariant.
LEMMA Arriving ==
  ASSUME ReceiverInv, Unsigned, NEW d \in net
  PROVE  /\ d \in Datagrams /\ d.frame \in Nat /\ d.count \in 1..MaxFragments
         /\ d.frame < frameNumber /\ newestCompleted \in Int /\ newestCompleted >= -1
         /\ \A e \in net \cup reached : e.frame = d.frame => e.count = d.count
         /\ \A e \in pending : e.frame = d.frame => e.count = d.count
<1>1. d \in Datagrams /\ \A e \in pending : e \in reached
  BY DEF ReceiverInv, TypeOK, Wanted
<1>2. d.count \in 1..MaxFragments
  BY <1>1 DEF Datagrams
<1>3. frameNumber \in Nat /\ d.frame \in 0..(frameNumber - 1)
  BY DEF ReceiverInv, TypeOK, HeadersAgree
<1>4. newestCompleted \in Int /\ newestCompleted >= -1
  BY VideoAssumption DEF VideoAssumption, ReceiverInv, TypeOK, Ints, Wanted
<1> QED BY <1>1, <1>2, <1>3, <1>4 DEF ReceiverInv, HeadersAgree

\* Whatever the receiver does with a datagram, it hands a frame over exactly
\* when the frame has just become whole and is the newest.
LEMMA ReceiveHandsOver ==
  ASSUME ReceiverInv, Unsigned, NEW d \in net, Receive(d)
  PROVE  /\ newestCompleted' = IF /\ d.frame \in WholeFrames(reached')
                                  /\ d.frame > newestCompleted
                                 THEN d.frame ELSE newestCompleted
         /\ WholeFrames(reached) \subseteq WholeFrames(reached')
         /\ WholeFrames(reached') \subseteq WholeFrames(reached) \cup {d.frame}
<1>1. /\ d.frame \in Nat /\ newestCompleted \in Int /\ newestCompleted >= -1
      /\ reached' = reached \cup {d} /\ running = TRUE
      /\ ~Mismatched(d)
  BY Arriving DEF ReceiverInv, TypeOK, Receive, Mismatched
<1>2. d.frame \in WholeFrames(reached') <=> FragmentsOf(d.frame, d.count) \subseteq reached'
  BY <1>1, Arriving, WholeBy
<1>3. \A f \in FragmentsOf(d.frame, d.count) : f.frame = d.frame
  BY DEF FragmentsOf
<1>4. pending \subseteq reached
  BY DEF ReceiverInv, Wanted
<1> DEFINE HandsOver ==
      newestCompleted' = IF d.frame \in WholeFrames(reached') /\ d.frame > newestCompleted
                         THEN d.frame ELSE newestCompleted
<1>5. ASSUME TooOld(d) PROVE HandsOver
  BY <1>1, <1>5 DEF TooOld, Receive, Ignore, Hold, Complete
<1>6. ASSUME ~TooOld(d), d.frame > newestCompleted PROVE HandsOver
  <2>1. Completes(d) <=> FragmentsOf(d.frame, d.count) \subseteq reached'
    BY <1>1, <1>3, <1>4, <1>6 DEF Completes, Held, ReceiverInv, Wanted
  <2> QED BY <1>1, <1>2, <1>6, <2>1 DEF Receive, Ignore, Hold, Complete
<1>7. ASSUME d.frame = newestCompleted PROVE HandsOver
  BY <1>1, <1>7 DEF Receive, Ignore, Hold, Complete
<1>8. TooOld(d) \/ (~TooOld(d) /\ d.frame > newestCompleted) \/ d.frame = newestCompleted
  BY <1>1 DEF TooOld
<1>9. WholeFrames(reached) \subseteq WholeFrames(reached') /\
      WholeFrames(reached') \subseteq WholeFrames(reached) \cup {d.frame}
  BY <1>1, WholeGrows
<1> QED BY <1>1, <1>5, <1>6, <1>7, <1>8, <1>9

-----------------------------------------------------------------------------
\* The invariant holds at the start and after every step.
LEMMA ReceiverStarts == Init => ReceiverInv
<1> SUFFICES ASSUME Init PROVE ReceiverInv
  OBVIOUS
<1>1. WholeFrames(reached) = {}
  BY DEF Init, WholeFrames
<1>2. TypeOK
  BY VideoAssumption DEF VideoAssumption, Init, TypeOK, Ints
<1>3. HeadersAgree /\ Wanted /\ Shown
  BY <1>1 DEF Init, HeadersAgree, Wanted, Shown
<1> QED BY <1>2, <1>3 DEF ReceiverInv

\* Sending a frame only adds datagrams, of a number not used before while the
\* numbers are below the sign bit.
LEMMA SendKeepsInv ==
  ASSUME ReceiverInv, SendVideoFrame
  PROVE  ReceiverInv'
<1>1. PICK count \in 1..MaxFragments : \E carried \in SUBSET FragmentsOf(AsInt(frameNumber), count) :
        net' = net \cup carried
  BY DEF SendVideoFrame
<1>2. /\ frameNumber \in Nat /\ frameNumber' = frameNumber + 1
      /\ UNCHANGED <<reached, pending, newestCompleted, running>>
  BY DEF ReceiverInv, TypeOK, SendVideoFrame
<1>3. AsInt(frameNumber) \in Ints
  BY <1>2, ReadsAnInt
<1>4. \A f \in FragmentsOf(AsInt(frameNumber), count) :
        f \in Datagrams /\ f.frame = AsInt(frameNumber) /\ f.count = count
  BY <1>1, <1>3, VideoAssumption DEF FragmentsOf, Datagrams, VideoAssumption
<1>5. \A d \in net' :
        d \in net \/ (d \in Datagrams /\ d.frame = AsInt(frameNumber) /\ d.count = count)
  BY <1>1, <1>4
<1>6. TypeOK'
  BY <1>2, <1>5 DEF ReceiverInv, TypeOK
<1>7. ASSUME Unsigned'
      PROVE  Unsigned /\ HeadersAgree' /\ Wanted' /\ Shown'
  <2>1. Unsigned /\ AsInt(frameNumber) = frameNumber
    BY <1>2, <1>7, VideoAssumption, ReadsTheNumber DEF VideoAssumption, Unsigned
  <2>2. HeadersAgree
    BY <2>1 DEF ReceiverInv
  <2>3. HeadersAgree'
    BY <1>2, <1>5, <2>1, <2>2 DEF HeadersAgree
  <2>4. Wanted' /\ Shown'
    BY <1>2, <2>1 DEF ReceiverInv, Wanted, Shown, WholeFrames
  <2> QED BY <2>1, <2>3, <2>4
<1> QED BY <1>6, <1>7 DEF ReceiverInv

LEMMA ReceiveKeepsInv ==
  ASSUME ReceiverInv, NEW d \in net, Receive(d)
  PROVE  ReceiverInv'
<1>1. /\ net' \subseteq net /\ reached' = reached \cup {d}
      /\ UNCHANGED <<frameNumber, running>>
  BY DEF Receive
<1>2. pending' \subseteq pending \cup {d} /\ newestCompleted' \in {newestCompleted, d.frame}
  BY DEF Receive, Ignore, Hold, Complete, Held
<1>3. d \in Datagrams /\ d.frame \in Ints /\ TypeOK
  BY DEF ReceiverInv, TypeOK, Datagrams
<1>4. TypeOK'
  BY <1>1, <1>2, <1>3 DEF TypeOK
<1>5. ASSUME Unsigned'
      PROVE  HeadersAgree' /\ Wanted' /\ Shown'
  <2>1. Unsigned
    BY <1>1, <1>5 DEF Unsigned
  <2>2. HeadersAgree /\ Wanted /\ Shown
    BY <2>1 DEF ReceiverInv
  <2>3. /\ d.frame \in Nat /\ newestCompleted \in Int /\ newestCompleted >= -1
        /\ frameNumber \in Nat /\ ~Mismatched(d)
    BY <2>1, Arriving DEF Mismatched, ReceiverInv, TypeOK
  <2>4. HeadersAgree'
    BY <1>1, <2>2 DEF HeadersAgree
  <2>5. \A e \in reached : e.frame \in Nat
    BY <2>2, <2>3 DEF HeadersAgree
  <2>6. \A e \in pending \cup {d} : e.frame \in Nat /\ e \in reached'
    BY <1>1, <2>2, <2>3, <2>5 DEF Wanted
  <2>7. Wanted'
    <3>1. CASE Ignore(d)
      BY <1>1, <2>2, <2>3, <2>5, <2>6, <3>1 DEF Ignore, TooOld, Wanted
    <3>2. CASE Hold(d)
      BY <1>1, <2>2, <2>3, <2>5, <2>6, <3>2 DEF Hold, Held, TooOld, Wanted
    <3>3. CASE Complete(d)
      BY <1>1, <2>2, <2>3, <2>5, <2>6, <3>3 DEF Complete, Held, TooOld, Wanted
    <3> QED BY <3>1, <3>2, <3>3 DEF Receive
  <2>8. Shown'
    <3>1. \A n \in WholeFrames(reached) : n \in Nat
      BY <2>5, WholeMeans
    <3> QED BY <2>1, <2>2, <2>3, <3>1, ReceiveHandsOver DEF Shown
  <2> QED BY <2>4, <2>7, <2>8
<1> QED BY <1>4, <1>5 DEF ReceiverInv

\* THE INVARIANT.  While the numbers are below the sign bit, frames are held
\* while they are wanted and handed over when they are whole:
\* VideoReceiver.handleDatagram loses no frame all of whose datagrams arrived
\* in time and hands over none that lacks one.
THEOREM ReceiverInvariant == Spec => []ReceiverInv
<1>1. ASSUME ReceiverInv, [Next]_vars
      PROVE  ReceiverInv'
  <2>1. CASE Stop
    BY <1>1, <2>1 DEF Stop, ReceiverInv, TypeOK, Unsigned, HeadersAgree, Wanted,
                      Shown, WholeFrames
  <2>2. CASE UNCHANGED vars
    BY <1>1, <2>2 DEF vars, ReceiverInv, TypeOK, Unsigned, HeadersAgree, Wanted,
                      Shown, WholeFrames
  <2> QED BY <1>1, <2>1, <2>2, SendKeepsInv, ReceiveKeepsInv DEF Next
<1> QED BY <1>1, ReceiverStarts, PTL DEF Spec

\* What the runs check of it: the receiver's state is well typed, ...
THEOREM ReceiverTypeCorrect == Spec => []TypeOK
<1>1. ReceiverInv => TypeOK
  BY DEF ReceiverInv
<1> QED BY <1>1, ReceiverInvariant, PTL

\* ... what it holds is what is still wanted, up to the sign bit, ...
THEOREM HoldsWhatIsWanted == Spec => []HeldIsWanted
<1>1. ReceiverInv => HeldIsWanted
  BY DEF ReceiverInv, HeldIsWanted
<1> QED BY <1>1, ReceiverInvariant, PTL

\* ... and every frame that arrived whole was handed over or superseded, up
\* to the sign bit.
THEOREM WholeFramesAreShown == Spec => []WholeIsShown
<1>1. ReceiverInv => WholeIsShown
  BY DEF ReceiverInv, WholeIsShown
<1> QED BY <1>1, ReceiverInvariant, PTL

-----------------------------------------------------------------------------
\* THE PROMISE.  VideoReceiver implements LossyVideo in every step that leaves
\* the numbers below the sign bit: a frame is handed over as soon as it is
\* whole, and the numbers never go backwards, whatever the network loses,
\* reorders or duplicates.
THEOREM PromiseImplemented == Spec => PromiseKept
<1> DEFINE view == <<frameNumber, WholeFrames(reached), newestCompleted>>
<1>1. Init => Promise!Init
  BY DEF Init, Promise!Init, WholeFrames
<1>2. ASSUME ReceiverInv, [Next]_vars
      PROVE  [Unsigned' => Promise!Next]_view
  <2>1. CASE SendVideoFrame
    BY <2>1 DEF SendVideoFrame, Promise!Next, Promise!Send
  <2>2. ASSUME NEW d \in net, Receive(d), Unsigned'
        PROVE  Promise!Next \/ UNCHANGED view
    <3>1. Unsigned
      BY <2>2 DEF Receive, Unsigned
    <3>2. /\ d.frame \in Nat /\ d.frame < frameNumber /\ frameNumber \in Nat
          /\ newestCompleted \in Int /\ UNCHANGED frameNumber
      BY <1>2, <2>2, <3>1, Arriving DEF ReceiverInv, TypeOK, Receive
    <3>3. \A n \in WholeFrames(reached) : n <= newestCompleted
      BY <1>2, <3>1 DEF ReceiverInv, Shown
    <3>4. CASE d.frame \in WholeFrames(reached') \ WholeFrames(reached)
      <4>1. Promise!Carry(d.frame)
        BY <1>2, <2>2, <3>1, <3>2, <3>4, ReceiveHandsOver DEF Promise!Carry
      <4> QED BY <3>2, <4>1 DEF Promise!Next
    <3>5. CASE d.frame \notin WholeFrames(reached') \ WholeFrames(reached)
      <4>1. WholeFrames(reached') = WholeFrames(reached)
        BY <1>2, <2>2, <3>1, <3>5, ReceiveHandsOver
      <4>2. newestCompleted' = newestCompleted
        BY <1>2, <2>2, <3>1, <3>2, <3>3, <3>5, ReceiveHandsOver
      <4> QED BY <3>2, <4>1, <4>2 DEF WholeFrames
    <3> QED BY <3>4, <3>5
  <2>3. CASE Stop
    BY <2>3 DEF Stop, WholeFrames
  <2>4. CASE UNCHANGED vars
    BY <2>4 DEF vars, WholeFrames
  <2> QED BY <1>2, <2>1, <2>2, <2>3, <2>4 DEF Next
<1> QED BY <1>1, <1>2, ReceiverInvariant, PTL DEF Spec, PromiseKept

=============================================================================
