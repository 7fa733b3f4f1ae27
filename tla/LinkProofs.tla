------------------------------ MODULE LinkProofs ------------------------------
(***************************************************************************)
(* Theorems about VideoLink: its types, that a reported loss is mended and *)
(* that the first keyframe is fed first, for any backlog, any number of    *)
(* frames in flight and any number of unread requests.                     *)
(***************************************************************************)
EXTENDS VideoLink, SequenceTheorems, TLAPS

Mishaps == {"none", "encoder", "unseen", "repeated", "throttled", "backlog", "dropped"}

\* Every request but one was made after the throttle had seen room for it, and the
\* ticker may have passed the throttle's test before another request was made.
RequestsFit ==
    /\ ~throttled => requests < MaxRequests
    /\ ticker = "asking" => requests <= MaxRequests

\* The callback thread is in pump() only with a frame to feed and no buffer left;
\* a buffer waits only for a queue that is empty; and nothing is queued or fed
\* before the first keyframe.
PumpInv ==
    /\ pump # "idle" => queue # <<>> /\ ~buffer
    /\ buffer => queue = <<>>
    /\ ~sawKeyframe => queue = <<>> /\ reference = "none"
    /\ newest = "none" => ~sawKeyframe

\* While nothing has gone wrong the frame in hand is the first of the queue, no
\* frame is a hole, and what is missing has left something to report.
NothingWrong ==
    /\ pump # "swallows"
    /\ pump # "idle" => hand = Head(queue)
    /\ \A i \in DOMAIN link : link[i] # "hole"
    /\ gap /\ newest # "none" => stale

\* A keyframe will come down the link: asked for, owed or sent, or about to be
\* asked for when what is missing is reported.
Asked ==
    \/ requests > 0 \/ forceIdr \/ ticker = "asking" \/ (gap /\ stale)
    \/ \E i \in DOMAIN link : link[i] = "key"

\* Behind each queued frame that will not decode, a keyframe is queued or coming;
\* and so there is behind a reference that is bad already.
MendingInv ==
    /\ reference = "bad" => Asked \/ \E j \in DOMAIN queue : queue[j].key
    /\ \A i \in DOMAIN queue :
          queue[i].gap /\ ~queue[i].key =>
              Asked \/ \E j \in DOMAIN queue : j > i /\ queue[j].key

LinkInv ==
    /\ TypeOK /\ RequestsFit /\ PumpInv
    /\ mishap = "none" => NothingWrong /\ MendingInv
    /\ KeyframeGoesFirst

-----------------------------------------------------------------------------
(* Sequences.                                                                *)

LEMMA AppendFacts ==
    ASSUME NEW S, NEW s \in Seq(S), NEW e \in S
    PROVE  /\ Append(s, e) \in Seq(S)
           /\ Append(s, e) # <<>>
           /\ Len(Append(s, e)) = Len(s) + 1
           /\ DOMAIN Append(s, e) = 1 .. Len(s) + 1
           /\ \A i \in DOMAIN s : Append(s, e)[i] = s[i]
           /\ Append(s, e)[Len(s) + 1] = e
           /\ Head(Append(s, e)) = IF s = <<>> THEN e ELSE Head(s)
OBVIOUS

LEMMA TailFacts ==
    ASSUME NEW S, NEW s \in Seq(S), s # <<>>
    PROVE  /\ Head(s) \in S
           /\ Head(s) = s[1]
           /\ 1 \in DOMAIN s
           /\ Tail(s) \in Seq(S)
           /\ Len(Tail(s)) = Len(s) - 1
           /\ \A i \in DOMAIN Tail(s) : i + 1 \in DOMAIN s /\ Tail(s)[i] = s[i + 1]
           /\ \A i \in DOMAIN s : i > 1 => i - 1 \in DOMAIN Tail(s) /\ Tail(s)[i - 1] = s[i]
<1>1. Len(s) \in Nat /\ DOMAIN s = 1 .. Len(s) /\ Len(s) # 0
  BY EmptySeq, LenProperties
<1>2. Tail(s) \in Seq(S) /\ Len(Tail(s)) = Len(s) - 1
      /\ \A i \in 1 .. Len(Tail(s)) : Tail(s)[i] = s[i + 1]
  BY HeadTailProperties
<1>3. DOMAIN Tail(s) = 1 .. Len(s) - 1
  BY <1>2, LenProperties
<1>4. Head(s) \in S /\ Head(s) = s[1]
  BY HeadTailProperties
<1> QED BY <1>1, <1>2, <1>3, <1>4

-----------------------------------------------------------------------------
(* Types.                                                                    *)

LEMMA FrameTypes ==
    /\ \A kind, missing : missing \in BOOLEAN => Frame(kind, missing) \in Frames
    /\ NoFrame \in Frames
BY DEF Frame, Frames, NoFrame

LEMMA FirstTypes ==
    ASSUME NEW before \in Mishaps, NEW what \in Mishaps \ {"none"}
    PROVE  First(before, what) \in Mishaps \ {"none"}
BY DEF First, Mishaps

LEMMA FeedOrDropTypes ==
    ASSUME TypeOK, NEW frame \in Frames, NEW before \in Mishaps,
           FeedOrDrop(frame, before)
    PROVE  /\ reference' \in {"none", "good", "bad"}
           /\ output' \in BOOLEAN
           /\ renderedFrame' = renderedFrame
           /\ mishap' \in Mishaps
<1>1. reference' \in {"none", "good", "bad"}
  BY DEF FeedOrDrop, Feed, Drop, Spoilt, TypeOK
<1>2. output' \in BOOLEAN
  <2>1. output \in BOOLEAN BY Zenon DEF TypeOK
  <2> QED BY <2>1, Zenon DEF FeedOrDrop, Feed, Drop
<1> QED BY <1>1, <1>2, FirstTypes, Zenon DEF FeedOrDrop, Mishaps

LEMMA SubmitTypes ==
    ASSUME TypeOK, NEW frame \in Frames, NEW before \in Mishaps, Submit(frame, before)
    PROVE  /\ {sawKeyframe, buffer, output, renderedFrame}' \subseteq BOOLEAN
           /\ queue' \in Seq(Frames) /\ Len(queue') <= MAX_QUEUED_FRAMES + 1
           /\ pump' \in {"idle", "peeked", "contended", "swallows"}
           /\ hand' \in Frames
           /\ reference' \in {"none", "good", "bad"}
           /\ mishap' \in Mishaps
<1>0. {sawKeyframe, buffer, output, renderedFrame} \subseteq BOOLEAN BY Zenon DEF TypeOK
<1>1. CASE ~sawKeyframe /\ ~frame.key /\ mishap' = before /\ UNCHANGED <<decoderVars, codecVars>>
  <2>1. UNCHANGED <<sawKeyframe, queue, buffer, pump, hand, reference, output, renderedFrame>>
    BY <1>1 DEF decoderVars, codecVars
  <2> QED BY <1>0, <1>1, <2>1 DEF TypeOK
<1>2. CASE sawKeyframe' = TRUE /\ buffer' = FALSE /\ FeedOrDrop(frame, before)
           /\ UNCHANGED <<queue, pump, hand>>
  <2>1. {sawKeyframe, buffer, output, renderedFrame}' \subseteq BOOLEAN
    BY <1>0, <1>2, FeedOrDropTypes, Zenon
  <2> QED BY <1>2, <2>1, FeedOrDropTypes DEF TypeOK
<1>3. CASE sawKeyframe' = TRUE /\ UNCHANGED <<buffer, hand, codecVars>>
           /\ queue' = <<[frame EXCEPT !.gap = TRUE]>>
           /\ pump' = (IF pump = "peeked" THEN "swallows" ELSE pump)
           /\ mishap' = First(before, "backlog")
  <2>1. {sawKeyframe, buffer, output, renderedFrame}' \subseteq BOOLEAN
    BY <1>0, <1>3, Zenon DEF codecVars
  <2>2. [frame EXCEPT !.gap = TRUE] \in Frames BY DEF Frames
  <2>3. queue' \in Seq(Frames) /\ Len(queue') = 1 BY <1>3, <2>2
  <2>4. mishap' \in Mishaps BY <1>3, FirstTypes DEF Mishaps
  <2> QED BY <1>3, <2>1, <2>3, <2>4, LinkAssumption DEF TypeOK, codecVars
<1>4. CASE sawKeyframe' = TRUE /\ UNCHANGED <<buffer, hand, codecVars>>
           /\ ~(Len(queue) > MAX_QUEUED_FRAMES)
           /\ queue' = Append(queue, frame)
           /\ pump' = (IF pump = "peeked" THEN "contended" ELSE pump)
           /\ mishap' = before
  <2>1. {sawKeyframe, buffer, output, renderedFrame}' \subseteq BOOLEAN
    BY <1>0, <1>4, Zenon DEF codecVars
  <2>2. queue' \in Seq(Frames) /\ Len(queue') = Len(queue) + 1
    BY <1>4, AppendFacts DEF TypeOK
  <2>3. Len(queue) \in Nat BY LenProperties DEF TypeOK
  <2> QED BY <1>4, <2>1, <2>2, <2>3, LinkAssumption DEF TypeOK, codecVars
<1> QED BY <1>1, <1>2, <1>3, <1>4 DEF Submit

LEMMA TypeInit == Init => TypeOK /\ RequestsFit
<1> SUFFICES ASSUME Init PROVE TypeOK /\ RequestsFit OBVIOUS
<1>1. {forceIdr, gap, stale, throttled, sawKeyframe, buffer, output, renderedFrame} \subseteq BOOLEAN
  BY Zenon DEF Init
<1>2. queue \in Seq(Frames) /\ Len(queue) = 0 /\ link \in Seq({"key", "delta", "hole"}) /\ Len(link) = 0
  BY EmptySeq DEF Init
<1> QED BY <1>1, <1>2, FrameTypes, LinkAssumption DEF Init, TypeOK, RequestsFit

\* What is on the link when a frame is sent or arrives.
LEMMA LinkTypes ==
    ASSUME TypeOK
    PROVE  /\ \A kind \in {"key", "delta", "hole"} :
                Len(link) < MaxInFlight => /\ Append(link, kind) \in Seq({"key", "delta", "hole"})
                                           /\ Len(Append(link, kind)) <= MaxInFlight
           /\ link # <<>> => /\ Tail(link) \in Seq({"key", "delta", "hole"})
                             /\ Len(Tail(link)) <= MaxInFlight
                             /\ Head(link) \in {"key", "delta", "hole"}
<1>1. link \in Seq({"key", "delta", "hole"}) /\ Len(link) \in Nat /\ Len(link) <= MaxInFlight
      /\ MaxInFlight \in Nat
  BY LenProperties, LinkAssumption DEF TypeOK
<1> QED BY <1>1, AppendFacts, TailFacts

LEMMA TypeStep == TypeOK /\ RequestsFit /\ PumpInv /\ [Next]_vars => TypeOK' /\ RequestsFit'
<1> SUFFICES ASSUME TypeOK, RequestsFit, PumpInv, [Next]_vars PROVE TypeOK' /\ RequestsFit' OBVIOUS
<1> USE LinkAssumption DEF hostVars, receiverVars, askVars, decoderVars, codecVars
<1>0. {forceIdr, gap, stale, throttled, sawKeyframe, buffer, output, renderedFrame} \subseteq BOOLEAN
  BY Zenon DEF TypeOK
<1>1. CASE RequestIdr
  BY <1>1 DEF RequestIdr, TypeOK, RequestsFit
<1>2. CASE EncodePicture
  <2>1. link' \in Seq({"key", "delta", "hole"}) /\ Len(link') <= MaxInFlight
    BY <1>2, LinkTypes DEF EncodePicture
  <2>2. mishap' \in Mishaps
    BY <1>2, FirstTypes DEF EncodePicture, TypeOK, Mishaps
  <2>3. forceIdr' = FALSE /\ UNCHANGED <<requests, receiverVars, askVars, decoderVars, codecVars>>
    BY <1>2 DEF EncodePicture
  <2>4. {forceIdr, gap, stale, throttled, sawKeyframe, buffer, output, renderedFrame}' \subseteq BOOLEAN
    BY <1>0, <2>3, Zenon
  <2> QED BY <2>1, <2>2, <2>3, <2>4 DEF TypeOK, RequestsFit, Mishaps
<1>3. CASE FrameCompletes
  <2> DEFINE frame == Frame(Head(link), gap)
             before == IF stale /\ gap /\ throttled THEN First(mishap, "throttled") ELSE mishap
  <2>1. frame \in Frames /\ before \in Mishaps
    BY <1>0, FrameTypes, FirstTypes DEF TypeOK, Mishaps
  <2>2. Submit(frame, before) BY <1>3 DEF FrameCompletes
  <2>3. link' \in Seq({"key", "delta", "hole"}) /\ Len(link') <= MaxInFlight
        /\ newest' \in {"key", "delta"}
    BY <1>3, LinkTypes DEF FrameCompletes, Arrives
  <2>4. throttled' \in BOOLEAN
    BY <1>0, <1>3, Zenon DEF FrameCompletes
  <2>5. /\ requests' \in 0..(MaxRequests + 1)
        /\ RequestsFit'
    BY <1>3, <2>4 DEF FrameCompletes, TypeOK, RequestsFit
  <2>6. gap' = FALSE /\ stale' = FALSE /\ UNCHANGED <<forceIdr, ticker>>
    BY <1>3 DEF FrameCompletes
  <2> HIDE DEF frame, before
  <2>7. {forceIdr, gap, stale, throttled}' \subseteq BOOLEAN
    BY <1>0, <2>4, <2>6, Zenon
  <2> QED BY <2>1, <2>2, <2>3, <2>5, <2>6, <2>7, SubmitTypes DEF TypeOK, Mishaps
<1>4. CASE FramePartlyLost
  <2>1. link' \in Seq({"key", "delta", "hole"}) /\ Len(link') <= MaxInFlight
    BY <1>4, LinkTypes DEF FramePartlyLost, Arrives
  <2> QED BY <1>4, <2>1 DEF FramePartlyLost, TypeOK, RequestsFit
<1>5. CASE FrameUnseen
  <2>1. link' \in Seq({"key", "delta", "hole"}) /\ Len(link') <= MaxInFlight
    BY <1>5, LinkTypes DEF FrameUnseen, Arrives
  <2>2. mishap' \in Mishaps
    BY <1>5, FirstTypes DEF FrameUnseen, TypeOK, Mishaps
  <2>3. gap' = TRUE /\ UNCHANGED <<hostVars, newest, stale, askVars, decoderVars, codecVars>>
    BY <1>5 DEF FrameUnseen
  <2> QED BY <2>1, <2>2, <2>3 DEF TypeOK, RequestsFit, Mishaps
<1>6. CASE CopyArrives
  <2>0. UNCHANGED <<hostVars, link, newest, gap, askVars>> BY <1>6 DEF CopyArrives
  <2>1. CASE stale' = TRUE /\ UNCHANGED <<decoderVars, codecVars, mishap>>
    BY <2>0, <2>1 DEF TypeOK, RequestsFit
  <2>2. CASE Submit(Frame(newest, TRUE), First(mishap, "repeated")) /\ UNCHANGED stale
    <3> DEFINE frame == Frame(newest, TRUE)
               before == First(mishap, "repeated")
    <3>1. frame \in Frames /\ before \in Mishaps
      BY FrameTypes, FirstTypes DEF TypeOK, Mishaps
    <3>2. Submit(frame, before) BY <2>2
    <3> HIDE DEF frame, before
    <3> QED BY <2>0, <2>2, <3>1, <3>2, SubmitTypes DEF TypeOK, RequestsFit, Mishaps
  <2> QED BY <1>6, <2>1, <2>2 DEF CopyArrives
<1>7. CASE TickerDue
  BY <1>7 DEF TickerDue, TypeOK, RequestsFit
<1>8. CASE TickerAsks
  BY <1>8 DEF TickerAsks, TypeOK, RequestsFit
<1>9. CASE ThrottleExpires
  BY <1>9 DEF ThrottleExpires, TypeOK, RequestsFit
<1>10. CASE InputBufferAvailable
  <2>1. CASE queue = <<>>
    BY <1>10, <2>1 DEF InputBufferAvailable, TypeOK, RequestsFit
  <2>2. CASE queue # <<>>
    <3>1. Head(queue) \in Frames BY <2>2, TailFacts DEF TypeOK
    <3> QED BY <1>10, <2>2, <3>1 DEF InputBufferAvailable, TypeOK, RequestsFit
  <2> QED BY <2>1, <2>2
<1>11. CASE PumpPolls
  <2>1. queue # <<>> BY <1>11 DEF PumpPolls, PumpInv
  <2>2. queue' \in Seq(Frames) /\ Len(queue') <= MAX_QUEUED_FRAMES + 1
    BY <1>11, <2>1, TailFacts, LenProperties DEF PumpPolls, TypeOK
  <2>3. hand \in Frames /\ mishap \in Mishaps BY DEF TypeOK, Mishaps
  <2>4. /\ reference' \in {"none", "good", "bad"}
        /\ output' \in BOOLEAN
        /\ renderedFrame' = renderedFrame
        /\ mishap' \in Mishaps
    <3>1. CASE pump = "swallows"
      <4>1. output' \in BOOLEAN BY <1>0, <1>11, <3>1, Zenon DEF PumpPolls
      <4> QED BY <1>11, <2>3, <3>1, <4>1 DEF PumpPolls, TypeOK, Spoilt
    <3>2. CASE FeedOrDrop(hand, mishap)
      BY <2>3, <3>2, FeedOrDropTypes
    <3> QED BY <1>11, <3>1, <3>2 DEF PumpPolls
  <2>5. pump' = "idle" /\ hand' \in Frames
        /\ UNCHANGED <<hostVars, link, receiverVars, askVars, sawKeyframe, buffer>>
    BY <1>11, FrameTypes DEF PumpPolls
  <2>6. {forceIdr, gap, stale, throttled, sawKeyframe, buffer, output, renderedFrame}' \subseteq BOOLEAN
    BY <1>0, <2>4, <2>5, Zenon
  <2> QED BY <2>2, <2>4, <2>5, <2>6 DEF TypeOK, RequestsFit, Mishaps
<1>12. CASE OutputBufferAvailable
  BY <1>12 DEF OutputBufferAvailable, TypeOK, RequestsFit
<1>13. CASE UNCHANGED vars
  BY <1>13 DEF vars, TypeOK, RequestsFit
<1> QED BY <1>1, <1>2, <1>3, <1>4, <1>5, <1>6, <1>7, <1>8, <1>9, <1>10, <1>11, <1>12, <1>13 DEF Next

-----------------------------------------------------------------------------
(* The decoder's two threads.                                                *)

\* Submit runs while the callback thread is outside pump(), or has only peeked.
LEMMA SubmitKeepsPump ==
    ASSUME TypeOK, PumpInv, NEW frame \in Frames, NEW before \in Mishaps,
           Submit(frame, before)
    PROVE  /\ pump' # "idle" => queue' # <<>> /\ ~buffer'
           /\ buffer' => queue' = <<>>
           /\ ~sawKeyframe' => queue' = <<>> /\ reference' = "none" /\ ~sawKeyframe
<1>1. queue \in Seq(Frames) BY DEF TypeOK
<1>2. Append(queue, frame) # <<>> BY <1>1, AppendFacts
<1>3. <<[frame EXCEPT !.gap = TRUE]>> # <<>> OBVIOUS
<1> QED BY <1>2, <1>3 DEF Submit, PumpInv, decoderVars, codecVars

LEMMA PumpStep == TypeOK /\ PumpInv /\ [Next]_vars => PumpInv'
<1> SUFFICES ASSUME TypeOK, PumpInv, [Next]_vars PROVE PumpInv' OBVIOUS
<1> USE DEF hostVars, receiverVars, askVars, decoderVars, codecVars
<1>0. gap \in BOOLEAN /\ mishap \in Mishaps /\ newest \in {"none", "key", "delta"}
  BY Zenon DEF TypeOK, Mishaps
<1>1. CASE RequestIdr \/ EncodePicture \/ FramePartlyLost \/ FrameUnseen \/ TickerDue
           \/ TickerAsks \/ ThrottleExpires \/ OutputBufferAvailable \/ UNCHANGED vars
  <2>1. UNCHANGED <<newest, decoderVars, reference>>
    BY <1>1 DEF RequestIdr, EncodePicture, FramePartlyLost, FrameUnseen, TickerDue,
                TickerAsks, ThrottleExpires, OutputBufferAvailable, vars
  <2> QED BY <2>1 DEF PumpInv
<1>2. CASE FrameCompletes
  <2> DEFINE before == IF stale /\ gap /\ throttled THEN First(mishap, "throttled") ELSE mishap
  <2>1. before \in Mishaps BY <1>0, FirstTypes DEF Mishaps
  <2>2. Submit(Frame(Head(link), gap), before) /\ newest' \in {"key", "delta"}
    BY <1>2 DEF FrameCompletes, Arrives
  <2> HIDE DEF before
  <2>3. Frame(Head(link), gap) \in Frames BY <1>0, FrameTypes
  <2> QED BY <2>1, <2>2, <2>3, SubmitKeepsPump DEF PumpInv
<1>3. CASE CopyArrives
  <2>0. newest' = newest BY <1>3 DEF CopyArrives
  <2>1. CASE UNCHANGED <<decoderVars, codecVars>>
    BY <2>0, <2>1 DEF PumpInv
  <2>2. CASE Submit(Frame(newest, TRUE), First(mishap, "repeated"))
    <3>1. First(mishap, "repeated") \in Mishaps BY <1>0, FirstTypes DEF Mishaps
    <3>2. Frame(newest, TRUE) \in Frames BY FrameTypes
    <3>3. newest # "none" BY <1>3 DEF CopyArrives
    <3> QED BY <2>0, <2>2, <3>1, <3>2, <3>3, SubmitKeepsPump DEF PumpInv
  <2> QED BY <1>3, <2>1, <2>2 DEF CopyArrives
<1>4. CASE InputBufferAvailable
  BY <1>4 DEF InputBufferAvailable, PumpInv
<1>5. CASE PumpPolls
  <2>1. pump' = "idle" /\ ~buffer /\ UNCHANGED <<newest, sawKeyframe, buffer>> /\ sawKeyframe
    BY <1>5 DEF PumpPolls, PumpInv
  <2> QED BY <2>1 DEF PumpInv
<1> QED BY <1>1, <1>2, <1>3, <1>4, <1>5 DEF Next

-----------------------------------------------------------------------------
(* While nothing has gone wrong.                                             *)

LEMMA FirstSticks ==
    ASSUME NEW before, NEW what, what # "none"
    PROVE  First(before, what) # "none"
BY DEF First

\* A mishap stays on record.
LEMMA MishapSticks == [Next]_vars /\ mishap' = "none" => mishap = "none"
<1> SUFFICES ASSUME [Next]_vars, mishap # "none" PROVE mishap' # "none" OBVIOUS
<1>1. \A what : First(mishap, what) = mishap BY DEF First
<1>2. \A frame, before : FeedOrDrop(frame, before) /\ before # "none" => mishap' # "none"
  BY DEF FeedOrDrop, First
<1>3. \A frame, before : Submit(frame, before) /\ before # "none" => mishap' # "none"
  BY <1>2 DEF Submit, First
<1>4. CASE FrameCompletes BY <1>1, <1>3, <1>4 DEF FrameCompletes
<1>5. CASE CopyArrives BY <1>1, <1>3, <1>5 DEF CopyArrives
<1>6. CASE PumpPolls BY <1>2, <1>6 DEF PumpPolls
<1>7. CASE EncodePicture \/ FrameUnseen BY <1>1, <1>7 DEF EncodePicture, FrameUnseen
<1> QED BY <1>4, <1>5, <1>6, <1>7
        DEF Next, vars, RequestIdr, FramePartlyLost, TickerDue, TickerAsks, ThrottleExpires,
            InputBufferAvailable, OutputBufferAvailable

\* What a submitted frame does when nothing goes wrong: it is skipped, fed, or
\* queued behind the others.
LEMMA SubmitsWell ==
    ASSUME TypeOK, PumpInv, NEW frame \in Frames, NEW before,
           Submit(frame, before), mishap' = "none"
    PROVE  /\ before = "none"
           /\ \/ /\ ~sawKeyframe /\ ~frame.key
                 /\ UNCHANGED <<sawKeyframe, queue, buffer, pump, hand, reference>>
              \/ /\ sawKeyframe \/ frame.key
                 /\ buffer /\ queue = <<>> /\ Feed(frame)
                 /\ UNCHANGED <<queue, pump, hand>>
              \/ /\ sawKeyframe \/ frame.key
                 /\ queue' = Append(queue, frame)
                 /\ pump' = IF pump = "peeked" THEN "contended" ELSE pump
                 /\ UNCHANGED <<hand, reference>>
BY DEF Submit, FeedOrDrop, First, PumpInv, decoderVars, codecVars

LEMMA WrongStep ==
    ASSUME TypeOK, PumpInv, mishap = "none" => NothingWrong, [Next]_vars, mishap' = "none"
    PROVE  NothingWrong'
<1> USE DEF hostVars, receiverVars, askVars, decoderVars, codecVars
<1>0. mishap = "none" /\ NothingWrong BY MishapSticks
<1>1. link \in Seq({"key", "delta", "hole"}) /\ queue \in Seq(Frames) /\ gap \in BOOLEAN
  BY Zenon DEF TypeOK
<1>2. Arrives({"key", "delta", "hole"}) \/ Arrives({"key", "delta"})
        => \A i \in DOMAIN link' : link'[i] # "hole"
  <2>1. CASE link # <<>> /\ link' = Tail(link)
    <3>1. \A i \in DOMAIN Tail(link) : i + 1 \in DOMAIN link /\ Tail(link)[i] = link[i + 1]
      BY <1>1, <2>1, TailFacts
    <3> QED BY <1>0, <2>1, <3>1 DEF NothingWrong
  <2> QED BY <2>1 DEF Arrives
<1>3. CASE EncodePicture
  <2>1. link' = Append(link, IF forceIdr THEN "key" ELSE "delta")
    BY <1>3 DEF EncodePicture, First
  <2>2. \A i \in DOMAIN link' : link'[i] # "hole"
    <3> DEFINE kind == IF forceIdr THEN "key" ELSE "delta"
    <3>1. kind \in {"key", "delta", "hole"} /\ kind # "hole" OBVIOUS
    <3> HIDE DEF kind
    <3> QED BY <1>0, <1>1, <2>1, <3>1, AppendFacts, LenProperties DEF NothingWrong, kind
  <2> QED BY <1>0, <1>3, <2>2 DEF EncodePicture, NothingWrong
<1>4. CASE FrameCompletes
  <2> DEFINE before == IF stale /\ gap /\ throttled THEN First(mishap, "throttled") ELSE mishap
  <2>1. Submit(Frame(Head(link), gap), before) /\ gap' = FALSE
    BY <1>4 DEF FrameCompletes
  <2>2. Frame(Head(link), gap) \in Frames BY <1>1, FrameTypes
  <2> HIDE DEF before
  <2>3. pump' # "swallows" /\ (pump' # "idle" => hand' = Head(queue'))
    BY <1>0, <1>1, <2>1, <2>2, SubmitsWell, AppendFacts DEF NothingWrong, PumpInv
  <2>4. \A i \in DOMAIN link' : link'[i] # "hole"
    BY <1>2, <1>4 DEF FrameCompletes
  <2> QED BY <2>1, <2>3, <2>4 DEF NothingWrong
<1>5. CASE FramePartlyLost
  BY <1>0, <1>2, <1>5 DEF FramePartlyLost, NothingWrong
<1>6. CASE FrameUnseen
  <2>1. Head(link) = "hole" BY <1>6, <1>0 DEF FrameUnseen, First
  <2>2. Head(link) # "hole" BY <1>0, <1>1, <1>6, TailFacts DEF FrameUnseen, Arrives, NothingWrong
  <2> QED BY <2>1, <2>2
<1>7. CASE CopyArrives
  <2>1. First(mishap, "repeated") # "none" BY FirstSticks
  <2>2. ~Submit(Frame(newest, TRUE), First(mishap, "repeated"))
    BY <2>1, FrameTypes, SubmitsWell
  <2> QED BY <1>0, <1>7, <2>2 DEF CopyArrives, NothingWrong
<1>8. CASE InputBufferAvailable
  BY <1>0, <1>8 DEF InputBufferAvailable, NothingWrong
<1>9. CASE PumpPolls
  BY <1>0, <1>9 DEF PumpPolls, NothingWrong
<1>10. CASE RequestIdr \/ TickerDue \/ TickerAsks \/ ThrottleExpires \/ OutputBufferAvailable
            \/ UNCHANGED vars
  BY <1>0, <1>10 DEF RequestIdr, TickerDue, TickerAsks, ThrottleExpires,
                OutputBufferAvailable, vars, NothingWrong
<1> QED BY <1>3, <1>4, <1>5, <1>6, <1>7, <1>8, <1>9, <1>10 DEF Next

-----------------------------------------------------------------------------
(* A loss is mended.                                                         *)

\* A frame that arrives or is lost leaves the link; its loss is to be reported.
LEMMA AskedOnArrival ==
    ASSUME TypeOK, Arrives({"key", "delta"}), Asked
    PROVE  \/ requests > 0 \/ forceIdr \/ ticker = "asking" \/ (gap /\ stale)
           \/ Head(link) = "key"
           \/ \E i \in DOMAIN link' : link'[i] = "key"
<1>1. link \in Seq({"key", "delta", "hole"}) /\ link # <<>> /\ link' = Tail(link)
  BY DEF TypeOK, Arrives
<1>2. SUFFICES ASSUME NEW i \in DOMAIN link, link[i] = "key"
               PROVE  Head(link) = "key" \/ \E j \in DOMAIN link' : link'[j] = "key"
  BY DEF Asked
<1>3. CASE i = 1 BY <1>1, <1>2, <1>3, TailFacts
<1>4. CASE i # 1
  <2>1. i > 1 BY <1>1, <1>4, LenProperties
  <2>2. i - 1 \in DOMAIN link' /\ link'[i - 1] = "key" BY <1>1, <1>2, <2>1, TailFacts
  <2> QED BY <2>2
<1> QED BY <1>3, <1>4

\* What has been asked for stays so until it is there: the frame that completes is
\* a keyframe, or the request for one is still out.
LEMMA AskedStep ==
    ASSUME TypeOK, PumpInv, NothingWrong, [Next]_vars, mishap' = "none", Asked
    PROVE  Asked' \/ (FrameCompletes /\ Head(link) = "key")
<1> USE DEF hostVars, receiverVars, askVars, decoderVars, codecVars
<1>0. mishap = "none" BY MishapSticks
<1>1. link \in Seq({"key", "delta", "hole"}) /\ requests \in Nat BY DEF TypeOK
<1>2. CASE RequestIdr BY <1>2 DEF RequestIdr, Asked
<1>3. CASE EncodePicture
  <2>1. link' = Append(link, IF forceIdr THEN "key" ELSE "delta")
    BY <1>3 DEF EncodePicture, First
  <2>2. \A i \in DOMAIN link : i \in DOMAIN link' /\ link'[i] = link[i]
    BY <1>1, <2>1, AppendFacts, LenProperties
  <2>3. CASE forceIdr
    <3>1. Len(link) + 1 \in DOMAIN link' /\ link'[Len(link) + 1] = "key"
      BY <1>1, <2>1, <2>3, AppendFacts, LenProperties
    <3> QED BY <3>1 DEF Asked
  <2>4. CASE ~forceIdr
    BY <1>3, <2>2, <2>4 DEF EncodePicture, Asked
  <2> QED BY <2>3, <2>4
<1>4. CASE FrameCompletes
  <2> DEFINE before == IF stale /\ gap /\ throttled THEN First(mishap, "throttled") ELSE mishap
  <2>1. Frame(Head(link), gap) \in Frames
    BY FrameTypes, Zenon DEF TypeOK
  <2>2. before = "none" BY <1>4, <2>1, SubmitsWell DEF FrameCompletes
  <2>3. ~(stale /\ gap /\ throttled) BY <2>2, FirstSticks
  <2>4. stale /\ gap => requests' = requests + 1
    BY <1>4, <2>3 DEF FrameCompletes
  <2>5. Arrives({"key", "delta"}) /\ (requests' = requests \/ requests' = requests + 1)
        /\ UNCHANGED <<forceIdr, ticker>>
    BY <1>4 DEF FrameCompletes
  <2> QED BY <1>1, <1>4, <2>4, <2>5, AskedOnArrival DEF Asked
<1>5. CASE FramePartlyLost
  BY <1>5 DEF FramePartlyLost, Asked
<1>6. CASE FrameUnseen
  <2>1. Head(link) = "hole" BY <1>6, <1>0 DEF FrameUnseen, First
  <2>2. Head(link) # "hole" BY <1>1, <1>6, TailFacts DEF FrameUnseen, Arrives, NothingWrong
  <2> QED BY <2>1, <2>2
<1>7. CASE CopyArrives
  <2>1. First(mishap, "repeated") # "none" BY FirstSticks
  <2>2. ~Submit(Frame(newest, TRUE), First(mishap, "repeated"))
    BY <2>1, FrameTypes, SubmitsWell
  <2> QED BY <1>7, <2>2 DEF CopyArrives, Asked
<1>8. CASE TickerDue \/ TickerAsks \/ ThrottleExpires \/ InputBufferAvailable \/ PumpPolls
           \/ OutputBufferAvailable \/ UNCHANGED vars
  BY <1>1, <1>8 DEF TickerDue, TickerAsks, ThrottleExpires, InputBufferAvailable, PumpPolls,
              OutputBufferAvailable, vars, Asked
<1> QED BY <1>2, <1>3, <1>4, <1>5, <1>6, <1>7, <1>8 DEF Next

\* Feeding the first frame of the queue, or the only one.
LEMMA FeedMends ==
    ASSUME NEW frame \in Frames, Feed(frame), reference \in {"none", "good", "bad"},
           reference' = "bad"
    PROVE  ~frame.key /\ (frame.gap \/ reference = "bad")
BY DEF Feed

LEMMA MendingStep ==
    ASSUME TypeOK, PumpInv, mishap = "none" => NothingWrong /\ MendingInv,
           [Next]_vars, mishap' = "none"
    PROVE  MendingInv'
<1> USE DEF hostVars, receiverVars, askVars, decoderVars, codecVars
<1>0. mishap = "none" /\ NothingWrong /\ MendingInv BY MishapSticks
<1>1. queue \in Seq(Frames) /\ reference \in {"none", "good", "bad"} /\ hand \in Frames
  BY DEF TypeOK
<1>2. Asked => Asked' \/ (FrameCompletes /\ Head(link) = "key") BY <1>0, AskedStep
<1>3. CASE FrameCompletes
  <2> DEFINE before == IF stale /\ gap /\ throttled THEN First(mishap, "throttled") ELSE mishap
             frame  == Frame(Head(link), gap)
  <2>1. frame \in Frames
    BY FrameTypes, Zenon DEF TypeOK
  <2>2. Submit(frame, before) BY <1>3 DEF FrameCompletes
  <2>3. before = "none" BY <2>1, <2>2, SubmitsWell
  <2>4. gap /\ sawKeyframe => requests' > 0
    <3>1. gap /\ sawKeyframe => stale BY <1>0 DEF NothingWrong, PumpInv
    <3>2. ~(stale /\ gap /\ throttled) BY <2>3, FirstSticks
    <3> QED BY <1>3, <3>1, <3>2 DEF FrameCompletes, TypeOK
  <2>5. frame.key = (Head(link) = "key") /\ frame.gap = gap BY DEF Frame
  <2>6. Asked => Asked' \/ frame.key BY <1>2, <2>5
  <2>7. gap /\ sawKeyframe => Asked' BY <2>4 DEF Asked
  <2> HIDE DEF before, frame
  <2>8. CASE ~sawKeyframe /\ ~frame.key /\ UNCHANGED <<queue, reference>>
    BY <1>0, <2>6, <2>8 DEF MendingInv, PumpInv
  <2>9. CASE (sawKeyframe \/ frame.key) /\ queue = <<>> /\ Feed(frame) /\ queue' = queue
    <3>1. reference' = "bad" => Asked'
      BY <1>0, <1>1, <2>1, <2>5, <2>6, <2>7, <2>9, FeedMends DEF MendingInv
    <3> QED BY <2>9, <3>1 DEF MendingInv
  <2>10. CASE (sawKeyframe \/ frame.key) /\ queue' = Append(queue, frame) /\ reference' = reference
    <3>1. /\ Len(queue) \in Nat /\ DOMAIN queue = 1 .. Len(queue)
          /\ DOMAIN queue' = 1 .. Len(queue) + 1
          /\ \A i \in DOMAIN queue : queue'[i] = queue[i]
          /\ queue'[Len(queue) + 1] = frame
      BY <1>1, <2>1, <2>10, AppendFacts, LenProperties
    <3>2. CASE frame.key
      BY <3>1, <3>2 DEF MendingInv
    <3>3. CASE ~frame.key
      <4>1. Asked => Asked' BY <2>6, <3>3
      <4>2. reference' = "bad" => Asked' \/ \E j \in DOMAIN queue' : queue'[j].key
        BY <1>0, <2>10, <3>1, <4>1 DEF MendingInv
      <4>3. ASSUME NEW i \in DOMAIN queue', queue'[i].gap, ~queue'[i].key
            PROVE  Asked' \/ \E j \in DOMAIN queue' : j > i /\ queue'[j].key
        <5>1. CASE i \in DOMAIN queue
          BY <1>0, <3>1, <4>1, <4>3, <5>1 DEF MendingInv
        <5>2. CASE i = Len(queue) + 1
          BY <2>5, <2>7, <2>10, <3>1, <3>3, <4>3, <5>2
        <5> QED BY <3>1, <4>3, <5>1, <5>2
      <4> QED BY <4>2, <4>3 DEF MendingInv
    <3> QED BY <3>2, <3>3
  <2> QED BY <2>1, <2>2, <2>8, <2>9, <2>10, SubmitsWell
<1>4. CASE PumpPolls
  <2>1. queue # <<>> /\ hand = Head(queue) /\ pump # "swallows"
    BY <1>0, <1>4 DEF PumpPolls, PumpInv, NothingWrong
  <2>2. Feed(hand) /\ queue' = Tail(queue)
    BY <1>0, <1>4, <2>1 DEF PumpPolls, FeedOrDrop, First
  <2>3. Asked => Asked'
    BY <1>4 DEF PumpPolls, Asked
  <2>4. /\ hand = queue[1] /\ 1 \in DOMAIN queue
        /\ \A i \in DOMAIN queue' : i + 1 \in DOMAIN queue /\ queue'[i] = queue[i + 1]
        /\ \A i \in DOMAIN queue : i > 1 => i - 1 \in DOMAIN queue' /\ queue'[i - 1] = queue[i]
    BY <1>1, <2>1, <2>2, TailFacts
  <2>5. DOMAIN queue = 1 .. Len(queue) /\ Len(queue) \in Nat BY <1>1, LenProperties
  <2>6. reference' = "bad" => Asked' \/ \E j \in DOMAIN queue' : queue'[j].key
    <3> SUFFICES ASSUME reference' = "bad", ~Asked
                 PROVE  \E j \in DOMAIN queue' : queue'[j].key
      BY <2>3
    <3>1. ~hand.key /\ (hand.gap \/ reference = "bad") BY <1>1, <2>2, FeedMends
    <3>2. PICK j \in DOMAIN queue : queue[j].key BY <1>0, <2>4, <3>1 DEF MendingInv
    <3>3. j > 1 BY <2>4, <2>5, <3>1, <3>2
    <3> QED BY <2>4, <3>2, <3>3
  <2>7. ASSUME NEW i \in DOMAIN queue', queue'[i].gap, ~queue'[i].key, ~Asked'
        PROVE  \E j \in DOMAIN queue' : j > i /\ queue'[j].key
    <3>0. queue' \in Seq(Frames) BY <1>1, <2>1, <2>2, TailFacts
    <3>1. i + 1 \in DOMAIN queue /\ queue[i + 1].gap /\ ~queue[i + 1].key BY <2>4, <2>7
    <3>2. PICK j \in DOMAIN queue : j > i + 1 /\ queue[j].key
      BY <1>0, <2>3, <2>7, <3>1 DEF MendingInv
    <3>3. i \in Nat /\ i > 0 /\ j \in Nat BY <2>5, <3>0, LenProperties
    <3>4. j - 1 \in DOMAIN queue' /\ queue'[j - 1].key /\ j - 1 > i
      BY <2>4, <3>2, <3>3
    <3> QED BY <3>4
  <2> QED BY <2>6, <2>7 DEF MendingInv
<1>5. CASE CopyArrives
  <2>1. First(mishap, "repeated") # "none" BY FirstSticks
  <2>2. ~Submit(Frame(newest, TRUE), First(mishap, "repeated"))
    BY <2>1, FrameTypes, SubmitsWell
  <2>3. UNCHANGED <<queue, reference>> BY <1>5, <2>2 DEF CopyArrives
  <2>5. Asked => Asked' BY <1>5, <2>2 DEF CopyArrives, Asked
  <2> QED BY <1>0, <2>3, <2>5 DEF MendingInv
<1>6. CASE RequestIdr \/ EncodePicture \/ FramePartlyLost \/ FrameUnseen \/ TickerDue
           \/ TickerAsks \/ ThrottleExpires \/ InputBufferAvailable
           \/ OutputBufferAvailable \/ UNCHANGED vars
  <2>1. UNCHANGED <<queue, reference>>
    BY <1>6 DEF RequestIdr, EncodePicture, FramePartlyLost, FrameUnseen, TickerDue, TickerAsks,
                ThrottleExpires, InputBufferAvailable, OutputBufferAvailable, vars
  <2>2. CASE ~FrameCompletes
    BY <1>0, <1>2, <2>1, <2>2 DEF MendingInv
  <2> QED BY <1>3, <2>2
<1> QED BY <1>3, <1>4, <1>5, <1>6 DEF Next

-----------------------------------------------------------------------------
(* The first keyframe.                                                       *)

LEMMA KeyStep ==
    ASSUME TypeOK, PumpInv, mishap = "none" => NothingWrong, KeyframeGoesFirst, [Next]_vars
    PROVE  KeyframeGoesFirst'
<1> USE DEF hostVars, receiverVars, askVars, decoderVars, codecVars
<1> SUFFICES ASSUME sawKeyframe', reference' = "none", mishap' = "none"
             PROVE  queue' # <<>> /\ Head(queue').key
  BY DEF KeyframeGoesFirst
<1>0. mishap = "none" /\ NothingWrong BY MishapSticks
<1>1. queue \in Seq(Frames) /\ reference \in {"none", "good", "bad"} BY DEF TypeOK
<1>2. \A frame : Feed(frame) => reference = "none" /\ ~frame.key
  BY <1>1 DEF Feed
<1>3. CASE FrameCompletes
  <2> DEFINE before == IF stale /\ gap /\ throttled THEN First(mishap, "throttled") ELSE mishap
             frame  == Frame(Head(link), gap)
  <2>1. frame \in Frames BY FrameTypes, Zenon DEF TypeOK
  <2>2. Submit(frame, before) BY <1>3 DEF FrameCompletes
  <2> HIDE DEF before, frame
  <2>3. CASE ~sawKeyframe /\ UNCHANGED sawKeyframe
    BY <2>3
  <2>4. CASE (sawKeyframe \/ frame.key) /\ queue = <<>> /\ Feed(frame)
    BY <1>0, <1>2, <2>4 DEF KeyframeGoesFirst
  <2>5. CASE (sawKeyframe \/ frame.key) /\ queue' = Append(queue, frame) /\ reference' = reference
    BY <1>0, <1>1, <2>1, <2>5, AppendFacts DEF KeyframeGoesFirst, PumpInv
  <2> QED BY <2>1, <2>2, <2>3, <2>4, <2>5, SubmitsWell
<1>4. CASE PumpPolls
  <2>1. queue # <<>> /\ hand = Head(queue) /\ sawKeyframe
    BY <1>0, <1>4 DEF PumpPolls, PumpInv, NothingWrong
  <2>2. Feed(hand)
    BY <1>0, <1>4 DEF PumpPolls, FeedOrDrop, First, NothingWrong
  <2> QED BY <1>0, <1>2, <2>1, <2>2 DEF KeyframeGoesFirst
<1>5. CASE CopyArrives
  <2>1. First(mishap, "repeated") # "none" BY FirstSticks
  <2>2. ~Submit(Frame(newest, TRUE), First(mishap, "repeated"))
    BY <2>1, FrameTypes, SubmitsWell
  <2> QED BY <1>0, <1>5, <2>2 DEF CopyArrives, KeyframeGoesFirst
<1>6. CASE RequestIdr \/ EncodePicture \/ FramePartlyLost \/ FrameUnseen \/ TickerDue
           \/ TickerAsks \/ ThrottleExpires \/ InputBufferAvailable
           \/ OutputBufferAvailable \/ UNCHANGED vars
  BY <1>0, <1>6 DEF KeyframeGoesFirst, RequestIdr, EncodePicture, FramePartlyLost, FrameUnseen,
                TickerDue, TickerAsks, ThrottleExpires, InputBufferAvailable,
                OutputBufferAvailable, vars
<1> QED BY <1>3, <1>4, <1>5, <1>6 DEF Next

-----------------------------------------------------------------------------
LEMMA LinkInit == Init => LinkInv
<1> SUFFICES ASSUME Init PROVE LinkInv OBVIOUS
<1>1. TypeOK /\ RequestsFit BY TypeInit
<1>2. DOMAIN link = {} /\ DOMAIN queue = {} BY DEF Init
<1> QED BY <1>1, <1>2 DEF Init, LinkInv, PumpInv, NothingWrong, MendingInv, KeyframeGoesFirst

LEMMA LinkStep == LinkInv /\ [Next]_vars => LinkInv'
BY TypeStep, PumpStep, WrongStep, MendingStep, KeyStep DEF LinkInv

\* The inductive invariant of a video session (VideoReceiver, VideoDecoder,
\* NvencEncoder): an unmended picture always has a keyframe asked for, coming or
\* queued, and no frame of the decoder's queue is taken out of its turn.
THEOREM LinkInvariant == Spec => []LinkInv
BY LinkInit, LinkStep, PTL DEF Spec

\* The session's variables keep their types: neither the backlog nor the requests
\* outgrow their bounds, and pump() never polls an empty queue.
THEOREM LinkTypeCorrect == Spec => []TypeOK
<1>1. LinkInv => TypeOK BY DEF LinkInv
<1> QED BY <1>1, LinkInvariant, PTL

\* A loss that is reported is mended: while the codec lacks what the next frame
\* builds on, a keyframe is coming, whatever the order of reports, requests,
\* throttle and callbacks (VideoReceiver.handleDatagram,
\* StreamActivity.requestKeyframeThrottled).
THEOREM LossesAreRepaired == Spec => []LossIsRepaired
<1>1. LinkInv => LossIsRepaired
  BY DEF LinkInv, MendingInv, Asked, LossIsRepaired, RepairUnderWay
<1> QED BY <1>1, LinkInvariant, PTL

\* The first keyframe is the first frame the codec gets (VideoDecoder.submit).
THEOREM KeyframeIsFirst == Spec => []KeyframeGoesFirst
<1>1. LinkInv => KeyframeGoesFirst BY DEF LinkInv
<1> QED BY <1>1, LinkInvariant, PTL
=============================================================================
