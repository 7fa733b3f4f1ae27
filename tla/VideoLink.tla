------------------------------ MODULE VideoLink -------------------------------
(***************************************************************************)
(* One video session from the encoder to the panel: the host encodes and   *)
(* answers REQUEST_IDR, VideoReceiver reports what it discards,            *)
(* StreamActivity asks for keyframes, VideoDecoder queues frames for the   *)
(* codec.  Keyframes are made on demand only and every other frame builds  *)
(* on the one before it, so a frame that is missing spoils the picture     *)
(* until the next keyframe.                                                *)
(*                                                                         *)
(* Frames carry no numbers here: VideoReceiver shows that they come in     *)
(* order, so one is described by whether it is a keyframe and whether the  *)
(* frame before it is missing.  Threads: the host's, the receiver, the     *)
(* codec's callbacks and the main thread's one-second ticker.              *)
(***************************************************************************)
EXTENDS Naturals, Sequences

CONSTANTS
    MAX_QUEUED_FRAMES,  \* VideoDecoder's backlog limit
    MaxInFlight,        \* bound: frames sent and not yet received
    MaxRequests         \* bound: REQUEST_IDRs the host has not read when
                        \* the throttle allows another

ASSUME LinkAssumption == {MAX_QUEUED_FRAMES, MaxInFlight, MaxRequests} \subseteq Nat \ {0}

VARIABLES
    forceIdr,    \* NvencEncoder::forceIdr_
    requests,    \* REQUEST_IDRs on the control channel
    link,        \* frames on their way: "key", "delta", or "hole" for none
    newest,      \* the kind of the newest completed frame
    gap,         \* a frame is missing since the newest completed one
    stale,       \* VideoReceiver.pending holds something the next frame discards
    throttled,   \* lastIdrRequest is less than IDR_THROTTLE_MS ago
    ticker,      \* statsTicker: "idle", or "asking" past the throttle's test
    sawKeyframe, \* VideoDecoder.sawKeyframe
    queue,       \* VideoDecoder.pendingFrames
    buffer,      \* VideoDecoder.availableInputBuffers is not empty
    pump,        \* the callback thread in pump(): "idle", "peeked", or
                 \* "contended" when the receiver thread waits for pumpLock
    hand,        \* the frame it has peeked at
    reference,   \* what the codec holds to decode the next frame on
    output,      \* the codec has a picture to give back
    renderedFrame, \* VideoDecoder.renderedFrame
    mishap       \* history: the first thing to go wrong that nobody reports

hostVars == <<forceIdr, requests>>
receiverVars == <<newest, gap, stale>>
askVars == <<throttled, ticker>>
decoderVars == <<sawKeyframe, queue, buffer, pump, hand>>
codecVars == <<reference, output, renderedFrame>>
vars == <<hostVars, link, receiverVars, askVars, decoderVars, codecVars, mishap>>

Frame(kind, missing) == [key |-> kind = "key", gap |-> missing]

NoFrame == Frame("none", FALSE)

First(before, what) == IF before = "none" THEN what ELSE before

\* A reference that a frame was not decoded on to.
Spoilt == IF reference = "good" THEN "bad" ELSE reference

\* startDecoder has just started the codec, asked for a keyframe and posted the
\* ticker.  The stream may have been running for a while.
Init ==
    /\ forceIdr \in BOOLEAN
    /\ requests = 1
    /\ link = <<>>
    /\ newest = "none"
    /\ gap \in BOOLEAN
    /\ stale \in BOOLEAN
    /\ throttled = TRUE
    /\ ticker = "idle"
    /\ sawKeyframe = FALSE
    /\ queue = <<>>
    /\ buffer = FALSE
    /\ pump = "idle"
    /\ hand = NoFrame
    /\ reference = "none"
    /\ output = FALSE
    /\ renderedFrame = FALSE
    /\ mishap = "none"

-----------------------------------------------------------------------------
\* The host reads a REQUEST_IDR.
RequestIdr ==
    /\ requests > 0
    /\ requests' = requests - 1
    /\ forceIdr' = TRUE
    /\ UNCHANGED <<link, receiverVars, askVars, decoderVars, codecVars, mishap>>

\* It encodes a picture and sends it; or the picture is encoded and its
\* bitstream cannot be locked, which spends the IDR request all the same.
EncodePicture ==
    /\ Len(link) < MaxInFlight
    /\ forceIdr' = FALSE
    /\ \/ /\ link' = Append(link, IF forceIdr THEN "key" ELSE "delta")
          /\ UNCHANGED mishap
       \/ /\ link' = Append(link, "hole")
          /\ mishap' = First(mishap, "encoder")
    /\ UNCHANGED <<requests, receiverVars, askVars, decoderVars, codecVars>>

-----------------------------------------------------------------------------
\* VideoDecoder.pump hands a frame to the codec, or drops one that is too large
\* for the input buffer or that the codec refuses.  A keyframe mends everything,
\* a delta needs the frame before it, and nothing shows before a keyframe.
Feed(frame) ==
    /\ reference' = IF frame.key THEN "good"
                    ELSE IF frame.gap /\ reference = "good" THEN "bad"
                    ELSE reference
    /\ output' = (output \/ reference' # "none")

Drop ==
    /\ reference' = Spoilt
    /\ UNCHANGED output

FeedOrDrop(frame, before) ==
    /\ \/ Feed(frame) /\ mishap' = before
       \/ Drop /\ mishap' = First(before, "dropped")
    /\ UNCHANGED renderedFrame

\* Mutant of Submit: frames are queued from the first one on.
SubmitAnything(frame, before) ==
    \/ /\ buffer
       /\ sawKeyframe' = TRUE
       /\ buffer' = FALSE
       /\ FeedOrDrop(frame, before)
       /\ UNCHANGED <<queue, pump, hand>>
    \/ /\ ~buffer
       /\ sawKeyframe' = TRUE
       /\ IF Len(queue) > MAX_QUEUED_FRAMES
            THEN /\ queue' = <<[frame EXCEPT !.gap = TRUE]>>
                 /\ pump' = IF pump = "peeked" THEN "swallows" ELSE pump
                 /\ mishap' = First(before, "backlog")
            ELSE /\ queue' = Append(queue, frame)
                 /\ pump' = IF pump = "peeked" THEN "contended" ELSE pump
                 /\ mishap' = before
       /\ UNCHANGED <<buffer, hand, codecVars>>

\* VideoDecoder.submit, on the receiver thread.  Frames before the first
\* keyframe are skipped; a backlog past the limit is dropped, whatever is in it;
\* then pump() gives the frame to a waiting buffer, or waits for the callback
\* thread to leave.  `before' is what had gone wrong by then.
Submit(frame, before) ==
    \/ /\ ~sawKeyframe /\ ~frame.key
       /\ mishap' = before
       /\ UNCHANGED <<decoderVars, codecVars>>
    \/ /\ sawKeyframe \/ frame.key
       /\ buffer
       /\ sawKeyframe' = TRUE
       /\ buffer' = FALSE
       /\ FeedOrDrop(frame, before)
       /\ UNCHANGED <<queue, pump, hand>>
    \/ /\ sawKeyframe \/ frame.key
       /\ ~buffer
       /\ sawKeyframe' = TRUE
       /\ IF Len(queue) > MAX_QUEUED_FRAMES
            THEN /\ queue' = <<[frame EXCEPT !.gap = TRUE]>>
                 /\ pump' = IF pump = "peeked" THEN "swallows" ELSE pump
                 /\ mishap' = First(before, "backlog")
            ELSE /\ queue' = Append(queue, frame)
                 /\ pump' = IF pump = "peeked" THEN "contended" ELSE pump
                 /\ mishap' = before
       /\ UNCHANGED <<buffer, hand, codecVars>>

-----------------------------------------------------------------------------
\* The receiver thread is free: not waiting for pumpLock inside submit.
ReceiverFree == pump \in {"idle", "peeked"}

Arrives(kinds) ==
    /\ ReceiverFree
    /\ link # <<>> /\ Head(link) \in kinds
    /\ link' = Tail(link)

\* Mutant of FrameCompletes: what is discarded is not reported.
FrameCompletesQuietly ==
    /\ Arrives({"key", "delta"})
    /\ newest' = Head(link)
    /\ gap' = FALSE
    /\ stale' = FALSE
    /\ Submit(Frame(Head(link), gap), mishap)
    /\ UNCHANGED <<hostVars, askVars>>

\* VideoReceiver.handleDatagram completes the next frame: what is held of older
\* ones goes and is reported, and the frame is submitted.  The report is
\* StreamActivity.requestKeyframeThrottled: inside the throttle's window no
\* request is made, and none is made up for later.
FrameCompletes ==
    /\ Arrives({"key", "delta"})
    /\ newest' = Head(link)
    /\ gap' = FALSE
    /\ stale' = FALSE
    /\ IF stale /\ ~throttled
         THEN requests' = requests + 1 /\ throttled' = TRUE
         ELSE UNCHANGED <<requests, throttled>>
    /\ Submit(Frame(Head(link), gap),
              IF stale /\ gap /\ throttled THEN First(mishap, "throttled") ELSE mishap)
    /\ UNCHANGED <<forceIdr, ticker>>

\* Some of a frame's datagrams are lost, or a newer frame overtakes it.
FramePartlyLost ==
    /\ Arrives({"key", "delta"})
    /\ gap' = TRUE
    /\ stale' = TRUE
    /\ UNCHANGED <<hostVars, newest, askVars, decoderVars, codecVars, mishap>>

\* All of them are: the receiver holds nothing to miss.
FrameUnseen ==
    /\ Arrives({"key", "delta", "hole"})
    /\ gap' = TRUE
    /\ mishap' = IF Head(link) = "hole" THEN mishap ELSE First(mishap, "unseen")
    /\ UNCHANGED <<hostVars, newest, stale, askVars, decoderVars, codecVars>>

\* Copies of the newest frame's datagrams: one of several makes an entry that
\* the next frame discards, the only one completes the frame once more.
CopyArrives ==
    /\ ReceiverFree
    /\ newest # "none"
    /\ \/ /\ ~stale
          /\ stale' = TRUE
          /\ UNCHANGED <<decoderVars, codecVars, mishap>>
       \/ /\ Submit(Frame(newest, TRUE), First(mishap, "repeated"))
          /\ UNCHANGED stale
    /\ UNCHANGED <<hostVars, link, newest, gap, askVars>>

-----------------------------------------------------------------------------
\* Mutant of TickerDue: hasKeyframe for hasRenderedFrame.
TickerDueUntilKeyframe ==
    /\ ticker = "idle"
    /\ ~sawKeyframe
    /\ ~throttled
    /\ ticker' = "asking"
    /\ UNCHANGED <<hostVars, link, receiverVars, throttled, decoderVars, codecVars, mishap>>

\* StreamActivity.statsTicker, once a second until a picture has been shown:
\* the throttle's test and the request are two steps on a field that the
\* receiver thread tests and writes too.
TickerDue ==
    /\ ticker = "idle"
    /\ ~renderedFrame
    /\ ~throttled
    /\ ticker' = "asking"
    /\ UNCHANGED <<hostVars, link, receiverVars, throttled, decoderVars, codecVars, mishap>>

TickerAsks ==
    /\ ticker = "asking"
    /\ ticker' = "idle"
    /\ throttled' = TRUE
    /\ requests' = requests + 1
    /\ UNCHANGED <<forceIdr, link, receiverVars, decoderVars, codecVars, mishap>>

ThrottleExpires ==
    /\ throttled
    /\ requests < MaxRequests
    /\ throttled' = FALSE
    /\ UNCHANGED <<hostVars, link, receiverVars, ticker, decoderVars, codecVars, mishap>>

-----------------------------------------------------------------------------
\* The codec's callback thread: onInputBufferAvailable adds the buffer and
\* enters pump(), which peeks at the queue and takes the buffer...
InputBufferAvailable ==
    /\ ~buffer
    /\ pump = "idle"
    /\ IF queue = <<>>
         THEN buffer' = TRUE /\ UNCHANGED <<pump, hand>>
         ELSE pump' = "peeked" /\ hand' = Head(queue) /\ UNCHANGED buffer
    /\ UNCHANGED <<hostVars, link, receiverVars, askVars, sawKeyframe, queue, codecVars, mishap>>

\* ...and polls the frame it peeked at.  clear() and add() in submit do not take
\* pumpLock, so it may be another frame that the poll takes away.
PumpPolls ==
    /\ pump # "idle"
    /\ queue' = Tail(queue)
    /\ pump' = "idle"
    /\ hand' = NoFrame
    /\ IF pump = "swallows"
         THEN /\ reference' = IF hand.key THEN "bad" ELSE Spoilt
              /\ output' = (output \/ reference' # "none")
              /\ UNCHANGED <<renderedFrame, mishap>>
         ELSE FeedOrDrop(hand, mishap)
    /\ UNCHANGED <<hostVars, link, receiverVars, askVars, sawKeyframe, buffer>>

\* onOutputBufferAvailable: the picture goes to the surface.
OutputBufferAvailable ==
    /\ output
    /\ output' = FALSE
    /\ renderedFrame' = TRUE
    /\ UNCHANGED <<hostVars, link, receiverVars, askVars, decoderVars, reference, mishap>>

-----------------------------------------------------------------------------
Network == FrameCompletes \/ FramePartlyLost \/ FrameUnseen

Next ==
    \/ RequestIdr \/ EncodePicture
    \/ FrameCompletes \/ FramePartlyLost \/ FrameUnseen \/ CopyArrives
    \/ TickerDue \/ TickerAsks \/ ThrottleExpires
    \/ InputBufferAvailable \/ PumpPolls \/ OutputBufferAvailable

Spec == Init /\ [][Next]_vars

\* The host reads and encodes, a frame that was sent arrives or is lost, time
\* passes, and the codec's callbacks and the main thread's ticker run.
Fairness ==
    /\ WF_vars(RequestIdr) /\ WF_vars(EncodePicture) /\ WF_vars(Network)
    /\ WF_vars(TickerDue) /\ WF_vars(TickerAsks) /\ WF_vars(ThrottleExpires)
    /\ WF_vars(InputBufferAvailable) /\ WF_vars(PumpPolls) /\ WF_vars(OutputBufferAvailable)

FairSpec == Spec /\ Fairness

-----------------------------------------------------------------------------
Frames == [key : BOOLEAN, gap : BOOLEAN]

TypeOK ==
    /\ {forceIdr, gap, stale, throttled, sawKeyframe, buffer, output, renderedFrame} \subseteq BOOLEAN
    /\ requests \in 0..(MaxRequests + 1)
    /\ link \in Seq({"key", "delta", "hole"}) /\ Len(link) <= MaxInFlight
    /\ newest \in {"none", "key", "delta"}
    /\ ticker \in {"idle", "asking"}
    /\ queue \in Seq(Frames) /\ Len(queue) <= MAX_QUEUED_FRAMES + 1
    /\ pump \in {"idle", "peeked", "contended", "swallows"}
    /\ hand \in Frames
    /\ reference \in {"none", "good", "bad"}
    /\ mishap \in {"none", "encoder", "unseen", "repeated", "throttled", "backlog", "dropped"}

\* A keyframe is coming: asked for, owed, on its way or queued; or what will be
\* reported missing has yet to be.
RepairUnderWay ==
    \/ requests > 0 \/ forceIdr \/ ticker = "asking" \/ stale
    \/ "key" \in {link[i] : i \in DOMAIN link}
    \/ TRUE \in {queue[i].key : i \in DOMAIN queue}
    \/ hand.key

\* A frame that is lost is reported and mended: whenever the codec lacks the
\* frame the next one builds on, a keyframe is coming, unless one of the six
\* mishaps has happened that the client never asks a keyframe for
\* (PROTOCOL.md: "On discarding an incomplete frame, send REQUEST_IDR").
LossIsRepaired == reference = "bad" /\ mishap = "none" => RepairUnderWay

\* VideoDecoder.submit: "Frames are ignored until the first keyframe arrives",
\* and it stays first in line: until the codec has it, it is the next to be fed.
KeyframeGoesFirst ==
    sawKeyframe /\ reference = "none" /\ mishap = "none" =>
        queue # <<>> /\ Head(queue).key

\* The network or the codec loses a frame, or brings one twice, in this step.
Trouble ==
    \/ EncodePicture /\ link' = Append(link, "hole")
    \/ FramePartlyLost
    \/ FrameUnseen /\ Head(link) # "hole"
    \/ CopyArrives
    \/ FrameCompletes /\ ~buffer /\ Len(queue) > MAX_QUEUED_FRAMES
    \/ FrameCompletes /\ buffer /\ Head(link) = "key" /\ reference' # "good"
    \/ PumpPolls /\ hand.key /\ reference' # "good"

\* However the stream starts, once frames get through and the decoder keeps up
\* a picture is shown: the ticker goes on asking for a keyframe until one has
\* been (statsTicker: "until one lands the screen stays black").
FirstPicture == <>[][~Trouble]_vars => <>renderedFrame

=============================================================================
