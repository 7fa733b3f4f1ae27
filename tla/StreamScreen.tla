----------------------------- MODULE StreamScreen -----------------------------
(***************************************************************************)
(* StreamActivity: one screen from onCreate to onDestroy.  It tries the    *)
(* codecs of the chain one after the other, each with a control connection,*)
(* a video receiver and, once the host says STARTED, a decoder of its own; *)
(* an overlay covers it until a picture is shown.                          *)
(*                                                                         *)
(* Everything here runs on the main thread, so a handler is one step.  The *)
(* readers and the codec post to it (runOnUiThread, MediaCodec's handler), *)
(* and what they post may be handled after the attempt it is about is over.*)
(* An attempt is named by its codec: k is the k-th of the chain, and 0 is  *)
(* null.                                                                   *)
(***************************************************************************)
EXTENDS Integers, Sequences

CONSTANTS
    ChainSize,  \* CodecSupport.chain.size
    MaxPosts    \* bound: callbacks waiting for the main thread

ASSUME ScreenAssumption == {ChainSize, MaxPosts} \subseteq Nat \ {0}

VARIABLES
    life,            \* "alive", "finishing" or "destroyed"
    launching,       \* the intent names a game, not a window
    surfaceReady,
    control,         \* the attempt in use
    talk,            \* how far each attempt's conversation with the host is
    posts,           \* callbacks posted to the main thread
    codecIndex,
    pendingSession,
    decoder,
    keyframeFed,     \* decoder.hasKeyframe
    renderedFrame,   \* decoder.hasRenderedFrame
    sessionStarted,
    statsTicks,      \* statsTickers in the handler's queue
    overlay,         \* see Overlays
    connections,     \* attempts whose connection and receiver are not stopped
    codecs           \* attempts whose MediaCodec is not released

decoderVars == <<decoder, keyframeFed, renderedFrame, codecs>>
sessionVars == <<pendingSession, sessionStarted, statsTicks>>
attemptVars == <<control, connections, codecIndex>>
screenVars == <<life, launching, surfaceReady>>
vars == <<screenVars, attemptVars, talk, posts, decoderVars, sessionVars, overlay>>

Attempts == 1..ChainSize

CONNECTING == 0
LAUNCHING == 1  \* and the other stages the host reports
STARTING_STREAM == 2
DECODING == 3

ERROR_RANK_NONE == -1
ERROR_RANK_FALLOUT == 0
ERROR_RANK_REPORTED == 1
ERROR_RANK_DIAGNOSED == 2

Overlays ==
    [ loadingVisible : BOOLEAN,
      loadStage : CONNECTING..DECODING,
      inStage : 0..2,   \* up to 8 seconds in this stage, up to 20, more
      stallReported : BOOLEAN,
      errorRank : ERROR_RANK_NONE..ERROR_RANK_DIAGNOSED,
      about : 0..ChainSize,       \* history: the attempt the error shown is about
      fallbackInFlight : BOOLEAN,
      ticks : 0..2 ]    \* loadingTickers in the handler's queue

Init ==
    /\ life = "alive"
    /\ launching \in BOOLEAN
    /\ surfaceReady = FALSE
    /\ control = 0
    /\ talk = [k \in Attempts |-> "none"]
    /\ posts = <<>>
    /\ codecIndex = 0
    /\ pendingSession = 0
    /\ decoder = 0
    /\ keyframeFed = FALSE
    /\ renderedFrame = FALSE
    /\ sessionStarted = FALSE
    /\ statsTicks = 0
    /\ overlay = [loadingVisible |-> TRUE, loadStage |-> CONNECTING, inStage |-> 0,
                  stallReported |-> FALSE, errorRank |-> ERROR_RANK_NONE, about |-> 0,
                  fallbackInFlight |-> FALSE, ticks |-> 1]
    /\ connections = {}
    /\ codecs = {}

-----------------------------------------------------------------------------
\* The overlay o after each of the methods that change it.
ClearLoadingError(o) == [o EXCEPT !.errorRank = ERROR_RANK_NONE, !.about = 0]

EnterStage(o, stage) ==
    IF stage <= o.loadStage THEN o
    ELSE ClearLoadingError([o EXCEPT !.loadStage = stage, !.inStage = 0])

ShowLoadingError(o, rank, attempt) ==
    IF o.loadingVisible /\ rank > o.errorRank
      THEN [o EXCEPT !.errorRank = rank, !.about = attempt]
      ELSE o

HideLoading(o) == ClearLoadingError([o EXCEPT !.loadingVisible = FALSE, !.ticks = 0])

\* It removes the tickers in the queue and posts one.
RestartLoadingFor(o) ==
    ClearLoadingError([o EXCEPT !.loadingVisible = TRUE, !.loadStage = CONNECTING,
                                !.inStage = 0, !.stallReported = FALSE, !.ticks = 1])

\* fallBack: not twice at a time, not once a picture has shown, and not below
\* the last codec.  What follows is posted with a delay: FallbackFires.
FallBack(o) ==
    IF life # "alive" \/ o.fallbackInFlight \/ renderedFrame THEN o
    ELSE IF codecIndex + 1 >= ChainSize THEN ShowLoadingError(o, ERROR_RANK_DIAGNOSED, control)
    ELSE RestartLoadingFor([o EXCEPT !.fallbackInFlight = TRUE])

\* Mutant of DrawLoading: a session without a keyframe is left to time out alone.
DrawLoadingFed(o) ==
    IF o.loadStage # DECODING \/ o.stallReported THEN o
    ELSE IF keyframeFed /\ codecIndex + 1 < ChainSize /\ o.inStage > 0
      THEN FallBack([o EXCEPT !.stallReported = TRUE])
    ELSE IF keyframeFed /\ o.inStage > 1
      THEN ShowLoadingError([o EXCEPT !.stallReported = TRUE], ERROR_RANK_DIAGNOSED, control)
    ELSE o

\* drawLoading, as far as it decides anything: a decoder that was fed and shows
\* nothing is given up early if there is another codec, and the user is told of
\* anything else that lasts.
DrawLoading(o) ==
    IF o.loadStage # DECODING \/ o.stallReported THEN o
    ELSE IF keyframeFed /\ codecIndex + 1 < ChainSize /\ o.inStage > 0
      THEN FallBack([o EXCEPT !.stallReported = TRUE])
    ELSE IF o.inStage > 1
      THEN ShowLoadingError([o EXCEPT !.stallReported = TRUE], ERROR_RANK_DIAGNOSED, control)
    ELSE o

-----------------------------------------------------------------------------
\* Mutant of StartDecoder: a STARTED after the end is not noticed.
StartDecoderAnyway(k, surface) ==
    IF decoder # 0
      THEN UNCHANGED <<decoderVars, sessionVars, overlay>>
    ELSE IF ~surface
      THEN /\ pendingSession' = k
           /\ UNCHANGED <<decoderVars, sessionStarted, statsTicks, overlay>>
    ELSE /\ pendingSession' = 0
         /\ decoder' = k
         /\ codecs' = codecs \cup {k}
         /\ sessionStarted' = TRUE
         /\ statsTicks' = 1
         /\ overlay' = EnterStage(overlay, DECODING)
         /\ UNCHANGED <<keyframeFed, renderedFrame>>

\* startDecoder: MediaCodec takes the format or refuses it; without a surface
\* the session waits for one.
StartDecoder(k, surface) ==
    IF life # "alive" \/ decoder # 0
      THEN UNCHANGED <<decoderVars, sessionVars, overlay>>
    ELSE IF ~surface
      THEN /\ pendingSession' = k
           /\ UNCHANGED <<decoderVars, sessionStarted, statsTicks, overlay>>
    ELSE /\ pendingSession' = 0
         /\ \/ /\ decoder' = k
               /\ codecs' = codecs \cup {k}
               /\ sessionStarted' = TRUE
               /\ statsTicks' = 1
               /\ overlay' = EnterStage(overlay, DECODING)
               /\ UNCHANGED <<keyframeFed, renderedFrame>>
            \/ /\ overlay' = FallBack(overlay)
               /\ UNCHANGED <<decoderVars, sessionStarted, statsTicks>>

\* Mutant of SurfaceCreated: connect() alone.
SurfaceCreatedConnects ==
    /\ life = "alive"
    /\ ~surfaceReady
    /\ surfaceReady' = TRUE
    /\ IF control = 0
         THEN /\ control' = 1
              /\ connections' = {1}
              /\ talk' = [talk EXCEPT ![1] = "dialling"]
         ELSE UNCHANGED <<control, connections, talk>>
    /\ UNCHANGED <<life, launching, posts, codecIndex, decoderVars, sessionVars, overlay>>

\* The first surface connects; a later one may find a session waiting for it.
SurfaceCreated ==
    /\ life = "alive"
    /\ ~surfaceReady
    /\ surfaceReady' = TRUE
    /\ IF control = 0
         THEN /\ control' = 1
              /\ connections' = {1}
              /\ talk' = [talk EXCEPT ![1] = "dialling"]
         ELSE UNCHANGED <<control, connections, talk>>
    /\ IF pendingSession = 0
         THEN UNCHANGED <<decoderVars, sessionVars, overlay>>
         ELSE StartDecoder(pendingSession, TRUE)
    /\ UNCHANGED <<life, launching, posts, codecIndex>>

\* Home, or the screen goes off.
SurfaceDestroyed ==
    /\ life # "destroyed"
    /\ surfaceReady
    /\ surfaceReady' = FALSE
    /\ UNCHANGED <<life, launching, attemptVars, talk, posts, decoderVars, sessionVars, overlay>>

\* The coroutine in connect() resumes, with the connection or without.
DialEnds ==
    /\ life # "destroyed"
    /\ control # 0 /\ talk[control] = "dialling"
    /\ \/ /\ talk' = [talk EXCEPT ![control] = "asked"]
          /\ overlay' = IF launching THEN overlay ELSE EnterStage(overlay, STARTING_STREAM)
       \/ /\ talk' = [talk EXCEPT ![control] = "gone"]
          /\ overlay' = ShowLoadingError(overlay, ERROR_RANK_REPORTED, control)
    /\ UNCHANGED <<screenVars, attemptVars, posts, decoderVars, sessionVars>>

-----------------------------------------------------------------------------
\* What the host may say and how the conversation stands then: progress, one
\* answer to the request, "the captured window was closed", and its end.
Answers(state) ==
    CASE state = "asked" ->
           { <<"started", "started">>, <<"refused", "answered">>, <<"error", "answered">>,
             <<"disconnected", "gone">> }
           \cup (IF launching THEN {<<"progress", "asked">>} ELSE {})
      [] state = "started" -> {<<"error", "answered">>, <<"disconnected", "gone">>}
      [] state = "answered" -> {<<"disconnected", "gone">>}
      [] OTHER -> {}

\* A reader dispatches a message: its callback posts to the main thread.  A
\* connection that has been dropped dispatches at most the one it was reading.
Dispatch(k) ==
    /\ Len(posts) < MaxPosts
    /\ \E answer \in Answers(talk[k]) :
          /\ posts' = Append(posts, [from |-> k, what |-> answer[1]])
          /\ talk' = [talk EXCEPT ![k] = IF k \in connections THEN answer[2] ELSE "gone"]
    /\ UNCHANGED <<screenVars, attemptVars, decoderVars, sessionVars, overlay>>

\* MediaCodec reports an exception, some of which it goes on to recover from.
CodecFails ==
    /\ Len(posts) < MaxPosts
    /\ decoder \in codecs
    /\ posts' = Append(posts, [from |-> decoder, what |-> "codecError"])
    /\ UNCHANGED <<screenVars, attemptVars, talk, decoderVars, sessionVars, overlay>>

\* Mutant of IsCurrent: whoever speaks is.
IsCurrentAlways(k) == k \in Attempts

IsCurrent(k) == k = control

\* The overlay after the other callbacks.
Reported(k, what) ==
    CASE what = "codecError" /\ k = decoder ->
           IF renderedFrame THEN ShowLoadingError(overlay, ERROR_RANK_REPORTED, k)
                            ELSE FallBack(overlay)
      [] what = "progress" /\ IsCurrent(k) -> EnterStage(overlay, LAUNCHING)
      [] what = "refused" /\ IsCurrent(k) -> FallBack(overlay)
      [] what = "error" /\ IsCurrent(k) -> ShowLoadingError(overlay, ERROR_RANK_REPORTED, k)
      [] what = "disconnected" /\ IsCurrent(k) /\ ~overlay.fallbackInFlight ->
           ShowLoadingError(overlay, ERROR_RANK_FALLOUT, k)
      [] OTHER -> overlay

\* The main thread runs a callback.
RunPosted ==
    /\ posts # <<>>
    /\ posts' = Tail(posts)
    /\ LET k == Head(posts).from
           what == Head(posts).what
       IN  IF what = "started" /\ IsCurrent(k)
             THEN StartDecoder(k, surfaceReady)
             ELSE overlay' = Reported(k, what) /\ UNCHANGED <<decoderVars, sessionVars>>
    /\ UNCHANGED <<screenVars, attemptVars, talk>>

-----------------------------------------------------------------------------
\* The receiver submits a keyframe, and MediaCodec gives a picture back, for the
\* surface it was started with, there or not.
KeyframeArrives ==
    /\ decoder \in codecs
    /\ ~keyframeFed
    /\ keyframeFed' = TRUE
    /\ UNCHANGED <<screenVars, attemptVars, talk, posts, decoder, renderedFrame, codecs,
                   sessionVars, overlay>>

PictureShows ==
    /\ decoder \in codecs
    /\ keyframeFed /\ ~renderedFrame
    /\ renderedFrame' = TRUE
    /\ UNCHANGED <<screenVars, attemptVars, talk, posts, decoder, keyframeFed, codecs,
                   sessionVars, overlay>>

TimePasses ==
    /\ overlay.loadStage = DECODING /\ overlay.inStage < 2
    /\ overlay' = [overlay EXCEPT !.inStage = @ + 1]
    /\ UNCHANGED <<screenVars, attemptVars, talk, posts, decoderVars, sessionVars>>

\* Mutant of LoadingTicker: an error stops it.
LoadingTickerStops ==
    /\ overlay.ticks > 0
    /\ overlay' =
          LET o == [overlay EXCEPT !.ticks = @ - 1]
              drawn == DrawLoading(o)
          IN  IF ~o.loadingVisible \/ o.errorRank > ERROR_RANK_NONE THEN o
              ELSE IF renderedFrame THEN HideLoading(o)
              ELSE [drawn EXCEPT !.ticks = @ + 1]
    /\ UNCHANGED <<screenVars, attemptVars, talk, posts, decoderVars, sessionVars>>

\* loadingTicker: it is out of the queue while it runs, and posts itself again
\* whatever restartLoadingFor has posted.
LoadingTicker ==
    /\ overlay.ticks > 0
    /\ overlay' =
          LET o == [overlay EXCEPT !.ticks = @ - 1]
              drawn == DrawLoading(o)
          IN  IF ~o.loadingVisible THEN o
              ELSE IF renderedFrame THEN HideLoading(o)
              ELSE [drawn EXCEPT !.ticks = @ + 1]
    /\ UNCHANGED <<screenVars, attemptVars, talk, posts, decoderVars, sessionVars>>

-----------------------------------------------------------------------------
\* Mutant of TearDownAndConnect: the decoder is stopped and not forgotten.
TearDownHalf ==
    /\ codecIndex' = codecIndex + 1
    /\ sessionStarted' = FALSE
    /\ statsTicks' = 0
    /\ pendingSession' = 0
    /\ codecs' = codecs \ {decoder}
    /\ control' = codecIndex + 2
    /\ connections' = (connections \ {control}) \cup {codecIndex + 2}
    /\ talk' = [talk EXCEPT ![codecIndex + 2] = "dialling"]
    /\ UNCHANGED <<decoder, keyframeFed, renderedFrame>>

\* teardownSession and connect() with the next codec.
TearDownAndConnect ==
    /\ codecIndex' = codecIndex + 1
    /\ sessionStarted' = FALSE
    /\ statsTicks' = 0
    /\ pendingSession' = 0
    /\ decoder' = 0
    /\ keyframeFed' = FALSE
    /\ renderedFrame' = FALSE
    /\ codecs' = codecs \ {decoder}
    /\ control' = codecIndex + 2
    /\ connections' = (connections \ {control}) \cup {codecIndex + 2}
    /\ talk' = [talk EXCEPT ![codecIndex + 2] = "dialling"]

\* Mutant of FallbackFires: what has happened in the meantime is not looked at.
FallbackFiresAnyway ==
    /\ overlay.fallbackInFlight
    /\ life # "destroyed"
    /\ overlay' = [overlay EXCEPT !.fallbackInFlight = FALSE]
    /\ IF life = "alive"
         THEN TearDownAndConnect
         ELSE UNCHANGED <<attemptVars, talk, decoderVars, sessionVars>>
    /\ UNCHANGED <<screenVars, posts>>

\* What fallBack posted, FALLBACK_DELAY_MS later.
FallbackFires ==
    /\ overlay.fallbackInFlight
    /\ life # "destroyed"
    /\ overlay' = [overlay EXCEPT !.fallbackInFlight = FALSE]
    /\ IF life = "alive" /\ ~renderedFrame
         THEN TearDownAndConnect
         ELSE UNCHANGED <<attemptVars, talk, decoderVars, sessionVars>>
    /\ UNCHANGED <<screenVars, posts>>

\* B, Back or the system's gesture.
Finish ==
    /\ life = "alive"
    /\ life' = "finishing"
    /\ UNCHANGED <<launching, surfaceReady, attemptVars, talk, posts, decoderVars,
                   sessionVars, overlay>>

\* onDestroy: the handler's queue is emptied, the callbacks that were posted
\* with runOnUiThread are not in it.
OnDestroy ==
    /\ life = "finishing"
    /\ life' = "destroyed"
    /\ sessionStarted' = FALSE
    /\ pendingSession' = 0
    /\ statsTicks' = 0
    /\ overlay' = [overlay EXCEPT !.ticks = 0]
    /\ connections' = {}
    /\ codecs' = {}
    /\ UNCHANGED <<launching, surfaceReady, control, codecIndex, talk, posts, decoder,
                   keyframeFed, renderedFrame>>

-----------------------------------------------------------------------------
Next ==
    \/ SurfaceCreated \/ SurfaceDestroyed \/ DialEnds
    \/ \E k \in Attempts : Dispatch(k)
    \/ CodecFails \/ RunPosted \/ KeyframeArrives \/ PictureShows
    \/ TimePasses \/ LoadingTicker \/ FallbackFires
    \/ Finish \/ OnDestroy

Spec == Init /\ [][Next]_vars

\* The main thread runs what is posted and what is due, and time passes.
FairSpec ==
    /\ Spec
    /\ WF_vars(RunPosted) /\ WF_vars(LoadingTicker) /\ WF_vars(FallbackFires) /\ WF_vars(TimePasses)

-----------------------------------------------------------------------------
Places == {"none", "dialling", "asked", "started", "answered", "gone"}
Callbacks == {"progress", "started", "refused", "error", "disconnected", "codecError"}

TypeOK ==
    /\ life \in {"alive", "finishing", "destroyed"}
    /\ {launching, surfaceReady, keyframeFed, renderedFrame, sessionStarted} \subseteq BOOLEAN
    /\ {control, pendingSession, decoder} \subseteq 0..ChainSize
    /\ talk \in [Attempts -> Places]
    /\ posts \in Seq([from : Attempts, what : Callbacks]) /\ Len(posts) <= MaxPosts
    /\ codecIndex \in 0..(ChainSize - 1)
    /\ statsTicks \in 0..1
    /\ overlay \in Overlays
    /\ connections \subseteq Attempts
    /\ codecs \subseteq Attempts

\* One connection, one receiver and one hardware decoder at a time, those of the
\* codec in use, and none of them nor a ticker survives the screen: a fallback
\* has let go of everything before it takes the next ("The host serves one client
\* at a time"), and a STARTED that comes after onDestroy starts nothing.
OwnsWhatIsCurrent ==
    /\ connections = IF life = "destroyed" \/ control = 0 THEN {} ELSE {control}
    /\ codecs = IF life = "destroyed" \/ decoder = 0 THEN {} ELSE {decoder}
    /\ statsTicks > 0 => sessionStarted
    /\ life = "destroyed" => statsTicks = 0 /\ overlay.ticks = 0 /\ pendingSession = 0

\* The decoder is the current connection's and for the codec it asked for, and so
\* is the session that waits for a surface ("The stats line must never name a
\* codec that is not on screen").
CodecAgrees ==
    /\ control # 0 => control = codecIndex + 1
    /\ {decoder, pendingSession} \subseteq {0, control}

\* restartLoadingFor: an overlay without its ticker is "a screen with no picture
\* and no way off it".
OverlayCanGo == life = "alive" /\ overlay.loadingVisible => overlay.ticks > 0

\* Nothing is complained of that is over: what a connection or a decoder says
\* after it was let go of "must not paint a complaint over the attempt that
\* replaced it".
ComplaintsAreCurrent ==
    [][overlay'.about \notin {0, overlay.about} => overlay'.about = control]_vars

\* fallBack: a session that shows a picture is torn down for no codec, however
\* the complaint, the 400 ms and the picture are ordered.
PictureSurvives ==
    [][renderedFrame /\ life = "alive" => decoder' = decoder /\ codecs' = codecs]_vars

\* A picture retires the overlay, whatever was complained of before ("the picture
\* wins").
PictureWins == renderedFrame ~> ~overlay.loadingVisible \/ life # "alive"

\* surfaceCreated: a session for which there is a surface does not wait for one
\* ("the session is stranded with no decoder and nothing to show for it").
NotStranded == pendingSession # 0 => ~surfaceReady

\* An attempt never loses what would carry it on: the ticker of its overlay, or
\* the surface its session waits for.
NeverStuck == OverlayCanGo /\ NotStranded

\* A session that was started does not stay black without a word: it shows a
\* picture, the next codec is tried, or the user is told.
NeverSilent ==
    decoder # 0 ~>
        \/ ~overlay.loadingVisible \/ overlay.errorRank > ERROR_RANK_NONE
        \/ decoder = 0 \/ life # "alive"

=============================================================================
