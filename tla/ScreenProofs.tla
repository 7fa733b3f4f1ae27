----------------------------- MODULE ScreenProofs -----------------------------
(***************************************************************************)
(* The safety of StreamScreen for a chain of any length and any number of  *)
(* callbacks waiting.  ScreenInv strengthens the invariants the run checks *)
(* by what makes them inductive: a retry is on its way only if there is a  *)
(* codec left, the first attempt is the first codec's, and a session that  *)
(* waits for a surface has no decoder yet.                                 *)
(***************************************************************************)
EXTENDS StreamScreen, TLAPS

ScreenInv ==
    /\ TypeOK
    /\ OwnsWhatIsCurrent
    /\ CodecAgrees
    /\ OverlayCanGo
    /\ NotStranded
    /\ overlay.fallbackInFlight => codecIndex + 1 < ChainSize
    /\ control = 0 => codecIndex = 0
    /\ pendingSession # 0 => decoder = 0
    /\ renderedFrame => decoder # 0

\* What every method but hideLoading leaves of an overlay o.
Follows(o, q) ==
    /\ q \in Overlays
    /\ q.fallbackInFlight => o.fallbackInFlight \/ codecIndex + 1 < ChainSize
    /\ q.ticks = o.ticks \/ (q.ticks = 1 /\ life = "alive")
    /\ q.loadingVisible => o.loadingVisible \/ q.ticks = 1
    /\ q.about \in {0, o.about, control}

\* The fields that the methods write, one at a time.
LEMMA FieldsFit ==
    ASSUME NEW o \in Overlays
    PROVE  /\ [o EXCEPT !.about = 0] \in Overlays
           /\ [o EXCEPT !.errorRank = ERROR_RANK_NONE] \in Overlays
           /\ \A stage \in CONNECTING..DECODING : [o EXCEPT !.loadStage = stage] \in Overlays
           /\ \A yes \in BOOLEAN : [o EXCEPT !.loadingVisible = yes] \in Overlays
           /\ \A yes \in BOOLEAN : [o EXCEPT !.stallReported = yes] \in Overlays
           /\ \A yes \in BOOLEAN : [o EXCEPT !.fallbackInFlight = yes] \in Overlays
           /\ [o EXCEPT !.inStage = 0] \in Overlays
           /\ [o EXCEPT !.ticks = 0] \in Overlays
           /\ [o EXCEPT !.ticks = 1] \in Overlays
<1>1. 0 \in 0..ChainSize
      BY ScreenAssumption DEF ScreenAssumption
<1>2. ERROR_RANK_NONE \in ERROR_RANK_NONE..ERROR_RANK_DIAGNOSED
      BY DEF ERROR_RANK_NONE, ERROR_RANK_DIAGNOSED
<1> QED
      BY <1>1, <1>2 DEF Overlays

\* An EXCEPT of several fields is several of one.
LEMMA ClearedFits ==
    ASSUME NEW o \in Overlays
    PROVE  ClearLoadingError(o) \in Overlays
<1> DEFINE p == [o EXCEPT !.errorRank = ERROR_RANK_NONE]
<1>1. p \in Overlays
      BY FieldsFit
<1>2. ClearLoadingError(o) = [p EXCEPT !.about = 0]
      BY DEF ClearLoadingError, Overlays
<1> HIDE DEF p
<1> QED
      BY <1>1, <1>2, FieldsFit

\* A method that returns early leaves the overlay as it was.
LEMMA OverlayReflexive ==
    ASSUME NEW o \in Overlays PROVE Follows(o, o)
BY DEF Follows

\* enterStage clears what is shown and neither adds nor removes a ticker.
LEMMA EnterStageFollows ==
    ASSUME NEW o \in Overlays, NEW stage \in CONNECTING..DECODING
    PROVE  Follows(o, EnterStage(o, stage))
<1> DEFINE q == ClearLoadingError([o EXCEPT !.loadStage = stage, !.inStage = 0])
<1>1. q \in Overlays
  <2> DEFINE p == [o EXCEPT !.loadStage = stage]
  <2>1. p \in Overlays
        BY FieldsFit
  <2>2. [o EXCEPT !.loadStage = stage, !.inStage = 0] = [p EXCEPT !.inStage = 0]
        BY DEF Overlays
  <2> HIDE DEF p
  <2>3. [p EXCEPT !.inStage = 0] \in Overlays
        BY <2>1, FieldsFit
  <2> QED
        BY <2>2, <2>3, ClearedFits
<1>2. /\ q.fallbackInFlight = o.fallbackInFlight
      /\ q.ticks = o.ticks
      /\ q.loadingVisible = o.loadingVisible
      /\ q.about = 0
      BY DEF ClearLoadingError, Overlays
<1>3. Follows(o, q)
      BY <1>1, <1>2 DEF Follows
<1> QED
      BY <1>3, OverlayReflexive DEF EnterStage

\* showLoadingError, for the attempt in use.
LEMMA ShowLoadingErrorFollows ==
    ASSUME NEW o \in Overlays, control \in 0..ChainSize,
           NEW rank \in ERROR_RANK_NONE..ERROR_RANK_DIAGNOSED
    PROVE  Follows(o, ShowLoadingError(o, rank, control))
BY DEF Follows, ShowLoadingError, Overlays

\* restartLoadingFor, its EXCEPT taken apart field by field.
LEMMA RestartedFits ==
    ASSUME NEW o \in Overlays
    PROVE  RestartLoadingFor(o) \in Overlays
<1> DEFINE p == [o EXCEPT !.loadingVisible = TRUE]
           q == [p EXCEPT !.loadStage = CONNECTING]
           r == [q EXCEPT !.inStage = 0]
           s == [r EXCEPT !.stallReported = FALSE]
           t == [s EXCEPT !.ticks = 1]
<1>1. RestartLoadingFor(o) = ClearLoadingError(t)
      BY DEF RestartLoadingFor, Overlays
<1>2. CONNECTING \in CONNECTING..DECODING
      BY DEF CONNECTING, DECODING
<1> HIDE DEF p
<1>3. p \in Overlays
      BY FieldsFit DEF p
<1>4. q \in Overlays
      BY <1>2, <1>3, FieldsFit
<1> HIDE DEF q
<1>5. r \in Overlays
      BY <1>4, FieldsFit
<1> HIDE DEF r
<1>6. s \in Overlays
      BY <1>5, FieldsFit
<1> HIDE DEF s
<1>7. t \in Overlays
      BY <1>6, FieldsFit
<1> HIDE DEF t
<1> QED
      BY <1>1, <1>7, ClearedFits

\* fallBack promises a retry only if there is another codec.
LEMMA FallBackFollows ==
    ASSUME NEW o \in Overlays, TypeOK
    PROVE  Follows(o, FallBack(o))
<1>1. CASE life # "alive" \/ o.fallbackInFlight \/ renderedFrame
      BY <1>1 DEF FallBack, Follows
<1>2. CASE ~(life # "alive" \/ o.fallbackInFlight \/ renderedFrame) /\ codecIndex + 1 >= ChainSize
      BY <1>2, ShowLoadingErrorFollows
      DEF FallBack, TypeOK, ERROR_RANK_DIAGNOSED, ERROR_RANK_NONE
<1>3. CASE ~(life # "alive" \/ o.fallbackInFlight \/ renderedFrame) /\ codecIndex + 1 < ChainSize
  <2>1. FallBack(o) = RestartLoadingFor([o EXCEPT !.fallbackInFlight = TRUE])
        BY <1>3, ScreenAssumption DEF FallBack, TypeOK
  <2>2. [o EXCEPT !.fallbackInFlight = TRUE] \in Overlays
        BY DEF Overlays
  <2>3. RestartLoadingFor([o EXCEPT !.fallbackInFlight = TRUE]) \in Overlays
        BY <2>2, RestartedFits
  <2> QED
        BY <1>3, <2>1, <2>2, <2>3
        DEF Follows, RestartLoadingFor, ClearLoadingError, Overlays
<1> QED
      BY <1>1, <1>2, <1>3, ScreenAssumption DEF TypeOK

\* drawLoading gives up on a codec or says that it has waited long enough.
LEMMA DrawLoadingFollows ==
    ASSUME NEW o \in Overlays, TypeOK
    PROVE  Follows(o, DrawLoading(o))
<1> DEFINE told == [o EXCEPT !.stallReported = TRUE]
<1>1. told \in Overlays /\ \A q : Follows(told, q) => Follows(o, q)
      BY DEF Overlays, Follows
<1>2. DrawLoading(o) \in {o, FallBack(told), ShowLoadingError(told, ERROR_RANK_DIAGNOSED, control)}
      BY DEF DrawLoading
<1>3. Follows(told, ShowLoadingError(told, ERROR_RANK_DIAGNOSED, control))
      BY <1>1, ShowLoadingErrorFollows DEF TypeOK, ERROR_RANK_DIAGNOSED, ERROR_RANK_NONE
<1> QED
      BY <1>1, <1>2, <1>3, OverlayReflexive, FallBackFollows

\* An overlay that follows a good one is good.
LEMMA FollowsKeeps ==
    ASSUME ScreenInv, Follows(overlay, overlay'), UNCHANGED <<life, codecIndex>>
    PROVE  /\ overlay' \in Overlays
           /\ OverlayCanGo'
           /\ (overlay.fallbackInFlight => codecIndex + 1 < ChainSize)'
           /\ (life = "destroyed" => overlay.ticks = 0)'
BY DEF ScreenInv, TypeOK, OwnsWhatIsCurrent, OverlayCanGo, Follows


-----------------------------------------------------------------------------
\* A callback complains of the attempt in use or changes nothing.
LEMMA ReportedFollows ==
    ASSUME ScreenInv, NEW k \in Attempts, NEW what
    PROVE  Follows(overlay, Reported(k, what))
<1> USE DEF CONNECTING, LAUNCHING, DECODING, ERROR_RANK_NONE, ERROR_RANK_FALLOUT,
            ERROR_RANK_REPORTED, ERROR_RANK_DIAGNOSED
<1>1. TypeOK /\ overlay \in Overlays /\ control \in 0..ChainSize /\ k # 0
      BY ScreenAssumption DEF ScreenAssumption, ScreenInv, TypeOK, Attempts
<1>2. k = decoder => k = control
      BY <1>1 DEF ScreenInv, CodecAgrees
<1>3. Reported(k, what) \in {overlay, FallBack(overlay), EnterStage(overlay, LAUNCHING),
                             ShowLoadingError(overlay, ERROR_RANK_REPORTED, control),
                             ShowLoadingError(overlay, ERROR_RANK_FALLOUT, control)}
      BY <1>2 DEF Reported, IsCurrent
<1> QED
      BY <1>1, <1>3, OverlayReflexive, FallBackFollows, EnterStageFollows, ShowLoadingErrorFollows

\* connect() resumes.
LEMMA DialEndsFollows ==
    ASSUME ScreenInv, DialEnds
    PROVE  Follows(overlay, overlay')
<1> USE DEF CONNECTING, STARTING_STREAM, DECODING, ERROR_RANK_NONE, ERROR_RANK_REPORTED,
            ERROR_RANK_DIAGNOSED
<1>1. overlay' \in {overlay, EnterStage(overlay, STARTING_STREAM),
                    ShowLoadingError(overlay, ERROR_RANK_REPORTED, control)}
      BY DEF DialEnds
<1>2. overlay \in Overlays /\ control \in 0..ChainSize
      BY DEF ScreenInv, TypeOK
<1> QED
      BY <1>1, <1>2, OverlayReflexive, EnterStageFollows, ShowLoadingErrorFollows

\* The clock moves nothing else.
LEMMA TimePassesFollows ==
    ASSUME ScreenInv, TimePasses
    PROVE  Follows(overlay, overlay')
BY DEF ScreenInv, TypeOK, TimePasses, Overlays, Follows

\* The ticker keeps itself in the queue until the overlay goes.
LEMMA LoadingTickerKeeps ==
    ASSUME ScreenInv, LoadingTicker
    PROVE  /\ overlay' \in Overlays
           /\ overlay'.fallbackInFlight => overlay.fallbackInFlight \/ codecIndex + 1 < ChainSize
           /\ overlay'.loadingVisible => overlay'.ticks > 0
           /\ overlay'.about \in {0, overlay.about, control}
           /\ life # "destroyed"
<1> DEFINE o == [overlay EXCEPT !.ticks = @ - 1]
           drawn == DrawLoading(o)
<1>1. /\ TypeOK /\ overlay \in Overlays /\ overlay.ticks \in 1..2
      /\ life # "destroyed"
      BY DEF ScreenInv, TypeOK, Overlays, LoadingTicker, OwnsWhatIsCurrent
<1>2. /\ o \in Overlays /\ o.ticks \in 0..1
      /\ o.fallbackInFlight = overlay.fallbackInFlight /\ o.about = overlay.about
      BY <1>1 DEF Overlays
<1>3. Follows(o, drawn)
      BY <1>1, <1>2, DrawLoadingFollows
<1>4. HideLoading(o) \in Overlays /\ HideLoading(o).about = 0
      /\ HideLoading(o).fallbackInFlight = o.fallbackInFlight /\ ~HideLoading(o).loadingVisible
  <2> DEFINE p == [o EXCEPT !.loadingVisible = FALSE]
             q == [p EXCEPT !.ticks = 0]
  <2>1. HideLoading(o) = ClearLoadingError(q)
        BY <1>2 DEF HideLoading, Overlays
  <2>2. q \in Overlays
        BY <1>2, FieldsFit
  <2>3. q.fallbackInFlight = o.fallbackInFlight /\ ~q.loadingVisible
        BY <1>2 DEF Overlays
  <2> HIDE DEF q
  <2> QED
        BY <2>1, <2>2, <2>3, ClearedFits DEF ClearLoadingError, Overlays
<1> DEFINE again == [drawn EXCEPT !.ticks = @ + 1]
<1>5. /\ again \in Overlays /\ again.ticks > 0
      /\ again.fallbackInFlight = drawn.fallbackInFlight /\ again.about = drawn.about
      BY <1>2, <1>3 DEF Follows, Overlays
<1>6. \/ overlay' = o /\ ~overlay.loadingVisible
      \/ overlay' = HideLoading(o)
      \/ overlay' = again
      BY DEF LoadingTicker
<1>7. o.loadingVisible = overlay.loadingVisible
      BY <1>1 DEF Overlays
<1> HIDE DEF o, drawn, again
<1> QED
      BY <1>1, <1>2, <1>3, <1>4, <1>5, <1>6, <1>7 DEF Follows

-----------------------------------------------------------------------------
\* onCreate.
LEMMA ScreenInvInit == Init => ScreenInv
<1> SUFFICES ASSUME Init PROVE ScreenInv
    OBVIOUS
<1> USE ScreenAssumption DEF ScreenAssumption, Init
<1>1. overlay \in Overlays
      BY DEF Overlays, CONNECTING, DECODING, ERROR_RANK_NONE, ERROR_RANK_DIAGNOSED
<1>2. TypeOK
  <2>1. {surfaceReady, keyframeFed, renderedFrame, sessionStarted} \subseteq BOOLEAN
        BY Zenon
  <2>2. posts \in Seq([from : Attempts, what : Callbacks]) /\ Len(posts) <= MaxPosts
        OBVIOUS
  <2>3. {control, pendingSession, decoder} \subseteq 0..ChainSize /\ codecIndex \in 0..(ChainSize - 1)
        OBVIOUS
  <2>4. talk \in [Attempts -> Places]
        BY DEF Places
  <2> QED
        BY <1>1, <2>1, <2>2, <2>3, <2>4 DEF TypeOK
<1> QED
      BY <1>2 DEF ScreenInv, OwnsWhatIsCurrent, CodecAgrees, OverlayCanGo, NotStranded

\* startDecoder, for the attempt in use.
LEMMA StartDecoderKeeps ==
    ASSUME ScreenInv, control # 0, NEW surface \in BOOLEAN, StartDecoder(control, surface),
           UNCHANGED <<life, launching, attemptVars>>,
           surfaceReady' = surface, surface = surfaceReady \/ life = "alive",
           talk' \in [Attempts -> Places],
           posts' \in Seq([from : Attempts, what : Callbacks]), Len(posts') <= MaxPosts
    PROVE  ScreenInv' /\ Follows(overlay, overlay')
<1> USE DEF attemptVars, decoderVars, sessionVars
<1>1. TypeOK /\ overlay \in Overlays /\ control \in Attempts /\ 0 \in 0..ChainSize
      BY ScreenAssumption DEF ScreenAssumption, ScreenInv, TypeOK, Attempts
<1>2. CASE life # "alive" \/ decoder # 0
  <2>1. UNCHANGED <<decoderVars, sessionVars, overlay>>
        BY <1>2 DEF StartDecoder
  <2>2. TypeOK'
        BY <1>1, <2>1 DEF TypeOK
  <2>3. pendingSession # 0 => ~surface
        BY <1>2 DEF ScreenInv, NotStranded
  <2> QED
        BY <1>1, <2>1, <2>2, <2>3, OverlayReflexive
        DEF ScreenInv, OwnsWhatIsCurrent, CodecAgrees, OverlayCanGo, NotStranded
<1>3. CASE life = "alive" /\ decoder = 0 /\ ~surface
  <2>1. pendingSession' = control
        /\ UNCHANGED <<decoderVars, sessionStarted, statsTicks, overlay>>
        BY <1>3 DEF StartDecoder
  <2>2. TypeOK'
        BY <1>1, <2>1 DEF TypeOK
  <2> QED
        BY <1>1, <1>3, <2>1, <2>2, OverlayReflexive
        DEF ScreenInv, OwnsWhatIsCurrent, CodecAgrees, OverlayCanGo, NotStranded
<1>4. CASE life = "alive" /\ decoder = 0 /\ surface
  <2>1. pendingSession' = 0
        BY <1>4 DEF StartDecoder
  <2>2. CASE /\ decoder' = control /\ codecs' = codecs \cup {control}
             /\ sessionStarted' = TRUE /\ statsTicks' = 1
             /\ overlay' = EnterStage(overlay, DECODING)
             /\ UNCHANGED <<keyframeFed, renderedFrame>>
    <3>1. Follows(overlay, overlay')
          BY <1>1, <2>2, EnterStageFollows DEF CONNECTING, DECODING
    <3>2. sessionStarted' \in BOOLEAN
          BY <2>2, Zenon
    <3>3. TypeOK'
          BY <1>1, <2>1, <2>2, <3>1, <3>2 DEF TypeOK, Follows
    <3> QED
          BY <1>1, <1>4, <2>1, <2>2, <3>1, <3>3, FollowsKeeps
          DEF ScreenInv, OwnsWhatIsCurrent, CodecAgrees, NotStranded
  <2>3. CASE overlay' = FallBack(overlay) /\ UNCHANGED <<decoderVars, sessionStarted, statsTicks>>
    <3>1. Follows(overlay, overlay')
          BY <1>1, <2>3, FallBackFollows
    <3>2. TypeOK'
          BY <1>1, <2>1, <2>3, <3>1 DEF TypeOK, Follows
    <3> QED
          BY <1>1, <1>4, <2>1, <2>3, <3>1, <3>2, FollowsKeeps
          DEF ScreenInv, OwnsWhatIsCurrent, CodecAgrees, NotStranded
  <2> QED
        BY <1>4, <2>2, <2>3 DEF StartDecoder
<1> QED
      BY <1>2, <1>3, <1>4

-----------------------------------------------------------------------------
\* An action that changes only conversations, what is posted and the overlay.
LEMMA OverlayOnlyKeeps ==
    ASSUME ScreenInv, Follows(overlay, overlay'),
           UNCHANGED <<screenVars, attemptVars, decoderVars, sessionVars>>,
           talk' \in [Attempts -> Places],
           posts' \in Seq([from : Attempts, what : Callbacks]), Len(posts') <= MaxPosts
    PROVE  ScreenInv'
<1>1. UNCHANGED <<life, launching, surfaceReady, control, connections, codecIndex, decoder,
                  keyframeFed, renderedFrame, codecs, pendingSession, sessionStarted, statsTicks>>
      BY DEF screenVars, attemptVars, decoderVars, sessionVars
<1>2. TypeOK'
      BY <1>1 DEF ScreenInv, TypeOK, Follows
<1> QED
      BY <1>1, <1>2, FollowsKeeps
      DEF ScreenInv, OwnsWhatIsCurrent, CodecAgrees, NotStranded

\* surfaceCreated: the first connects, a later one may start a session that waits.
LEMMA SurfaceCreatedKeeps ==
    ASSUME ScreenInv, SurfaceCreated
    PROVE  ScreenInv' /\ Follows(overlay, overlay')
<1> USE DEF attemptVars, decoderVars, sessionVars
<1>1. TypeOK /\ overlay \in Overlays /\ {0, 1} \subseteq 0..ChainSize /\ 1 \in Attempts
      BY ScreenAssumption DEF ScreenAssumption, ScreenInv, TypeOK, Attempts
<1>2. /\ life = "alive" /\ surfaceReady' = TRUE
      /\ UNCHANGED <<life, launching, posts, codecIndex>>
      BY DEF SurfaceCreated
<1>3. surfaceReady' \in BOOLEAN
      BY <1>2, Zenon
<1>4. CASE control = 0
  <2>1. /\ pendingSession = 0 /\ decoder = 0 /\ codecIndex = 0 /\ connections = {}
        BY <1>4 DEF ScreenInv, CodecAgrees, OwnsWhatIsCurrent
  <2>2. /\ control' = 1 /\ connections' = {1}
        /\ talk' = [talk EXCEPT ![1] = "dialling"]
        /\ UNCHANGED <<decoderVars, sessionVars, overlay>>
        BY <1>4, <2>1 DEF SurfaceCreated
  <2>3. talk' \in [Attempts -> Places]
        BY <1>1, <2>2 DEF TypeOK, Places
  <2>4. TypeOK'
        BY <1>1, <1>2, <1>3, <2>2, <2>3 DEF TypeOK
  <2> QED
        BY <1>1, <1>2, <2>1, <2>2, <2>4, OverlayReflexive
        DEF ScreenInv, OwnsWhatIsCurrent, CodecAgrees, OverlayCanGo, NotStranded
<1>5. CASE control # 0 /\ pendingSession = 0
  <2>1. UNCHANGED <<control, connections, talk, decoderVars, sessionVars, overlay>>
        BY <1>5 DEF SurfaceCreated
  <2>2. TypeOK'
        BY <1>1, <1>2, <1>3, <2>1 DEF TypeOK
  <2> QED
        BY <1>1, <1>2, <1>5, <2>1, <2>2, OverlayReflexive
        DEF ScreenInv, OwnsWhatIsCurrent, CodecAgrees, OverlayCanGo, NotStranded
<1>6. CASE control # 0 /\ pendingSession # 0
  <2>1. StartDecoder(pendingSession, TRUE) /\ UNCHANGED <<control, connections, talk>>
        BY <1>6 DEF SurfaceCreated
  <2>2. pendingSession = control
        BY <1>6 DEF ScreenInv, CodecAgrees
  <2>3. /\ StartDecoder(control, TRUE) /\ UNCHANGED <<life, launching, attemptVars, talk, posts>>
        BY <1>2, <2>1, <2>2
  <2>4. TRUE \in BOOLEAN
        BY Zenon
  <2>5. /\ talk' \in [Attempts -> Places]
        /\ posts' \in Seq([from : Attempts, what : Callbacks]) /\ Len(posts') <= MaxPosts
        BY <1>1, <2>3 DEF TypeOK
  <2>6. TRUE = surfaceReady \/ life = "alive"
        BY <1>2
  <2> QED
        BY <1>2, <1>6, <2>3, <2>4, <2>5, <2>6, StartDecoderKeeps
<1> QED
      BY <1>4, <1>5, <1>6

\* A callback, of whatever attempt.
LEMMA RunPostedKeeps ==
    ASSUME ScreenInv, RunPosted
    PROVE  ScreenInv' /\ Follows(overlay, overlay')
<1> DEFINE k == Head(posts).from
           what == Head(posts).what
<1>1. TypeOK /\ surfaceReady \in BOOLEAN
      BY DEF ScreenInv, TypeOK
<1>2. /\ posts # <<>> /\ posts' = Tail(posts)
      /\ UNCHANGED <<screenVars, attemptVars, talk>>
      BY DEF RunPosted
<1>3. k \in Attempts
  <2>1. Head(posts) \in [from : Attempts, what : Callbacks]
    <3> DEFINE Posts == [from : Attempts, what : Callbacks]
    <3>1. posts \in Seq(Posts) /\ posts # <<>>
          BY <1>1, <1>2 DEF TypeOK
    <3> HIDE DEF Posts
    <3>2. Head(posts) \in Posts
          BY <3>1
    <3> QED
          BY <3>2 DEF Posts
  <2> QED
        BY <2>1
<1>4. k # 0
      BY <1>3, ScreenAssumption DEF Attempts
<1>5. /\ talk' \in [Attempts -> Places]
      /\ posts' \in Seq([from : Attempts, what : Callbacks]) /\ Len(posts') <= MaxPosts
      BY <1>1, <1>2, ScreenAssumption DEF TypeOK, ScreenAssumption
<1>6. CASE what = "started" /\ IsCurrent(k)
  <2>1. StartDecoder(control, surfaceReady) /\ control # 0
        BY <1>4, <1>6 DEF RunPosted, IsCurrent
  <2> QED
        BY <1>1, <1>2, <1>5, <2>1, StartDecoderKeeps DEF screenVars
<1>7. CASE ~(what = "started" /\ IsCurrent(k))
  <2>1. overlay' = Reported(k, what) /\ UNCHANGED <<decoderVars, sessionVars>>
        BY <1>7 DEF RunPosted
  <2> HIDE DEF k, what
  <2>2. Follows(overlay, overlay')
        BY <1>3, <2>1, ReportedFollows
  <2> QED
        BY <1>2, <1>5, <2>1, <2>2, OverlayOnlyKeeps
<1> QED
      BY <1>6, <1>7

\* A retry lets go of the attempt it replaces, and there is a codec for it.
LEMMA FallbackFiresKeeps ==
    ASSUME ScreenInv, FallbackFires
    PROVE  ScreenInv' /\ Follows(overlay, overlay')
<1> USE DEF attemptVars, decoderVars, sessionVars, screenVars
<1>1. /\ TypeOK /\ overlay \in Overlays /\ 0 \in 0..ChainSize /\ ChainSize \in Nat
      /\ overlay.fallbackInFlight /\ codecIndex + 1 < ChainSize /\ codecIndex \in Nat
      BY ScreenAssumption DEF ScreenAssumption, ScreenInv, TypeOK, FallbackFires
<1>2. /\ overlay' = [overlay EXCEPT !.fallbackInFlight = FALSE]
      /\ UNCHANGED <<screenVars, posts>>
      BY DEF FallbackFires
<1>3. /\ overlay' \in Overlays /\ ~overlay'.fallbackInFlight
      /\ overlay'.ticks = overlay.ticks /\ overlay'.about = overlay.about
      /\ overlay'.loadingVisible = overlay.loadingVisible
  <2>1. overlay' \in Overlays
        BY <1>1, <1>2, FieldsFit
  <2> QED
        BY <1>1, <1>2, <2>1 DEF Overlays
<1>4. Follows(overlay, overlay')
      BY <1>3 DEF Follows
<1>5. CASE life = "alive" /\ ~renderedFrame
  <2>1. TearDownAndConnect
        BY <1>5 DEF FallbackFires
  <2>2. codecIndex + 2 \in Attempts /\ codecIndex + 2 # 0 /\ codecIndex' = codecIndex + 1
        BY <1>1, <2>1 DEF Attempts, TearDownAndConnect
  <2>3. /\ connections' = {codecIndex + 2} /\ codecs' = {}
        /\ control' = codecIndex + 2
        BY <1>5, <2>1, <2>2 DEF TearDownAndConnect, ScreenInv, OwnsWhatIsCurrent
  <2>4. /\ sessionStarted' = FALSE /\ keyframeFed' = FALSE /\ renderedFrame' = FALSE
        /\ statsTicks' = 0 /\ pendingSession' = 0 /\ decoder' = 0
        BY <2>1 DEF TearDownAndConnect
  <2>5. {sessionStarted', keyframeFed', renderedFrame'} \subseteq BOOLEAN
        BY <2>4, Zenon
  <2>6. talk' \in [Attempts -> Places]
        BY <1>1, <2>1, <2>2 DEF TypeOK, Places, TearDownAndConnect
  <2>7. {launching', surfaceReady'} \subseteq BOOLEAN /\ life' \in {"alive", "finishing", "destroyed"}
        BY <1>1, <1>2 DEF TypeOK
  <2>8. control' \in 0..ChainSize /\ codecIndex' \in 0..(ChainSize - 1)
        BY <1>1, <2>2, <2>3 DEF Attempts
  <2>9. TypeOK'
        BY <1>1, <1>2, <1>3, <2>2, <2>3, <2>4, <2>5, <2>6, <2>7, <2>8 DEF TypeOK
  <2>10. OwnsWhatIsCurrent' /\ CodecAgrees' /\ NotStranded'
        BY <1>1, <1>2, <1>5, <2>2, <2>3, <2>4 DEF OwnsWhatIsCurrent, CodecAgrees, NotStranded
  <2>11. OverlayCanGo'
        BY <1>2, <1>3 DEF ScreenInv, OverlayCanGo
  <2> QED
        BY <1>3, <1>4, <2>2, <2>3, <2>4, <2>9, <2>10, <2>11 DEF ScreenInv
<1>6. CASE ~(life = "alive" /\ ~renderedFrame)
  <2>1. UNCHANGED <<attemptVars, talk, decoderVars, sessionVars>>
        BY <1>6 DEF FallbackFires
  <2> QED
        BY <1>1, <1>2, <1>4, <2>1, OverlayOnlyKeeps DEF TypeOK
<1> QED
      BY <1>5, <1>6

-----------------------------------------------------------------------------
\* Every step keeps the invariant.
LEMMA ScreenInvNext == ScreenInv /\ [Next]_vars => ScreenInv'
<1> SUFFICES ASSUME ScreenInv, [Next]_vars PROVE ScreenInv'
    OBVIOUS
<1> USE DEF vars, screenVars, attemptVars, decoderVars, sessionVars
<1>1. /\ TypeOK /\ overlay \in Overlays /\ Follows(overlay, overlay)
      /\ talk \in [Attempts -> Places]
      /\ posts \in Seq([from : Attempts, what : Callbacks]) /\ Len(posts) <= MaxPosts
      /\ decoder \in codecs => decoder # 0
      BY OverlayReflexive, ScreenAssumption DEF ScreenInv, TypeOK, Attempts
<1>2. CASE SurfaceCreated
      BY <1>2, SurfaceCreatedKeeps
<1>3. CASE SurfaceDestroyed
  <2>1. surfaceReady' \in BOOLEAN
        BY <1>3, Zenon DEF SurfaceDestroyed
  <2>2. TypeOK'
        BY <1>1, <1>3, <2>1 DEF SurfaceDestroyed, TypeOK
  <2> QED
        BY <1>3, <2>2
        DEF SurfaceDestroyed, ScreenInv, OwnsWhatIsCurrent, CodecAgrees, OverlayCanGo, NotStranded
<1>4. CASE DialEnds
  <2>1. talk' \in [Attempts -> Places]
        BY <1>1, <1>4 DEF DialEnds, Places
  <2> QED
        BY <1>1, <1>4, <2>1, DialEndsFollows, OverlayOnlyKeeps DEF DialEnds
<1>5. ASSUME NEW k \in Attempts, Dispatch(k) PROVE ScreenInv'
  <2>1. PICK answer \in Answers(talk[k]) :
          /\ posts' = Append(posts, [from |-> k, what |-> answer[1]])
          /\ talk' = [talk EXCEPT ![k] = IF k \in connections THEN answer[2] ELSE "gone"]
        BY <1>5 DEF Dispatch
  <2>2. answer[1] \in Callbacks /\ answer[2] \in Places
        BY DEF Answers, Callbacks, Places
  <2>3. talk' \in [Attempts -> Places] /\ [from |-> k, what |-> answer[1]] \in [from : Attempts, what : Callbacks]
        BY <1>1, <2>1, <2>2 DEF Places
  <2>4. posts' \in Seq([from : Attempts, what : Callbacks]) /\ Len(posts') <= MaxPosts
    <3> DEFINE Posts == [from : Attempts, what : Callbacks]
    <3>1. posts \in Seq(Posts) /\ Len(posts) < MaxPosts /\ MaxPosts \in Nat
          BY <1>1, <1>5, ScreenAssumption DEF Dispatch, ScreenAssumption
    <3>2. [from |-> k, what |-> answer[1]] \in Posts
          BY <2>3
    <3> HIDE DEF Posts
    <3>3. posts' \in Seq(Posts) /\ Len(posts') <= MaxPosts
          BY <2>1, <3>1, <3>2
    <3> QED
          BY <3>3 DEF Posts
  <2> QED
        BY <1>1, <1>5, <2>3, <2>4, OverlayOnlyKeeps DEF Dispatch
<1>6. CASE CodecFails
  <2>1. decoder \in Attempts /\ "codecError" \in Callbacks
        BY <1>1, <1>6 DEF CodecFails, TypeOK, Callbacks
  <2>2. posts' \in Seq([from : Attempts, what : Callbacks]) /\ Len(posts') <= MaxPosts
    <3> DEFINE Posts == [from : Attempts, what : Callbacks]
    <3>1. posts \in Seq(Posts) /\ Len(posts) < MaxPosts /\ MaxPosts \in Nat
          BY <1>1, <1>6, ScreenAssumption DEF CodecFails, ScreenAssumption
    <3>2. [from |-> decoder, what |-> "codecError"] \in Posts
          BY <2>1
    <3> HIDE DEF Posts
    <3>3. posts' \in Seq(Posts) /\ Len(posts') <= MaxPosts
          BY <1>6, <3>1, <3>2 DEF CodecFails
    <3> QED
          BY <3>3 DEF Posts
  <2> QED
        BY <1>1, <1>6, <2>2, OverlayOnlyKeeps DEF CodecFails
<1>7. CASE RunPosted
      BY <1>7, RunPostedKeeps
<1>8. CASE KeyframeArrives
  <2>1. keyframeFed' \in BOOLEAN
        BY <1>8, Zenon DEF KeyframeArrives
  <2>2. TypeOK'
        BY <1>1, <1>8, <2>1 DEF KeyframeArrives, TypeOK
  <2> QED
        BY <1>8, <2>2
        DEF KeyframeArrives, ScreenInv, OwnsWhatIsCurrent, CodecAgrees, OverlayCanGo, NotStranded
<1>9. CASE PictureShows
  <2>1. renderedFrame' \in BOOLEAN
        BY <1>9, Zenon DEF PictureShows
  <2>2. TypeOK'
        BY <1>1, <1>9, <2>1 DEF PictureShows, TypeOK
  <2> QED
        BY <1>1, <1>9, <2>2
        DEF PictureShows, ScreenInv, OwnsWhatIsCurrent, CodecAgrees, OverlayCanGo, NotStranded
<1>10. CASE TimePasses
      BY <1>1, <1>10, TimePassesFollows, OverlayOnlyKeeps DEF TimePasses
<1>11. CASE LoadingTicker
  <2>1. UNCHANGED <<screenVars, attemptVars, talk, posts, decoderVars, sessionVars>>
        BY <1>11 DEF LoadingTicker
  <2>2. TypeOK'
        BY <1>1, <1>11, <2>1, LoadingTickerKeeps DEF TypeOK
  <2> QED
        BY <1>11, <2>1, <2>2, LoadingTickerKeeps
        DEF ScreenInv, OwnsWhatIsCurrent, CodecAgrees, OverlayCanGo, NotStranded
<1>12. CASE FallbackFires
      BY <1>12, FallbackFiresKeeps
<1>13. CASE Finish
  <2>1. TypeOK'
        BY <1>1, <1>13 DEF Finish, TypeOK
  <2> QED
        BY <1>13, <2>1
        DEF Finish, ScreenInv, OwnsWhatIsCurrent, CodecAgrees, OverlayCanGo, NotStranded
<1>14. CASE OnDestroy
  <2>1. sessionStarted' \in BOOLEAN
        BY <1>14, Zenon DEF OnDestroy
  <2>2. overlay' \in Overlays /\ overlay'.ticks = 0
        /\ overlay'.fallbackInFlight = overlay.fallbackInFlight
        BY <1>1, <1>14, FieldsFit DEF OnDestroy, Overlays
  <2>3. 0 \in 0..ChainSize
        BY ScreenAssumption DEF ScreenAssumption
  <2>4. TypeOK'
        BY <1>1, <1>14, <2>1, <2>2, <2>3 DEF OnDestroy, TypeOK
  <2> QED
        BY <1>1, <1>14, <2>2, <2>4
        DEF OnDestroy, ScreenInv, OwnsWhatIsCurrent, CodecAgrees, OverlayCanGo, NotStranded
<1>15. CASE UNCHANGED vars
      BY <1>1, <1>15, OverlayOnlyKeeps
<1> QED
      BY <1>2, <1>3, <1>4, <1>5, <1>6, <1>7, <1>8, <1>9, <1>10, <1>11, <1>12, <1>13, <1>14, <1>15
      DEF Next

\* The invariants of the run, for any chain: an attempt's connection, decoder and
\* waiting session are the current one's, and nothing outlives the screen.
THEOREM ScreenInvariant == Spec => []ScreenInv
BY ScreenInvInit, ScreenInvNext, PTL DEF Spec

\* The types alone.
THEOREM ScreenTypeCorrect == Spec => []TypeOK
<1>1. ScreenInv => TypeOK
      BY DEF ScreenInv
<1> QED
      BY <1>1, ScreenInvariant, PTL

\* A screen that is gone holds neither a connection nor a codec nor a ticker.
THEOREM HoldsWhatIsCurrent == Spec => []OwnsWhatIsCurrent
<1>1. ScreenInv => OwnsWhatIsCurrent
      BY DEF ScreenInv
<1> QED
      BY <1>1, ScreenInvariant, PTL

\* The host is asked for one codec at a time, the one the decoder is made for.
THEOREM OneAtATime == Spec => []CodecAgrees
<1>1. ScreenInv => CodecAgrees
      BY DEF ScreenInv
<1> QED
      BY <1>1, ScreenInvariant, PTL

\* The overlay never loses the ticker that hides it, and a session never waits
\* for a surface that is there.
THEOREM NothingStuck == Spec => []NeverStuck
<1>1. ScreenInv => NeverStuck
      BY DEF ScreenInv, NeverStuck
<1> QED
      BY <1>1, ScreenInvariant, PTL

-----------------------------------------------------------------------------
\* No codec is tried, and no decoder stopped, under a picture.
THEOREM PictureIsKept == Spec => PictureSurvives
<1>1. ScreenInv /\ [Next]_vars => [renderedFrame /\ life = "alive" => decoder' = decoder /\ codecs' = codecs]_vars
  <2> SUFFICES ASSUME ScreenInv, Next, renderedFrame, life = "alive"
               PROVE  decoder' = decoder /\ codecs' = codecs
      BY DEF vars, decoderVars
  <2> USE DEF decoderVars
  <2>1. decoder # 0
        BY DEF ScreenInv
  <2>2. ASSUME NEW k, NEW surface, StartDecoder(k, surface)
        PROVE  decoder' = decoder /\ codecs' = codecs
        BY <2>1, <2>2 DEF StartDecoder
  <2>3. CASE SurfaceCreated
        BY <2>2, <2>3 DEF SurfaceCreated
  <2>4. CASE RunPosted
        BY <2>2, <2>4 DEF RunPosted
  <2>5. CASE FallbackFires
        BY <2>5 DEF FallbackFires
  <2>6. CASE OnDestroy
        BY <2>6 DEF OnDestroy
  <2>7. CASE SurfaceDestroyed \/ DialEnds \/ (\E k \in Attempts : Dispatch(k)) \/ CodecFails
        BY <2>7 DEF SurfaceDestroyed, DialEnds, Dispatch, CodecFails
  <2>8. CASE KeyframeArrives \/ PictureShows \/ TimePasses \/ LoadingTicker \/ Finish
        BY <2>8 DEF KeyframeArrives, PictureShows, TimePasses, LoadingTicker, Finish
  <2> QED
        BY <2>3, <2>4, <2>5, <2>6, <2>7, <2>8 DEF Next
<1> QED
      BY <1>1, ScreenInvariant, PTL DEF Spec, PictureSurvives

\* Every complaint that appears is about the attempt in use.
THEOREM ComplaintsFollow == Spec => ComplaintsAreCurrent
<1>1. ScreenInv /\ [Next]_vars => [overlay'.about \notin {0, overlay.about} => overlay'.about = control]_vars
  <2> SUFFICES ASSUME ScreenInv, Next
               PROVE  overlay'.about \in {0, overlay.about, control}
      OBVIOUS
  <2>1. CASE SurfaceCreated \/ RunPosted \/ FallbackFires \/ DialEnds \/ TimePasses
        BY <2>1, SurfaceCreatedKeeps, RunPostedKeeps, FallbackFiresKeeps, DialEndsFollows,
           TimePassesFollows DEF Follows
  <2>2. CASE LoadingTicker
        BY <2>2, LoadingTickerKeeps
  <2>3. CASE OnDestroy
        BY <2>3 DEF OnDestroy, ScreenInv, TypeOK, Overlays
  <2>4. CASE SurfaceDestroyed \/ (\E k \in Attempts : Dispatch(k)) \/ CodecFails
        BY <2>4 DEF SurfaceDestroyed, Dispatch, CodecFails
  <2>5. CASE KeyframeArrives \/ PictureShows \/ Finish
        BY <2>5 DEF KeyframeArrives, PictureShows, Finish
  <2> QED
        BY <2>1, <2>2, <2>3, <2>4, <2>5 DEF Next
<1> QED
      BY <1>1, ScreenInvariant, PTL DEF Spec, ComplaintsAreCurrent

===============================================================================
