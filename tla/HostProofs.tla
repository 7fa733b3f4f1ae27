------------------------------ MODULE HostProofs -----------------------------
(***************************************************************************)
(* Theorems about the host, for every bound and every setting of its       *)
(* constants.                                                              *)
(***************************************************************************)
EXTENDS Host, TLAPS

\* The steps of the frame section and its sources, as one action.
FrameStep ==
    \/ Keepalive
    \/ FrameSection
    \/ \E s \in Sessions :
         FrameArrives(s) \/ OnCapturedFrame(s) \/ WindowCloses(s)
           \/ ReportClosed(s) \/ ClosedReported(s)

-----------------------------------------------------------------------------
(* Types.                                                                    *)

LEMMA TypeInit == Init => TypeOK
<1> SUFFICES ASSUME Init PROVE TypeOK OBVIOUS
<1>0. 0 \in 0 .. MaxConnections /\ 0 \in 0 .. MaxSessions
  BY HostAssumption DEF HostAssumption
<1>1. ServerTypes
  <2>1. /\ serverRunning = TRUE /\ clientSocket = 0 /\ clientConnected = FALSE
        /\ streaming = FALSE /\ destination = [to |-> 0, port |-> FALSE]
        /\ videoOpen = TRUE /\ frameNumber = 0 /\ sendMutex = "free"
    BY DEF Init
  <2>2. QED BY <1>0, <2>1 DEF ServerTypes
<1>2. SectionTypes
  <2>1. mutex = "free" /\ stage = "check" /\ keyPacket = FALSE BY DEF Init
  <2>2. QED BY <2>1 DEF SectionTypes
<1>3. PipeTypes
  <2>1. /\ capture = 0 /\ encoder = 0 /\ forceIdr = FALSE /\ hasFrame = FALSE
        /\ startedFor = 0 /\ idrServed = FALSE
    BY DEF Init
  <2>2. QED BY <1>0, <2>1 DEF PipeTypes
<1>4. SessionTypes
  <2>1. /\ launchEpoch = 0 /\ sessionRunning = TRUE /\ virtualDisplay = FALSE
        /\ topologyChanged = FALSE /\ displaysDetached = FALSE
        /\ mouseHeld = "none" /\ padHeld = "none"
    BY DEF Init
  <2>2. QED BY <2>1 DEF SessionTypes, InputStates
<1>5. CaptureTypes
  <2>1. /\ capturing = {} /\ closed = {}
        /\ frameCallback = [s \in Sessions |-> "none"]
        /\ closedCallback = [s \in Sessions |-> "none"]
    BY DEF Init
  <2>2. QED BY <2>1 DEF CaptureTypes
<1>6. ThreadTypes
  <2>1. /\ control = "accept" /\ keepalive = "poll" /\ owner = "serving"
        /\ afterSend = "loop" /\ afterStop = "stopped" /\ dying = 0
        /\ request = NoRequest /\ prepared = FALSE /\ claimed = 0
    BY DEF Init
  <2>2. QED
    BY <1>0, <2>1
       DEF ThreadTypes, ControlLabels, KeepaliveLabels, OwnerLabels, Request, NoRequest
<1>7. BoundTypes
  <2>1. peerUp = FALSE /\ connections = 0 /\ requests = 0 /\ sessions = 0
    BY DEF Init
  <2>2. QED BY <1>0, <2>1 DEF BoundTypes
<1>8. QED BY <1>1, <1>2, <1>3, <1>4, <1>5, <1>6, <1>7 DEF TypeOK

\* Leaving the section keeps the types of what it writes.
LEMMA LeaveSectionTypes ==
    ASSUME TypeOK, LeaveSection
    PROVE  /\ SectionTypes'
           /\ frameCallback' \in [Sessions -> {"none", "arrived", "inside"}]
           /\ keepalive' \in KeepaliveLabels
<1> USE DEF TypeOK
<1>1. SectionTypes' BY DEF LeaveSection, SectionTypes
<1>2. frameCallback' \in [Sessions -> {"none", "arrived", "inside"}]
  BY DEF LeaveSection, CaptureTypes
<1>3. keepalive' \in KeepaliveLabels
  BY DEF LeaveSection, ThreadTypes, KeepaliveLabels
<1>4. QED BY <1>1, <1>2, <1>3

\* Encoding a picture does, whichever way it ends.
LEMMA EncodePictureTypes ==
    ASSUME TypeOK, NEW who \in {"capture", "keepalive"}, EncodePicture(who)
    PROVE  SectionTypes' /\ forceIdr' \in BOOLEAN /\ idrServed' \in BOOLEAN
<1> USE DEF TypeOK, SectionTypes, PipeTypes, sectionVars
<1>1. CASE UNCHANGED <<forceIdr, idrServed, sectionVars>> BY <1>1
<1>2. CASE /\ forceIdr' = FALSE
           /\ idrServed' = (idrServed \/ forceIdr)
           /\ UNCHANGED sectionVars
  BY <1>2
<1>3. CASE /\ forceIdr' = FALSE
           /\ mutex' = who
           /\ stage' = "check"
           /\ keyPacket' = forceIdr
           /\ UNCHANGED idrServed
  BY <1>3
<1>4. QED BY <1>1, <1>2, <1>3 DEF EncodePicture

LEMMA FrameTypes ==
    ASSUME TypeOK, FrameStep
    PROVE  TypeOK'
<1> USE DEF serverVars, pipeVars, sectionVars, displayVars, captureVars,
        inputVars, controlVars, boundVars
<1>a. /\ ServerTypes /\ SectionTypes /\ PipeTypes /\ SessionTypes
      /\ CaptureTypes /\ ThreadTypes /\ BoundTypes
  BY DEF TypeOK
<1>1. CASE KeepaliveDue
  BY <1>1 DEF KeepaliveDue, TypeOK, ServerTypes, SectionTypes, PipeTypes,
     SessionTypes, CaptureTypes, ThreadTypes, BoundTypes, KeepaliveLabels
<1>2. CASE KeepaliveRepeat
  <2>1. SectionTypes' /\ forceIdr' \in BOOLEAN /\ idrServed' \in BOOLEAN
    <3>1. CASE EncodePicture("keepalive") BY <3>1, EncodePictureTypes
    <3>2. CASE UNCHANGED <<forceIdr, idrServed, sectionVars>>
      BY <1>a, <3>2 DEF SectionTypes, PipeTypes
    <3>3. QED BY <1>2, <3>1, <3>2 DEF KeepaliveRepeat
  <2>2. ServerTypes' BY <1>a, <1>2 DEF KeepaliveRepeat, ServerTypes
  <2>3. PipeTypes' BY <1>a, <1>2, <2>1 DEF KeepaliveRepeat, PipeTypes
  <2>4. SessionTypes' BY <1>a, <1>2 DEF KeepaliveRepeat, SessionTypes
  <2>5. CaptureTypes' BY <1>a, <1>2 DEF KeepaliveRepeat, CaptureTypes
  <2>6. ThreadTypes'
    BY <1>a, <1>2 DEF KeepaliveRepeat, ThreadTypes, KeepaliveLabels
  <2>7. BoundTypes' BY <1>a, <1>2 DEF KeepaliveRepeat, BoundTypes
  <2>8. QED BY <2>1, <2>2, <2>3, <2>4, <2>5, <2>6, <2>7 DEF TypeOK
<1>3. CASE KeepaliveExits
  BY <1>3 DEF KeepaliveExits, TypeOK, ServerTypes, SectionTypes, PipeTypes,
     SessionTypes, CaptureTypes, ThreadTypes, BoundTypes, KeepaliveLabels
<1>4. CASE CheckStreaming
  <2>1. /\ SectionTypes'
        /\ frameCallback' \in [Sessions -> {"none", "arrived", "inside"}]
        /\ keepalive' \in KeepaliveLabels
        /\ idrServed' \in BOOLEAN
    <3>1. CASE streaming
      BY <1>a, <1>4, <3>1 DEF CheckStreaming, SectionTypes, CaptureTypes, ThreadTypes, PipeTypes
    <3>2. CASE ~streaming
      BY <1>a, <1>4, <3>2, LeaveSectionTypes DEF CheckStreaming, PipeTypes
    <3>3. QED BY <3>1, <3>2
  <2>2. ServerTypes' BY <1>a, <1>4 DEF CheckStreaming, ServerTypes
  <2>3. PipeTypes' BY <1>a, <1>4, <2>1 DEF CheckStreaming, PipeTypes
  <2>4. SessionTypes' BY <1>a, <1>4 DEF CheckStreaming, SessionTypes
  <2>5. CaptureTypes' BY <1>a, <1>4, <2>1 DEF CheckStreaming, CaptureTypes
  <2>6. ThreadTypes' BY <1>a, <1>4, <2>1 DEF CheckStreaming, ThreadTypes
  <2>7. BoundTypes' BY <1>a, <1>4 DEF CheckStreaming, BoundTypes
  <2>8. QED BY <2>1, <2>2, <2>3, <2>4, <2>5, <2>6, <2>7 DEF TypeOK
<1>5. CASE SendVideoFrame
  <2>1. /\ SectionTypes'
        /\ frameCallback' \in [Sessions -> {"none", "arrived", "inside"}]
        /\ keepalive' \in KeepaliveLabels
    BY <1>5, LeaveSectionTypes DEF SendVideoFrame
  <2>2. ServerTypes' BY <1>a, <1>5 DEF SendVideoFrame, ServerTypes
  <2>3. PipeTypes' BY <1>a, <1>5, <2>1 DEF SendVideoFrame, PipeTypes
  <2>4. SessionTypes' BY <1>a, <1>5 DEF SendVideoFrame, SessionTypes
  <2>5. CaptureTypes' BY <1>a, <1>5, <2>1 DEF SendVideoFrame, CaptureTypes
  <2>6. ThreadTypes' BY <1>a, <1>5, <2>1 DEF SendVideoFrame, ThreadTypes
  <2>7. BoundTypes' BY <1>a, <1>5 DEF SendVideoFrame, BoundTypes
  <2>8. QED BY <2>1, <2>2, <2>3, <2>4, <2>5, <2>6, <2>7 DEF TypeOK
<1>6. ASSUME NEW s \in Sessions, FrameArrives(s) PROVE TypeOK'
  BY <1>6 DEF FrameArrives, TypeOK, ServerTypes, SectionTypes, PipeTypes,
     SessionTypes, CaptureTypes, ThreadTypes, BoundTypes
<1>7. ASSUME NEW s \in Sessions, OnCapturedFrame(s) PROVE TypeOK'
  <2>1. /\ SectionTypes' /\ forceIdr' \in BOOLEAN /\ idrServed' \in BOOLEAN
        /\ hasFrame' \in BOOLEAN
    <3>1. CASE hasFrame' = TRUE /\ EncodePicture("capture")
      BY <3>1, EncodePictureTypes
    <3>2. CASE UNCHANGED <<forceIdr, hasFrame, idrServed, sectionVars>>
      BY <1>a, <3>2 DEF SectionTypes, PipeTypes
    <3>3. QED BY <1>7, <3>1, <3>2 DEF OnCapturedFrame
  <2>2. ServerTypes' BY <1>a, <1>7 DEF OnCapturedFrame, ServerTypes
  <2>3. PipeTypes' BY <1>a, <1>7, <2>1 DEF OnCapturedFrame, PipeTypes
  <2>4. SessionTypes' BY <1>a, <1>7 DEF OnCapturedFrame, SessionTypes
  <2>5. CaptureTypes' BY <1>a, <1>7 DEF OnCapturedFrame, CaptureTypes
  <2>6. ThreadTypes' BY <1>a, <1>7 DEF OnCapturedFrame, ThreadTypes
  <2>7. BoundTypes' BY <1>a, <1>7 DEF OnCapturedFrame, BoundTypes
  <2>8. QED BY <2>1, <2>2, <2>3, <2>4, <2>5, <2>6, <2>7 DEF TypeOK
<1>8. ASSUME NEW s \in Sessions,
             WindowCloses(s) \/ ReportClosed(s) \/ ClosedReported(s)
      PROVE  TypeOK'
  BY <1>8 DEF WindowCloses, ReportClosed, ClosedReported, TypeOK, ServerTypes,
     SectionTypes, PipeTypes, SessionTypes, CaptureTypes, ThreadTypes, BoundTypes
<1>9. QED
  BY <1>1, <1>2, <1>3, <1>4, <1>5, <1>6, <1>7, <1>8
     DEF FrameStep, Keepalive, FrameSection

\* What the shared helpers leave in the variables they write.
LEMMA GiveUpTypes ==
    ASSUME GiveUp
    PROVE  /\ control' = "send" /\ afterSend' = "loop" /\ afterStop' = afterStop
           /\ request' \in Request /\ prepared' \in BOOLEAN /\ claimed' \in Nat
<1>1. prepared' \in BOOLEAN BY Zenon DEF GiveUp
<1>2. request' \in Request BY DEF GiveUp, Request, NoRequest
<1>3. QED BY <1>1, <1>2 DEF GiveUp, SendThen

\* Nothing is held that Windows would have let go of.
LEMMA ReleaseTypes ==
    /\ ReleaseHeldButtons => mouseHeld' \in {"none", "refused"}
    /\ ReleaseAll => padHeld' \in {"none", "refused"}
  BY DEF ReleaseHeldButtons, ReleaseAll, LetGo

LEMMA RestoreTypes ==
    ASSUME RestoreDisplays
    PROVE  /\ virtualDisplay' \in BOOLEAN /\ topologyChanged' \in BOOLEAN
           /\ displaysDetached' \in BOOLEAN
<1>1. virtualDisplay' \in BOOLEAN BY Zenon DEF RestoreDisplays
<1>2. topologyChanged' \in BOOLEAN BY Zenon DEF RestoreDisplays
<1>3. displaysDetached' \in BOOLEAN BY DEF RestoreDisplays
<1>4. QED BY <1>1, <1>2, <1>3

LEMMA PrepareTypes ==
    ASSUME TypeOK, NEW ok \in BOOLEAN, PrepareVirtualDisplay(ok)
    PROVE  /\ virtualDisplay' \in BOOLEAN /\ topologyChanged' \in BOOLEAN
           /\ displaysDetached' \in BOOLEAN
<1>1. CASE ok BY <1>1 DEF PrepareVirtualDisplay, TypeOK, SessionTypes
<1>2. CASE ~ok
  <2>1. CASE RestoreDisplays BY <2>1, RestoreTypes
  <2>2. CASE UNCHANGED <<topologyChanged, displaysDetached>> /\ virtualDisplay' = FALSE
    <3>1. virtualDisplay' \in BOOLEAN BY <2>2, Zenon
    <3>2. QED BY <2>2, <3>1 DEF TypeOK, SessionTypes
  <2>3. QED BY <1>2, <2>1, <2>2 DEF PrepareVirtualDisplay
<1>3. QED BY <1>1, <1>2

LEMMA TakePipelineTypes ==
    ASSUME TypeOK, TakePipeline
    PROVE  /\ PipeTypes' /\ dying' \in 0 .. MaxSessions
           /\ mouseHeld' \in InputStates /\ padHeld' \in InputStates
<1>1. forceIdr' \in BOOLEAN /\ hasFrame' \in BOOLEAN /\ idrServed' \in BOOLEAN
  BY Zenon DEF TakePipeline
<1>2. mouseHeld' \in InputStates /\ padHeld' \in InputStates
  BY ReleaseTypes DEF TakePipeline, InputStates
<1>3. QED
  BY <1>1, <1>2, HostAssumption DEF HostAssumption, TakePipeline, TypeOK, PipeTypes

\* One step per step of the control thread.
LEMMA ControlTypes ==
    ASSUME TypeOK, Control
    PROVE  TypeOK'
<1>0. /\ "accept" \in ControlLabels /\ "register" \in ControlLabels
      /\ "connect" \in ControlLabels /\ "loop" \in ControlLabels
      /\ "recv" \in ControlLabels /\ "bye" \in ControlLabels
      /\ "close" \in ControlLabels /\ "done" \in ControlLabels
      /\ "send" \in ControlLabels /\ "sending" \in ControlLabels
      /\ "drop" \in ControlLabels /\ "destroy" \in ControlLabels
      /\ "revoke" \in ControlLabels /\ "stopped" \in ControlLabels
      /\ "parted" \in ControlLabels /\ "startSession" \in ControlLabels
      /\ "window" \in ControlLabels /\ "startDisplay" \in ControlLabels
      /\ "pipeline" \in ControlLabels /\ "renumber" \in ControlLabels
      /\ "goLive" \in ControlLabels /\ "idr" \in ControlLabels
      /\ "launch" \in ControlLabels /\ "note" \in ControlLabels
      /\ "unlock" \in ControlLabels /\ "prepare" \in ControlLabels
      /\ "display" \in ControlLabels /\ "run" \in ControlLabels
      /\ "waiting" \in ControlLabels
  BY DEF ControlLabels
<1> USE <1>0, HostAssumption
    DEF HostAssumption, TypeOK, ServerTypes, SectionTypes, PipeTypes, SessionTypes,
        CaptureTypes, ThreadTypes, BoundTypes, Request, NoRequest, Sessions,
        Goto, SendThen, StopThen, socketVars, streamVars,
        requestVars, outside, elsewhere, pipeVars, sectionVars, displayVars,
        inputVars, boundVars
<1>1. CASE Send BY <1>1 DEF Send
<1>2. CASE Sent BY <1>2 DEF Sent
<1>3. CASE DropPipeline BY <1>3, TakePipelineTypes DEF DropPipeline
<1>4. CASE StopCapture BY <1>4 DEF StopCapture, StreamingStopped
<1>5. CASE Revoke BY <1>5 DEF Revoke, StreamingStopped
<1>6. CASE Stopped
  <2>1. mouseHeld' \in InputStates BY <1>6, ReleaseTypes DEF Stopped, InputStates
  <2>2. QED BY <1>6, <2>1, RestoreTypes DEF Stopped
<1>7. CASE Accept BY <1>7 DEF Accept
<1>8. CASE AcceptEnds BY <1>8 DEF AcceptEnds
<1>9. CASE Register BY <1>9 DEF Register
<1>10. CASE Connect BY <1>10 DEF Connect
<1>11. CASE ClientLoop BY <1>11 DEF ClientLoop
<1>12. CASE RecvFails BY <1>12 DEF RecvFails
<1>13. CASE Bye
  <2>1. streaming' \in BOOLEAN BY <1>13, Zenon DEF Bye
  <2>2. QED BY <1>13, <2>1, ReleaseTypes DEF Bye, InputStates
<1>14. CASE CloseClient
  <2>1. clientConnected' \in BOOLEAN BY <1>14, Zenon DEF CloseClient
  <2>2. QED BY <1>14, <2>1 DEF CloseClient
<1>15. CASE HandleQuery BY <1>15 DEF HandleQuery
<1>16. CASE HandleInput BY <1>16 DEF HandleInput, InputStates
<1>17. CASE HandleRequestIdr BY <1>17 DEF HandleRequestIdr
<1>18. CASE HandleStop
  <2>1. streaming' \in BOOLEAN BY <1>18, Zenon DEF HandleStop
  <2>2. QED BY <1>18, <2>1, ReleaseTypes DEF HandleStop, InputStates
<1>19. CASE StartRefused BY <1>19, GiveUpTypes DEF StartRefused
<1>20. CASE StartSession BY <1>20 DEF StartSession
<1>21. CASE FindWindow BY <1>21, RestoreTypes, GiveUpTypes DEF FindWindow
<1>22. CASE StartDisplay
  <2>1. /\ virtualDisplay' \in BOOLEAN /\ topologyChanged' \in BOOLEAN
        /\ displaysDetached' \in BOOLEAN
    <3>1. CASE PrepareVirtualDisplay(FALSE) BY <3>1, PrepareTypes
    <3>2. CASE /\ virtualDisplay' = TRUE /\ topologyChanged' = TRUE
               /\ displaysDetached' \in {displaysDetached, TRUE}
      BY <3>2
    <3>3. QED BY <1>22, <3>1, <3>2 DEF StartDisplay
  <2>2. QED BY <1>22, <2>1 DEF StartDisplay
<1>23. CASE PipelineFails BY <1>23, RestoreTypes, GiveUpTypes DEF PipelineFails
<1>24. CASE StartPipeline
  <2>1. hasFrame' \in BOOLEAN /\ idrServed' \in BOOLEAN BY <1>24, Zenon DEF StartPipeline
  <2>2. QED BY <1>24, <2>1 DEF StartPipeline
<1>25. CASE Renumber BY <1>25 DEF Renumber
<1>26. CASE GoLive
  <2>1. prepared' \in BOOLEAN BY <1>26, Zenon DEF GoLive
  <2>2. QED BY <1>26, <2>1 DEF GoLive
<1>27. CASE RequestIdr BY <1>27 DEF RequestIdr
<1>28. CASE LaunchRefused BY <1>28, GiveUpTypes DEF LaunchRefused
<1>29. CASE Launch BY <1>29 DEF Launch
<1>30. CASE NoteWindows BY <1>30, RestoreTypes DEF NoteWindows
<1>31. CASE Unlock BY <1>31, GiveUpTypes DEF Unlock
<1>32. CASE Prepare BY <1>32 DEF Prepare
<1>33. CASE LaunchDisplay
  <2>1. /\ virtualDisplay' \in BOOLEAN /\ topologyChanged' \in BOOLEAN
        /\ displaysDetached' \in BOOLEAN /\ prepared' \in BOOLEAN
    BY <1>33, PrepareTypes DEF LaunchDisplay
  <2>2. QED BY <1>33, <2>1 DEF LaunchDisplay
<1>34. CASE RunGame BY <1>34, RestoreTypes, GiveUpTypes DEF RunGame
<1>35. CASE WindowAppears
  <2>1. displaysDetached' \in BOOLEAN
    <3>1. CASE prepared BY <1>35, <3>1 DEF WindowAppears
    <3>2. CASE ~prepared BY <1>35, <3>2 DEF WindowAppears
    <3>3. QED BY <3>1, <3>2
  <2>2. QED BY <1>35, <2>1 DEF WindowAppears
<1>36. CASE LaunchAbandoned BY <1>36, RestoreTypes, GiveUpTypes DEF LaunchAbandoned
<1>37. CASE LaunchTimesOut BY <1>37, RestoreTypes, GiveUpTypes DEF LaunchTimesOut
<1>38. ASSUME NEW kind \in {"start", "launch"}, NEW sized \in BOOLEAN,
              HandleRequest(kind, sized)
       PROVE  TypeOK'
  <2>1. prepared' \in BOOLEAN BY <1>38, Zenon DEF HandleRequest
  <2>2. destination' \in [to : 0 .. MaxConnections, port : BOOLEAN]
    BY <1>38 DEF HandleRequest
  <2>3. request' \in Request BY <1>38 DEF HandleRequest
  <2>4. control' \in ControlLabels BY <1>38 DEF HandleRequest
  <2>5. /\ requests' = requests + 1
        /\ UNCHANGED <<elsewhere, sendMutex, clientSocket, clientConnected,
                       streamVars, pipeVars, launchEpoch, displayVars, capturing,
                       dying, inputVars, claimed, peerUp, connections, sessions,
                       afterSend, afterStop>>
    BY <1>38 DEF HandleRequest
  <2>6. QED BY <2>1, <2>2, <2>3, <2>4, <2>5
<1>39. QED
  BY <1>1, <1>2, <1>3, <1>4, <1>5, <1>6, <1>7, <1>8, <1>9, <1>10, <1>11,
     <1>12, <1>13, <1>14, <1>15, <1>16, <1>17, <1>18, <1>19, <1>20, <1>21,
     <1>22, <1>23, <1>24, <1>25, <1>26, <1>27, <1>28, <1>29, <1>30, <1>31,
     <1>32, <1>33, <1>34, <1>35, <1>36, <1>37, <1>38
     DEF Control

LEMMA OwnerTypes ==
    ASSUME TypeOK, Owner
    PROVE  TypeOK'
<1> USE HostAssumption
    DEF HostAssumption, TypeOK, ServerTypes, SectionTypes, PipeTypes, SessionTypes,
        CaptureTypes, ThreadTypes, BoundTypes, OwnerLabels, Sessions, OwnerGoto,
        aside, pipeVars, sectionVars, displayVars, inputVars, controlVars, boundVars
<1>1. CASE Shutdown BY <1>1 DEF Shutdown
<1>2. CASE StopKeepalive
  <2>1. sessionRunning' \in BOOLEAN BY <1>2, Zenon DEF StopKeepalive
  <2>2. QED BY <1>2, <2>1 DEF StopKeepalive
<1>3. CASE JoinKeepalive BY <1>3 DEF JoinKeepalive
<1>4. CASE StopServer
  <2>1. serverRunning' \in BOOLEAN BY <1>4, Zenon DEF StopServer
  <2>2. QED BY <1>4, <2>1 DEF StopServer
<1>5. CASE StopClient
  <2>1. clientConnected' \in BOOLEAN BY <1>5, Zenon DEF StopClient
  <2>2. QED BY <1>5, <2>1 DEF StopClient
<1>6. CASE JoinControl
  <2>1. videoOpen' \in BOOLEAN BY <1>6, Zenon DEF JoinControl
  <2>2. QED BY <1>6, <2>1 DEF JoinControl
<1>7. CASE OwnerDrops BY <1>7, TakePipelineTypes DEF OwnerDrops
<1>8. CASE OwnerRestores
  <2>1. mouseHeld' \in InputStates /\ padHeld' \in InputStates
    BY <1>8, ReleaseTypes DEF OwnerRestores, InputStates
  <2>2. QED BY <1>8, <2>1, RestoreTypes DEF OwnerRestores
<1>9. QED
  BY <1>1, <1>2, <1>3, <1>4, <1>5, <1>6, <1>7, <1>8 DEF Owner

LEMMA TypeStep == TypeOK /\ [Next]_vars => TypeOK'
<1> SUFFICES ASSUME TypeOK, [Next]_vars PROVE TypeOK' OBVIOUS
<1>1. CASE Control BY <1>1, ControlTypes
<1>2. CASE FrameStep BY <1>2, FrameTypes
<1>3. CASE Owner BY <1>3, OwnerTypes
<1>4. CASE PeerLeaves
  <2>1. peerUp' \in BOOLEAN BY <1>4, Zenon DEF PeerLeaves
  <2>2. QED
    BY <1>4, <2>1
       DEF PeerLeaves, TypeOK, ServerTypes, SectionTypes, PipeTypes,
           SessionTypes, CaptureTypes, ThreadTypes, BoundTypes, serverVars,
           pipeVars, sectionVars, displayVars, captureVars, inputVars,
           controlVars, boundVars
<1>5. CASE UNCHANGED vars
  BY <1>5
     DEF vars, TypeOK, ServerTypes, SectionTypes, PipeTypes, SessionTypes,
         CaptureTypes, ThreadTypes, BoundTypes, serverVars, pipeVars,
         sectionVars, displayVars, captureVars, inputVars, controlVars, boundVars
<1>6. QED BY <1>1, <1>2, <1>3, <1>4, <1>5 DEF Next, FrameStep, Finished

\* Every reachable state is well typed, whatever the bounds and whichever of the
\* host's settings are on.
THEOREM TypeCorrect == Spec => []TypeOK
<1>1. Init => TypeOK BY TypeInit
<1>2. TypeOK /\ [Next]_vars => TypeOK' BY TypeStep
<1>3. QED BY <1>1, <1>2, PTL DEF Spec

-----------------------------------------------------------------------------
(* The section of Session::mutex_.                                           *)

LEMMA SectionInit == Init => SectionInv
<1> SUFFICES ASSUME Init PROVE SectionInv OBVIOUS
<1>1. /\ mutex = "free" /\ stage = "check" /\ keepalive = "poll"
      /\ frameCallback = [s \in Sessions |-> "none"]
  BY DEF Init
<1>2. QED BY <1>1 DEF SectionInv, SectionOwnsEncoder

\* The control thread enters the section only to look at or replace what is in
\* it, and then only while nobody else is there.
LEMMA ControlAndSection ==
    ASSUME TypeOK, Control
    PROVE  /\ UNCHANGED <<mutex, stage, keyPacket, frameCallback, keepalive, owner>>
           /\ encoder' = encoder \/ encoder' # 0 \/ MutexFree
<1> USE DEF elsewhere, pipeVars, sectionVars
<1>1. CASE Send \/ Sent \/ StopCapture \/ Revoke \/ Stopped \/ Accept
    BY <1>1 DEF Send, Sent, StopCapture, Revoke, Stopped, Accept
<1>2. CASE AcceptEnds \/ Register \/ Connect \/ ClientLoop \/ RecvFails \/
          Bye
    BY <1>2 DEF AcceptEnds, Register, Connect, ClientLoop, RecvFails, Bye
<1>3. CASE CloseClient \/ HandleQuery \/ HandleInput \/ HandleRequestIdr \/
          HandleStop \/ StartRefused
    BY <1>3 DEF CloseClient, HandleQuery, HandleInput, HandleRequestIdr,
     HandleStop, StartRefused
<1>4. CASE StartSession \/ FindWindow \/ StartDisplay \/ PipelineFails \/
          Renumber \/ GoLive
    BY <1>4 DEF StartSession, FindWindow, StartDisplay, PipelineFails,
     Renumber, GoLive
<1>5. CASE LaunchRefused \/ Launch \/ NoteWindows \/ Unlock \/ Prepare \/
          LaunchDisplay
    BY <1>5 DEF LaunchRefused, Launch, NoteWindows, Unlock, Prepare,
     LaunchDisplay
<1>6. CASE RunGame \/ WindowAppears \/ LaunchAbandoned \/ LaunchTimesOut
    BY <1>6 DEF RunGame, WindowAppears, LaunchAbandoned, LaunchTimesOut
<1>7. CASE DropPipeline BY <1>7 DEF DropPipeline, TakePipeline
<1>8. CASE StartPipeline
  BY <1>8 DEF StartPipeline, TypeOK, BoundTypes
<1>9. CASE RequestIdr BY <1>9 DEF RequestIdr
<1>10. ASSUME NEW kind \in {"start", "launch"}, NEW sized \in BOOLEAN,
             HandleRequest(kind, sized)
      PROVE  UNCHANGED <<mutex, stage, keyPacket, frameCallback, keepalive, owner, encoder>>
  BY <1>10 DEF HandleRequest
<1>11. QED
  BY <1>1, <1>2, <1>3, <1>4, <1>5, <1>6, <1>7, <1>8, <1>9, <1>10 DEF
     Control

\* Whoever leaves the section was the one in it.
LEMMA LeaveKeepsSection ==
    ASSUME TypeOK, SectionInv, LeaveSection
    PROVE  SectionInv'
<1>1. frameCallback' = [s \in Sessions |->
        IF frameCallback[s] = "inside" THEN "none" ELSE frameCallback[s]]
  BY DEF LeaveSection
<1>2. \A s \in Sessions : frameCallback'[s] # "inside" BY <1>1
<1>3. mutex' = "free" /\ stage' = "check" /\ keepalive' # "inside"
  BY DEF LeaveSection
<1>4. QED BY <1>2, <1>3 DEF SectionInv, SectionOwnsEncoder

LEMMA SectionStep == TypeOK /\ SectionInv /\ [Next]_vars => SectionInv'
<1> SUFFICES ASSUME TypeOK, SectionInv, [Next]_vars PROVE SectionInv' OBVIOUS
<1> USE DEF SectionInv, SectionOwnsEncoder
<1>1. CASE Control BY <1>1, ControlAndSection DEF MutexFree
<1>2. CASE KeepaliveDue
  BY <1>2 DEF KeepaliveDue, sectionVars, pipeVars, captureVars
<1>3. CASE KeepaliveRepeat
  <2>1. UNCHANGED <<encoder, frameCallback>> /\ mutex = "free" /\ keepalive = "want"
    BY <1>3 DEF KeepaliveRepeat, captureVars, MutexFree
  <2>2. CASE mutex' = "free"
    <3>1. UNCHANGED <<mutex, stage>>
      BY <1>3, <2>1, <2>2 DEF KeepaliveRepeat, EncodePicture, sectionVars
    <3>2. keepalive' = "poll" BY <1>3, <2>2 DEF KeepaliveRepeat, Delivered
    <3>3. QED BY <2>1, <3>1, <3>2
  <2>3. CASE mutex' # "free"
    <3>1. mutex' = "keepalive" /\ stage' = "check" /\ encoder # 0
      BY <1>3, <2>1, <2>3 DEF KeepaliveRepeat, EncodePicture, sectionVars
    <3>2. keepalive' = "inside" BY <1>3, <2>3 DEF KeepaliveRepeat, Delivered
    <3>3. QED BY <2>1, <3>1, <3>2
  <2>4. QED BY <2>2, <2>3
<1>4. CASE KeepaliveExits
  BY <1>4 DEF KeepaliveExits, sectionVars, pipeVars, captureVars
<1>5. CASE CheckStreaming
  <2>1. CASE streaming BY <1>5, <2>1 DEF CheckStreaming
  <2>2. CASE ~streaming BY <1>5, <2>2, LeaveKeepsSection DEF CheckStreaming
  <2>3. QED BY <2>1, <2>2
<1>6. CASE SendVideoFrame BY <1>6, LeaveKeepsSection DEF SendVideoFrame
<1>7. ASSUME NEW s \in Sessions, FrameArrives(s) PROVE SectionInv'
  BY <1>7 DEF FrameArrives, TypeOK, CaptureTypes, sectionVars, pipeVars
<1>8. ASSUME NEW s \in Sessions, OnCapturedFrame(s) PROVE SectionInv'
  <2>1. /\ UNCHANGED <<encoder, keepalive>> /\ mutex = "free"
        /\ frameCallback \in [Sessions -> {"none", "arrived", "inside"}]
        /\ \A t \in Sessions : frameCallback[t] # "inside"
    BY <1>8 DEF OnCapturedFrame, MutexFree, TypeOK, CaptureTypes
  <2>2. CASE mutex' = "free"
    <3>1. UNCHANGED <<mutex, stage>>
      BY <1>8, <2>1, <2>2 DEF OnCapturedFrame, EncodePicture, sectionVars
    <3>2. frameCallback' = [frameCallback EXCEPT ![s] = "none"]
      BY <1>8, <2>2 DEF OnCapturedFrame, Delivered
    <3>3. QED BY <2>1, <3>1, <3>2
  <2>3. CASE mutex' # "free"
    <3>1. mutex' = "capture" /\ stage' = "check" /\ encoder # 0
      BY <1>8, <2>1, <2>3 DEF OnCapturedFrame, EncodePicture, sectionVars
    <3>2. frameCallback' = [frameCallback EXCEPT ![s] = "inside"]
      BY <1>8, <2>3 DEF OnCapturedFrame, Delivered
    <3>3. QED BY <2>1, <3>1, <3>2
  <2>4. QED BY <2>2, <2>3
<1>9. ASSUME NEW s \in Sessions,
             WindowCloses(s) \/ ReportClosed(s) \/ ClosedReported(s)
      PROVE  SectionInv'
  BY <1>9 DEF WindowCloses, ReportClosed, ClosedReported, sectionVars, pipeVars
<1>10. CASE Owner
  <2>1. UNCHANGED <<mutex, stage, frameCallback, keepalive>>
    BY <1>10 DEF Owner, Shutdown, StopKeepalive, JoinKeepalive, StopServer,
       StopClient, JoinControl, OwnerDrops,
       OwnerRestores, aside, sectionVars
  <2>2. encoder' = encoder \/ mutex = "free"
    BY <1>10 DEF Owner, Shutdown, StopKeepalive, JoinKeepalive, StopServer,
       StopClient, JoinControl, OwnerDrops,
       OwnerRestores, TakePipeline, MutexFree, pipeVars
  <2>3. QED BY <2>1, <2>2
<1>11. CASE PeerLeaves
  BY <1>11 DEF PeerLeaves, sectionVars, pipeVars, captureVars
<1>12. CASE UNCHANGED vars
  BY <1>12 DEF vars, sectionVars, pipeVars, captureVars
<1>13. QED
  BY <1>1, <1>2, <1>3, <1>4, <1>5, <1>6, <1>7, <1>8, <1>9, <1>10, <1>11, <1>12
     DEF Next, Keepalive, FrameSection, Finished

\* Whoever encodes or sends a packet holds Session::mutex_, alone, and the
\* encoder it came from is still there: Session::OnCapturedFrame, KeepaliveLoop.
THEOREM SectionSafe == Spec => []SectionOwnsEncoder
<1>1. Init => TypeOK /\ SectionInv BY TypeInit, SectionInit
<1>2. TypeOK /\ SectionInv /\ [Next]_vars => TypeOK' /\ SectionInv'
  BY TypeStep, SectionStep
<1>3. SectionInv => SectionOwnsEncoder BY DEF SectionInv
<1>4. QED BY <1>1, <1>2, <1>3, PTL DEF Spec

-----------------------------------------------------------------------------
(* What the control thread leaves behind at each of its labels.              *)

LEMMA ControlInit == Init => ControlInv
<1> SUFFICES ASSUME Init PROVE ControlInv OBVIOUS
<1>1. /\ control = "accept" /\ afterSend = "loop" /\ afterStop = "stopped"
      /\ request = NoRequest /\ owner = "serving"
  BY DEF Init
<1>2. /\ ~streaming /\ capture = 0 /\ encoder = 0 /\ ~virtualDisplay
      /\ ~topologyChanged /\ ~displaysDetached
  BY DEF Init
<1>3. QED
  BY <1>1, <1>2 DEF ControlInv, ReturnsOK, BetweenClean, SettledAtRest,
     DisplayFlagsAgree, OwnerWaits, Bound, Between, LaunchPending, Settled,
     NoPipeline, DesktopIntact, NoRequest

\* Frames come and go without touching what this invariant is about.
LEMMA FrameKeeps ==
    ASSUME FrameStep
    PROVE  UNCHANGED <<controlVars, streaming, destination, capture, encoder,
                       startedFor, displayVars, owner, inputVars, connections,
                       clientSocket, dying>>
<1> USE DEF serverVars, pipeVars, sectionVars, captureVars, inputVars, boundVars
<1>1. CASE Keepalive
  BY <1>1 DEF Keepalive, KeepaliveDue, KeepaliveRepeat, KeepaliveExits
<1>2. CASE FrameSection
  BY <1>2 DEF FrameSection, CheckStreaming, SendVideoFrame
<1>3. ASSUME NEW s \in Sessions,
             \/ FrameArrives(s) \/ OnCapturedFrame(s) \/ WindowCloses(s)
             \/ ReportClosed(s) \/ ClosedReported(s)
      PROVE  UNCHANGED <<controlVars, streaming, destination, capture, encoder,
                         startedFor, displayVars, owner, inputVars, connections,
                         clientSocket, dying>>
  BY <1>3 DEF FrameArrives, OnCapturedFrame, WindowCloses, ReportClosed, ClosedReported
<1>4. QED BY <1>1, <1>2, <1>3 DEF FrameStep

LEMMA ControlKeeps ==
    ASSUME TypeOK, ControlInv, Control
    PROVE  ControlInv'
<1> USE DEF ControlInv, ReturnsOK, BetweenClean, SettledAtRest,
        DisplayFlagsAgree, OwnerWaits, Bound, Between, LaunchPending, Settled,
        NoPipeline, DesktopIntact, Goto, SendThen, StopThen, GiveUp, socketVars,
        streamVars, requestVars, outside, elsewhere, pipeVars, displayVars,
        NoRequest, Request
<1>0. request \in Request /\ capture \in Nat /\ encoder \in Nat /\ sessions \in Nat
  BY DEF TypeOK, ThreadTypes, PipeTypes, BoundTypes
<1>1. CASE Send BY <1>0, <1>1 DEF Send
<1>2. CASE Sent BY <1>0, <1>2 DEF Sent
<1>3. CASE DropPipeline BY <1>0, <1>3 DEF DropPipeline, TakePipeline
<1>4. CASE StopCapture BY <1>0, <1>4 DEF StopCapture, StreamingStopped
<1>5. CASE Revoke BY <1>0, <1>5 DEF Revoke, StreamingStopped
<1>6. CASE Stopped BY <1>0, <1>6 DEF Stopped, RestoreDisplays
<1>7. CASE Accept BY <1>0, <1>7 DEF Accept
<1>8. CASE AcceptEnds BY <1>0, <1>8 DEF AcceptEnds
<1>9. CASE Register BY <1>0, <1>9 DEF Register
<1>10. CASE Connect BY <1>0, <1>10 DEF Connect
<1>11. CASE ClientLoop BY <1>0, <1>11 DEF ClientLoop
<1>12. CASE RecvFails BY <1>0, <1>12 DEF RecvFails
<1>13. CASE Bye BY <1>0, <1>13 DEF Bye
<1>14. CASE CloseClient BY <1>0, <1>14 DEF CloseClient
<1>15. CASE HandleQuery BY <1>0, <1>15 DEF HandleQuery, Received
<1>16. CASE HandleInput BY <1>0, <1>16 DEF HandleInput, Received
<1>17. CASE HandleRequestIdr BY <1>0, <1>17 DEF HandleRequestIdr, Received
<1>18. CASE HandleStop BY <1>0, <1>18 DEF HandleStop, Received
<1>19. CASE StartRefused BY <1>0, <1>19 DEF StartRefused, WillCreateDisplay
<1>20. CASE StartSession BY <1>0, <1>20 DEF StartSession
<1>21. CASE FindWindow BY <1>0, <1>21 DEF FindWindow, RestoreDisplays,
     WillCreateDisplay
<1>22. CASE StartDisplay BY <1>0, <1>22 DEF StartDisplay,
     PrepareVirtualDisplay, RestoreDisplays
<1>23. CASE PipelineFails BY <1>0, <1>23 DEF PipelineFails, RestoreDisplays
<1>24. CASE StartPipeline BY <1>0, <1>24 DEF StartPipeline
<1>25. CASE Renumber BY <1>0, <1>25 DEF Renumber
<1>26. CASE GoLive BY <1>0, <1>26 DEF GoLive
<1>27. CASE RequestIdr BY <1>0, <1>27 DEF RequestIdr
<1>28. CASE LaunchRefused BY <1>0, <1>28 DEF LaunchRefused, UseDisplay
<1>29. CASE Launch BY <1>0, <1>29 DEF Launch
<1>30. CASE NoteWindows BY <1>0, <1>30 DEF NoteWindows, RestoreDisplays
<1>31. CASE Unlock BY <1>0, <1>31 DEF Unlock
<1>32. CASE Prepare
  <2>1. CASE UseDisplay BY <1>0, <1>32, <2>1 DEF Prepare
  <2>2. CASE ~UseDisplay BY <1>0, <1>32, <2>2 DEF Prepare
  <2>3. QED BY <2>1, <2>2
<1>33. CASE LaunchDisplay BY <1>0, <1>33 DEF LaunchDisplay,
     PrepareVirtualDisplay, RestoreDisplays
<1>34. CASE RunGame
  <2>1. CASE GiveUp BY <1>0, <1>34, <2>1 DEF RunGame, RestoreDisplays
  <2>2. CASE SendThen("waiting") /\ UNCHANGED <<requestVars, displayVars>>
    BY <1>0, <1>34, <2>2 DEF RunGame
  <2>3. QED BY <1>34, <2>1, <2>2 DEF RunGame
<1>35. CASE WindowAppears BY <1>0, <1>35 DEF WindowAppears
<1>36. CASE LaunchAbandoned BY <1>0, <1>36 DEF LaunchAbandoned,
     RestoreDisplays
<1>37. CASE LaunchTimesOut BY <1>0, <1>37 DEF LaunchTimesOut, RestoreDisplays
<1>38. ASSUME NEW kind \in {"start", "launch"}, NEW sized \in BOOLEAN,
              HandleRequest(kind, sized)
       PROVE  ControlInv'
  BY <1>0, <1>38 DEF HandleRequest, Received
<1>39. QED
  BY <1>1, <1>2, <1>3, <1>4, <1>5, <1>6, <1>7, <1>8, <1>9, <1>10, <1>11,
     <1>12, <1>13, <1>14, <1>15, <1>16, <1>17, <1>18, <1>19, <1>20, <1>21,
     <1>22, <1>23, <1>24, <1>25, <1>26, <1>27, <1>28, <1>29, <1>30, <1>31,
     <1>32, <1>33, <1>34, <1>35, <1>36, <1>37, <1>38 DEF Control

\* Shutdown tears down only once the control thread is done, and until then
\* touches nothing the control thread relies on.
LEMMA OwnerKeeps ==
    ASSUME TypeOK, ControlInv, Owner
    PROVE  ControlInv'
<1>1. UNCHANGED <<controlVars, streaming>>
  BY DEF Owner, Shutdown, StopKeepalive, JoinKeepalive, StopServer, StopClient,
     JoinControl, OwnerDrops, OwnerRestores, aside
<1>2. owner' \in {"drop", "restore", "stopped"} => control = "done"
  BY DEF Owner, Shutdown, StopKeepalive, JoinKeepalive, StopServer, StopClient,
     JoinControl, OwnerDrops, OwnerRestores,
     OwnerGoto, ControlInv, OwnerWaits
<1>3. \/ UNCHANGED <<capture, encoder, displayVars>>
      \/ capture' = 0 /\ encoder' = 0 /\ control = "done" /\ UNCHANGED displayVars
      \/ RestoreDisplays /\ UNCHANGED <<capture, encoder>> /\ control = "done"
  BY DEF Owner, Shutdown, StopKeepalive, JoinKeepalive, StopServer, StopClient,
     JoinControl, OwnerDrops, OwnerRestores,
     pipeVars, TakePipeline, ControlInv, OwnerWaits
<1> USE DEF ControlInv, ReturnsOK, BetweenClean, SettledAtRest,
        DisplayFlagsAgree, OwnerWaits, Bound, Between, LaunchPending, Settled,
        NoPipeline, DesktopIntact, displayVars, controlVars
<1>4. CASE UNCHANGED <<capture, encoder, displayVars>> BY <1>1, <1>2, <1>4
<1>5. CASE capture' = 0 /\ encoder' = 0 /\ control = "done" /\ UNCHANGED displayVars
  BY <1>1, <1>2, <1>5
<1>6. CASE RestoreDisplays /\ UNCHANGED <<capture, encoder>> /\ control = "done"
  BY <1>1, <1>2, <1>6 DEF RestoreDisplays
<1>7. QED BY <1>3, <1>4, <1>5, <1>6

LEMMA ControlInvStep == TypeOK /\ ControlInv /\ [Next]_vars => ControlInv'
<1> SUFFICES ASSUME TypeOK, ControlInv, [Next]_vars PROVE ControlInv' OBVIOUS
<1>1. CASE Control BY <1>1, ControlKeeps
<1>2. CASE Owner BY <1>2, OwnerKeeps
<1>3. CASE UNCHANGED <<controlVars, streaming, capture, encoder, displayVars, owner>>
  BY <1>3 DEF ControlInv, ReturnsOK, BetweenClean, SettledAtRest,
     DisplayFlagsAgree, OwnerWaits, Bound, Between, LaunchPending, Settled,
     NoPipeline, DesktopIntact, displayVars, controlVars
<1>4. CASE FrameStep BY <1>3, <1>4, FrameKeeps
<1>5. CASE PeerLeaves \/ UNCHANGED vars
  BY <1>3, <1>5 DEF PeerLeaves, vars, serverVars, pipeVars
<1>6. QED BY <1>1, <1>2, <1>4, <1>5 DEF Next, FrameStep, Finished

\* A START or LAUNCH that fails, a STOP and a client that leaves all end with no
\* pipeline and the user's desktop as it was: StartSession's and
\* LaunchAndStreamInner's error returns, HandleMessage, AcceptLoop.
THEOREM CleanDesktop == Spec => []CleanWhenIdle
<1>1. Init => TypeOK /\ ControlInv BY TypeInit, ControlInit
<1>2. TypeOK /\ ControlInv /\ [Next]_vars => TypeOK' /\ ControlInv'
  BY TypeStep, ControlInvStep
<1>3. ControlInv => CleanWhenIdle
  BY DEF ControlInv, SettledAtRest, CleanWhenIdle, AtRest, Bound, Settled,
     NoPipeline, DesktopIntact
<1>4. QED BY <1>1, <1>2, <1>3, PTL DEF Spec

-----------------------------------------------------------------------------
(* Where video goes.                                                         *)

LEMMA AddressedInit == Init => Addressed
<1> SUFFICES ASSUME Init PROVE Addressed OBVIOUS
<1>1. encoder = 0 /\ control = "accept" /\ afterStop = "stopped" BY DEF Init
<1>2. QED BY <1>1 DEF Addressed, RequestInHand, Bound, LaunchPending

LEMMA ControlAddresses ==
    ASSUME TypeOK, ControlInv, Addressed, Control
    PROVE  Addressed'
<1> USE DEF Addressed, RequestInHand, Bound, LaunchPending, Goto, SendThen,
        StopThen, GiveUp, socketVars, streamVars, requestVars, outside,
        pipeVars, boundVars
<1>0. /\ destination \in [to : 0 .. MaxConnections, port : BOOLEAN]
      /\ connections \in Nat /\ ReturnsOK
  BY DEF TypeOK, ServerTypes, BoundTypes, ControlInv
<1> USE <1>0 DEF ReturnsOK
<1>1. CASE Send BY <1>1 DEF Send
<1>2. CASE Sent BY <1>2 DEF Sent
<1>3. CASE DropPipeline BY <1>3 DEF DropPipeline, TakePipeline
<1>4. CASE StopCapture BY <1>4 DEF StopCapture, StreamingStopped
<1>5. CASE Revoke BY <1>5 DEF Revoke, StreamingStopped
<1>6. CASE Stopped BY <1>6 DEF Stopped
<1>7. CASE Accept
  <2>1. encoder = 0
    BY <1>7 DEF Accept, ControlInv, SettledAtRest, Settled, NoPipeline
  <2>2. QED BY <1>7, <2>1 DEF Accept
<1>8. CASE AcceptEnds
  <2>1. encoder = 0
    BY <1>8 DEF AcceptEnds, ControlInv, SettledAtRest, Settled, NoPipeline
  <2>2. QED BY <1>8, <2>1 DEF AcceptEnds
<1>9. CASE Register BY <1>9 DEF Register
<1>10. CASE Connect BY <1>10 DEF Connect
<1>11. CASE ClientLoop BY <1>11 DEF ClientLoop
<1>12. CASE RecvFails BY <1>12 DEF RecvFails
<1>13. CASE Bye BY <1>13 DEF Bye
<1>14. CASE CloseClient
  <2>1. encoder = 0
    BY <1>14 DEF CloseClient, ControlInv, SettledAtRest, Settled, NoPipeline
  <2>2. QED BY <1>14, <2>1 DEF CloseClient
<1>15. CASE HandleQuery BY <1>15 DEF HandleQuery, Received
<1>16. CASE HandleInput BY <1>16 DEF HandleInput, Received
<1>17. CASE HandleRequestIdr BY <1>17 DEF HandleRequestIdr, Received
<1>18. CASE HandleStop BY <1>18 DEF HandleStop, Received
<1>19. CASE StartRefused BY <1>19 DEF StartRefused
<1>20. CASE StartSession BY <1>20 DEF StartSession
<1>21. CASE FindWindow BY <1>21 DEF FindWindow, WillCreateDisplay
<1>22. CASE StartDisplay BY <1>22 DEF StartDisplay
<1>23. CASE PipelineFails BY <1>23 DEF PipelineFails
<1>24. CASE StartPipeline BY <1>24 DEF StartPipeline
<1>25. CASE Renumber BY <1>25 DEF Renumber
<1>26. CASE GoLive BY <1>26 DEF GoLive
<1>27. CASE RequestIdr BY <1>27 DEF RequestIdr
<1>28. CASE LaunchRefused BY <1>28 DEF LaunchRefused
<1>29. CASE Launch BY <1>29 DEF Launch
<1>30. CASE NoteWindows BY <1>30 DEF NoteWindows
<1>31. CASE Unlock BY <1>31 DEF Unlock
<1>32. CASE Prepare BY <1>32 DEF Prepare
<1>33. CASE LaunchDisplay BY <1>33 DEF LaunchDisplay
<1>34. CASE RunGame BY <1>34 DEF RunGame
<1>35. CASE WindowAppears BY <1>35 DEF WindowAppears
<1>36. CASE LaunchAbandoned BY <1>36 DEF LaunchAbandoned
<1>37. CASE LaunchTimesOut BY <1>37 DEF LaunchTimesOut
<1>38. ASSUME NEW kind \in {"start", "launch"}, NEW sized \in BOOLEAN,
              HandleRequest(kind, sized)
       PROVE  Addressed'
  <2>1. destination'.to = destination.to /\ destination'.port
    BY <1>38 DEF HandleRequest
  <2>2. /\ control \notin {"accept", "done"} /\ connections' = connections
        /\ encoder' = encoder /\ startedFor' = startedFor
    BY <1>38 DEF HandleRequest, Received
  <2>3. QED BY <2>1, <2>2
<1>39. QED
  BY <1>1, <1>2, <1>3, <1>4, <1>5, <1>6, <1>7, <1>8, <1>9, <1>10, <1>11,
     <1>12, <1>13, <1>14, <1>15, <1>16, <1>17, <1>18, <1>19, <1>20, <1>21,
     <1>22, <1>23, <1>24, <1>25, <1>26, <1>27, <1>28, <1>29, <1>30, <1>31,
     <1>32, <1>33, <1>34, <1>35, <1>36, <1>37, <1>38 DEF Control

LEMMA AddressedStep == TypeOK /\ ControlInv /\ Addressed /\ [Next]_vars => Addressed'
<1> SUFFICES ASSUME TypeOK, ControlInv, Addressed, [Next]_vars PROVE Addressed'
  OBVIOUS
<1>1. CASE Control BY <1>1, ControlAddresses
<1>2. CASE UNCHANGED <<controlVars, destination, encoder, startedFor, connections>>
  BY <1>2 DEF Addressed, RequestInHand, Bound, LaunchPending, controlVars
<1>3. CASE FrameStep BY <1>2, <1>3, FrameKeeps
<1>4. CASE Owner
  <2>1. UNCHANGED <<controlVars, destination, connections>>
    BY <1>4 DEF Owner, Shutdown, StopKeepalive, JoinKeepalive, StopServer,
       StopClient, JoinControl, OwnerDrops,
       OwnerRestores, aside, boundVars
  <2>2. UNCHANGED <<encoder, startedFor>> \/ encoder' = 0
    BY <1>4 DEF Owner, Shutdown, StopKeepalive, JoinKeepalive, StopServer,
       StopClient, JoinControl, OwnerDrops,
       OwnerRestores, TakePipeline, pipeVars
  <2>3. QED
    BY <2>1, <2>2 DEF Addressed, RequestInHand, Bound, LaunchPending, controlVars
<1>5. CASE PeerLeaves \/ UNCHANGED vars
  BY <1>2, <1>5 DEF PeerLeaves, vars, serverVars, pipeVars, boundVars
<1>6. QED BY <1>1, <1>3, <1>4, <1>5 DEF Next, FrameStep, Finished

\* The inductive invariant.
THEOREM SessionInvariant == Spec => [](TypeOK /\ SessionInv)
<1>1. Init => TypeOK /\ SessionInv
  BY TypeInit, ControlInit, SectionInit, AddressedInit DEF SessionInv
<1>2. TypeOK /\ SessionInv /\ [Next]_vars => TypeOK' /\ SessionInv'
  BY TypeStep, ControlInvStep, SectionStep, AddressedStep DEF SessionInv
<1>3. QED BY <1>1, <1>2, PTL DEF Spec

\* No frame of one client's stream is ever sent to the next client, or to a
\* port nobody named: StreamServer::SendVideoFrame and AcceptLoop.
THEOREM VideoAddressed == Spec => []VideoToItsClient
<1>1. TypeOK /\ SessionInv => VideoToItsClient
  <2> SUFFICES ASSUME TypeOK, SessionInv, stage = "send"
               PROVE  destination = [to |-> startedFor, port |-> TRUE]
    BY DEF VideoToItsClient
  <2>1. encoder # 0 BY DEF SessionInv, SectionInv, SectionOwnsEncoder
  <2>2. destination.to = startedFor /\ destination.port = TRUE
    <3>1. destination.port BY <2>1 DEF SessionInv, Addressed
    <3>2. destination.port \in BOOLEAN BY DEF TypeOK, ServerTypes
    <3>3. QED BY <2>1, <3>1, <3>2 DEF SessionInv, Addressed
  <2>3. destination \in [to : 0 .. MaxConnections, port : BOOLEAN]
    BY DEF TypeOK, ServerTypes
  <2>4. QED BY <2>2, <2>3
<1>2. QED BY <1>1, SessionInvariant, PTL

-----------------------------------------------------------------------------
(* Mouse buttons.                                                            *)

\* Between two clients, and while one is being let in, no button is down but
\* those whose button-up was swallowed.
ButtonsUp ==
    control \in {"close", "accept", "register", "connect"} => mouseHeld # "held"

LEMMA ControlLetsGo ==
    ASSUME ControlInv, ButtonsUp, Control
    PROVE  ButtonsUp'
<1> USE DEF ButtonsUp, ControlInv, ReturnsOK, LaunchPending, Goto, SendThen,
        StopThen, GiveUp, inputVars
<1>1. CASE Send \/ Accept \/ AcceptEnds \/ Register \/ Connect
  BY <1>1 DEF Send, Accept, AcceptEnds, Register, Connect
<1>2. CASE ClientLoop \/ RecvFails \/ CloseClient \/ HandleQuery \/
          HandleRequestIdr
  BY <1>2 DEF ClientLoop, RecvFails, CloseClient, HandleQuery,
     HandleRequestIdr
<1>3. CASE StartRefused \/ StartSession \/ FindWindow \/ StartDisplay \/
          PipelineFails
  BY <1>3 DEF StartRefused, StartSession, FindWindow, StartDisplay,
     PipelineFails
<1>4. CASE StartPipeline \/ Renumber \/ GoLive \/ RequestIdr \/
          LaunchRefused
  BY <1>4 DEF StartPipeline, Renumber, GoLive, RequestIdr, LaunchRefused
<1>5. CASE Launch \/ NoteWindows \/ Unlock \/ Prepare \/ LaunchDisplay
  BY <1>5 DEF Launch, NoteWindows, Unlock, Prepare, LaunchDisplay
<1>6. CASE RunGame \/ WindowAppears \/ LaunchAbandoned \/ LaunchTimesOut
  BY <1>6 DEF RunGame, WindowAppears, LaunchAbandoned, LaunchTimesOut
<1>7. CASE Sent BY <1>7 DEF Sent
<1>8. CASE DropPipeline BY <1>8 DEF DropPipeline, TakePipeline
<1>9. CASE StopCapture BY <1>9 DEF StopCapture, StreamingStopped
<1>10. CASE Revoke BY <1>10 DEF Revoke, StreamingStopped
<1>11. CASE Stopped BY <1>11, ReleaseTypes DEF Stopped
<1>12. CASE Bye BY <1>12, ReleaseTypes DEF Bye
<1>13. CASE HandleStop BY <1>13 DEF HandleStop
<1>14. CASE HandleInput BY <1>14 DEF HandleInput
<1>15. ASSUME NEW kind \in {"start", "launch"}, NEW sized \in BOOLEAN,
              HandleRequest(kind, sized)
       PROVE  ButtonsUp'
  BY <1>15 DEF HandleRequest
<1>16. QED
  BY <1>1, <1>2, <1>3, <1>4, <1>5, <1>6, <1>7, <1>8, <1>9, <1>10, <1>11,
     <1>12, <1>13, <1>14, <1>15 DEF Control

LEMMA ButtonsStep == ControlInv /\ ButtonsUp /\ [Next]_vars => ButtonsUp'
<1> SUFFICES ASSUME ControlInv, ButtonsUp, [Next]_vars PROVE ButtonsUp' OBVIOUS
<1>1. CASE Control BY <1>1, ControlLetsGo
<1>2. CASE FrameStep BY <1>2, FrameKeeps DEF ButtonsUp, controlVars, inputVars
<1>3. CASE Owner
  <2>1. control' = control /\ (mouseHeld' = mouseHeld \/ mouseHeld' # "held")
    BY <1>3, ReleaseTypes DEF Owner, Shutdown, StopKeepalive, JoinKeepalive, StopServer,
       StopClient, JoinControl, OwnerDrops,
       OwnerRestores, TakePipeline, aside, controlVars, inputVars
  <2>2. QED BY <2>1 DEF ButtonsUp
<1>4. CASE PeerLeaves \/ UNCHANGED vars
  BY <1>4 DEF PeerLeaves, vars, controlVars, inputVars, ButtonsUp
<1>5. QED BY <1>1, <1>2, <1>3, <1>4 DEF Next, FrameStep, Finished

\* A client that vanishes mid-press, streaming or not, leaves no mouse button
\* down for the next one but those whose button-up Windows swallowed:
\* AcceptLoop after ClientLoop, Session::StopStreaming.
THEOREM ButtonsReleased == Spec => []NoButtonLeftDown
<1>1. Init => ButtonsUp BY DEF Init, ButtonsUp
<1>2. TypeOK /\ SessionInv /\ ButtonsUp /\ [Next]_vars => ButtonsUp'
  BY ButtonsStep DEF SessionInv
<1>3. ButtonsUp => NoButtonLeftDown BY DEF ButtonsUp, NoButtonLeftDown
<1>4. QED BY <1>1, <1>2, <1>3, SessionInvariant, PTL DEF Spec

-----------------------------------------------------------------------------
(* Keyframes.                                                                *)

KeyInHand == forceIdr \/ idrServed \/ (mutex # "free" /\ keyPacket)
KeyInv ==
    /\ encoder # 0 /\ streaming /\ Bound # "idr" => KeyInHand
    /\ stage = "send" /\ keyPacket => idrServed

LEMMA ControlOwesKeyframe ==
    ASSUME TypeOK, ControlInv, SectionInv, KeyInv, Control
    PROVE  KeyInv'
<1> USE DEF KeyInv, KeyInHand, ControlInv, ReturnsOK, LaunchPending, Bound, Goto,
        SendThen, StopThen, GiveUp, pipeVars, elsewhere, sectionVars, streamVars
<1>1. CASE Send \/ Stopped \/ Accept \/ AcceptEnds
  BY <1>1 DEF Send, Stopped, Accept, AcceptEnds
<1>2. CASE Register \/ Connect \/ ClientLoop \/ RecvFails
  BY <1>2 DEF Register, Connect, ClientLoop, RecvFails
<1>3. CASE CloseClient \/ HandleQuery \/ HandleInput \/ HandleRequestIdr
  BY <1>3 DEF CloseClient, HandleQuery, HandleInput, HandleRequestIdr,
     Received
<1>4. CASE StartRefused \/ StartSession \/ FindWindow \/ StartDisplay
  <2>1. CASE StartRefused BY <2>1 DEF StartRefused
  <2>2. CASE StartSession BY <2>2 DEF StartSession
  <2>3. CASE FindWindow BY <2>3 DEF FindWindow
  <2>4. CASE StartDisplay BY <2>4 DEF StartDisplay
  <2>5. QED BY <1>4, <2>1, <2>2, <2>3, <2>4
<1>5. CASE PipelineFails \/ Renumber \/ LaunchRefused \/ Launch
  BY <1>5 DEF PipelineFails, Renumber, LaunchRefused, Launch
<1>6. CASE NoteWindows \/ Unlock \/ Prepare \/ LaunchDisplay
  BY <1>6 DEF NoteWindows, Unlock, Prepare, LaunchDisplay
<1>7. CASE RunGame \/ WindowAppears \/ LaunchAbandoned \/ LaunchTimesOut
  <2>1. CASE RunGame BY <2>1 DEF RunGame
  <2>2. CASE WindowAppears BY <2>2 DEF WindowAppears
  <2>3. CASE LaunchAbandoned BY <2>3 DEF LaunchAbandoned
  <2>4. CASE LaunchTimesOut BY <2>4 DEF LaunchTimesOut
  <2>5. QED BY <1>7, <2>1, <2>2, <2>3, <2>4
<1>8. CASE Sent BY <1>8 DEF Sent
<1>9. CASE DropPipeline BY <1>9 DEF DropPipeline, TakePipeline, MutexFree, SectionInv
<1>10. CASE StopCapture BY <1>10 DEF StopCapture, StreamingStopped
<1>11. CASE Revoke BY <1>11 DEF Revoke, StreamingStopped
<1>12. CASE StartPipeline BY <1>12 DEF StartPipeline, MutexFree, SectionInv
<1>13. CASE RequestIdr BY <1>13 DEF RequestIdr, MutexFree
<1>14. CASE GoLive BY <1>14 DEF GoLive
<1>15. CASE Bye BY <1>15 DEF Bye
<1>16. CASE HandleStop BY <1>16 DEF HandleStop, Received
<1>17. ASSUME NEW kind \in {"start", "launch"}, NEW sized \in BOOLEAN,
              HandleRequest(kind, sized)
       PROVE  KeyInv'
  BY <1>17 DEF HandleRequest, Received
<1>18. QED
  BY <1>1, <1>2, <1>3, <1>4, <1>5, <1>6, <1>7, <1>8, <1>9, <1>10, <1>11,
     <1>12, <1>13, <1>14, <1>15, <1>16, <1>17 DEF Control

\* Encoding consumes the request only by putting the keyframe in hand.
LEMMA EncodeKeepsKey ==
    ASSUME KeyInHand, MutexFree, NEW who \in {"capture", "keepalive"}, EncodePicture(who)
    PROVE  KeyInHand'
  BY DEF KeyInHand, MutexFree, EncodePicture, sectionVars

LEMMA FrameOwesKeyframe ==
    ASSUME TypeOK, SectionInv, KeyInv, FrameStep
    PROVE  KeyInv'
<1>1. UNCHANGED <<encoder, streaming, Bound>>
  BY FrameKeeps DEF controlVars, Bound
<1>2. CASE UNCHANGED <<forceIdr, idrServed, mutex, keyPacket, stage>>
  BY <1>1, <1>2 DEF KeyInv, KeyInHand
<1>3. CASE /\ MutexFree /\ stage' = "check"
           /\ EncodePicture("capture") \/ EncodePicture("keepalive")
  BY <1>1, <1>3, EncodeKeepsKey DEF KeyInv
<1>4. stage = "send" => mutex # "free" BY DEF SectionInv
<1>5. CASE KeepaliveRepeat
  <2>1. MutexFree BY <1>5 DEF KeepaliveRepeat
  <2>2. CASE UNCHANGED <<forceIdr, idrServed, sectionVars>>
    BY <1>2, <2>2 DEF sectionVars
  <2>3. CASE EncodePicture("keepalive")
    <3>1. stage' = "check"
      BY <1>4, <2>1, <2>3 DEF EncodePicture, sectionVars, MutexFree, TypeOK, SectionTypes
    <3>2. QED BY <1>3, <2>1, <2>3, <3>1
  <2>4. QED BY <1>5, <2>2, <2>3 DEF KeepaliveRepeat
<1>6. ASSUME NEW s \in Sessions, OnCapturedFrame(s) PROVE KeyInv'
  <2>1. MutexFree BY <1>6 DEF OnCapturedFrame
  <2>2. CASE UNCHANGED <<forceIdr, hasFrame, idrServed, sectionVars>>
    BY <1>2, <2>2 DEF sectionVars
  <2>3. CASE EncodePicture("capture")
    <3>1. stage' = "check"
      BY <1>4, <2>1, <2>3 DEF EncodePicture, sectionVars, MutexFree, TypeOK, SectionTypes
    <3>2. QED BY <1>3, <2>1, <2>3, <3>1
  <2>4. QED BY <1>6, <2>2, <2>3 DEF OnCapturedFrame
<1>7. CASE CheckStreaming
  <2>1. CASE streaming
    BY <1>1, <1>7, <2>1 DEF CheckStreaming, KeyInv, KeyInHand, TypeOK, PipeTypes
  <2>2. CASE ~streaming
    BY <1>1, <1>7, <2>2 DEF CheckStreaming, LeaveSection, KeyInv
  <2>3. QED BY <2>1, <2>2
<1>8. CASE SendVideoFrame
  BY <1>1, <1>8 DEF SendVideoFrame, LeaveSection, KeyInv, KeyInHand, pipeVars
<1>9. CASE KeepaliveDue \/ KeepaliveExits
  BY <1>2, <1>9 DEF KeepaliveDue, KeepaliveExits, sectionVars, pipeVars
<1>10. ASSUME NEW s \in Sessions,
              \/ FrameArrives(s) \/ WindowCloses(s)
              \/ ReportClosed(s) \/ ClosedReported(s)
       PROVE  KeyInv'
  BY <1>2, <1>10 DEF FrameArrives, WindowCloses, ReportClosed, ClosedReported,
     sectionVars, pipeVars
<1>11. QED
  BY <1>5, <1>6, <1>7, <1>8, <1>9, <1>10 DEF FrameStep, Keepalive, FrameSection

LEMMA KeyStep ==
    TypeOK /\ ControlInv /\ SectionInv /\ KeyInv /\ [Next]_vars => KeyInv'
<1> SUFFICES ASSUME TypeOK, ControlInv, SectionInv, KeyInv, [Next]_vars PROVE KeyInv'
  OBVIOUS
<1>1. CASE Control BY <1>1, ControlOwesKeyframe
<1>2. CASE FrameStep BY <1>2, FrameOwesKeyframe
<1>3. CASE Owner
  <2>1. UNCHANGED <<mutex, stage, keyPacket, streaming, Bound>>
    BY <1>3 DEF Owner, Shutdown, StopKeepalive, JoinKeepalive, StopServer,
       StopClient, JoinControl, OwnerDrops,
       OwnerRestores, aside, sectionVars, controlVars, Bound
  <2>2. \/ UNCHANGED <<encoder, forceIdr, idrServed>>
        \/ encoder' = 0 /\ mutex = "free"
    BY <1>3 DEF Owner, Shutdown, StopKeepalive, JoinKeepalive, StopServer,
       StopClient, JoinControl, OwnerDrops,
       OwnerRestores, TakePipeline, MutexFree, pipeVars
  <2>3. QED BY <2>1, <2>2 DEF KeyInv, KeyInHand, SectionInv
<1>4. CASE PeerLeaves \/ UNCHANGED vars
  BY <1>4 DEF PeerLeaves, vars, serverVars, pipeVars, sectionVars, controlVars,
     KeyInv, KeyInHand, Bound
<1>5. QED BY <1>1, <1>2, <1>3, <1>4 DEF Next, FrameStep, Finished

\* A client whose stream is on gets a keyframe or is still owed one, although
\* the encoder's opening IDR is made, and dropped, before streaming_ is true:
\* HandleStart's last call, NvencEncoder::RepeatLastFrame.
THEOREM KeyframeGuaranteed == Spec => []KeyframeOwed
<1>1. Init => KeyInv BY DEF Init, KeyInv
<1>2. TypeOK /\ SessionInv /\ KeyInv /\ [Next]_vars => KeyInv'
  BY KeyStep DEF SessionInv
<1>3. KeyInv => KeyframeOwed BY DEF KeyInv, KeyInHand, KeyframeOwed, Bound
<1>4. QED BY <1>1, <1>2, <1>3, SessionInvariant, PTL DEF Spec

-----------------------------------------------------------------------------
(* Screens during a launch.                                                  *)

LEMMA ControlKeepsScreens ==
    ASSUME ControlInv, ScreensStayForTheLaunch, Control
    PROVE  ScreensStayForTheLaunch'
<1> USE DEF ScreensStayForTheLaunch, ControlInv, ReturnsOK, LaunchPending, Goto,
        SendThen, StopThen, GiveUp, displayVars
<1>1. CASE Send \/ Sent \/ Accept \/ AcceptEnds \/ Register
  BY <1>1 DEF Send, Sent, Accept, AcceptEnds, Register
<1>2. CASE Connect \/ ClientLoop \/ RecvFails \/ CloseClient
  BY <1>2 DEF Connect, ClientLoop, RecvFails, CloseClient
<1>3. CASE HandleQuery \/ HandleInput \/ HandleRequestIdr \/ HandleStop \/ Bye
  BY <1>3 DEF HandleQuery, HandleInput, HandleRequestIdr, HandleStop, Bye
<1>4. CASE StartRefused \/ StartSession \/ FindWindow \/ StartDisplay
  BY <1>4 DEF StartRefused, StartSession, FindWindow, StartDisplay
<1>5. CASE PipelineFails \/ StartPipeline \/ Renumber \/ GoLive \/ RequestIdr
  BY <1>5 DEF PipelineFails, StartPipeline, Renumber, GoLive, RequestIdr
<1>6. CASE LaunchRefused \/ Launch BY <1>6 DEF LaunchRefused, Launch
<1>7. CASE DropPipeline \/ StopCapture \/ Revoke \/ Stopped
  BY <1>7 DEF DropPipeline, StopCapture, Revoke, StreamingStopped, Stopped
\* The restore before the launch puts detached screens back...
<1>8. CASE NoteWindows
  BY <1>8 DEF NoteWindows, RestoreDisplays, DisplayFlagsAgree
\* ...and nothing on the way to the game's window takes them away again.
<1>9. CASE Unlock BY <1>9 DEF Unlock
<1>10. CASE Prepare BY <1>10 DEF Prepare
<1>11. CASE LaunchDisplay
  BY <1>11 DEF LaunchDisplay, PrepareVirtualDisplay, RestoreDisplays
<1>12. CASE RunGame
  <2>1. CASE GiveUp BY <1>12, <2>1 DEF RunGame
  <2>2. CASE SendThen("waiting") /\ UNCHANGED displayVars BY <1>12, <2>2 DEF RunGame
  <2>3. QED BY <1>12, <2>1, <2>2 DEF RunGame
<1>13. CASE WindowAppears BY <1>13 DEF WindowAppears
<1>14. CASE LaunchAbandoned \/ LaunchTimesOut
  BY <1>14 DEF LaunchAbandoned, LaunchTimesOut
<1>15. ASSUME NEW kind \in {"start", "launch"}, NEW sized \in BOOLEAN,
              HandleRequest(kind, sized)
       PROVE  ScreensStayForTheLaunch'
  BY <1>15 DEF HandleRequest, Received
<1>16. QED
  BY <1>1, <1>2, <1>3, <1>4, <1>5, <1>6, <1>7, <1>8, <1>9, <1>10, <1>11,
     <1>12, <1>13, <1>14, <1>15 DEF Control

LEMMA ScreensStep ==
    ControlInv /\ ScreensStayForTheLaunch /\ [Next]_vars => ScreensStayForTheLaunch'
<1> SUFFICES ASSUME ControlInv, ScreensStayForTheLaunch, [Next]_vars
             PROVE  ScreensStayForTheLaunch'
  OBVIOUS
<1>1. CASE Control BY <1>1, ControlKeepsScreens
<1>2. CASE FrameStep
  BY <1>2, FrameKeeps DEF ScreensStayForTheLaunch, controlVars, displayVars
<1>3. CASE Owner
  <2>1. UNCHANGED controlVars
    BY <1>3 DEF Owner, Shutdown, StopKeepalive, JoinKeepalive, StopServer,
       StopClient, JoinControl, OwnerDrops, OwnerRestores, aside
  <2>2. UNCHANGED displaysDetached \/ RestoreDisplays
    BY <1>3 DEF Owner, Shutdown, StopKeepalive, JoinKeepalive, StopServer,
       StopClient, JoinControl, OwnerDrops, OwnerRestores, displayVars
  <2>3. CASE UNCHANGED displaysDetached
    BY <2>1, <2>3 DEF ScreensStayForTheLaunch, controlVars
  <2>4. CASE RestoreDisplays
    BY <2>1, <2>4 DEF RestoreDisplays, ScreensStayForTheLaunch, controlVars
  <2>5. QED BY <2>2, <2>3, <2>4
<1>4. CASE PeerLeaves \/ UNCHANGED vars
  BY <1>4 DEF PeerLeaves, vars, controlVars, displayVars, ScreensStayForTheLaunch
<1>5. QED BY <1>1, <1>2, <1>3, <1>4 DEF Next, FrameStep, Finished

\* From the moment the previous session is gone until the game's window is found
\* no physical screen is off: whatever the launch puts up for the user to answer
\* can be seen.  LaunchAndStreamInner detaches after the wait, not before it.
THEOREM LaunchIsSeen == Spec => []ScreensStayForTheLaunch
<1>1. Init => ScreensStayForTheLaunch
  BY DEF Init, ScreensStayForTheLaunch
<1>2. TypeOK /\ SessionInv /\ ScreensStayForTheLaunch /\ [Next]_vars =>
        ScreensStayForTheLaunch'
  BY ScreensStep DEF SessionInv
<1>3. QED BY <1>1, <1>2, SessionInvariant, PTL DEF Spec

-----------------------------------------------------------------------------
(* Captures.                                                                 *)

\* The captures somebody still has a pointer to: Session's, and the one that
\* StopStreaming is destroying.
Live == {capture, dying} \ {0}

\* A capture runs only while it is live; a live one that has stopped had its
\* window closed, or is being unregistered; every other one has come to rest.
QuietInv ==
    /\ capturing \subseteq Live
    /\ Live \subseteq capturing \cup closed \cup Revoking
    /\ Revoking \cap capturing = {}
    /\ \A s \in Sessions \ (closed \cup Live) : Quiet(s)
    /\ dying # 0 => control \in {"destroy", "revoke"}

captureState == <<captureVars, capture, dying>>

LEMMA QuietElsewhere ==
    ASSUME QuietInv, UNCHANGED captureState,
           control' = control \/ control \notin {"destroy", "revoke"}
    PROVE  QuietInv'
  BY DEF QuietInv, captureState, captureVars, Live, Revoking, Quiet

LEMMA ControlQuiets ==
    ASSUME StopWaits, TypeOK, ControlInv, QuietInv, Control
    PROVE  QuietInv'
<1> USE DEF elsewhere, pipeVars, captureState, captureVars
<1>1. CASE Send \/ Sent \/ Stopped \/ Accept \/ AcceptEnds
  BY <1>1, QuietElsewhere DEF Send, Sent, Stopped, Accept, AcceptEnds
<1>2. CASE Register \/ Connect \/ ClientLoop \/ RecvFails \/ Bye \/ CloseClient
  BY <1>2, QuietElsewhere
     DEF Register, Connect, ClientLoop, RecvFails, Bye, CloseClient
<1>3. CASE HandleQuery \/ HandleInput \/ HandleRequestIdr \/ HandleStop
  BY <1>3, QuietElsewhere
     DEF HandleQuery, HandleInput, HandleRequestIdr, HandleStop, Received
<1>4. CASE StartRefused \/ StartSession \/ FindWindow \/ StartDisplay
  BY <1>4, QuietElsewhere DEF StartRefused, StartSession, FindWindow, StartDisplay
<1>5. CASE PipelineFails \/ Renumber \/ GoLive \/ RequestIdr
  BY <1>5, QuietElsewhere DEF PipelineFails, Renumber, GoLive, RequestIdr
<1>6. CASE LaunchRefused \/ Launch \/ NoteWindows \/ Unlock \/ Prepare
  BY <1>6, QuietElsewhere DEF LaunchRefused, Launch, NoteWindows, Unlock, Prepare
<1>7. CASE LaunchDisplay \/ RunGame \/ WindowAppears
  BY <1>7, QuietElsewhere DEF LaunchDisplay, RunGame, WindowAppears
<1>8. CASE LaunchAbandoned \/ LaunchTimesOut
  BY <1>8, QuietElsewhere DEF LaunchAbandoned, LaunchTimesOut
<1>9. ASSUME NEW kind \in {"start", "launch"}, NEW sized \in BOOLEAN,
             HandleRequest(kind, sized)
      PROVE  QuietInv'
  BY <1>9, QuietElsewhere DEF HandleRequest, Received
\* What was the session's capture is now StopStreaming's.
<1>10. CASE DropPipeline
  <2>1. /\ control = "drop" /\ control' = "destroy" /\ dying = 0
        /\ dying' = capture /\ capture' = 0 /\ UNCHANGED captureVars
    BY <1>10 DEF DropPipeline, TakePipeline, Goto, QuietInv
  <2>2. Live' = Live /\ Revoking = {} /\ Revoking' = {}
    BY <2>1 DEF Live, Revoking
  <2>3. QED BY <2>1, <2>2 DEF QuietInv, Quiet
\* A capture that is not running has nothing to stop...
<1>11. CASE StopCapture
  <2>1. /\ control = "destroy" /\ capturing' = capturing \ {dying}
        /\ UNCHANGED <<closed, frameCallback, closedCallback, capture>>
    BY <1>11 DEF StopCapture
  <2>2. capture = 0 /\ Revoking = {}
    BY <2>1 DEF ControlInv, BetweenClean, Bound, Between, NoPipeline, Revoking
  <2>3. CASE dying \in capturing
    <3>1. control' = "revoke" /\ dying' = dying
      BY <1>11, <2>3 DEF StopCapture, Goto
    <3>2. Live' = Live /\ Revoking' = {dying} /\ Live = {dying}
      BY <2>1, <2>2, <2>3, <3>1 DEF Live, Revoking, QuietInv
    <3>3. QED BY <2>1, <2>2, <3>1, <3>2 DEF QuietInv, Quiet
  <2>4. CASE dying \notin capturing
    <3>1. dying' = 0 BY <1>11, <2>4 DEF StopCapture, StreamingStopped
    <3>2. Live' = {} /\ Revoking' = {} /\ Live \subseteq {dying}
      BY <2>1, <2>2, <3>1 DEF Live, Revoking
    <3>3. Live \subseteq closed BY <2>2, <2>4, <3>2 DEF QuietInv
    <3>4. QED BY <2>1, <2>2, <2>4, <3>1, <3>2, <3>3 DEF QuietInv, Quiet
  <2>5. QED BY <2>3, <2>4
\* ...and one that was is let go when no callback of it runs.
<1>12. CASE Revoke
  <2>1. /\ control = "revoke" /\ dying' = 0 /\ Quiet(dying)
        /\ UNCHANGED <<captureVars, capture>>
    BY <1>12 DEF Revoke, StreamingStopped
  <2>2. capture = 0 /\ Revoking = {dying} \ {0} /\ Live = {dying} \ {0}
    BY <2>1 DEF ControlInv, BetweenClean, Bound, Between, NoPipeline, Revoking, Live
  <2>3. Live' = {} /\ Revoking' = {} BY <2>1, <2>2 DEF Live, Revoking
  <2>4. capturing = {} BY <2>2 DEF QuietInv
  <2>5. QED BY <2>1, <2>2, <2>3, <2>4 DEF QuietInv, Quiet
\* A new capture takes a number of its own.
<1>13. CASE StartPipeline
  <2>1. /\ control = "pipeline" /\ control' = "renumber"
        /\ capture' = sessions + 1 /\ capturing' = capturing \cup {sessions + 1}
        /\ UNCHANGED <<closed, frameCallback, closedCallback, dying>>
    BY <1>13 DEF StartPipeline, Goto
  <2>2. capture = 0 /\ dying = 0 /\ Revoking = {} /\ sessions + 1 # 0
    BY <2>1 DEF ControlInv, BetweenClean, Bound, Between, NoPipeline, QuietInv,
       Revoking, TypeOK, BoundTypes
  <2>3. Live = {} /\ Live' = {sessions + 1} /\ Revoking' = {}
    BY <2>1, <2>2 DEF Live, Revoking
  <2>4. QED BY <2>1, <2>2, <2>3 DEF QuietInv, Quiet
<1>14. QED
  BY <1>1, <1>2, <1>3, <1>4, <1>5, <1>6, <1>7, <1>8, <1>9, <1>10, <1>11,
     <1>12, <1>13 DEF Control

\* A callback starts only in a capture that is live, and ends where it likes.
LEMMA FrameQuiets ==
    ASSUME TypeOK, QuietInv, FrameStep
    PROVE  QuietInv'
<1>1. UNCHANGED <<capture, dying, control>> BY FrameKeeps DEF controlVars
<1>2. Live' = Live /\ Revoking' = Revoking BY <1>1 DEF Live, Revoking
<1>3. /\ frameCallback \in [Sessions -> {"none", "arrived", "inside"}]
      /\ closedCallback \in [Sessions -> {"none", "notify", "sending", "done"}]
  BY DEF TypeOK, CaptureTypes
<1>4. CASE /\ UNCHANGED <<capturing, closed, closedCallback>>
           /\ \A s \in Sessions : frameCallback[s] = "none" => frameCallback'[s] = "none"
  BY <1>1, <1>2, <1>4 DEF QuietInv, Quiet
<1>5. CASE Keepalive
  BY <1>4, <1>5 DEF Keepalive, KeepaliveDue, KeepaliveRepeat, KeepaliveExits, captureVars
<1>6. CASE FrameSection
  BY <1>3, <1>4, <1>6 DEF FrameSection, CheckStreaming, SendVideoFrame, LeaveSection
<1>7. ASSUME NEW s \in Sessions, FrameArrives(s) PROVE QuietInv'
  <2>1. /\ UNCHANGED <<capturing, closed, closedCallback>> /\ s \in Live
        /\ frameCallback' = [frameCallback EXCEPT ![s] = "arrived"]
    BY <1>7 DEF FrameArrives, QuietInv
  <2>2. QED BY <1>1, <1>2, <1>3, <2>1 DEF QuietInv, Quiet
<1>8. ASSUME NEW s \in Sessions, OnCapturedFrame(s) PROVE QuietInv'
  <2>1. /\ UNCHANGED <<capturing, closed, closedCallback>>
        /\ frameCallback[s] = "arrived"
        /\ \A t \in Sessions \ {s} : frameCallback'[t] = frameCallback[t]
    BY <1>3, <1>8 DEF OnCapturedFrame
  <2>2. QED BY <1>4, <2>1
<1>9. ASSUME NEW s \in Sessions, WindowCloses(s) PROVE QuietInv'
  <2>1. /\ s \in capturing \cup Revoking /\ UNCHANGED frameCallback
        /\ capturing' = capturing \ {s} /\ closed' = closed \cup {s}
        /\ closedCallback' = [closedCallback EXCEPT ![s] = "notify"]
    BY <1>9 DEF WindowCloses
  <2>2. \A t \in Sessions \ (closed' \cup Live) : Quiet(t)'
    BY <1>3, <2>1 DEF QuietInv, Quiet
  <2>3. QED BY <1>1, <1>2, <2>1, <2>2 DEF QuietInv
<1>10. ASSUME NEW s \in Sessions, ReportClosed(s) \/ ClosedReported(s)
       PROVE  QuietInv'
  <2>1. /\ UNCHANGED <<capturing, closed, frameCallback>> /\ ~Quiet(s)
        /\ \A t \in Sessions \ {s} : closedCallback'[t] = closedCallback[t]
    BY <1>3, <1>10 DEF ReportClosed, ClosedReported, Quiet
  <2>2. QED BY <1>1, <1>2, <2>1 DEF QuietInv, Quiet
<1>11. QED
  BY <1>5, <1>6, <1>7, <1>8, <1>9, <1>10 DEF FrameStep

LEMMA QuietStep ==
    ASSUME StopWaits
    PROVE  TypeOK /\ ControlInv /\ QuietInv /\ [Next]_vars => QuietInv'
<1> SUFFICES ASSUME TypeOK, ControlInv, QuietInv, [Next]_vars PROVE QuietInv'
  OBVIOUS
<1>1. CASE Control BY <1>1, ControlQuiets
<1>2. CASE FrameStep BY <1>2, FrameQuiets
<1>3. CASE Owner
  <2>1. UNCHANGED <<captureVars, control>>
    BY <1>3 DEF Owner, Shutdown, StopKeepalive, JoinKeepalive, StopServer,
       StopClient, JoinControl, OwnerDrops, OwnerRestores, aside, captureVars,
       controlVars
  <2>2. UNCHANGED <<capture, dying>>
    <3>1. CASE OwnerDrops
      <4>1. control = "done" /\ dying' = capture /\ capture' = 0
        BY <1>3, <3>1 DEF OwnerDrops, TakePipeline, ControlInv, OwnerWaits
      <4>2. capture = 0 /\ dying = 0
        BY <4>1 DEF ControlInv, SettledAtRest, Settled, NoPipeline, QuietInv
      <4>3. QED BY <4>1, <4>2
    <3>2. CASE ~OwnerDrops
      BY <1>3, <3>2 DEF Owner, Shutdown, StopKeepalive, JoinKeepalive,
         StopServer, StopClient, JoinControl, OwnerRestores, pipeVars
    <3>3. QED BY <3>1, <3>2
  <2>3. QED BY <2>1, <2>2, QuietElsewhere DEF captureState
<1>4. CASE PeerLeaves \/ UNCHANGED vars
  BY <1>4, QuietElsewhere DEF PeerLeaves, vars, captureState, pipeVars, controlVars
<1>5. QED BY <1>1, <1>2, <1>3, <1>4 DEF Next, FrameStep, Finished

LEMMA QuietInvariant ==
    ASSUME StopWaits
    PROVE  Spec => []QuietInv
<1>1. Init => QuietInv
  <2> SUFFICES ASSUME Init PROVE QuietInv OBVIOUS
  <2>1. /\ capturing = {} /\ capture = 0 /\ dying = 0 /\ control = "accept"
        /\ frameCallback = [s \in Sessions |-> "none"]
        /\ closedCallback = [s \in Sessions |-> "none"]
    BY DEF Init
  <2>2. QED BY <2>1 DEF QuietInv, Live, Revoking, Quiet
<1>2. TypeOK /\ SessionInv /\ QuietInv /\ [Next]_vars => QuietInv'
  BY QuietStep DEF SessionInv
<1>3. QED BY <1>1, <1>2, SessionInvariant, PTL DEF Spec

\* If unregistering from a capture waits for its handlers, then once StopStreaming
\* has destroyed one no callback of it runs again, unless its window closed under
\* it first: WindowCapture::Stop returns at once for a capture whose Closed
\* handler has already cleared running_, which the exception is about.
THEOREM NoCallbackAfterStop ==
    ASSUME StopWaits
    PROVE  Spec => []StoppedIsQuiet
<1>1. TypeOK /\ QuietInv => StoppedIsQuiet
  <2> SUFFICES ASSUME TypeOK, QuietInv, NEW s \in 1 .. sessions,
                      s \notin {capture, dying} \cup closed
               PROVE  Quiet(s)
    BY DEF StoppedIsQuiet
  <2>1. s \in Sessions
    BY HostAssumption DEF HostAssumption, TypeOK, BoundTypes, Sessions
  <2>2. QED BY <2>1 DEF QuietInv, Live
<1>2. QED BY <1>1, QuietInvariant, SessionInvariant, PTL

-----------------------------------------------------------------------------
(* Shutdown.                                                                 *)

\* What each step of Shutdown may rely on once it has made the ones before it,
\* and what the accept thread leaves when it goes back for the next client.
ShutdownInv ==
    /\ owner \in {"stopServer", "closeClient", "joinControl", "drop", "restore",
                  "stopped"} => keepalive = "done"
    /\ control \in {"accept", "register", "done"} => clientSocket = 0
    /\ owner = "stopped" => mouseHeld # "held" /\ padHeld # "held"

\* A control thread that is done takes no step.
LEMMA DoneIsDone == control = "done" => ~Control
<1> SUFFICES ASSUME control = "done", Control PROVE FALSE OBVIOUS
<1>1. CASE Send \/ Sent \/ DropPipeline \/ StopCapture \/ Revoke \/ Stopped
  BY <1>1 DEF Send, Sent, DropPipeline, StopCapture, Revoke, Stopped
<1>2. CASE Accept \/ AcceptEnds \/ Register \/ Connect \/ ClientLoop \/
          RecvFails \/ Bye \/ CloseClient
  BY <1>2 DEF Accept, AcceptEnds, Register, Connect, ClientLoop, RecvFails, Bye,
     CloseClient
<1>3. CASE HandleQuery \/ HandleInput \/ HandleRequestIdr \/ HandleStop
  BY <1>3 DEF HandleQuery, HandleInput, HandleRequestIdr, HandleStop, Received
<1>4. CASE \E kind \in {"start", "launch"}, sized \in BOOLEAN :
             HandleRequest(kind, sized)
  BY <1>4 DEF HandleRequest, Received
<1>5. CASE StartRefused \/ StartSession \/ FindWindow \/ StartDisplay \/
          PipelineFails \/ StartPipeline \/ Renumber \/ GoLive \/ RequestIdr
  BY <1>5 DEF StartRefused, StartSession, FindWindow, StartDisplay,
     PipelineFails, StartPipeline, Renumber, GoLive, RequestIdr
<1>6. CASE LaunchRefused \/ Launch \/ NoteWindows \/ Unlock \/ Prepare \/
          LaunchDisplay \/ RunGame \/ WindowAppears \/ LaunchAbandoned \/
          LaunchTimesOut
  BY <1>6 DEF LaunchRefused, Launch, NoteWindows, Unlock, Prepare,
     LaunchDisplay, RunGame, WindowAppears, LaunchAbandoned, LaunchTimesOut
<1>7. QED BY <1>1, <1>2, <1>3, <1>4, <1>5, <1>6 DEF Control

\* Only Register lets a client's socket in, and only CloseClient leads back.
LEMMA ControlFreesSocket ==
    ASSUME ControlInv, control \in {"accept", "register", "done"} => clientSocket = 0,
           Control
    PROVE  control' \in {"accept", "register", "done"} => clientSocket' = 0
<1> USE DEF ControlInv, ReturnsOK, LaunchPending, Goto, SendThen, StopThen,
        GiveUp, socketVars
<1>1. CASE Send \/ Sent \/ DropPipeline \/ StopCapture \/ Revoke \/ Stopped
  BY <1>1 DEF Send, Sent, DropPipeline, StopCapture, Revoke, StreamingStopped, Stopped
<1>2. CASE Accept \/ AcceptEnds \/ Register \/ Connect \/ ClientLoop
  BY <1>2 DEF Accept, AcceptEnds, Register, Connect, ClientLoop
<1>3. CASE RecvFails \/ Bye \/ CloseClient
  BY <1>3 DEF RecvFails, Bye, CloseClient
<1>4. CASE HandleQuery \/ HandleInput \/ HandleRequestIdr \/ HandleStop
  BY <1>4 DEF HandleQuery, HandleInput, HandleRequestIdr, HandleStop, Received
<1>5. ASSUME NEW kind \in {"start", "launch"}, NEW sized \in BOOLEAN,
             HandleRequest(kind, sized)
      PROVE  control' \notin {"accept", "register", "done"}
  BY <1>5 DEF HandleRequest
<1>6. CASE StartRefused \/ StartSession \/ FindWindow \/ StartDisplay
  BY <1>6 DEF StartRefused, StartSession, FindWindow, StartDisplay
<1>7. CASE PipelineFails \/ StartPipeline \/ Renumber \/ GoLive \/ RequestIdr
  BY <1>7 DEF PipelineFails, StartPipeline, Renumber, GoLive, RequestIdr
<1>8. CASE LaunchRefused \/ Launch \/ NoteWindows \/ Unlock \/ Prepare
  BY <1>8 DEF LaunchRefused, Launch, NoteWindows, Unlock, Prepare
<1>9. CASE LaunchDisplay \/ RunGame \/ WindowAppears \/ LaunchAbandoned \/
          LaunchTimesOut
  BY <1>9 DEF LaunchDisplay, RunGame, WindowAppears, LaunchAbandoned,
     LaunchTimesOut
<1>10. QED
  BY <1>1, <1>2, <1>3, <1>4, <1>5, <1>6, <1>7, <1>8, <1>9 DEF Control

LEMMA ShutdownStep ==
    TypeOK /\ ControlInv /\ ShutdownInv /\ [Next]_vars => ShutdownInv'
<1> SUFFICES ASSUME TypeOK, ControlInv, ShutdownInv, [Next]_vars PROVE ShutdownInv'
  OBVIOUS
<1> USE DEF ShutdownInv
<1>1. CASE Control
  <2>1. UNCHANGED <<owner, keepalive>> BY <1>1, ControlAndSection
  <2>2. owner # "stopped" BY <1>1, DoneIsDone DEF ControlInv, OwnerWaits
  <2>3. control' \in {"accept", "register", "done"} => clientSocket' = 0
    BY <1>1, ControlFreesSocket
  <2>4. QED BY <2>1, <2>2, <2>3
<1>2. CASE FrameStep
  <2>1. keepalive = "done" => keepalive' = "done"
    BY <1>2 DEF FrameStep, Keepalive, KeepaliveDue, KeepaliveRepeat, KeepaliveExits,
       FrameSection, CheckStreaming, SendVideoFrame, LeaveSection, FrameArrives,
       OnCapturedFrame, WindowCloses, ReportClosed, ClosedReported
  <2>2. QED BY <1>2, <2>1, FrameKeeps DEF controlVars, inputVars
<1>3. CASE Owner
  <2>1. UNCHANGED <<control, keepalive>>
    BY <1>3 DEF Owner, Shutdown, StopKeepalive, JoinKeepalive, StopServer,
       StopClient, JoinControl, OwnerDrops, OwnerRestores, aside, controlVars
  <2>2. clientSocket' = clientSocket \/ clientSocket' = 0
    BY <1>3 DEF Owner, Shutdown, StopKeepalive, JoinKeepalive, StopServer,
       StopClient, JoinControl, OwnerDrops, OwnerRestores
  <2>3. CASE OwnerRestores
    BY <2>1, <2>2, <2>3, ReleaseTypes DEF OwnerRestores, OwnerGoto
  <2>4. CASE ~OwnerRestores
    <3>1. owner' # "stopped"
      BY <1>3, <2>4 DEF Owner, Shutdown, StopKeepalive, JoinKeepalive,
         StopServer, StopClient, JoinControl, OwnerDrops, OwnerGoto
    <3>2. owner' \in {"stopServer", "closeClient", "joinControl", "drop", "restore"} =>
            keepalive = "done"
      BY <1>3, <2>4 DEF Owner, Shutdown, StopKeepalive, JoinKeepalive,
         StopServer, StopClient, JoinControl, OwnerDrops, OwnerGoto
    <3>3. QED BY <2>1, <2>2, <3>1, <3>2
  <2>5. QED BY <2>3, <2>4
<1>4. CASE PeerLeaves \/ UNCHANGED vars
  BY <1>4 DEF PeerLeaves, vars, serverVars, controlVars, inputVars
<1>5. QED BY <1>1, <1>2, <1>3, <1>4 DEF Next, FrameStep, Finished

\* When Shutdown returns the Session can be destroyed: both its threads have
\* ended, the client's socket is closed, no capture, encoder or callback is left,
\* the desktop is given back, and every input was let go of or refused by
\* Windows just now, whatever the client, the launch or the frames were doing
\* when it was called.
THEOREM ShutdownComplete ==
    ASSUME StopWaits
    PROVE  Spec => []ShutdownLeavesNothing
<1>1. Init => ShutdownInv BY DEF Init, ShutdownInv
<1>2. TypeOK /\ SessionInv /\ ShutdownInv /\ [Next]_vars => ShutdownInv'
  BY ShutdownStep DEF SessionInv
<1>3. TypeOK /\ SessionInv /\ QuietInv /\ ShutdownInv => ShutdownLeavesNothing
  <2> SUFFICES ASSUME SessionInv, QuietInv, ShutdownInv, owner = "stopped"
               PROVE  /\ keepalive = "done" /\ control = "done"
                      /\ clientSocket = 0 /\ encoder = 0 /\ capturing = {}
                      /\ dying = 0 /\ \A s \in Sessions \ closed : Quiet(s)
                      /\ ~virtualDisplay /\ ~topologyChanged /\ ~displaysDetached
                      /\ mouseHeld # "held" /\ padHeld # "held"
    BY DEF ShutdownLeavesNothing
  <2>1. control = "done" BY DEF SessionInv, ControlInv, OwnerWaits
  <2>2. /\ keepalive = "done" /\ clientSocket = 0
        /\ mouseHeld # "held" /\ padHeld # "held"
    BY <2>1 DEF ShutdownInv
  <2>3. capture = 0 /\ encoder = 0 /\ DesktopIntact
    BY <2>1 DEF SessionInv, ControlInv, SettledAtRest, Settled, NoPipeline
  <2>4. dying = 0 BY <2>1 DEF QuietInv
  <2>5. Live = {} BY <2>3, <2>4 DEF Live
  <2>6. capturing = {} /\ \A s \in Sessions \ closed : Quiet(s)
    BY <2>5 DEF QuietInv
  <2>7. QED BY <2>1, <2>2, <2>3, <2>4, <2>6 DEF DesktopIntact
<1>4. QED BY <1>1, <1>2, <1>3, QuietInvariant, SessionInvariant, PTL DEF Spec
=============================================================================
