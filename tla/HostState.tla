------------------------------ MODULE HostState ------------------------------
(***************************************************************************)
(* The state the streaming host's threads share: StreamServer's fields     *)
(* (net_server.h), Session's (session.h), WindowCapture's run flag and the *)
(* callbacks it has in flight (window_capture.cpp), the inputs the host    *)
(* holds down, and where each thread is.                                   *)
(*                                                                         *)
(* Four threads touch it: the accept thread, which also reads the control  *)
(* socket and runs every handler (`control'); the keepalive thread         *)
(* (`keepalive'); Windows' capture threads, which call back with frames    *)
(* and with the window's closing; and the thread that drives Shutdown      *)
(* (`owner': main, or the web console).                                    *)
(*                                                                         *)
(* Captures and encoders are numbered in the order they are made; 0 is a   *)
(* null unique_ptr.  Connections are numbered likewise; 0 is kInvalid.     *)
(***************************************************************************)
EXTENDS Naturals, FiniteSets

CONSTANTS
    UseVirtualDisplay,  \* Session::useVirtualDisplay, on unless --no-virtual-display
    StopWaits,          \* WindowCapture::Stop waits for callbacks in flight
    ClientInputs,       \* the kinds of input the client sends
    MaxConnections,     \* bound: control connections accepted
    MaxRequests,        \* bound: START, LAUNCH and STOP messages read
    MaxSessions,        \* bound: capture/encoder pairs made
    MaxFrame            \* bound: frames numbered within one session

ASSUME HostAssumption ==
    /\ UseVirtualDisplay \in BOOLEAN
    /\ StopWaits \in BOOLEAN
    /\ ClientInputs \subseteq {"mouse", "pad"}
    /\ MaxConnections \in Nat
    /\ MaxRequests \in Nat
    /\ MaxSessions \in Nat
    /\ MaxFrame \in Nat

VARIABLES
    \* StreamServer
    serverRunning,      \* running_, and listenSocket_ still open
    clientSocket,       \* clientSocket_: a connection, or 0
    clientConnected,    \* clientConnected_
    streaming,          \* streaming_
    destination,        \* videoDestination_: its address (a connection) and whether sin_port is set
    videoOpen,          \* videoSocket_ # kInvalid
    frameNumber,        \* frameNumber_
    sendMutex,          \* owner of sendMutex_
    \* Session
    mutex,              \* owner of mutex_ across steps
    capture,            \* capture_
    encoder,            \* encoder_
    forceIdr,           \* NvencEncoder::forceIdr_ of encoder_
    hasFrame,           \* NvencEncoder::hasFrame_ of encoder_
    launchEpoch,        \* launchEpoch_
    sessionRunning,     \* running_
    virtualDisplay,     \* virtualDisplay_ # nullptr
    topologyChanged,    \* topologyChanged_
    displaysDetached,   \* displaysDetached_
    \* WindowCapture, by capture
    capturing,          \* captures whose running_ is true
    closed,             \* captures whose window has closed under them
    frameCallback,      \* where each capture's OnFrameArrived is
    closedCallback,     \* where each capture's Closed handler is
    \* the critical section of mutex_ while a frame is encoded and sent
    stage,              \* before the streaming_ test, or after it
    keyPacket,          \* the packet in hand is a keyframe
    \* inputs held on behalf of the client
    mouseHeld,          \* what is down of the mouse buttons
    padHeld,            \* what the virtual pad holds
    \* the threads
    control, keepalive, owner,
    afterSend,          \* control: where SendMessage returns to
    afterStop,          \* control: where StopStreaming returns to
    dying,              \* the capture StopStreaming moved out of capture_
    request,            \* control: the START or LAUNCH being served
    prepared,           \* control: displayPrepared
    claimed,            \* control: the epoch the launch claimed
    \* environment and bounds
    peerUp,             \* the client's end of the control connection is open
    connections, requests, sessions,
    \* history
    startedFor,         \* the connection encoder_ was started for
    idrServed           \* an IDR of encoder_ passed the streaming_ test, or NVENC lost it

serverVars  == <<serverRunning, clientSocket, clientConnected, streaming,
                 destination, videoOpen, frameNumber>>
pipeVars    == <<capture, encoder, forceIdr, hasFrame, startedFor, idrServed>>
sectionVars == <<mutex, stage, keyPacket>>
displayVars == <<virtualDisplay, topologyChanged, displaysDetached>>
captureVars == <<capturing, closed, frameCallback, closedCallback>>
inputVars   == <<mouseHeld, padHeld>>
controlVars == <<control, afterSend, afterStop, request, prepared, claimed>>
boundVars   == <<connections, requests, sessions>>

vars == <<serverVars, sendMutex, sectionVars, pipeVars, launchEpoch,
          sessionRunning, displayVars, captureVars, inputVars, controlVars,
          keepalive, owner, dying, peerUp, boundVars>>

-----------------------------------------------------------------------------
Connections == 1 .. MaxConnections
Sessions    == 1 .. MaxSessions

\* Where each thread can be.  A label names what the thread does next.
ControlLabels ==
    { "accept", "register", "connect", "loop", "recv", "bye", "close", "done",
      "send", "sending", "drop", "destroy", "revoke", "stopped", "parted",
      "startSession", "window", "startDisplay", "pipeline", "renumber",
      "goLive", "idr",
      "launch", "note", "unlock", "prepare", "display", "run", "waiting" }
KeepaliveLabels == { "poll", "want", "inside", "done" }
OwnerLabels ==
    { "serving", "quiesce", "joinKeepalive", "stopServer", "closeClient",
      "joinControl", "drop", "restore", "stopped" }

\* What the host holds down for the client: nothing; something; or only what
\* Windows has refused to let go of, each button's last event swallowed by
\* SendInput, the pad's last neutral report refused by ViGEm.
InputStates == {"none", "held", "refused"}

Request == [kind : {"none", "start", "launch"}, sized : BOOLEAN]
NoRequest == [kind |-> "none", sized |-> FALSE]

ServerTypes ==
    /\ serverRunning \in BOOLEAN
    /\ clientSocket \in 0 .. MaxConnections
    /\ clientConnected \in BOOLEAN
    /\ streaming \in BOOLEAN
    /\ destination \in [to : 0 .. MaxConnections, port : BOOLEAN]
    /\ videoOpen \in BOOLEAN
    /\ frameNumber \in Nat
    /\ sendMutex \in {"free", "control", "closing"}
SectionTypes ==
    /\ mutex \in {"free", "capture", "keepalive"}
    /\ stage \in {"check", "send"}
    /\ keyPacket \in BOOLEAN
PipeTypes ==
    /\ capture \in 0 .. MaxSessions
    /\ encoder \in 0 .. MaxSessions
    /\ forceIdr \in BOOLEAN
    /\ hasFrame \in BOOLEAN
    /\ startedFor \in 0 .. MaxConnections
    /\ idrServed \in BOOLEAN
SessionTypes ==
    /\ launchEpoch \in Nat
    /\ sessionRunning \in BOOLEAN
    /\ virtualDisplay \in BOOLEAN
    /\ topologyChanged \in BOOLEAN
    /\ displaysDetached \in BOOLEAN
    /\ mouseHeld \in InputStates
    /\ padHeld \in InputStates
CaptureTypes ==
    /\ capturing \in SUBSET Sessions
    /\ closed \in SUBSET Sessions
    /\ frameCallback \in [Sessions -> {"none", "arrived", "inside"}]
    /\ closedCallback \in [Sessions -> {"none", "notify", "sending", "done"}]
ThreadTypes ==
    /\ control \in ControlLabels
    /\ keepalive \in KeepaliveLabels
    /\ owner \in OwnerLabels
    /\ afterSend \in ControlLabels
    /\ afterStop \in ControlLabels
    /\ dying \in 0 .. MaxSessions
    /\ request \in Request
    /\ prepared \in BOOLEAN
    /\ claimed \in Nat
BoundTypes ==
    /\ peerUp \in BOOLEAN
    /\ connections \in 0 .. MaxConnections
    /\ requests \in Nat
    /\ sessions \in 0 .. MaxSessions

TypeOK ==
    /\ ServerTypes /\ SectionTypes /\ PipeTypes /\ SessionTypes
    /\ CaptureTypes /\ ThreadTypes /\ BoundTypes

\* Session::Serve and StreamServer::Start have returned: the accept thread and
\* the keepalive thread run, nothing is connected and nothing streams.
Init ==
    /\ serverRunning = TRUE
    /\ clientSocket = 0
    /\ clientConnected = FALSE
    /\ streaming = FALSE
    /\ destination = [to |-> 0, port |-> FALSE]
    /\ videoOpen = TRUE
    /\ frameNumber = 0
    /\ sendMutex = "free"
    /\ mutex = "free"
    /\ stage = "check"
    /\ keyPacket = FALSE
    /\ capture = 0
    /\ encoder = 0
    /\ forceIdr = FALSE
    /\ hasFrame = FALSE
    /\ launchEpoch = 0
    /\ sessionRunning = TRUE
    /\ virtualDisplay = FALSE
    /\ topologyChanged = FALSE
    /\ displaysDetached = FALSE
    /\ capturing = {}
    /\ closed = {}
    /\ frameCallback = [s \in Sessions |-> "none"]
    /\ closedCallback = [s \in Sessions |-> "none"]
    /\ mouseHeld = "none"
    /\ padHeld = "none"
    /\ control = "accept"
    /\ keepalive = "poll"
    /\ owner = "serving"
    /\ afterSend = "loop"
    /\ afterStop = "stopped"
    /\ dying = 0
    /\ request = NoRequest
    /\ prepared = FALSE
    /\ claimed = 0
    /\ peerUp = FALSE
    /\ connections = 0
    /\ requests = 0
    /\ sessions = 0
    /\ startedFor = 0
    /\ idrServed = FALSE

-----------------------------------------------------------------------------
\* Mutant of MutexFree: StopStreaming keeps the lock while it destroys.
MutexHeldByStop == mutex = "free" /\ control \notin {"destroy", "revoke"}

\* A lock_guard on Session::mutex_ can be taken.
MutexFree == mutex = "free"

\* Mutant of ReleaseHeldButtons: the button-ups are not sent.
ButtonsForgotten == UNCHANGED mouseHeld

\* What letting go of inputs can leave: each is let go of, or refused.
LetGo(input) == IF input = "none" THEN {"none"} ELSE {"none", "refused"}

\* InputInjector::ReleaseHeldButtons.  A button-up that Windows swallows leaves
\* its button down and its bit set.
ReleaseHeldButtons == mouseHeld' \in LetGo(mouseHeld)

\* VirtualGamepad::ReleaseAll ignores what ViGEm says of its neutral report.
ReleaseAll == padHeld' \in LetGo(padHeld)

\* Mutant of RestoreDisplays: gated on displaysDetached_ alone.
RestoreWhenDetached ==
    /\ topologyChanged' = (topologyChanged /\ ~displaysDetached)
    /\ displaysDetached' = FALSE
    /\ virtualDisplay' = FALSE

\* Session::RestoreDisplays.  The flags are cleared only when a change was
\* recorded; the virtual display is dropped either way.
RestoreDisplays ==
    /\ topologyChanged' = FALSE
    /\ displaysDetached' = (displaysDetached /\ ~topologyChanged)
    /\ virtualDisplay' = FALSE

\* Mutant of PrepareVirtualDisplay: the physical displays go with it.
PrepareAndDetach(ok) ==
    /\ virtualDisplay' = ok
    /\ topologyChanged' = ok
    /\ displaysDetached' = ok

\* Session::PrepareVirtualDisplay with its result.  Creating the display can
\* fail with nothing changed; attaching it or making it primary can fail, and
\* then everything is put back.
PrepareVirtualDisplay(ok) ==
    IF ok
      THEN /\ virtualDisplay' = TRUE
           /\ topologyChanged' = TRUE
           /\ UNCHANGED displaysDetached
      ELSE \/ UNCHANGED <<topologyChanged, displaysDetached>> /\ virtualDisplay' = FALSE
           \/ RestoreDisplays

\* Mutant of TakePipeline: capture_ and encoder_ are moved out without the lock.
TakePipelineUnlocked ==
    /\ dying' = capture
    /\ capture' = 0
    /\ encoder' = 0
    /\ ReleaseHeldButtons
    /\ ReleaseAll
    /\ UNCHANGED <<forceIdr, hasFrame, startedFor, idrServed>>

\* Session::StopStreaming up to the end of its locked section, run by a thread
\* that finds mutex_ free: inputs are released first, then capture_ and
\* encoder_ are moved out.  An encoder's own fields mean nothing without it.
TakePipeline ==
    /\ MutexFree
    /\ ReleaseHeldButtons
    /\ ReleaseAll
    /\ dying' = capture
    /\ capture' = 0
    /\ encoder' = 0
    /\ forceIdr' = FALSE
    /\ hasFrame' = FALSE
    /\ startedFor' = 0
    /\ idrServed' = FALSE

\* The capture a StopStreaming has stopped and not yet unregistered from, whose
\* Closed handler can therefore still be called.
Revoking == IF control = "revoke" THEN {dying} \ {0} ELSE {}

\* No callback of capture s is running.
Quiet(s) == frameCallback[s] = "none" /\ closedCallback[s] \in {"none", "done"}
=============================================================================
