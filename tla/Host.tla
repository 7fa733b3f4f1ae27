--------------------------------- MODULE Host --------------------------------
(***************************************************************************)
(* The streaming host: the control thread, the frame section and its two   *)
(* sources, and the thread that runs Session::Shutdown.                    *)
(***************************************************************************)
EXTENDS StreamPipeline, ControlThread

\* What Shutdown's own steps leave alone throughout.
aside == <<streaming, destination, frameNumber, sectionVars, frameCallback,
           closedCallback, closed, controlVars, keepalive, peerUp, boundVars>>

OwnerGoto(l) == owner' = l

\* Bump the epoch so a launch that is waiting lets the control thread out.
Shutdown ==
    /\ owner = "serving"
    /\ launchEpoch' = launchEpoch + 1
    /\ OwnerGoto("quiesce")
    /\ UNCHANGED <<aside, serverRunning, clientSocket, clientConnected,
                   videoOpen, sendMutex, pipeVars, sessionRunning, displayVars,
                   capturing, dying, inputVars>>

StopKeepalive ==
    /\ owner = "quiesce"
    /\ sessionRunning' = FALSE
    /\ OwnerGoto("joinKeepalive")
    /\ UNCHANGED <<aside, serverRunning, clientSocket, clientConnected,
                   videoOpen, sendMutex, pipeVars, launchEpoch, displayVars,
                   capturing, dying, inputVars>>

\* Mutant of JoinKeepalive: the keepalive thread is not joined.
JoinNobody ==
    /\ owner = "joinKeepalive"
    /\ OwnerGoto("stopServer")
    /\ UNCHANGED <<aside, serverRunning, clientSocket, clientConnected,
                   videoOpen, sendMutex, pipeVars, launchEpoch, sessionRunning,
                   displayVars, capturing, dying, inputVars>>

\* keepaliveThread_.join().
JoinKeepalive ==
    /\ owner = "joinKeepalive"
    /\ keepalive = "done"
    /\ OwnerGoto("stopServer")
    /\ UNCHANGED <<aside, serverRunning, clientSocket, clientConnected,
                   videoOpen, sendMutex, pipeVars, launchEpoch, sessionRunning,
                   displayVars, capturing, dying, inputVars>>

\* StreamServer::Stop: running_ off and the listening socket closed...
StopServer ==
    /\ owner = "stopServer"
    /\ serverRunning' = FALSE
    /\ OwnerGoto("closeClient")
    /\ UNCHANGED <<aside, clientSocket, clientConnected, videoOpen, sendMutex,
                   pipeVars, launchEpoch, sessionRunning, displayVars,
                   capturing, dying, inputVars>>

\* ...the client's socket closed, under sendMutex_...
StopClient ==
    /\ owner = "closeClient"
    /\ sendMutex = "free"
    /\ clientSocket' = 0
    /\ clientConnected' = FALSE
    /\ OwnerGoto("joinControl")
    /\ UNCHANGED <<aside, serverRunning, videoOpen, sendMutex, pipeVars,
                   launchEpoch, sessionRunning, displayVars, capturing, dying,
                   inputVars>>

\* ...the accept thread joined and the video socket closed; then StopSession,
\* which bumps the epoch again.
JoinControl ==
    /\ owner = "joinControl"
    /\ control = "done"
    /\ videoOpen' = FALSE
    /\ launchEpoch' = launchEpoch + 1
    /\ OwnerGoto("drop")
    /\ UNCHANGED <<aside, serverRunning, clientSocket, clientConnected,
                   sendMutex, pipeVars, sessionRunning, displayVars, capturing,
                   dying, inputVars>>

\* StopStreaming.  The control thread has stopped every stream by now
\* (SettledAtRest), so there is no capture here to destroy: one would stay in
\* `dying'.
OwnerDrops ==
    /\ owner = "drop"
    /\ TakePipeline
    /\ OwnerGoto("restore")
    /\ UNCHANGED <<aside, serverRunning, clientSocket, clientConnected,
                   videoOpen, sendMutex, launchEpoch, sessionRunning,
                   displayVars, capturing>>

\* StopSession's restore and Shutdown's own; the service then releases whatever
\* the client was holding.
OwnerRestores ==
    /\ owner = "restore"
    /\ RestoreDisplays
    /\ ReleaseHeldButtons
    /\ ReleaseAll
    /\ OwnerGoto("stopped")
    /\ UNCHANGED <<aside, serverRunning, clientSocket, clientConnected,
                   videoOpen, sendMutex, pipeVars, launchEpoch, sessionRunning,
                   capturing, dying>>

Owner ==
    \/ Shutdown \/ StopKeepalive \/ JoinKeepalive \/ StopServer \/ StopClient
    \/ JoinControl \/ OwnerDrops \/ OwnerRestores

-----------------------------------------------------------------------------
\* The client closes its end, or the network does.
PeerLeaves ==
    /\ peerUp
    /\ peerUp' = FALSE
    /\ UNCHANGED <<serverVars, sendMutex, sectionVars, pipeVars, launchEpoch,
                   sessionRunning, displayVars, captureVars, inputVars,
                   controlVars, keepalive, owner, dying, boundVars>>

\* Once Shutdown has returned there is nothing left to do.
Finished == owner = "stopped" /\ UNCHANGED vars

Next ==
    \/ Control
    \/ Keepalive
    \/ FrameSection
    \/ \E s \in Sessions :
         FrameArrives(s) \/ OnCapturedFrame(s) \/ WindowCloses(s)
           \/ ReportClosed(s) \/ ClosedReported(s)
    \/ Owner
    \/ PeerLeaves
    \/ Finished

Spec == Init /\ [][Next]_vars

\* Fairness.  A thread that can run does, and one waiting for a std::mutex that
\* is free again and again gets it; send() returns once the client reads or its
\* connection dies; the wait for a game window is bounded by its timeout; recv()
\* fails once the client is gone or the socket closed.  Nothing obliges a client
\* to connect or to send, a window to change or to close, or anyone to shut the
\* host down.
ControlSteps ==
    \/ Send \/ Sent \/ DropPipeline \/ StopCapture \/ Revoke \/ Stopped
    \/ AcceptEnds \/ Register \/ Connect \/ ClientLoop \/ Bye \/ CloseClient
    \/ StartRefused \/ StartSession \/ FindWindow \/ StartDisplay
    \/ PipelineFails \/ StartPipeline \/ Renumber \/ GoLive \/ RequestIdr
    \/ LaunchRefused \/ Launch \/ NoteWindows \/ Unlock \/ Prepare
    \/ LaunchDisplay \/ RunGame \/ WindowAppears \/ LaunchAbandoned
    \/ LaunchTimesOut
OwnerSteps ==
    \/ StopKeepalive \/ JoinKeepalive \/ StopServer \/ StopClient \/ JoinControl
    \/ OwnerDrops \/ OwnerRestores

Fairness ==
    /\ SF_vars(ControlSteps)
    /\ WF_vars(RecvFails /\ (~peerUp \/ clientSocket = 0))
    /\ SF_vars(OwnerSteps)
    /\ SF_vars(Keepalive)
    /\ WF_vars(FrameSection)
    /\ \A s \in Sessions :
         SF_vars(OnCapturedFrame(s)) /\ SF_vars(ReportClosed(s) \/ ClosedReported(s))

FairSpec == Spec /\ Fairness

-----------------------------------------------------------------------------
(* Safety.                                                                   *)

\* The control thread is between two messages, or between two clients.
AtRest ==
    \/ control \in {"accept", "register", "connect", "loop", "recv", "bye",
                    "close", "done"}
    \/ control \in {"send", "sending"} /\ afterSend = "loop"

\* Every way a START or LAUNCH can fail, a STOP and a disconnect leave no
\* pipeline and no changed display behind, because the disconnect path only
\* calls stopSession while streaming_ (AcceptLoop): what an unsuccessful
\* request left would stay until the process ends.
CleanWhenIdle ==
    AtRest /\ ~streaming =>
        /\ capture = 0 /\ encoder = 0
        /\ ~virtualDisplay /\ ~topologyChanged /\ ~displaysDetached

\* A thread encoding or sending holds Session::mutex_, alone, and the encoder
\* whose packet it is sending has not been moved out under it.
SectionOwnsEncoder ==
    /\ mutex # "free" => encoder # 0
    /\ mutex = "keepalive" <=> keepalive = "inside"
    /\ mutex = "capture" <=> \E s \in Sessions : frameCallback[s] = "inside"
    /\ \A s, t \in Sessions :
         frameCallback[s] = "inside" /\ frameCallback[t] = "inside" => s = t

\* A frame about to be sent goes to the client whose request started the encoder
\* it comes from, on a port that client named: the address changes when the next
\* client is accepted, and the last frame of the previous one must be out by then.
VideoToItsClient == stage = "send" => destination = [to |-> startedFor, port |-> TRUE]

\* A capture that has been destroyed has no callback running, so neither it nor
\* a later encoder can be reached from one; unless its window closed first.
StoppedIsQuiet ==
    \A s \in 1 .. sessions : s \notin {capture, dying} \cup closed => Quiet(s)

\* Reading the next message, the host owes the stream it started a keyframe, has
\* one in hand, or has let one through: the opening IDR can be made, and lost,
\* before streaming_ is true (HandleStart).  An IDR that NVENC encodes and then
\* cannot give out counts as let through: RepeatLastFrame has forgotten the request.
KeyframeOwed ==
    control = "recv" /\ streaming /\ encoder # 0 =>
        forceIdr \/ idrServed \/ (mutex # "free" /\ keyPacket)

LaunchPending == {"unlock", "prepare", "display", "run", "waiting"}

\* The user's screens are there while a launch can still ask a question on them.
ScreensStayForTheLaunch ==
    LaunchPending \cap {control, afterSend} # {} => ~displaysDetached

\* When Shutdown returns the Session may be destroyed: no thread of it runs,
\* nothing can call back into it, the desktop is given back, and so are the
\* inputs, but for those Windows has just refused to let go of.
ShutdownLeavesNothing ==
    owner = "stopped" =>
        /\ keepalive = "done" /\ control = "done"
        /\ clientSocket = 0 /\ encoder = 0 /\ capturing = {} /\ dying = 0
        /\ \A s \in Sessions \ closed : Quiet(s)
        /\ ~virtualDisplay /\ ~topologyChanged /\ ~displaysDetached
        /\ mouseHeld # "held" /\ padHeld # "held"

\* A client that vanished mid-press leaves no mouse button down, unless Windows
\* swallowed the button-up that was sent for it.
NoButtonLeftDown == control = "accept" => mouseHeld # "held"

-----------------------------------------------------------------------------
(* The inductive invariant behind CleanWhenIdle and VideoToItsClient: what   *)
(* is true at each label of the control thread.                              *)

DesktopIntact == ~virtualDisplay /\ ~topologyChanged /\ ~displaysDetached
NoPipeline == capture = 0 /\ encoder = 0
\* Either a stream is on or nothing is left of one.
Settled == streaming \/ (NoPipeline /\ DesktopIntact)

\* The label the control thread is at, or will be at when its send returns.
Bound == IF control \in {"send", "sending"} THEN afterSend ELSE control

ReturnsOK ==
    /\ afterSend \in {"loop", "idr", "startSession"} \cup LaunchPending
    /\ afterStop \in {"stopped", "parted", "window", "note"}
    /\ control \notin {"send", "sending"} => afterSend = "loop"
    /\ control \notin {"drop", "destroy", "revoke"} => afterStop = "stopped"

\* Where the previous pipeline is gone and the next not yet made.
Between ==
    {"destroy", "revoke", "stopped", "parted", "window", "startDisplay",
     "pipeline", "note"} \cup LaunchPending
BetweenClean ==
    /\ Bound \in Between => NoPipeline
    /\ Bound = "startSession" /\ request.kind = "launch" => NoPipeline
    /\ Bound \in {"unlock", "prepare", "display", "startDisplay"} => DesktopIntact
    /\ Bound \in {"launch", "note", "unlock", "prepare"} \/ afterStop = "note" =>
         ~prepared
    /\ Bound \in {"run", "waiting"} /\ prepared => topologyChanged
    /\ Bound \in LaunchPending \cup {"launch", "note"} \/ afterStop = "note" =>
         request.kind = "launch"

SettledAtRest ==
    /\ Bound \in {"loop", "recv", "bye", "idr", "launch"} => Settled
    /\ Bound = "startSession" /\ request.kind = "start" => Settled
    /\ Bound = "startSession" => request.kind # "none"
    /\ control \in {"accept", "register", "connect", "close", "done"} =>
         ~streaming /\ Settled
    /\ control = "parted" \/ afterStop = "parted" => ~streaming

DisplayFlagsAgree ==
    /\ displaysDetached => topologyChanged
    /\ topologyChanged <=> virtualDisplay

OwnerWaits ==
    owner \in {"drop", "restore", "stopped"} => control = "done"

ControlInv ==
    ReturnsOK /\ BetweenClean /\ SettledAtRest /\ DisplayFlagsAgree /\ OwnerWaits

\* A video destination is complete from the request on, and stays this client's
\* as long as there is an encoder.
RequestInHand ==
    \/ Bound \in {"startSession", "window", "startDisplay", "pipeline", "launch", "note"}
    \/ Bound \in LaunchPending
    \/ afterStop \in {"window", "note"}
Addressed ==
    /\ encoder # 0 => startedFor = connections /\ destination.port
    /\ control \notin {"accept", "done"} => destination.to = connections
    /\ encoder # 0 => destination.to = connections
    /\ RequestInHand => destination.port

SectionInv == SectionOwnsEncoder /\ (stage = "send" => mutex # "free")

SessionInv == ControlInv /\ SectionInv /\ Addressed

-----------------------------------------------------------------------------
(* Liveness.                                                                 *)

\* Shutdown joins two threads and takes three locks; it returns.
ShutdownReturns == owner = "quiesce" ~> owner = "stopped"

\* The only seat is freed once its client has gone, whatever it was waiting for.
SeatIsFreed == ~peerUp /\ control # "accept" ~> control \in {"accept", "done"}

-----------------------------------------------------------------------------
(* What a comment or PROTOCOL.md says of the host and the code does not do.  *)

\* session.h: a launch abandons its wait as soon as the counter moves past it,
\* "so a stop or a shutdown never has to sit out the launch timeout".
ShutdownReachesLaunch ==
    owner = "joinControl" /\ control = "waiting" => launchEpoch # claimed
=============================================================================
