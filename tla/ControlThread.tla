---------------------------- MODULE ControlThread ----------------------------
(***************************************************************************)
(* The accept thread: StreamServer::AcceptLoop, ClientLoop, the handlers   *)
(* of HandleMessage, and the Session calls they make on this thread        *)
(* (StartSession, LaunchAndStream, StopSession).  One client at a time.    *)
(***************************************************************************)
EXTENDS HostState

socketVars  == <<clientSocket, clientConnected, destination>>
streamVars  == <<streaming, frameNumber>>
requestVars == <<request, prepared, claimed>>
outside     == <<peerUp, boundVars>>
\* What no step of the control thread changes.
elsewhere == <<serverRunning, videoOpen, sessionRunning, sectionVars, closed,
               frameCallback, closedCallback, keepalive, owner>>

\* Continue at label l.
Goto(l) ==
    /\ control' = l
    /\ UNCHANGED <<afterSend, afterStop>>

\* SendMessage, then continue at label l.
SendThen(l) ==
    /\ control' = "send"
    /\ afterSend' = l
    /\ UNCHANGED afterStop

\* StopStreaming, then continue at label l.
StopThen(l) ==
    /\ control' = "drop"
    /\ afterStop' = l
    /\ UNCHANGED afterSend

\* A handler that gives up answers with ERROR and goes back to reading.
GiveUp ==
    /\ SendThen("loop")
    /\ request' = NoRequest
    /\ prepared' = FALSE
    /\ claimed' = 0

-----------------------------------------------------------------------------
(* SendMessage holds sendMutex_ while send() blocks: until the client reads, *)
(* or its end of the connection goes away.                                   *)

Send ==
    /\ control = "send"
    /\ sendMutex = "free"
    /\ sendMutex' = "control"
    /\ Goto("sending")
    /\ UNCHANGED <<elsewhere, socketVars, streamVars, pipeVars, launchEpoch,
                   displayVars, capturing, dying, inputVars, requestVars, outside>>

Sent ==
    /\ control = "sending"
    /\ sendMutex' = "free"
    /\ control' = afterSend
    /\ afterSend' = "loop"
    /\ UNCHANGED afterStop
    /\ UNCHANGED <<elsewhere, socketVars, streamVars, pipeVars, launchEpoch,
                   displayVars, capturing, dying, inputVars, requestVars, outside>>

-----------------------------------------------------------------------------
(* Session::StopStreaming.  The objects are destroyed after mutex_ is        *)
(* released, because a frame callback may be waiting for it.                 *)

DropPipeline ==
    /\ control = "drop"
    /\ TakePipeline
    /\ Goto("destroy")
    /\ UNCHANGED <<elsewhere, sendMutex, socketVars, streamVars, launchEpoch,
                   displayVars, capturing, requestVars, outside>>

StreamingStopped ==
    /\ dying' = 0
    /\ control' = afterStop
    /\ afterStop' = "stopped"
    /\ UNCHANGED afterSend

\* WindowCapture::Stop: return at once if the capture is not running, which is
\* also so once its window has closed.
StopCapture ==
    /\ control = "destroy"
    /\ capturing' = capturing \ {dying}
    /\ IF dying \in capturing
         THEN Goto("revoke") /\ UNCHANGED dying
         ELSE StreamingStopped
    /\ UNCHANGED <<elsewhere, sendMutex, socketVars, streamVars, pipeVars,
                   launchEpoch, displayVars, inputVars, requestVars, outside>>

\* Mutant of Revoke: the callbacks in flight are not waited for.
RevokeAtOnce ==
    /\ control = "revoke"
    /\ StreamingStopped
    /\ UNCHANGED <<elsewhere, sendMutex, socketVars, streamVars, pipeVars,
                   launchEpoch, displayVars, capturing, inputVars, requestVars,
                   outside>>

\* Unregister the events, which waits for their handlers, and destroy.
Revoke ==
    /\ control = "revoke"
    /\ StopWaits => Quiet(dying)
    /\ StreamingStopped
    /\ UNCHANGED <<elsewhere, sendMutex, socketVars, streamVars, pipeVars,
                   launchEpoch, displayVars, capturing, inputVars, requestVars,
                   outside>>

\* The end of STOP, or of a client that left while streaming: StopSession
\* restores the displays, then ReleaseHeldButtons lifts what is still down.
Stopped ==
    /\ control \in {"stopped", "parted"}
    /\ RestoreDisplays
    /\ ReleaseHeldButtons
    /\ Goto(IF control = "stopped" THEN "loop" ELSE "close")
    /\ UNCHANGED <<elsewhere, sendMutex, socketVars, streamVars, pipeVars,
                   launchEpoch, capturing, dying, padHeld, requestVars, outside>>

-----------------------------------------------------------------------------
(* AcceptLoop and ClientLoop.                                                *)

\* accept() returns a client; video will go back to where it came from, on a
\* port only START or LAUNCH will say.
Accept ==
    /\ control = "accept"
    /\ serverRunning
    /\ connections < MaxConnections
    /\ connections' = connections + 1
    /\ peerUp' = TRUE
    /\ destination' = [to |-> connections + 1, port |-> FALSE]
    /\ Goto("register")
    /\ UNCHANGED <<elsewhere, sendMutex, clientSocket, clientConnected,
                   streamVars, pipeVars, launchEpoch, displayVars, capturing,
                   dying, inputVars, requestVars, requests, sessions>>

\* The listening socket is closed, or the loop's own test fails.
AcceptEnds ==
    /\ control = "accept"
    /\ ~serverRunning
    /\ Goto("done")
    /\ UNCHANGED <<elsewhere, sendMutex, socketVars, streamVars, pipeVars,
                   launchEpoch, displayVars, capturing, dying, inputVars,
                   requestVars, outside>>

Register ==
    /\ control = "register"
    /\ sendMutex = "free"
    /\ clientSocket' = connections
    /\ Goto("connect")
    /\ UNCHANGED <<elsewhere, sendMutex, clientConnected, destination,
                   streamVars, pipeVars, launchEpoch, displayVars, capturing,
                   dying, inputVars, requestVars, outside>>

Connect ==
    /\ control = "connect"
    /\ clientConnected' = TRUE
    /\ Goto("loop")
    /\ UNCHANGED <<elsewhere, sendMutex, clientSocket, destination, streamVars,
                   pipeVars, launchEpoch, displayVars, capturing, dying,
                   inputVars, requestVars, outside>>

ClientLoop ==
    /\ control = "loop"
    /\ Goto(IF serverRunning THEN "recv" ELSE "bye")
    /\ UNCHANGED <<elsewhere, sendMutex, socketVars, streamVars, pipeVars,
                   launchEpoch, displayVars, capturing, dying, inputVars,
                   requestVars, outside>>

\* recv() fails: the client left, Shutdown closed the socket, or the frame's
\* length was absurd.
RecvFails ==
    /\ control = "recv"
    /\ Goto("bye")
    /\ UNCHANGED <<elsewhere, sendMutex, socketVars, streamVars, pipeVars,
                   launchEpoch, displayVars, capturing, dying, inputVars,
                   requestVars, outside>>

\* After ClientLoop: a stream still on is stopped, and buttons are released
\* whether or not there was one.
Bye ==
    /\ control = "bye"
    /\ IF streaming
         THEN /\ launchEpoch' = launchEpoch + 1
              /\ StopThen("parted")
              /\ UNCHANGED mouseHeld
         ELSE /\ ReleaseHeldButtons
              /\ Goto("close")
              /\ UNCHANGED launchEpoch
    /\ streaming' = FALSE
    /\ UNCHANGED <<elsewhere, sendMutex, socketVars, frameNumber, pipeVars,
                   displayVars, capturing, dying, padHeld, requestVars, outside>>

CloseClient ==
    /\ control = "close"
    /\ sendMutex = "free"
    /\ clientSocket' = 0
    /\ clientConnected' = FALSE
    /\ Goto("accept")
    /\ UNCHANGED <<elsewhere, sendMutex, destination, streamVars, pipeVars,
                   launchEpoch, displayVars, capturing, dying, inputVars,
                   requestVars, outside>>

-----------------------------------------------------------------------------
(* HandleMessage.                                                            *)

\* recv() returns a whole message.
Received == control = "recv" /\ clientSocket # 0 /\ peerUp

\* HELLO, COVER_REQUEST and PING are answered; so, with ERROR, are a START or
\* LAUNCH that does not parse or names an unknown codec.
HandleQuery ==
    /\ Received
    /\ SendThen("loop")
    /\ UNCHANGED <<elsewhere, sendMutex, socketVars, streamVars, pipeVars,
                   launchEpoch, displayVars, capturing, dying, inputVars,
                   requestVars, outside>>

\* GAMEPAD replaces the pad's whole state, or ViGEm refuses it; MOUSE_BUTTON
\* presses or lifts one button, or Windows swallows it.
HandleInput ==
    /\ Received
    /\ \/ /\ "pad" \in ClientInputs
          /\ padHeld' \in {"none", "held", padHeld}
          /\ UNCHANGED mouseHeld
       \/ /\ "mouse" \in ClientInputs
          /\ mouseHeld' \in IF mouseHeld = "none" THEN {"none", "held"} ELSE InputStates
          /\ UNCHANGED padHeld
    /\ Goto("loop")
    /\ UNCHANGED <<elsewhere, sendMutex, socketVars, streamVars, pipeVars,
                   launchEpoch, displayVars, capturing, dying, requestVars, outside>>

HandleRequestIdr ==
    /\ Received
    /\ Goto("idr")
    /\ UNCHANGED <<elsewhere, sendMutex, socketVars, streamVars, pipeVars,
                   launchEpoch, displayVars, capturing, dying, inputVars,
                   requestVars, outside>>

HandleStop ==
    /\ Received
    /\ requests < MaxRequests
    /\ requests' = requests + 1
    /\ IF streaming
         THEN /\ launchEpoch' = launchEpoch + 1
              /\ StopThen("stopped")
              /\ UNCHANGED mouseHeld
         ELSE /\ ReleaseHeldButtons
              /\ Goto("loop")
              /\ UNCHANGED launchEpoch
    /\ streaming' = FALSE
    /\ UNCHANGED <<elsewhere, sendMutex, socketVars, frameNumber, pipeVars,
                   displayVars, capturing, dying, padHeld, requestVars, peerUp,
                   connections, sessions>>

\* HandleStart and HandleLaunch up to the callback: the destination's port is
\* set before anything of the previous session is stopped.
HandleRequest(kind, sized) ==
    /\ Received
    /\ requests < MaxRequests
    /\ requests' = requests + 1
    /\ request' = [kind |-> kind, sized |-> sized]
    /\ prepared' = FALSE
    /\ destination' = [destination EXCEPT !.port = TRUE]
    /\ Goto(IF kind = "start" THEN "startSession" ELSE "launch")
    /\ UNCHANGED <<elsewhere, sendMutex, clientSocket, clientConnected,
                   streamVars, pipeVars, launchEpoch, displayVars, capturing,
                   dying, inputVars, claimed, peerUp, connections, sessions>>

-----------------------------------------------------------------------------
(* Session::StartSession.                                                    *)

WillCreateDisplay == ~prepared /\ UseVirtualDisplay /\ request.sized

\* A START whose size is out of range is refused before anything is touched.  A
\* LAUNCH that gets here had its size checked already.
StartRefused ==
    /\ control = "startSession"
    /\ WillCreateDisplay
    /\ request.kind = "start"
    /\ GiveUp
    /\ UNCHANGED <<elsewhere, sendMutex, socketVars, streamVars, pipeVars,
                   launchEpoch, displayVars, capturing, dying, inputVars, outside>>

\* StopStreaming onto a prepared display, otherwise StopSession.
StartSession ==
    /\ control = "startSession"
    /\ launchEpoch' = IF prepared THEN launchEpoch ELSE launchEpoch + 1
    /\ StopThen("window")
    /\ UNCHANGED <<elsewhere, sendMutex, socketVars, streamVars, pipeVars,
                   displayVars, capturing, dying, inputVars, requestVars, outside>>

\* What is left of StopSession is its RestoreDisplays; a window that is gone
\* restores them on the launch path too.
FindWindow ==
    /\ control = "window"
    /\ \/ GiveUp /\ RestoreDisplays
       \/ /\ IF prepared THEN UNCHANGED displayVars ELSE RestoreDisplays
          /\ Goto(IF WillCreateDisplay THEN "startDisplay" ELSE "pipeline")
          /\ UNCHANGED requestVars
    /\ UNCHANGED <<elsewhere, sendMutex, socketVars, streamVars, pipeVars,
                   launchEpoch, capturing, dying, inputVars, outside>>

\* PrepareVirtualDisplay and DetachPhysicalDisplays back to back, each of them
\* best effort.
StartDisplay ==
    /\ control = "startDisplay"
    /\ \/ PrepareVirtualDisplay(FALSE)
       \/ /\ virtualDisplay' = TRUE
          /\ topologyChanged' = TRUE
          /\ displaysDetached' \in {displaysDetached, TRUE}
    /\ Goto("pipeline")
    /\ UNCHANGED <<elsewhere, sendMutex, socketVars, streamVars, pipeVars,
                   launchEpoch, capturing, dying, inputVars, requestVars, outside>>

\* The section under mutex_: no capture, no client area or no encoder...
PipelineFails ==
    /\ control = "pipeline"
    /\ MutexFree
    /\ RestoreDisplays
    /\ GiveUp
    /\ UNCHANGED <<elsewhere, sendMutex, socketVars, streamVars, pipeVars,
                   launchEpoch, capturing, dying, inputVars, outside>>

\* ...or both, and the capture is started.
StartPipeline ==
    /\ control = "pipeline"
    /\ MutexFree
    /\ sessions < MaxSessions
    /\ sessions' = sessions + 1
    /\ capture' = sessions + 1
    /\ encoder' = sessions + 1
    /\ capturing' = capturing \cup {sessions + 1}
    /\ forceIdr' = TRUE
    /\ hasFrame' = FALSE
    /\ startedFor' = connections
    /\ idrServed' = FALSE
    /\ Goto("renumber")
    /\ UNCHANGED <<elsewhere, sendMutex, socketVars, streamVars, launchEpoch,
                   displayVars, dying, inputVars, requestVars, peerUp,
                   connections, requests>>

-----------------------------------------------------------------------------
(* The rest of HandleStart and HandleLaunch.                                 *)

\* Mutant of Renumber: pre- and post-increment confused.
RenumberBelowZero ==
    /\ control = "renumber"
    /\ frameNumber' = 0 - 1
    /\ Goto("goLive")
    /\ UNCHANGED <<elsewhere, sendMutex, socketVars, streaming, pipeVars,
                   launchEpoch, displayVars, capturing, dying, inputVars,
                   requestVars, outside>>

\* frameNumber_ = 0.
Renumber ==
    /\ control = "renumber"
    /\ frameNumber' = 0
    /\ Goto("goLive")
    /\ UNCHANGED <<elsewhere, sendMutex, socketVars, streaming, pipeVars,
                   launchEpoch, displayVars, capturing, dying, inputVars,
                   requestVars, outside>>

\* Mutant of GoLive: STARTED is the last thing the handler does.
GoLiveWithoutIdr ==
    /\ control = "goLive"
    /\ streaming' = TRUE
    /\ GiveUp
    /\ UNCHANGED <<elsewhere, sendMutex, socketVars, frameNumber, pipeVars,
                   launchEpoch, displayVars, capturing, dying, inputVars, outside>>

\* streaming_ = true, then STARTED.
GoLive ==
    /\ control = "goLive"
    /\ streaming' = TRUE
    /\ SendThen("idr")
    /\ request' = NoRequest
    /\ prepared' = FALSE
    /\ claimed' = 0
    /\ UNCHANGED <<elsewhere, sendMutex, socketVars, frameNumber, pipeVars,
                   launchEpoch, displayVars, capturing, dying, inputVars, outside>>

\* callbacks_.onRequestIdr.
RequestIdr ==
    /\ control = "idr"
    /\ MutexFree
    /\ forceIdr' = (encoder # 0)
    /\ Goto("loop")
    /\ UNCHANGED <<elsewhere, sendMutex, socketVars, streamVars, capture,
                   encoder, hasFrame, startedFor, idrServed, launchEpoch,
                   displayVars, capturing, dying, inputVars, requestVars, outside>>

-----------------------------------------------------------------------------
(* Session::LaunchAndStreamInner.                                            *)

UseDisplay == UseVirtualDisplay /\ request.sized

LaunchRefused ==
    /\ control = "launch"
    /\ UseDisplay
    /\ GiveUp
    /\ UNCHANGED <<elsewhere, sendMutex, socketVars, streamVars, pipeVars,
                   launchEpoch, displayVars, capturing, dying, inputVars, outside>>

\* Claim an epoch, then end the previous session.
Launch ==
    /\ control = "launch"
    /\ launchEpoch' = launchEpoch + 1
    /\ claimed' = launchEpoch + 1
    /\ StopThen("note")
    /\ UNCHANGED <<elsewhere, sendMutex, socketVars, streamVars, pipeVars,
                   displayVars, capturing, dying, inputVars, request, prepared,
                   outside>>

\* The displays go back, the windows already open are noted, and a locked
\* session is unlocked first.
NoteWindows ==
    /\ control = "note"
    /\ RestoreDisplays
    /\ Goto("prepare") \/ SendThen("unlock")
    /\ UNCHANGED <<elsewhere, sendMutex, socketVars, streamVars, pipeVars,
                   launchEpoch, capturing, dying, inputVars, requestVars, outside>>

Unlock ==
    /\ control = "unlock"
    /\ \/ Goto("prepare") /\ UNCHANGED requestVars
       \/ GiveUp
    /\ UNCHANGED <<elsewhere, sendMutex, socketVars, streamVars, pipeVars,
                   launchEpoch, displayVars, capturing, dying, inputVars, outside>>

Prepare ==
    /\ control = "prepare"
    /\ SendThen(IF UseDisplay THEN "display" ELSE "run")
    /\ UNCHANGED <<elsewhere, sendMutex, socketVars, streamVars, pipeVars,
                   launchEpoch, displayVars, capturing, dying, inputVars,
                   requestVars, outside>>

LaunchDisplay ==
    /\ control = "display"
    /\ \E ok \in BOOLEAN : PrepareVirtualDisplay(ok) /\ prepared' = ok
    /\ SendThen("run")
    /\ UNCHANGED <<elsewhere, sendMutex, socketVars, streamVars, pipeVars,
                   launchEpoch, capturing, dying, inputVars, request, claimed,
                   outside>>

\* GameLibrary::Launch.
RunGame ==
    /\ control = "run"
    /\ \/ SendThen("waiting") /\ UNCHANGED <<requestVars, displayVars>>
       \/ GiveUp /\ RestoreDisplays
    /\ UNCHANGED <<elsewhere, sendMutex, socketVars, streamVars, pipeVars,
                   launchEpoch, capturing, dying, inputVars, outside>>

\* WaitForNewGameWindow finds one: the physical displays can go now.
WindowAppears ==
    /\ control = "waiting"
    /\ IF prepared
         THEN displaysDetached' \in {displaysDetached, TRUE}
         ELSE UNCHANGED displaysDetached
    /\ SendThen("startSession")
    /\ UNCHANGED <<elsewhere, sendMutex, socketVars, streamVars, pipeVars,
                   launchEpoch, virtualDisplay, topologyChanged, capturing,
                   dying, inputVars, requestVars, outside>>

\* It returns without one: the launch was abandoned...
LaunchAbandoned ==
    /\ control = "waiting"
    /\ launchEpoch # claimed
    /\ RestoreDisplays
    /\ GiveUp
    /\ UNCHANGED <<elsewhere, sendMutex, socketVars, streamVars, pipeVars,
                   launchEpoch, capturing, dying, inputVars, outside>>

\* ...or kLaunchTimeoutSeconds have passed.
LaunchTimesOut ==
    /\ control = "waiting"
    /\ RestoreDisplays
    /\ GiveUp
    /\ UNCHANGED <<elsewhere, sendMutex, socketVars, streamVars, pipeVars,
                   launchEpoch, capturing, dying, inputVars, outside>>

-----------------------------------------------------------------------------
Control ==
    \/ Send \/ Sent \/ DropPipeline \/ StopCapture \/ Revoke \/ Stopped
    \/ Accept \/ AcceptEnds \/ Register \/ Connect \/ ClientLoop \/ RecvFails
    \/ Bye \/ CloseClient
    \/ HandleQuery \/ HandleInput \/ HandleRequestIdr \/ HandleStop
    \/ \E kind \in {"start", "launch"}, sized \in BOOLEAN : HandleRequest(kind, sized)
    \/ StartRefused \/ StartSession \/ FindWindow \/ StartDisplay
    \/ PipelineFails \/ StartPipeline \/ Renumber \/ GoLive \/ RequestIdr
    \/ LaunchRefused \/ Launch \/ NoteWindows \/ Unlock \/ Prepare
    \/ LaunchDisplay \/ RunGame \/ WindowAppears
    \/ LaunchAbandoned \/ LaunchTimesOut
=============================================================================
