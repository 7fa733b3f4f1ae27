--------------------------- MODULE StreamPipeline ----------------------------
(***************************************************************************)
(* Frames: the capture callbacks, the keepalive thread, and the section of *)
(* Session::mutex_ in which either of them encodes a frame and hands the   *)
(* packet to StreamServer::SendVideoFrame.                                 *)
(***************************************************************************)
EXTENDS HostState

\* Leave the section: whoever is inside goes back where it came from.
LeaveSection ==
    /\ mutex' = "free"
    /\ stage' = "check"
    /\ keyPacket' = FALSE
    /\ frameCallback' =
         [s \in Sessions |-> IF frameCallback[s] = "inside" THEN "none" ELSE frameCallback[s]]
    /\ keepalive' = IF keepalive = "inside" THEN "poll" ELSE keepalive

\* NvencEncoder::RepeatLastFrame called by `who' with encoder_ set.  The picture
\* may not be encoded at all; it may be encoded and its bitstream not locked,
\* which has consumed the IDR request; or a packet is delivered, and the
\* caller keeps mutex_ while it sends it.
EncodePicture(who) ==
    \/ UNCHANGED <<forceIdr, idrServed, sectionVars>>
    \/ /\ forceIdr' = FALSE
       /\ idrServed' = (idrServed \/ forceIdr)
       /\ UNCHANGED sectionVars
    \/ /\ forceIdr' = FALSE
       /\ mutex' = who
       /\ stage' = "check"
       /\ keyPacket' = forceIdr
       /\ UNCHANGED idrServed

Delivered == mutex' # "free"

-----------------------------------------------------------------------------
\* WindowCapture::OnFrameArrived: a frame is taken while running_ is true, and
\* the callback copied out.  One at a time per capture.
FrameArrives(s) ==
    /\ s \in capturing
    /\ frameCallback[s] = "none"
    /\ frameNumber < MaxFrame
    /\ frameCallback' = [frameCallback EXCEPT ![s] = "arrived"]
    /\ UNCHANGED <<serverVars, sendMutex, sectionVars, pipeVars, launchEpoch,
                   sessionRunning, displayVars, capturing, closed,
                   closedCallback, inputVars, controlVars, keepalive, owner,
                   dying, peerUp, boundVars>>

\* Session::OnCapturedFrame up to the packet.  Nothing happens without an
\* encoder, or when EncodeFrame refuses an empty crop or a frame it cannot scale.
OnCapturedFrame(s) ==
    /\ frameCallback[s] = "arrived"
    /\ MutexFree
    /\ \/ UNCHANGED <<forceIdr, hasFrame, idrServed, sectionVars>>
       \/ /\ encoder # 0
          /\ hasFrame' = TRUE
          /\ EncodePicture("capture")
    /\ frameCallback' = [frameCallback EXCEPT ![s] = IF Delivered THEN "inside" ELSE "none"]
    /\ UNCHANGED <<serverVars, sendMutex, capture, encoder, startedFor,
                   launchEpoch, sessionRunning, displayVars, capturing, closed,
                   closedCallback, inputVars, controlVars, keepalive, owner,
                   dying, peerUp, boundVars>>

\* Session::KeepaliveLoop: awake, streaming, and the last frame old enough.
KeepaliveDue ==
    /\ keepalive = "poll"
    /\ sessionRunning
    /\ streaming
    /\ frameNumber < MaxFrame
    /\ keepalive' = "want"
    /\ UNCHANGED <<serverVars, sendMutex, sectionVars, pipeVars, launchEpoch,
                   sessionRunning, displayVars, captureVars, inputVars,
                   controlVars, owner, dying, peerUp, boundVars>>

\* ...and the locked part: nothing without an encoder that has had a frame.
KeepaliveRepeat ==
    /\ keepalive = "want"
    /\ MutexFree
    /\ \/ /\ encoder = 0 \/ ~hasFrame
          /\ UNCHANGED <<forceIdr, idrServed, sectionVars>>
       \/ /\ encoder # 0 /\ hasFrame
          /\ EncodePicture("keepalive")
    /\ keepalive' = IF Delivered THEN "inside" ELSE "poll"
    /\ UNCHANGED <<serverVars, sendMutex, capture, encoder, hasFrame,
                   startedFor, launchEpoch, sessionRunning, displayVars,
                   captureVars, inputVars, controlVars, owner, dying, peerUp,
                   boundVars>>

KeepaliveExits ==
    /\ keepalive = "poll"
    /\ ~sessionRunning
    /\ keepalive' = "done"
    /\ UNCHANGED <<serverVars, sendMutex, sectionVars, pipeVars, launchEpoch,
                   sessionRunning, displayVars, captureVars, inputVars,
                   controlVars, owner, dying, peerUp, boundVars>>

-----------------------------------------------------------------------------
\* StreamServer::SendVideoFrame, the streaming_ test made before videoMutex_.
CheckStreaming ==
    /\ mutex # "free"
    /\ stage = "check"
    /\ IF streaming
         THEN /\ stage' = "send"
              /\ idrServed' = (idrServed \/ keyPacket)
              /\ UNCHANGED <<mutex, keyPacket, frameCallback, keepalive>>
         ELSE /\ LeaveSection
              /\ UNCHANGED idrServed
    /\ UNCHANGED <<serverVars, sendMutex, capture, encoder, forceIdr, hasFrame,
                   startedFor, launchEpoch, sessionRunning, displayVars,
                   capturing, closed, closedCallback, inputVars, controlVars,
                   owner, dying, peerUp, boundVars>>

\* ...and the rest, under videoMutex_: number the frame and send its fragments.
SendVideoFrame ==
    /\ mutex # "free"
    /\ stage = "send"
    /\ frameNumber' = IF videoOpen /\ destination.port THEN frameNumber + 1 ELSE frameNumber
    /\ LeaveSection
    /\ UNCHANGED <<serverRunning, clientSocket, clientConnected, streaming,
                   destination, videoOpen, sendMutex, pipeVars, launchEpoch,
                   sessionRunning, displayVars, capturing, closed,
                   closedCallback, inputVars, controlVars, owner, dying, peerUp,
                   boundVars>>

-----------------------------------------------------------------------------
\* The captured window closes: the handler clears running_, then reports it.
WindowCloses(s) ==
    /\ s \in capturing \cup Revoking
    /\ s \notin closed
    /\ capturing' = capturing \ {s}
    /\ closed' = closed \cup {s}
    /\ closedCallback' = [closedCallback EXCEPT ![s] = "notify"]
    /\ UNCHANGED <<serverVars, sendMutex, sectionVars, pipeVars, launchEpoch,
                   sessionRunning, displayVars, frameCallback, inputVars,
                   controlVars, keepalive, owner, dying, peerUp, boundVars>>

\* Session's ClosedCallback: SendError("the captured window was closed"), which
\* takes sendMutex_ and keeps it while send() blocks.
ReportClosed(s) ==
    /\ closedCallback[s] = "notify"
    /\ sendMutex = "free"
    /\ sendMutex' = "closing"
    /\ closedCallback' = [closedCallback EXCEPT ![s] = "sending"]
    /\ UNCHANGED <<serverVars, sectionVars, pipeVars, launchEpoch,
                   sessionRunning, displayVars, capturing, closed,
                   frameCallback, inputVars, controlVars, keepalive, owner,
                   dying, peerUp, boundVars>>

ClosedReported(s) ==
    /\ closedCallback[s] = "sending"
    /\ sendMutex' = "free"
    /\ closedCallback' = [closedCallback EXCEPT ![s] = "done"]
    /\ UNCHANGED <<serverVars, sectionVars, pipeVars, launchEpoch,
                   sessionRunning, displayVars, capturing, closed,
                   frameCallback, inputVars, controlVars, keepalive, owner,
                   dying, peerUp, boundVars>>

Keepalive == KeepaliveDue \/ KeepaliveRepeat \/ KeepaliveExits
FrameSection == CheckStreaming \/ SendVideoFrame
=============================================================================
