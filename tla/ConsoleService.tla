---------------------------- MODULE ConsoleService ----------------------------
(***************************************************************************)
(* The web console's thread (web_console.cpp and the callbacks RunServer   *)
(* gives it), `thorstream-host --stop', the whole next-state relation of a *)
(* host process and what is asked of it.                                   *)
(*                                                                         *)
(* The thread serves one request after the other, inline: while it waits   *)
(* for a browser that sends nothing, for one that does not read its answer *)
(* or for the library's helper, nobody else is served, and the process     *)
(* cannot end either.  No fairness is assumed of those three.              *)
(***************************************************************************)
EXTENDS HostProcess

\* accept() returns a browser.
Accept(h) ==
    /\ web[h] = "accept"
    /\ WebRunning(h)
    /\ WebTo(h, "recv")
    /\ UNCHANGED <<lockVars, main, serviceVars, cover, spoilt, deskVars, boundVars>>

\* The listener is closed: accept() fails, and running_ is false.
AcceptEnds(h) ==
    /\ web[h] = "accept"
    /\ ~WebRunning(h)
    /\ WebTo(h, "done")
    /\ UNCHANGED <<lockVars, main, serviceVars, cover, spoilt, deskVars, boundVars>>

\* HandleConnection drops a browser that hung up, sent something else or
\* announced more than 16 MB.
Drop(h) ==
    /\ web[h] = "recv"
    /\ WebTo(h, "accept")
    /\ UNCHANGED <<lockVars, main, serviceVars, cover, spoilt, deskVars, boundVars>>

\* GET /status, under serviceMutex, and the pages that ask nothing of the host.
Status(h) ==
    /\ web[h] = "recv"
    /\ ServiceMutexFree(h)
    /\ WebTo(h, "reply")
    /\ UNCHANGED <<lockVars, main, serviceVars, cover, spoilt, deskVars, boundVars>>

\* GET /games reads the library; /cover and /art do while it is empty.
Games(h) ==
    /\ web[h] = "recv"
    /\ WebTo(h, "library")
    /\ UNCHANGED <<lockVars, main, serviceVars, cover, spoilt, deskVars, boundVars>>

GamesRead(h) ==
    /\ web[h] = "library"
    /\ WebTo(h, "reply")
    /\ UNCHANGED <<lockVars, main, serviceVars, cover, spoilt, deskVars, boundVars>>

StartFor(h) ==
    /\ \E up \in BOOLEAN : StartService(h, up)
    /\ WebTo(h, "reply")
    /\ UNCHANGED <<lockVars, main, cover, spoilt, boundVars>>

\* POST /start.
Start(h) == web[h] = "recv" /\ StartFor(h)

\* POST /stop and /restart: stopService, which returns at once or waits.
Stop(h) ==
    /\ web[h] = "recv"
    /\ \E restart \in BOOLEAN :
          \/ BeginStop(h) /\ WebTo(h, IF restart THEN "restopping" ELSE "stopping")
          \/ /\ session[h] = "none" /\ ServiceMutexFree(h)
             /\ WebTo(h, IF restart THEN "starting" ELSE "reply")
             /\ UNCHANGED <<serviceVars, deskVars>>
    /\ UNCHANGED <<lockVars, main, cover, spoilt, boundVars>>

Stopped(h) ==
    /\ \/ web[h] = "stopping" /\ WebTo(h, "reply")
       \/ web[h] = "restopping" /\ WebTo(h, "starting")
    /\ FinishStop(h)
    /\ UNCHANGED <<lockVars, main, cover, spoilt, boundVars>>

\* The second half of /restart.
Restart(h) == web[h] = "starting" /\ StartFor(h)

\* POST /cover: CoverStore::Save refuses, or truncates the file that is there
\* and then writes.
SaveCover(h) ==
    /\ web[h] = "recv"
    /\ \/ WebTo(h, "reply") /\ UNCHANGED <<cover, spoilt>>
       \/ WebTo(h, "reply") /\ cover' = "bad" /\ spoilt' = TRUE
       \/ WebTo(h, "probe") /\ cover' \in {"fine", "bad"} /\ spoilt' = FALSE
    /\ UNCHANGED <<lockVars, main, serviceVars, deskVars, boundVars>>

\* CoverStore::Remove, when it succeeds.
RemoveCover == cover' = "fine" /\ spoilt' = FALSE

\* Mutant: a cover that does not decode is refused, and stays.
ProbeOnly(h) ==
    /\ web[h] = "probe"
    /\ WebTo(h, "reply")
    /\ UNCHANGED <<lockVars, main, serviceVars, cover, spoilt, deskVars, boundVars>>

\* The file as it now is must decode, or it is removed, if it can be.
ProbeCover(h) ==
    /\ web[h] = "probe"
    /\ WebTo(h, "reply")
    /\ \/ cover = "fine" /\ UNCHANGED <<cover, spoilt>>
       \/ cover = "bad" /\ RemoveCover
       \/ cover = "bad" /\ UNCHANGED cover /\ spoilt' = TRUE
    /\ UNCHANGED <<lockVars, main, serviceVars, deskVars, boundVars>>

\* POST /cover/clear.
ClearCover(h) ==
    /\ web[h] = "recv"
    /\ WebTo(h, "reply")
    /\ RemoveCover \/ UNCHANGED <<cover, spoilt>>
    /\ UNCHANGED <<lockVars, main, serviceVars, deskVars, boundVars>>

\* The response is sent and the socket closed.
Reply(h) ==
    /\ web[h] = "reply"
    /\ WebTo(h, "accept")
    /\ UNCHANGED <<lockVars, main, serviceVars, cover, spoilt, deskVars, boundVars>>

\* The steps that wait for nobody outside the process.
WebStep(h) == AcceptEnds(h) \/ Stopped(h) \/ Restart(h) \/ ProbeCover(h)

\* HandleConnection, once it has the headers and the body.
HandleConnection(h) ==
    \/ Drop(h) \/ Status(h) \/ Games(h)
    \/ Start(h) \/ Stop(h)
    \/ SaveCover(h) \/ ClearCover(h)

-----------------------------------------------------------------------------
(* RunStop, in a process of its own.                                       *)

StopTo(label) ==
    /\ stop' = label
    /\ UNCHANGED <<main, serviceVars, consoleVars, deskVars, kills>>

\* OpenEventW finds no event, or gives a handle that keeps it alive.
OpenEvent ==
    /\ stop = "idle"
    /\ \/ event = {} /\ StopTo("done") /\ UNCHANGED event
       \/ event # {} /\ StopTo("set") /\ event' = event \cup {Stopper}
    /\ UNCHANGED <<singleton, signalled>>

SetStopEvent ==
    /\ stop = "set"
    /\ signalled' = TRUE
    /\ StopTo("close")
    /\ UNCHANGED <<singleton, event>>

CloseStopEvent ==
    /\ stop = "close"
    /\ event' = event \ {Stopper}
    /\ signalled' = (signalled /\ event' # {})
    /\ StopTo("poll")
    /\ UNCHANGED singleton

\* CreateMutexW: without an owner, the host is gone; ten seconds of this.
LookForHost ==
    /\ stop = "poll"
    /\ singleton' = singleton \cup {Stopper}
    /\ StopTo(IF singleton = {} THEN "claimed" ELSE "seen")
    /\ UNCHANGED <<event, signalled>>

LookedForHost ==
    /\ \/ stop = "claimed" /\ StopTo("done")
       \/ stop = "seen" /\ \E next \in {"poll", "done"} : StopTo(next)
    /\ singleton' = singleton \ {Stopper}
    /\ UNCHANGED <<event, signalled>>

-----------------------------------------------------------------------------
\* A step of the desk: nothing of the process but its network thread moves.
DeskOnly == UNCHANGED <<lockVars, main, serviceVars, consoleVars, boundVars>>

NetWorks(h)  == NetStep(h) /\ DeskOnly
NetServes(h) == (NetInput(h) \/ LibraryRead(h)) /\ DeskOnly
StopRuns     == OpenEvent \/ SetStopEvent \/ CloseStopEvent \/ LookForHost \/ LookedForHost

HostStep(h) ==
    \/ AcquireSingleInstanceLock(h)
    \/ MainStep(h)
    \/ ConsoleHandler(h)
    \/ Kill(h)
    \/ Accept(h) \/ HandleConnection(h) \/ GamesRead(h) \/ Reply(h)
    \/ WebStep(h)
    \/ NetEnds(h) \/ NetWorks(h) \/ NetServes(h)

Next == StopRuns \/ \E h \in Hosts : HostStep(h)

Spec == Init /\ [][Next]_vars

\* Every thread runs.  Nothing is assumed of browsers, of the client, of the
\* library's helper, of the unlock task, or that anybody starts a host.
FairSpec ==
    /\ Spec
    /\ \A h \in Hosts :
          /\ WF_vars(MainStep(h))
          /\ WF_vars(WebStep(h))
          /\ WF_vars(NetEnds(h) \/ NetWorks(h))

-----------------------------------------------------------------------------
TypeOK ==
    /\ singleton \subseteq Hosts \cup {Stopper}
    /\ event \subseteq Hosts \cup {Stopper}
    /\ signalled \in BOOLEAN
    /\ main \in [Hosts -> MainLabels]
    /\ session \in [Hosts -> SessionStates]
    /\ discovery \in [Hosts -> BOOLEAN]
    /\ web \in [Hosts -> WebLabels]
    /\ cover \in {"fine", "bad"}
    /\ spoilt \in BOOLEAN
    /\ net \in [Hosts -> NetLabels]
    /\ hand \in [Hosts -> Buttons]
    /\ held \in [Hosts -> SUBSET Buttons]
    /\ down \subseteq Buttons
    /\ lost \subseteq Buttons
    /\ stop \in StopLabels
    /\ kills \in 0 .. MaxKills

\* Two hosts never serve at once, whatever way the first one goes and whoever
\* takes the service up or down; discovery answers only for a service that is
\* up; and the pad outlives the thread that reports to it
\* (AcquireSingleInstanceLock, RunServer).
OneService ==
    /\ \A h, i \in Hosts :
          session[h] # "none" /\ session[i] # "none" => h = i
    /\ \A h \in Hosts :
          /\ discovery[h] => session[h] = "up"
          /\ net[h] # "none" =>
                session[h] # "none" /\ main[h] \notin {"unplug", "exit", "ended"}

\* A button that is down is in g_heldButtons of a host, whose next release
\* lifts it; or the host that held it is gone, or a swallowed press made it
\* forget (MouseButtonEvent, ReleaseHeldButtons, Session::Shutdown).
DownIsRemembered == down \subseteq lost \cup UNION {held[h] : h \in Hosts}

\* The custom cover of a game decodes, or there is none, unless a write broke
\* off, a removal failed or the host was killed in between (console.setCover).
CoverDecodes == cover = "bad" => spoilt \/ \E h \in Hosts : web[h] = "probe"

\* Outsiders do not keep the process waiting for ever.
Answered(h) ==
    /\ []<>(web[h] \notin {"recv", "reply", "library"})
    /\ []<>(net[h] # "library")

\* A host that is asked to stop ends, unless an outsider stalls it for ever
\* (RunStop, ConsoleHandler, and RunServer after the wait).
StopIsObeyed ==
    \A h \in Hosts :
        Answered(h) => (main[h] = "park" /\ signalled ~> main[h] = "ended")

\* A request that takes the service down or brings it up is answered, also
\* under a client that is launching (stopService, Session::Shutdown).
ConsoleAnswers ==
    \A h \in Hosts :
        web[h] \in {"stopping", "restopping", "starting"}
            ~> web[h] \in {"reply", "none"} \/ net[h] = "library"
=============================================================================
