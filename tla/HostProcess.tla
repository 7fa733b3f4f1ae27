----------------------------- MODULE HostProcess -----------------------------
(***************************************************************************)
(* The life of a host process (main.cpp: wmain, RunServer, RunStop): the   *)
(* single-instance lock, the named shutdown event, the virtual pad, the    *)
(* streaming service that main and the web console bring up and take down, *)
(* and the console's own thread (web_console.cpp), which serves one        *)
(* browser at a time and is joined before anything else stops.             *)
(*                                                                         *)
(* Several processes are modelled: a host, one started beside or after it, *)
(* and one `--stop'.  Kernel objects live as long as a handle on them      *)
(* does, so the lock and the event are the sets of their handles' owners.  *)
(***************************************************************************)
EXTENDS InputDesk, Naturals

CONSTANTS
    Stopper,    \* the process of `thorstream-host --stop'
    MaxKills    \* bound: host processes killed

ASSUME ProcessAssumption ==
    /\ Hosts \subseteq Nat /\ Stopper \notin Hosts
    /\ MaxKills \in Nat

VARIABLES
    singleton,  \* who holds a handle on Local\thorstream-host-singleton
    event,      \* who holds a handle on Local\thorstream-host-shutdown
    signalled,  \* the event is set
    main,       \* where each process's main thread is
    discovery,  \* the DiscoveryResponder answers probes
    web,        \* where the console's thread is
    cover,      \* one game's custom cover: absent or decodable, or neither
    spoilt,     \* history: that file is what a write that broke off left, a
                \* removal that failed, or a kill between save and check
    stop,       \* where --stop is
    kills

lockVars    == <<singleton, event, signalled>>
consoleVars == <<web, cover, spoilt>>
serviceVars == <<session, discovery>>
boundVars   == <<stop, kills>>
vars == <<lockVars, main, serviceVars, consoleVars, deskVars, boundVars>>

MainLabels == {"off", "giveUp", "event", "reset", "pad", "start", "console",
               "park", "hush", "join", "stop", "stopping", "unplug", "exit",
               "ended"}
WebLabels  == {"none", "accept", "recv", "library", "probe", "stopping",
               "restopping", "starting", "reply", "done"}
StopLabels == {"idle", "set", "close", "poll", "claimed", "seen", "done"}

Init ==
    /\ singleton = {} /\ event = {} /\ signalled = FALSE
    /\ main = [h \in Hosts |-> "off"]
    /\ session = [h \in Hosts |-> "none"]
    /\ discovery = [h \in Hosts |-> FALSE]
    /\ web = [h \in Hosts |-> "none"]
    /\ cover = "fine" /\ spoilt = FALSE
    /\ net = [h \in Hosts |-> "none"]
    /\ hand \in [Hosts -> Buttons]
    /\ held = [h \in Hosts |-> {}]
    /\ down = {} /\ lost = {}
    /\ stop = "idle" /\ kills = 0

MainTo(h, label) == main' = [main EXCEPT ![h] = label]
WebTo(h, label)  == web' = [web EXCEPT ![h] = label]

-----------------------------------------------------------------------------
(* wmain, up to RunServer.                                                 *)

\* Mutant: ERROR_ALREADY_EXISTS is not looked at.
AcquireRegardless(h) ==
    /\ main[h] = "off"
    /\ \A i \in Hosts : i < h => main[i] # "off"
    /\ singleton' = singleton \cup {h}
    /\ MainTo(h, "event")
    /\ UNCHANGED <<event, signalled, serviceVars, consoleVars, deskVars, boundVars>>

\* AcquireSingleInstanceLock: a mutex that exists already is another host's,
\* or belongs to a --stop that is looking whether there is one.
AcquireSingleInstanceLock(h) ==
    /\ main[h] = "off"
    /\ \A i \in Hosts : i < h => main[i] # "off"
    /\ singleton' = singleton \cup {h}
    /\ MainTo(h, IF singleton = {} THEN "event" ELSE "giveUp")
    /\ UNCHANGED <<event, signalled, serviceVars, consoleVars, deskVars, boundVars>>

GiveUp(h) ==
    /\ main[h] = "giveUp"
    /\ singleton' = singleton \ {h}
    /\ MainTo(h, "ended")
    /\ UNCHANGED <<event, signalled, serviceVars, consoleVars, deskVars, boundVars>>

\* CreateEventW opens the event a --stop still holds, set as it may be.
CreateShutdownEvent(h) ==
    /\ main[h] = "event"
    /\ event' \in {event \cup {h}, event}
    /\ MainTo(h, "reset")
    /\ UNCHANGED <<singleton, signalled, serviceVars, consoleVars, deskVars, boundVars>>

ResetShutdownEvent(h) ==
    /\ main[h] = "reset"
    /\ signalled' = (signalled /\ h \notin event)
    /\ MainTo(h, "pad")
    /\ UNCHANGED <<singleton, event, serviceVars, consoleVars, deskVars, boundVars>>

\* VirtualGamepad::Create, five attempts at it.
PlugPad(h) ==
    /\ main[h] = "pad"
    /\ MainTo(h, "start")
    /\ UNCHANGED <<lockVars, serviceVars, consoleVars, deskVars, boundVars>>

-----------------------------------------------------------------------------
(* startService and stopService, for whoever calls them.                   *)

\* serviceMutex: whoever waits inside stopService has it.
ServiceMutexFree(h) ==
    main[h] # "stopping" /\ web[h] \notin {"stopping", "restopping"}

\* DiscoveryResponder: a thread that answers every probe the same way, until Stop
\* has joined it, half a second later at most.  A host serves without it.
StartDiscovery(h) == \E d \in BOOLEAN : discovery' = [discovery EXCEPT ![h] = d]
StopDiscovery(h)  == discovery' = [discovery EXCEPT ![h] = FALSE]

\* startService answers whether the service is up: Serve may fail, over a port in
\* use.
StartService(h, up) ==
    /\ ServiceMutexFree(h)
    /\ IF session[h] # "none"
       THEN up /\ UNCHANGED <<session, discovery, net>>
       ELSE \/ /\ up
               /\ session' = [session EXCEPT ![h] = "up"]
               /\ net' = [net EXCEPT ![h] = "reading"]
               /\ StartDiscovery(h)
            \/ ~up /\ UNCHANGED <<session, discovery, net>>
    /\ UNCHANGED <<hand, held, down, lost>>

\* stopService, as far as the wait in Session::Shutdown.
BeginStop(h) ==
    /\ ServiceMutexFree(h)
    /\ session[h] # "none"
    /\ StopDiscovery(h)
    /\ session' = [session EXCEPT ![h] = "stopping"]
    /\ UNCHANGED deskVars

\* Mutant: the socket is closed after the join.
NetEndsLate(h) ==
    /\ net[h] = "reading"
    /\ session[h] = "none"
    /\ net' = [net EXCEPT ![h] = "none"]
    /\ UNCHANGED <<lockVars, main, serviceVars, consoleVars, hand, held,
                   down, lost, boundVars>>

\* The socket is closed, so the network thread's next read fails.
NetEnds(h) ==
    /\ net[h] = "reading"
    /\ session[h] = "stopping"
    /\ net' = [net EXCEPT ![h] = "none"]
    /\ UNCHANGED <<lockVars, main, serviceVars, consoleVars, hand, held,
                   down, lost, boundVars>>

\* Shutdown has joined that thread.
Joined(h) == net[h] = "none"

\* The rest: inputs are released by StopStreaming and again by stopService, a
\* second try at the buttons that changes no outcome the first cannot have.
FinishStop(h) ==
    /\ Joined(h)
    /\ session' = [session EXCEPT ![h] = "none"]
    /\ ReleaseHeldButtons(h)
    /\ UNCHANGED <<discovery, net, hand>>

-----------------------------------------------------------------------------
(* RunServer on the main thread.                                           *)

\* A host that cannot serve returns 3, and its pad goes with RunServer's frame.
StartFirst(h) ==
    /\ main[h] = "start"
    /\ \E up \in BOOLEAN :
          /\ StartService(h, up)
          /\ MainTo(h, IF up THEN "console" ELSE "unplug")
    /\ UNCHANGED <<lockVars, consoleVars, boundVars>>

\* WebConsole::Start: without a console the host serves all the same.
StartConsole(h) ==
    /\ main[h] = "console"
    /\ MainTo(h, "park")
    /\ \E w \in {"accept", "none"} : WebTo(h, w)
    /\ UNCHANGED <<lockVars, serviceVars, cover, spoilt, deskVars, boundVars>>

\* WaitForSingleObject returns: the event is set, or there never was one.
Unpark(h) ==
    /\ main[h] = "park"
    /\ signalled \/ h \notin event
    /\ MainTo(h, "hush")
    /\ UNCHANGED <<lockVars, serviceVars, consoleVars, deskVars, boundVars>>

\* WebConsole::Stop: running_ is cleared and the listener closed...
StopConsole(h) ==
    /\ main[h] = "hush"
    /\ MainTo(h, "join")
    /\ UNCHANGED <<lockVars, serviceVars, consoleVars, deskVars, boundVars>>

\* Mutant: the listener is closed after the join.
ClosedAfterJoin(h) == main[h] \in {"park", "hush", "join"}

WebRunning(h) == main[h] \in {"park", "hush"}

\* ...and the thread joined, whatever it is in the middle of.
JoinConsole(h) ==
    /\ main[h] = "join"
    /\ web[h] \in {"none", "done"}
    /\ MainTo(h, "stop")
    /\ UNCHANGED <<lockVars, serviceVars, consoleVars, deskVars, boundVars>>

StopLast(h) ==
    /\ main[h] = "stop"
    /\ \/ BeginStop(h) /\ MainTo(h, "stopping")
       \/ /\ session[h] = "none" /\ ServiceMutexFree(h)
          /\ MainTo(h, "unplug")
          /\ UNCHANGED <<serviceVars, deskVars>>
    /\ UNCHANGED <<lockVars, consoleVars, boundVars>>

StoppedLast(h) ==
    /\ main[h] = "stopping"
    /\ FinishStop(h)
    /\ MainTo(h, "unplug")
    /\ UNCHANGED <<lockVars, consoleVars, boundVars>>

Unplug(h) ==
    /\ main[h] = "unplug"
    /\ MainTo(h, "exit")
    /\ UNCHANGED <<lockVars, serviceVars, consoleVars, deskVars, boundVars>>

\* The process is gone: its handles are closed, and an event nobody holds is
\* forgotten.  A button whose lift was swallowed stays down for good.
Gone(h) ==
    /\ singleton' = singleton \ {h}
    /\ event' = event \ {h}
    /\ signalled' = (signalled /\ event \ {h} # {})
    /\ MainTo(h, "ended")
    /\ held' = [held EXCEPT ![h] = {}]
    /\ lost' = lost \cup (held[h] \cap down)
    /\ UNCHANGED <<hand, down, cover, stop>>

Exit(h) ==
    /\ main[h] = "exit"
    /\ Gone(h)
    /\ UNCHANGED <<serviceVars, net, web, spoilt, kills>>

\* Windows ends the process: at the end of ConsoleHandler's 1.5 seconds, from
\* the task manager, at a crash.  The driver drops the pad of a dead process.
Kill(h) ==
    /\ main[h] \notin {"off", "ended"}
    /\ kills < MaxKills
    /\ kills' = kills + 1
    /\ Gone(h)
    /\ session' = [session EXCEPT ![h] = "none"]
    /\ discovery' = [discovery EXCEPT ![h] = FALSE]
    /\ net' = [net EXCEPT ![h] = "none"]
    /\ spoilt' = (spoilt \/ web[h] = "probe")
    /\ WebTo(h, "none")

\* ConsoleHandler, once it is installed: Ctrl+C, the console's closing, logoff.
ConsoleHandler(h) ==
    /\ main[h] \notin {"off", "giveUp", "event", "reset", "ended"}
    /\ h \in event
    /\ signalled' = TRUE
    /\ UNCHANGED <<singleton, event, main, serviceVars, consoleVars, deskVars,
                   boundVars>>

MainStep(h) ==
    \/ GiveUp(h)
    \/ CreateShutdownEvent(h)
    \/ ResetShutdownEvent(h)
    \/ PlugPad(h)
    \/ StartFirst(h)
    \/ StartConsole(h)
    \/ Unpark(h)
    \/ StopConsole(h)
    \/ JoinConsole(h)
    \/ StopLast(h)
    \/ StoppedLast(h)
    \/ Unplug(h)
    \/ Exit(h)
=============================================================================
