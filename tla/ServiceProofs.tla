----------------------------- MODULE ServiceProofs -----------------------------
(***************************************************************************)
(* Theorems about the life of host processes, for any number of them, any  *)
(* set of mouse buttons and any number of kills.                           *)
(***************************************************************************)
EXTENDS ConsoleService, TLAPS

-----------------------------------------------------------------------------
(* Types.                                                                    *)

\* A step writes one label, or one flag, of one process.
LEMMA MainTypes ==
    ASSUME TypeOK, NEW h \in Hosts, NEW label \in MainLabels, MainTo(h, label)
    PROVE  main' \in [Hosts -> MainLabels]
BY DEF TypeOK, MainTo

LEMMA WebTypes ==
    ASSUME TypeOK, NEW h \in Hosts, NEW label \in WebLabels, WebTo(h, label)
    PROVE  web' \in [Hosts -> WebLabels]
BY DEF TypeOK, WebTo

LEMMA LabelTypes ==
    /\ MainLabels = {"off", "giveUp", "event", "reset", "pad", "start", "console",
                     "park", "hush", "join", "stop", "stopping", "unplug", "exit",
                     "ended"}
    /\ WebLabels = {"none", "accept", "recv", "library", "probe", "stopping",
                    "restopping", "starting", "reply", "done"}
BY DEF MainLabels, WebLabels

\* Inputs are released.
LEMMA ReleaseTypes ==
    ASSUME TypeOK, NEW h \in Hosts, ReleaseHeldButtons(h)
    PROVE  /\ held' \in [Hosts -> SUBSET Buttons]
           /\ down' \subseteq Buttons /\ lost' \subseteq Buttons
BY DEF TypeOK, ReleaseHeldButtons, Lifted

LEMMA StartServiceTypes ==
    ASSUME TypeOK, NEW h \in Hosts, NEW up \in BOOLEAN, StartService(h, up)
    PROVE  /\ session' \in [Hosts -> SessionStates]
           /\ discovery' \in [Hosts -> BOOLEAN]
           /\ net' \in [Hosts -> NetLabels]
           /\ UNCHANGED <<hand, held, down, lost>>
BY DEF TypeOK, StartService, StartDiscovery, SessionStates, NetLabels

LEMMA BeginStopTypes ==
    ASSUME TypeOK, NEW h \in Hosts, BeginStop(h)
    PROVE  /\ session' \in [Hosts -> SessionStates]
           /\ discovery' \in [Hosts -> BOOLEAN]
           /\ UNCHANGED deskVars
BY DEF TypeOK, BeginStop, StopDiscovery, SessionStates

LEMMA FinishStopTypes ==
    ASSUME TypeOK, NEW h \in Hosts, FinishStop(h)
    PROVE  /\ session' \in [Hosts -> SessionStates]
           /\ held' \in [Hosts -> SUBSET Buttons]
           /\ down' \subseteq Buttons /\ lost' \subseteq Buttons
           /\ UNCHANGED <<discovery, net, hand>>
BY ReleaseTypes DEF TypeOK, FinishStop, SessionStates

\* What is left of a process that is gone.
LEMMA GoneTypes ==
    ASSUME TypeOK, NEW h \in Hosts, Gone(h)
    PROVE  /\ singleton' \subseteq Hosts \cup {Stopper}
           /\ event' \subseteq Hosts \cup {Stopper}
           /\ signalled' \in BOOLEAN
           /\ main' \in [Hosts -> MainLabels]
           /\ held' \in [Hosts -> SUBSET Buttons]
           /\ lost' \subseteq Buttons
           /\ UNCHANGED <<hand, down, cover, stop>>
<1>1. signalled' \in BOOLEAN BY Zenon DEF Gone
<1>2. main' \in [Hosts -> MainLabels] BY MainTypes, LabelTypes DEF Gone
<1>3. QED BY <1>1, <1>2 DEF TypeOK, Gone

LEMMA TypeInit == Init => TypeOK
<1> SUFFICES ASSUME Init PROVE TypeOK OBVIOUS
<1>1. signalled \in BOOLEAN /\ spoilt \in BOOLEAN BY Zenon DEF Init
<1>2. discovery \in [Hosts -> BOOLEAN] BY Zenon DEF Init
<1>3. kills \in 0 .. MaxKills BY ProcessAssumption DEF Init
<1>4. QED BY <1>1, <1>2, <1>3
     DEF Init, TypeOK, MainLabels, WebLabels, SessionStates, NetLabels, StopLabels

\* The network thread's steps leave the process alone.
LEMMA NetTypes ==
    ASSUME TypeOK, NEW h \in Hosts, NetWorks(h) \/ NetServes(h) \/ NetEnds(h)
    PROVE  TypeOK'
<1> USE DEF TypeOK, NetLabels
<1>1. CASE NetWorks(h)
  <2> USE DEF NetWorks, DeskOnly, lockVars, serviceVars, consoleVars, boundVars
  <2>1. CASE PressSent(h) BY <1>1, <2>1 DEF PressSent
  <2>2. CASE LiftNoted(h) BY <1>1, <2>2 DEF LiftNoted
  <2>3. CASE HelperInstalled(h) BY <1>1, <2>3 DEF HelperInstalled, RunHidden
  <2>4. CASE RunTask(h) BY <1>1, <2>4 DEF RunTask, RunHidden
  <2>5. CASE UnlockEnds(h) BY <1>1, <2>5 DEF UnlockEnds
  <2>6. QED BY <1>1, <2>1, <2>2, <2>3, <2>4, <2>5 DEF NetStep
<1>2. CASE NetServes(h)
  <2> USE DEF NetServes, DeskOnly, lockVars, serviceVars, consoleVars, boundVars
  <2>1. CASE \E b \in Buttons : MarkPress(h, b)
    BY <1>2, <2>1 DEF MarkPress
  <2>2. CASE \E b \in Buttons : LiftSent(h, b)
    BY <1>2, <2>2 DEF LiftSent, Lifted
  <2>3. CASE ClientLeaves(h) BY <1>2, <2>3, ReleaseTypes DEF ClientLeaves
  <2>4. CASE ListGames(h) BY <1>2, <2>4 DEF ListGames
  <2>5. CASE Launch(h) BY <1>2, <2>5 DEF Launch
  <2>6. CASE LibraryRead(h) BY <1>2, <2>6 DEF LibraryRead
  <2>7. QED BY <1>2, <2>1, <2>2, <2>3, <2>4, <2>5, <2>6 DEF NetInput
<1>3. CASE NetEnds(h)
  BY <1>3 DEF NetEnds, lockVars, serviceVars, consoleVars, boundVars
<1>4. QED BY <1>1, <1>2, <1>3

LEMMA MainStepTypes ==
    ASSUME TypeOK, NEW h \in Hosts,
           AcquireSingleInstanceLock(h) \/ MainStep(h) \/ ConsoleHandler(h) \/ Kill(h)
    PROVE  TypeOK'
<1> USE MainTypes, LabelTypes
    DEF TypeOK, lockVars, serviceVars, consoleVars, deskVars, boundVars
<1>1. CASE AcquireSingleInstanceLock(h) BY <1>1 DEF AcquireSingleInstanceLock
<1>2. CASE GiveUp(h) BY <1>2 DEF GiveUp
<1>3. CASE CreateShutdownEvent(h) BY <1>3 DEF CreateShutdownEvent
<1>4. CASE ResetShutdownEvent(h)
  <2>1. signalled' \in BOOLEAN BY <1>4, Zenon DEF ResetShutdownEvent
  <2>2. QED BY <1>4, <2>1 DEF ResetShutdownEvent
<1>5. CASE PlugPad(h) BY <1>5 DEF PlugPad
<1>6. CASE StartFirst(h)
  <2>1. PICK up \in BOOLEAN :
          /\ StartService(h, up)
          /\ MainTo(h, IF up THEN "console" ELSE "unplug")
    BY <1>6 DEF StartFirst
  <2>2. (IF up THEN "console" ELSE "unplug") \in MainLabels BY Zenon DEF MainLabels
  <2>3. main' \in [Hosts -> MainLabels] BY <2>1, <2>2, MainTypes
  <2>4. QED BY <1>6, <2>1, <2>3, StartServiceTypes DEF StartFirst
<1>7. CASE StartConsole(h) BY <1>7, WebTypes DEF StartConsole
<1>8. CASE Unpark(h) BY <1>8 DEF Unpark
<1>9. CASE StopConsole(h) BY <1>9 DEF StopConsole
<1>10. CASE JoinConsole(h) BY <1>10 DEF JoinConsole
<1>11. CASE StopLast(h) BY <1>11, BeginStopTypes DEF StopLast
<1>12. CASE StoppedLast(h) BY <1>12, FinishStopTypes DEF StoppedLast
<1>13. CASE Unplug(h) BY <1>13 DEF Unplug
<1>14. CASE Exit(h) BY <1>14, GoneTypes DEF Exit
<1>15. CASE ConsoleHandler(h)
  <2>1. signalled' \in BOOLEAN BY <1>15, Zenon DEF ConsoleHandler
  <2>2. QED BY <1>15, <2>1 DEF ConsoleHandler
<1>16. CASE Kill(h)
  <2>1. spoilt' \in BOOLEAN BY <1>16, Zenon DEF Kill
  <2>2. discovery' \in [Hosts -> BOOLEAN]
    <3>1. FALSE \in BOOLEAN BY Zenon
    <3>2. QED BY <1>16, <3>1 DEF Kill
  <2>3. kills' \in 0 .. MaxKills BY <1>16, ProcessAssumption DEF Kill
  <2>4. QED BY <1>16, <2>1, <2>2, <2>3, GoneTypes, WebTypes
       DEF Kill, SessionStates, NetLabels
<1>17. QED BY <1>1, <1>2, <1>3, <1>4, <1>5, <1>6, <1>7, <1>8, <1>9, <1>10, <1>11,
         <1>12, <1>13, <1>14, <1>15, <1>16 DEF MainStep

LEMMA WebStepTypes ==
    ASSUME TypeOK, NEW h \in Hosts,
           Accept(h) \/ HandleConnection(h) \/ GamesRead(h) \/ Reply(h) \/ WebStep(h)
    PROVE  TypeOK'
<1> USE WebTypes, LabelTypes
    DEF TypeOK, lockVars, serviceVars, consoleVars, deskVars, boundVars
<1>1. CASE Accept(h) BY <1>1 DEF Accept
<1>2. CASE AcceptEnds(h) BY <1>2 DEF AcceptEnds
<1>3. CASE Drop(h) BY <1>3 DEF Drop
<1>4. CASE Status(h) BY <1>4 DEF Status
<1>5. CASE Games(h) BY <1>5 DEF Games
<1>6. CASE GamesRead(h) BY <1>6 DEF GamesRead
<1>7. CASE Start(h) BY <1>7, StartServiceTypes DEF Start, StartFor
<1>8. CASE Restart(h) BY <1>8, StartServiceTypes DEF Restart, StartFor
<1>9. CASE Stop(h)
  <2>1. PICK restart \in BOOLEAN :
          \/ BeginStop(h) /\ WebTo(h, IF restart THEN "restopping" ELSE "stopping")
          \/ /\ WebTo(h, IF restart THEN "starting" ELSE "reply")
             /\ UNCHANGED <<serviceVars, deskVars>>
    BY <1>9 DEF Stop
  <2>2. /\ (IF restart THEN "restopping" ELSE "stopping") \in WebLabels
        /\ (IF restart THEN "starting" ELSE "reply") \in WebLabels
    BY Zenon DEF WebLabels
  <2>3. web' \in [Hosts -> WebLabels] BY <2>1, <2>2, WebTypes
  <2>4. QED BY <1>9, <2>1, <2>3, BeginStopTypes DEF Stop
<1>10. CASE Stopped(h) BY <1>10, FinishStopTypes DEF Stopped
<1>11. CASE SaveCover(h)
  <2>1. spoilt' \in BOOLEAN BY <1>11, Zenon DEF SaveCover
  <2>2. QED BY <1>11, <2>1 DEF SaveCover
<1>12. CASE ProbeCover(h)
  <2>1. spoilt' \in BOOLEAN BY <1>12, Zenon DEF ProbeCover, RemoveCover
  <2>2. QED BY <1>12, <2>1 DEF ProbeCover, RemoveCover
<1>13. CASE ClearCover(h)
  <2>1. spoilt' \in BOOLEAN BY <1>13, Zenon DEF ClearCover, RemoveCover
  <2>2. QED BY <1>13, <2>1 DEF ClearCover, RemoveCover
<1>14. CASE Reply(h) BY <1>14 DEF Reply
<1>15. QED BY <1>1, <1>2, <1>3, <1>4, <1>5, <1>6, <1>7, <1>8, <1>9, <1>10, <1>11,
         <1>12, <1>13, <1>14 DEF HandleConnection, WebStep

LEMMA StopTypes ==
    ASSUME TypeOK, StopRuns
    PROVE  TypeOK'
<1> USE DEF TypeOK, StopTo, StopLabels, serviceVars, consoleVars, deskVars
<1>1. CASE OpenEvent BY <1>1 DEF OpenEvent
<1>2. CASE SetStopEvent
  <2>1. signalled' \in BOOLEAN BY <1>2, Zenon DEF SetStopEvent
  <2>2. QED BY <1>2, <2>1 DEF SetStopEvent
<1>3. CASE CloseStopEvent
  <2>1. signalled' \in BOOLEAN BY <1>3, Zenon DEF CloseStopEvent
  <2>2. QED BY <1>3, <2>1 DEF CloseStopEvent
<1>4. CASE LookForHost BY <1>4 DEF LookForHost
<1>5. CASE LookedForHost BY <1>5 DEF LookedForHost
<1>6. QED BY <1>1, <1>2, <1>3, <1>4, <1>5 DEF StopRuns

LEMMA TypeStep == TypeOK /\ [Next]_vars => TypeOK'
<1> SUFFICES ASSUME TypeOK, [Next]_vars PROVE TypeOK' OBVIOUS
<1>1. CASE StopRuns BY <1>1, StopTypes
<1>2. CASE \E h \in Hosts : HostStep(h)
  BY <1>2, MainStepTypes, WebStepTypes, NetTypes DEF HostStep
<1>3. CASE UNCHANGED vars
  BY <1>3 DEF vars, TypeOK, lockVars, serviceVars, consoleVars, deskVars, boundVars
<1>4. QED BY <1>1, <1>2, <1>3 DEF Next

\* Every variable keeps its type, whichever processes run, and whoever kills
\* them (RunServer, WebConsole, RunStop, InputInjector).
THEOREM ServiceTypeCorrect == Spec => []TypeOK
BY TypeInit, TypeStep, PTL DEF Spec

-----------------------------------------------------------------------------
(* One service.                                                              *)

\* A process between the lock and its end, and one that may have a session.
Owning  == MainLabels \ {"off", "giveUp", "ended"}
Serving == {"console", "park", "hush", "join", "stop", "stopping"}

\* The lock has one owner, which holds a handle.
OwnerInv ==
    /\ \A h \in Hosts : main[h] \in Owning => h \in singleton
    /\ \A h, i \in Hosts : main[h] \in Owning /\ main[i] \in Owning => h = i

\* A session is there only while main is between the start and the last stop,
\* the console's thread works only while main waits for it, and whoever is
\* inside stopService is shutting down a session.
ServiceInv ==
    \A h \in Hosts :
        /\ session[h] # "none" => main[h] \in Serving
        /\ discovery[h] => session[h] = "up"
        /\ net[h] # "none" => session[h] # "none"
        /\ web[h] \notin {"none", "done"} => main[h] \in {"park", "hush", "join"}
        /\ web[h] \in {"stopping", "restopping"} \/ main[h] = "stopping"
              => session[h] = "stopping"

LEMMA ServingOwns == Serving \subseteq Owning
BY DEF Serving, Owning, MainLabels

LEMMA ServiceInit == Init => OwnerInv /\ ServiceInv
<1> SUFFICES ASSUME Init PROVE OwnerInv /\ ServiceInv OBVIOUS
<1>1. \A h \in Hosts : ~discovery[h] BY Zenon DEF Init
<1>2. QED BY <1>1 DEF Init, OwnerInv, ServiceInv, Owning

\* Steps of main that leave the lock's ownership as it was.
LEMMA OwnerKept ==
    ASSUME TypeOK, OwnerInv, NEW h \in Hosts, NEW label \in MainLabels,
           MainTo(h, label), main[h] \in Owning, singleton' = singleton
    PROVE  OwnerInv'
BY DEF TypeOK, OwnerInv, MainTo

LEMMA OwnerGone ==
    ASSUME TypeOK, OwnerInv, NEW h \in Hosts, MainTo(h, "ended"),
           singleton' = singleton \ {h}
    PROVE  OwnerInv'
BY DEF TypeOK, OwnerInv, MainTo, Owning

LEMMA OwnerMain ==
    ASSUME TypeOK, OwnerInv, NEW h \in Hosts,
           AcquireSingleInstanceLock(h) \/ MainStep(h) \/ ConsoleHandler(h) \/ Kill(h)
    PROVE  OwnerInv'
<1> USE LabelTypes DEF lockVars
<1>1. CASE AcquireSingleInstanceLock(h)
  <2>1. CASE singleton = {}
    BY <1>1, <2>1 DEF AcquireSingleInstanceLock, TypeOK, OwnerInv, MainTo
  <2>2. CASE singleton # {}
    BY <1>1, <2>2 DEF AcquireSingleInstanceLock, TypeOK, OwnerInv, MainTo, Owning
  <2>3. QED BY <2>1, <2>2
<1>2. CASE GiveUp(h) BY <1>2, OwnerGone DEF GiveUp
<1>3. CASE Exit(h) BY <1>3, OwnerGone DEF Exit, Gone
<1>4. CASE Kill(h) BY <1>4, OwnerGone DEF Kill, Gone
<1>5. CASE ConsoleHandler(h) BY <1>5 DEF ConsoleHandler, OwnerInv
<1>6. CASE CreateShutdownEvent(h) BY <1>6, OwnerKept DEF CreateShutdownEvent, Owning
<1>7. CASE ResetShutdownEvent(h) BY <1>7, OwnerKept DEF ResetShutdownEvent, Owning
<1>8. CASE PlugPad(h) BY <1>8, OwnerKept DEF PlugPad, Owning
<1>9. CASE StartFirst(h)
  <2>1. MainTo(h, "console") \/ MainTo(h, "unplug") BY <1>9 DEF StartFirst
  <2>2. QED BY <1>9, <2>1, OwnerKept DEF StartFirst, Owning
<1>10. CASE StartConsole(h) BY <1>10, OwnerKept DEF StartConsole, Owning
<1>11. CASE Unpark(h) BY <1>11, OwnerKept DEF Unpark, Owning
<1>12. CASE StopConsole(h) BY <1>12, OwnerKept DEF StopConsole, Owning
<1>13. CASE JoinConsole(h) BY <1>13, OwnerKept DEF JoinConsole, Owning
<1>14. CASE StopLast(h)
  <2>1. MainTo(h, "stopping") \/ MainTo(h, "unplug") BY <1>14 DEF StopLast
  <2>2. QED BY <1>14, <2>1, OwnerKept DEF StopLast, Owning
<1>15. CASE StoppedLast(h) BY <1>15, OwnerKept DEF StoppedLast, Owning
<1>16. CASE Unplug(h) BY <1>16, OwnerKept DEF Unplug, Owning
<1>17. QED BY <1>1, <1>2, <1>3, <1>4, <1>5, <1>6, <1>7, <1>8, <1>9, <1>10, <1>11,
         <1>12, <1>13, <1>14, <1>15, <1>16 DEF MainStep

\* Nobody else touches main, and only a --stop the lock.
LEMMA OwnerRest ==
    ASSUME TypeOK, OwnerInv, NEW h \in Hosts,
           \/ Accept(h) \/ HandleConnection(h) \/ GamesRead(h) \/ Reply(h)
           \/ WebStep(h) \/ NetEnds(h) \/ NetWorks(h) \/ NetServes(h)
    PROVE  OwnerInv'
<1>1. UNCHANGED <<lockVars, main>>
  BY DEF Accept, HandleConnection, GamesRead, Reply, WebStep, NetEnds, NetWorks,
         NetServes, DeskOnly, AcceptEnds, Drop, Status, Games, Start, StartFor, Stop,
         Stopped, Restart, SaveCover, ProbeCover, ClearCover
<1>2. QED BY <1>1 DEF OwnerInv, lockVars

LEMMA OwnerStop ==
    ASSUME TypeOK, OwnerInv, StopRuns
    PROVE  OwnerInv'
<1>1. main' = main BY DEF StopRuns, OpenEvent, SetStopEvent, CloseStopEvent,
                          LookForHost, LookedForHost, StopTo
<1>2. singleton \ {Stopper} \subseteq singleton'
  BY DEF StopRuns, OpenEvent, SetStopEvent, CloseStopEvent, LookForHost, LookedForHost
<1>3. QED BY <1>1, <1>2, ProcessAssumption DEF OwnerInv

LEMMA OwnerStep == TypeOK /\ OwnerInv /\ [Next]_vars => OwnerInv'
<1> SUFFICES ASSUME TypeOK, OwnerInv, [Next]_vars PROVE OwnerInv' OBVIOUS
<1>1. CASE StopRuns BY <1>1, OwnerStop
<1>2. CASE \E h \in Hosts : HostStep(h)
  BY <1>2, OwnerMain, OwnerRest DEF HostStep
<1>3. CASE UNCHANGED vars BY <1>3 DEF vars, lockVars, OwnerInv
<1>4. QED BY <1>1, <1>2, <1>3 DEF Next

\* Main's steps that leave the service alone stay on one side of it.
LEMMA ServiceKept ==
    ASSUME TypeOK, ServiceInv, NEW h \in Hosts, NEW label \in MainLabels,
           MainTo(h, label), UNCHANGED <<session, discovery, net, web>>,
           session[h] # "none" => label \in Serving,
           web[h] \notin {"none", "done"} => label \in {"park", "hush", "join"},
           label # "stopping"
    PROVE  ServiceInv'
BY DEF TypeOK, ServiceInv, MainTo

LEMMA ServiceMain ==
    ASSUME TypeOK, ServiceInv, NEW h \in Hosts,
           AcquireSingleInstanceLock(h) \/ MainStep(h) \/ ConsoleHandler(h) \/ Kill(h)
    PROVE  ServiceInv'
<1> USE LabelTypes DEF serviceVars, consoleVars, deskVars
<1>1. CASE AcquireSingleInstanceLock(h)
  <2>1. MainTo(h, "event") \/ MainTo(h, "giveUp")
    BY <1>1 DEF AcquireSingleInstanceLock
  <2>2. session[h] = "none" /\ web[h] \in {"none", "done"}
    BY <1>1 DEF AcquireSingleInstanceLock, ServiceInv, Serving
  <2>3. UNCHANGED <<session, discovery, net, web>>
    BY <1>1 DEF AcquireSingleInstanceLock
  <2>4. QED BY <2>1, <2>2, <2>3, ServiceKept
<1>2. CASE GiveUp(h) BY <1>2, ServiceKept DEF GiveUp, ServiceInv, Serving
<1>3. CASE CreateShutdownEvent(h)
  BY <1>3, ServiceKept DEF CreateShutdownEvent, ServiceInv, Serving
<1>4. CASE ResetShutdownEvent(h)
  BY <1>4, ServiceKept DEF ResetShutdownEvent, ServiceInv, Serving
<1>5. CASE PlugPad(h) BY <1>5, ServiceKept DEF PlugPad, ServiceInv, Serving
<1>6. CASE StartFirst(h)
  <2>1. PICK up \in BOOLEAN :
          /\ StartService(h, up)
          /\ MainTo(h, IF up THEN "console" ELSE "unplug")
    BY <1>6 DEF StartFirst
  <2>2. /\ session[h] = "none" /\ web[h] \in {"none", "done"} /\ net[h] = "none"
        /\ web' = web
    BY <1>6 DEF StartFirst, ServiceInv, Serving
  <2>3. CASE up
    <3>1. /\ main' = [main EXCEPT ![h] = "console"]
          /\ session' = [session EXCEPT ![h] = "up"]
          /\ net' = [net EXCEPT ![h] = "reading"]
      BY <2>1, <2>2, <2>3 DEF StartService, StartDiscovery, MainTo
    <3>2. \A k \in Hosts : k # h => discovery'[k] = discovery[k]
      BY <2>1, <2>2, <2>3 DEF StartService, StartDiscovery, TypeOK
    <3>3. QED BY <2>2, <3>1, <3>2 DEF TypeOK, ServiceInv, Serving
  <2>4. CASE ~up
    BY <2>1, <2>2, <2>4, ServiceKept DEF StartService, StartDiscovery
  <2>5. QED BY <2>3, <2>4
<1>7. CASE StartConsole(h)
  BY <1>7 DEF StartConsole, TypeOK, ServiceInv, Serving, MainTo, WebTo
<1>8. CASE Unpark(h) BY <1>8, ServiceKept DEF Unpark, Serving
<1>9. CASE StopConsole(h) BY <1>9, ServiceKept DEF StopConsole, Serving
<1>10. CASE JoinConsole(h) BY <1>10, ServiceKept DEF JoinConsole, Serving
<1>11. CASE StopLast(h)
  <2>1. CASE BeginStop(h) /\ MainTo(h, "stopping")
    <3>1. /\ discovery' = [discovery EXCEPT ![h] = FALSE]
          /\ session' = [session EXCEPT ![h] = "stopping"]
          /\ main' = [main EXCEPT ![h] = "stopping"]
          /\ UNCHANGED <<web, net>>
      BY <1>11, <2>1 DEF BeginStop, StopDiscovery, MainTo, StopLast
    <3>2. main[h] = "stop" BY <1>11 DEF StopLast
    <3>3. QED BY <3>1, <3>2 DEF TypeOK, ServiceInv, Serving
  <2>2. CASE session[h] = "none" /\ MainTo(h, "unplug") /\ UNCHANGED <<serviceVars, deskVars>>
    BY <1>11, <2>2, ServiceKept DEF StopLast, ServiceInv
  <2>3. QED BY <1>11, <2>1, <2>2 DEF StopLast
<1>12. CASE StoppedLast(h)
  <2>1. /\ session' = [session EXCEPT ![h] = "none"]
        /\ main' = [main EXCEPT ![h] = "unplug"]
        /\ UNCHANGED <<web, net, discovery>>
        /\ net[h] = "none" /\ main[h] = "stopping"
    BY <1>12 DEF StoppedLast, FinishStop, MainTo, Joined
  <2>2. QED BY <2>1 DEF TypeOK, ServiceInv, Serving
<1>13. CASE Unplug(h) BY <1>13, ServiceKept DEF Unplug, ServiceInv, Serving
<1>14. CASE Exit(h) BY <1>14, ServiceKept DEF Exit, Gone, ServiceInv, Serving
<1>15. CASE ConsoleHandler(h) BY <1>15 DEF ConsoleHandler, ServiceInv
<1>16. CASE Kill(h)
  BY <1>16 DEF Kill, Gone, TypeOK, ServiceInv, MainTo, WebTo
<1>17. QED BY <1>1, <1>2, <1>3, <1>4, <1>5, <1>6, <1>7, <1>8, <1>9, <1>10, <1>11,
         <1>12, <1>13, <1>14, <1>15, <1>16 DEF MainStep

\* The console brings the service up only while main waits for the console.
LEMMA ServiceStarted ==
    ASSUME TypeOK, ServiceInv, NEW h \in Hosts, StartFor(h),
           web[h] \in {"recv", "starting"}
    PROVE  ServiceInv'
<1>1. main[h] \in {"park", "hush", "join"} BY DEF ServiceInv
<1>2. main' = main /\ web' = [web EXCEPT ![h] = "reply"] BY DEF StartFor, WebTo
<1>3. PICK up \in BOOLEAN : StartService(h, up) BY DEF StartFor
<1>4. CASE UNCHANGED <<session, discovery, net>>
  BY <1>1, <1>2, <1>4 DEF TypeOK, ServiceInv, Serving
<1>5. CASE ~UNCHANGED <<session, discovery, net>>
  <2>1. /\ session' = [session EXCEPT ![h] = "up"]
        /\ net' = [net EXCEPT ![h] = "reading"]
        /\ discovery' \in {[discovery EXCEPT ![h] = d] : d \in BOOLEAN}
    BY <1>3, <1>5 DEF StartService, StartDiscovery
  <2>2. \A k \in Hosts : k # h => discovery'[k] = discovery[k]
    BY <2>1 DEF TypeOK
  <2>3. QED BY <1>1, <1>2, <2>1, <2>2 DEF TypeOK, ServiceInv, Serving
<1>6. QED BY <1>4, <1>5

LEMMA ServiceWeb ==
    ASSUME TypeOK, ServiceInv, NEW h \in Hosts,
           Accept(h) \/ HandleConnection(h) \/ GamesRead(h) \/ Reply(h) \/ WebStep(h)
    PROVE  ServiceInv'
<1> USE DEF lockVars, serviceVars, deskVars, WebTo
<1>1. CASE Accept(h)
  BY <1>1 DEF Accept, TypeOK, ServiceInv
<1>2. CASE AcceptEnds(h) BY <1>2 DEF AcceptEnds, TypeOK, ServiceInv
<1>3. CASE Drop(h) BY <1>3 DEF Drop, TypeOK, ServiceInv
<1>4. CASE Status(h) BY <1>4 DEF Status, TypeOK, ServiceInv
<1>5. CASE Games(h) BY <1>5 DEF Games, TypeOK, ServiceInv
<1>6. CASE GamesRead(h) BY <1>6 DEF GamesRead, TypeOK, ServiceInv
<1>7. CASE Start(h) BY <1>7, ServiceStarted DEF Start
<1>8. CASE Restart(h) BY <1>8, ServiceStarted DEF Restart
<1>9. CASE Stop(h)
  <2>1. main[h] \in {"park", "hush", "join"} /\ main' = main
    BY <1>9 DEF Stop, ServiceInv
  <2>2. CASE BeginStop(h)
    <3>1. \E label \in {"restopping", "stopping"} : web' = [web EXCEPT ![h] = label]
      BY <1>9, <2>2 DEF Stop, BeginStop, StopDiscovery
    <3>2. /\ discovery' = [discovery EXCEPT ![h] = FALSE]
          /\ session' = [session EXCEPT ![h] = "stopping"]
          /\ net' = net
      BY <2>2 DEF BeginStop, StopDiscovery
    <3>3. QED BY <2>1, <3>1, <3>2 DEF TypeOK, ServiceInv, Serving
  <2>3. CASE ~BeginStop(h)
    <3>1. /\ \E label \in {"starting", "reply"} : web' = [web EXCEPT ![h] = label]
          /\ UNCHANGED <<session, discovery, net>>
      BY <1>9, <2>3 DEF Stop
    <3>2. QED BY <2>1, <3>1 DEF TypeOK, ServiceInv
  <2>4. QED BY <2>2, <2>3
<1>10. CASE Stopped(h)
  <2>1. /\ web[h] \in {"stopping", "restopping"}
        /\ \E label \in {"starting", "reply"} : web' = [web EXCEPT ![h] = label]
        /\ session' = [session EXCEPT ![h] = "none"]
        /\ UNCHANGED <<main, net, discovery>>
        /\ net[h] = "none"
    BY <1>10 DEF Stopped, FinishStop, Joined
  <2>2. QED BY <2>1 DEF TypeOK, ServiceInv
<1>11. CASE SaveCover(h) BY <1>11 DEF SaveCover, TypeOK, ServiceInv
<1>12. CASE ProbeCover(h) BY <1>12 DEF ProbeCover, TypeOK, ServiceInv
<1>13. CASE ClearCover(h) BY <1>13 DEF ClearCover, TypeOK, ServiceInv
<1>14. CASE Reply(h) BY <1>14 DEF Reply, TypeOK, ServiceInv
<1>15. QED BY <1>1, <1>2, <1>3, <1>4, <1>5, <1>6, <1>7, <1>8, <1>9, <1>10, <1>11,
         <1>12, <1>13, <1>14 DEF HandleConnection, WebStep

\* The network thread ends only under a session, and starts nothing.
LEMMA ServiceNet ==
    ASSUME TypeOK, ServiceInv, NEW h \in Hosts,
           NetEnds(h) \/ NetWorks(h) \/ NetServes(h)
    PROVE  ServiceInv'
<1>1. UNCHANGED <<main, session, discovery, web>>
  BY DEF NetEnds, NetWorks, NetServes, DeskOnly, serviceVars, consoleVars
<1>2. \A k \in Hosts : net'[k] # "none" => net[k] # "none"
  <2>1. CASE NetEnds(h) BY <2>1 DEF NetEnds, TypeOK
  <2>2. CASE NetWorks(h)
    BY <2>2 DEF NetWorks, NetStep, PressSent, LiftNoted, HelperInstalled, RunTask, RunHidden,
                UnlockEnds, TypeOK
  <2>3. CASE NetServes(h)
    BY <2>3 DEF NetServes, NetInput, MarkPress, LiftSent, ClientLeaves, ListGames,
                Launch, LibraryRead, Listening, TypeOK
  <2>4. QED BY <2>1, <2>2, <2>3
<1>3. QED BY <1>1, <1>2 DEF ServiceInv

LEMMA ServiceStop == ASSUME ServiceInv, StopRuns PROVE ServiceInv'
BY DEF StopRuns, OpenEvent, SetStopEvent, CloseStopEvent, LookForHost, LookedForHost,
       StopTo, ServiceInv, serviceVars, consoleVars, deskVars

LEMMA ServiceStep == TypeOK /\ ServiceInv /\ [Next]_vars => ServiceInv'
<1> SUFFICES ASSUME TypeOK, ServiceInv, [Next]_vars PROVE ServiceInv' OBVIOUS
<1>1. CASE StopRuns BY <1>1, ServiceStop
<1>2. CASE \E h \in Hosts : HostStep(h)
  BY <1>2, ServiceMain, ServiceWeb, ServiceNet DEF HostStep
<1>3. CASE UNCHANGED vars
  BY <1>3 DEF vars, serviceVars, consoleVars, deskVars, ServiceInv
<1>4. QED BY <1>1, <1>2, <1>3 DEF Next

LEMMA OneServiceHolds == OwnerInv /\ ServiceInv => OneService
<1> SUFFICES ASSUME OwnerInv, ServiceInv PROVE OneService OBVIOUS
<1>1. \A h, i \in Hosts : session[h] # "none" /\ session[i] # "none" => h = i
  BY ServingOwns DEF OwnerInv, ServiceInv
<1>2. QED BY <1>1 DEF OneService, ServiceInv, Serving

\* Two hosts never serve at once, and what a service leans on outlives it.
THEOREM OnlyOneService == Spec => []OneService
<1>1. Init => TypeOK /\ OwnerInv /\ ServiceInv BY TypeInit, ServiceInit
<1>2. TypeOK /\ OwnerInv /\ ServiceInv /\ [Next]_vars
        => TypeOK' /\ OwnerInv' /\ ServiceInv'
  BY TypeStep, OwnerStep, ServiceStep
<1>3. QED BY <1>1, <1>2, OneServiceHolds, PTL DEF Spec

-----------------------------------------------------------------------------
(* The buttons.                                                              *)

\* A button being pressed has its bit; one being lifted is up.
HandInv ==
    \A h \in Hosts :
        /\ net[h] = "marked" => hand[h] \in held[h]
        /\ net[h] = "lifted" => hand[h] \notin down

ButtonsInv == HandInv /\ DownIsRemembered

\* One network thread at a time.
LEMMA OneThread ==
    ASSUME OwnerInv, ServiceInv, NEW h \in Hosts, NEW k \in Hosts,
           net[h] # "none", net[k] # "none"
    PROVE  h = k
BY ServingOwns DEF OwnerInv, ServiceInv

LEMMA ButtonsInit == Init => ButtonsInv
BY DEF Init, ButtonsInv, HandInv, DownIsRemembered

\* The network thread at work.
LEMMA ButtonsNet ==
    ASSUME TypeOK, OwnerInv, ServiceInv, ButtonsInv, NEW h \in Hosts,
           NetEnds(h) \/ NetWorks(h) \/ NetServes(h)
    PROVE  ButtonsInv'
<1>1. net[h] # "none"
  BY DEF NetEnds, NetWorks, NetServes, NetStep, NetInput, PressSent, LiftNoted,
         HelperInstalled, RunTask, RunHidden, UnlockEnds, MarkPress, LiftSent, ClientLeaves,
         ListGames, Launch, LibraryRead, Listening
<1>2. \A k \in Hosts : k # h => net[k] = "none" BY <1>1, OneThread
<1> USE <1>2 DEF TypeOK, ButtonsInv, HandInv, DownIsRemembered
<1>3. CASE PressSent(h) BY <1>3 DEF PressSent
<1>4. CASE LiftNoted(h) BY <1>4 DEF LiftNoted
<1>5. CASE \E b \in Buttons : MarkPress(h, b) BY <1>5 DEF MarkPress, Listening
<1>6. CASE \E b \in Buttons : LiftSent(h, b) BY <1>6 DEF LiftSent, Listening, Lifted
<1>7. CASE ClientLeaves(h)
  BY <1>7 DEF ClientLeaves, Listening, ReleaseHeldButtons, Lifted
<1>8. CASE UNCHANGED <<hand, held, down, lost>> /\ net' \in [Hosts -> NetLabels]
           /\ (\A k \in Hosts : k # h => net'[k] = net[k])
           /\ net'[h] \notin {"marked", "lifted"}
  BY <1>8
<1>9. CASE NetEnds(h) BY <1>8, <1>9 DEF NetEnds, NetLabels
<1>10. CASE HelperInstalled(h) BY <1>8, <1>10 DEF HelperInstalled, RunHidden, NetLabels
<1>11. CASE RunTask(h) BY <1>8, <1>11 DEF RunTask, RunHidden, NetLabels
<1>12. CASE UnlockEnds(h) BY <1>8, <1>12 DEF UnlockEnds, NetLabels
<1>13. CASE ListGames(h) BY <1>8, <1>13 DEF ListGames, NetLabels
<1>14. CASE Launch(h) BY <1>8, <1>14 DEF Launch, NetLabels
<1>15. CASE LibraryRead(h) BY <1>8, <1>15 DEF LibraryRead, NetLabels
<1>16. QED BY <1>3, <1>4, <1>5, <1>6, <1>7, <1>9, <1>10, <1>11, <1>12, <1>13, <1>14,
         <1>15 DEF NetWorks, NetServes, NetStep, NetInput

\* Shutdown has joined the thread: nothing is half done when inputs are let go.
LEMMA ButtonsFinish ==
    ASSUME TypeOK, OwnerInv, ServiceInv, ButtonsInv, NEW h \in Hosts, FinishStop(h),
           session[h] # "none"
    PROVE  ButtonsInv'
<1>1. \A k \in Hosts : net[k] = "none"
  <2>1. SUFFICES ASSUME NEW k \in Hosts, net[k] # "none" PROVE FALSE OBVIOUS
  <2>2. k # h BY <2>1 DEF FinishStop, Joined
  <2>3. session[k] # "none" BY <2>1 DEF ServiceInv
  <2>4. QED BY <2>2, <2>3, ServingOwns DEF OwnerInv, ServiceInv
<1>2. QED BY <1>1
     DEF FinishStop, ReleaseHeldButtons, Lifted, TypeOK, ButtonsInv, HandInv,
         DownIsRemembered

LEMMA ButtonsStart ==
    ASSUME TypeOK, ButtonsInv, NEW h \in Hosts, NEW up \in BOOLEAN, StartService(h, up)
    PROVE  ButtonsInv'
BY DEF StartService, StartDiscovery, TypeOK, ButtonsInv, HandInv, DownIsRemembered

\* A process that goes leaves its buttons to the history.
LEMMA ButtonsGone ==
    ASSUME TypeOK, ServiceInv, ButtonsInv, NEW h \in Hosts, Gone(h),
           net' = [net EXCEPT ![h] = "none"]
    PROVE  ButtonsInv'
BY DEF Gone, TypeOK, ButtonsInv, HandInv, DownIsRemembered

LEMMA ButtonsKept ==
    ASSUME ButtonsInv, UNCHANGED deskVars
    PROVE  ButtonsInv'
BY DEF deskVars, ButtonsInv, HandInv, DownIsRemembered

LEMMA ButtonsMain ==
    ASSUME TypeOK, OwnerInv, ServiceInv, ButtonsInv, NEW h \in Hosts,
           AcquireSingleInstanceLock(h) \/ MainStep(h) \/ ConsoleHandler(h) \/ Kill(h)
    PROVE  ButtonsInv'
<1>1. CASE StartFirst(h) BY <1>1, ButtonsStart DEF StartFirst
<1>2. CASE StopLast(h) BY <1>2, ButtonsKept DEF StopLast, BeginStop, StopDiscovery
<1>3. CASE StoppedLast(h)
  <2>1. session[h] # "none" BY <1>3 DEF StoppedLast, ServiceInv
  <2>2. QED BY <1>3, <2>1, ButtonsFinish DEF StoppedLast
<1>4. CASE Exit(h)
  <2>1. net[h] = "none" BY <1>4 DEF Exit, ServiceInv, Serving
  <2>2. net' = [net EXCEPT ![h] = "none"] BY <1>4, <2>1 DEF Exit, TypeOK
  <2>3. QED BY <1>4, <2>2, ButtonsGone DEF Exit
<1>5. CASE Kill(h) BY <1>5, ButtonsGone DEF Kill
<1>6. CASE \/ AcquireSingleInstanceLock(h) \/ GiveUp(h) \/ CreateShutdownEvent(h)
           \/ ResetShutdownEvent(h) \/ PlugPad(h) \/ StartConsole(h) \/ Unpark(h)
           \/ StopConsole(h) \/ JoinConsole(h) \/ Unplug(h) \/ ConsoleHandler(h)
  BY <1>6, ButtonsKept
  DEF AcquireSingleInstanceLock, GiveUp, CreateShutdownEvent, ResetShutdownEvent,
      PlugPad, StartConsole, Unpark, StopConsole, JoinConsole, Unplug, ConsoleHandler
<1>7. QED BY <1>1, <1>2, <1>3, <1>4, <1>5, <1>6 DEF MainStep

LEMMA ButtonsWeb ==
    ASSUME TypeOK, OwnerInv, ServiceInv, ButtonsInv, NEW h \in Hosts,
           Accept(h) \/ HandleConnection(h) \/ GamesRead(h) \/ Reply(h) \/ WebStep(h)
    PROVE  ButtonsInv'
<1>1. CASE Start(h) \/ Restart(h)
  BY <1>1, ButtonsStart DEF Start, Restart, StartFor
<1>2. CASE Stop(h) BY <1>2, ButtonsKept DEF Stop, BeginStop, StopDiscovery
<1>3. CASE Stopped(h)
  <2>1. session[h] # "none" BY <1>3 DEF Stopped, ServiceInv
  <2>2. QED BY <1>3, <2>1, ButtonsFinish DEF Stopped
<1>4. CASE \/ Accept(h) \/ AcceptEnds(h) \/ Drop(h) \/ Status(h) \/ Games(h)
           \/ GamesRead(h) \/ SaveCover(h) \/ ProbeCover(h) \/ ClearCover(h) \/ Reply(h)
  BY <1>4, ButtonsKept
  DEF Accept, AcceptEnds, Drop, Status, Games, GamesRead, SaveCover, ProbeCover,
      ClearCover, Reply
<1>5. QED BY <1>1, <1>2, <1>3, <1>4 DEF HandleConnection, WebStep

LEMMA ButtonsStep ==
    TypeOK /\ OwnerInv /\ ServiceInv /\ ButtonsInv /\ [Next]_vars => ButtonsInv'
<1> SUFFICES ASSUME TypeOK, OwnerInv, ServiceInv, ButtonsInv, [Next]_vars
             PROVE  ButtonsInv'
    OBVIOUS
<1>1. CASE StopRuns
  BY <1>1, ButtonsKept DEF StopRuns, OpenEvent, SetStopEvent, CloseStopEvent,
     LookForHost, LookedForHost, StopTo
<1>2. CASE \E h \in Hosts : HostStep(h)
  BY <1>2, ButtonsMain, ButtonsWeb, ButtonsNet DEF HostStep
<1>3. CASE UNCHANGED vars BY <1>3, ButtonsKept DEF vars
<1>4. QED BY <1>1, <1>2, <1>3 DEF Next

\* No button is down that neither a host's bits nor the two lapses of the
\* code account for: so the next release of a live host lifts what it left.
THEOREM ButtonsAreRemembered == Spec => []DownIsRemembered
<1>1. Init => TypeOK /\ OwnerInv /\ ServiceInv /\ ButtonsInv
  BY TypeInit, ServiceInit, ButtonsInit
<1>2. TypeOK /\ OwnerInv /\ ServiceInv /\ ButtonsInv /\ [Next]_vars
        => TypeOK' /\ OwnerInv' /\ ServiceInv' /\ ButtonsInv'
  BY TypeStep, OwnerStep, ServiceStep, ButtonsStep
<1>3. ButtonsInv => DownIsRemembered BY DEF ButtonsInv
<1>4. QED BY <1>1, <1>2, <1>3, PTL DEF Spec

-----------------------------------------------------------------------------
(* The custom covers.                                                        *)

\* Steps that touch neither the cover nor a probe of it.
LEMMA CoverKept ==
    ASSUME CoverDecodes, UNCHANGED <<cover, spoilt>>,
           \A k \in Hosts : web[k] = "probe" => web'[k] = "probe"
    PROVE  CoverDecodes'
BY DEF CoverDecodes

LEMMA CoverMain ==
    ASSUME TypeOK, ServiceInv, CoverDecodes, NEW h \in Hosts,
           \/ AcquireSingleInstanceLock(h) \/ MainStep(h) \/ ConsoleHandler(h)
           \/ NetEnds(h) \/ NetWorks(h) \/ NetServes(h)
    PROVE  CoverDecodes'
<1>1. CASE StartConsole(h)
  <2>1. web[h] # "probe" BY <1>1 DEF StartConsole, ServiceInv
  <2>2. QED BY <1>1, <2>1, CoverKept DEF StartConsole, TypeOK, WebTo
<1>2. CASE ~StartConsole(h)
  <2>1. UNCHANGED <<web, cover, spoilt>>
    BY <1>2
    DEF AcquireSingleInstanceLock, MainStep, GiveUp, CreateShutdownEvent,
        ResetShutdownEvent, PlugPad, StartFirst, Unpark, StopConsole, JoinConsole,
        StopLast, StoppedLast, Unplug, Exit, Gone, ConsoleHandler, NetEnds,
        NetWorks, NetServes, DeskOnly, consoleVars
  <2>2. QED BY <2>1, CoverKept
<1>3. QED BY <1>1, <1>2

\* A kill between the save and its probe leaves the file as it is.
LEMMA CoverKill ==
    ASSUME TypeOK, CoverDecodes, NEW h \in Hosts, Kill(h)
    PROVE  CoverDecodes'
<1>1. spoilt' = (spoilt \/ web[h] = "probe") /\ cover' = cover
  BY Zenon DEF Kill, Gone
<1>2. \A k \in Hosts : k # h => web'[k] = web[k] BY DEF Kill, WebTo, TypeOK
<1>3. QED BY <1>1, <1>2 DEF CoverDecodes

LEMMA CoverWeb ==
    ASSUME TypeOK, CoverDecodes, NEW h \in Hosts,
           Accept(h) \/ HandleConnection(h) \/ GamesRead(h) \/ Reply(h) \/ WebStep(h)
    PROVE  CoverDecodes'
<1>1. CASE SaveCover(h) BY <1>1 DEF SaveCover, CoverDecodes, TypeOK, WebTo
<1>2. CASE ProbeCover(h)
  BY <1>2 DEF ProbeCover, RemoveCover, CoverDecodes, TypeOK, WebTo
<1>3. CASE ClearCover(h)
  BY <1>3 DEF ClearCover, RemoveCover, CoverDecodes, TypeOK, WebTo
<1>4. CASE \/ Accept(h) \/ AcceptEnds(h) \/ Drop(h) \/ Status(h) \/ Games(h)
           \/ GamesRead(h) \/ Start(h) \/ Restart(h) \/ Stop(h) \/ Stopped(h) \/ Reply(h)
  <2>1. UNCHANGED <<cover, spoilt>>
    BY <1>4 DEF Accept, AcceptEnds, Drop, Status, Games, GamesRead, Start, Restart,
       StartFor, Stop, Stopped, Reply
  <2>2. web[h] # "probe" /\ \E label \in WebLabels : WebTo(h, label)
    BY <1>4 DEF Accept, AcceptEnds, Drop, Status, Games, GamesRead, Start, Restart,
       StartFor, Stop, Stopped, Reply, WebLabels
  <2>3. QED BY <2>1, <2>2, CoverKept DEF TypeOK, WebTo
<1>5. QED BY <1>1, <1>2, <1>3, <1>4 DEF HandleConnection, WebStep

LEMMA CoverStep == TypeOK /\ ServiceInv /\ CoverDecodes /\ [Next]_vars => CoverDecodes'
<1> SUFFICES ASSUME TypeOK, ServiceInv, CoverDecodes, [Next]_vars PROVE CoverDecodes'
    OBVIOUS
<1>1. CASE StopRuns
  <2>1. UNCHANGED <<web, cover, spoilt>>
    BY <1>1 DEF StopRuns, OpenEvent, SetStopEvent, CloseStopEvent, LookForHost,
       LookedForHost, StopTo, consoleVars
  <2>2. QED BY <2>1, CoverKept
<1>2. CASE \E h \in Hosts : HostStep(h)
  BY <1>2, CoverMain, CoverKill, CoverWeb DEF HostStep
<1>3. CASE UNCHANGED vars
  <2>1. UNCHANGED <<web, cover, spoilt>> BY <1>3 DEF vars, consoleVars
  <2>2. QED BY <2>1, CoverKept
<1>4. QED BY <1>1, <1>2, <1>3 DEF Next

\* A file that cannot be shown is never left as a game's cover by an upload
\* alone (console.setCover, CoverStore).
THEOREM CoversDecode == Spec => []CoverDecodes
<1>1. Init => TypeOK /\ ServiceInv /\ CoverDecodes
  BY TypeInit, ServiceInit DEF Init, CoverDecodes
<1>2. TypeOK /\ ServiceInv /\ CoverDecodes /\ [Next]_vars
        => TypeOK' /\ ServiceInv' /\ CoverDecodes'
  BY TypeStep, ServiceStep, CoverStep
<1>3. QED BY <1>1, <1>2, PTL DEF Spec
=============================================================================
