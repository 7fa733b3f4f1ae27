------------------------------- MODULE Displays -------------------------------
(***************************************************************************)
(* The display switch, step by step: Session::PrepareVirtualDisplay,       *)
(* DetachPhysicalDisplays and RestoreDisplays over DisplayTopology and the *)
(* SudoVDA driver, with the marker file that lets the next process undo    *)
(* what a dead one left.                                                   *)
(*                                                                         *)
(* A request to Windows can be refused, and a refused one can be half      *)
(* done.  The process can die between any two steps; the driver then drops *)
(* the virtual display by itself.                                          *)
(***************************************************************************)
EXTENDS Naturals

CONSTANTS
    Screens,          \* the physical displays
    Refusable,        \* what Windows, the driver or the disk may refuse
    MaxSessions,      \* bound: virtual displays made
    MaxCrashes        \* bound: crashes, and runs of a second process

ASSUME DisplaysAssumption ==
    /\ Screens # {}
    /\ Refusable \subseteq {"create", "ping", "mark", "attach", "primary", "keep",
                          "restore", "default", "remove"}
    /\ MaxSessions \in Nat
    /\ MaxCrashes \in Nat

VARIABLES
    screen,           \* the arrangement of each physical display
    virtual,          \* the virtual monitor: absent, present, part of the desktop
    marker,           \* detached-displays.bin
    at,               \* what the host does next
    holds,            \* virtualDisplay_ # nullptr: the host pings the driver
    saved,            \* savedDisplays_
    topologyChanged,  \* topologyChanged_
    displaysDetached, \* displaysDetached_
    other,            \* what a second process does next, if there is one
    sessions, crashes,
    \* history
    lapses            \* what the promises below do not cover and has happened

memory == <<holds, saved, topologyChanged, displaysDetached>>
vars == <<screen, virtual, marker, at, memory, other, sessions, crashes, lapses>>

\* A screen is where the user had it, somewhere else, or not attached.  A screen
\* that is off is not in a snapshot.
Place     == {"home", "moved", "off"}
Snapshots == [Screens -> Place]
Nothing   == [s \in Screens |-> "off"]
Home      == [s \in Screens |-> "home"]

HostLabels ==
    { "dead", "recover", "forget", "idle", "snapshot", "mark", "attach",
      "primary", "ready", "alone", "try", "drop", "again", "clear", "release" }

\* The marker was not written; a restore with no virtual display in its way was not
\* exact; the default topology was refused or left a screen off; the last restore was
\* made around a virtual display that had not gone in time, and was not exact; a
\* process started before the dead one's display had gone; the program was run beside
\* a host.
Lapses == {"mark", "restore", "default", "remove", "early", "second"}

TypeOK ==
    /\ screen \in Snapshots
    /\ virtual \in {"none", "idle", "attached"}
    /\ marker \in [there : BOOLEAN, saved : Snapshots]
    /\ at \in HostLabels
    /\ holds \in BOOLEAN
    /\ saved \in Snapshots
    /\ topologyChanged \in BOOLEAN
    /\ displaysDetached \in BOOLEAN
    /\ other \in {"none", "restore", "clear"}
    /\ sessions \in Nat
    /\ crashes \in Nat
    /\ lapses \subseteq Lapses

Init ==
    /\ screen = Home
    /\ virtual = "none"
    /\ marker = [there |-> FALSE, saved |-> Nothing]
    /\ at = "idle"
    /\ holds = FALSE
    /\ saved = Nothing
    /\ topologyChanged = FALSE
    /\ displaysDetached = FALSE
    /\ other = "none"
    /\ sessions = 0
    /\ crashes = 0
    /\ lapses = {}

May(request) == request \in Refusable
Goto(l) == at' = l

-----------------------------------------------------------------------------
(* DisplayTopology.                                                          *)

\* Windows when the virtual display goes: if it was the whole desktop, some
\* physical display comes back, wherever Windows puts it.
VirtualGoes ==
    /\ virtual' = "none"
    /\ IF \A s \in Screens : screen[s] = "off"
         THEN \E s \in Screens : screen' = [screen EXCEPT ![s] = "moved"]
         ELSE UNCHANGED screen

\* The host lets its virtual display go (~VirtualDisplay).  Nobody looks at what
\* RemoveDisplay returns, and RestoreDisplaysAround waits three seconds at most: the
\* display can still be there, and then it goes when the watchdog expires.
RemoveDisplay == VirtualGoes \/ (May("remove") /\ UNCHANGED <<screen, virtual>>)

\* Mutant of MissingFrom: only an empty snapshot falls back on the default topology.
MissingIfEmpty(now, wanted) == wanted = Nothing

\* CompareToSnapshot: a saved display is missing, or not as it was.  An empty
\* snapshot counts as missing (TryRestore).
MissingFrom(now, wanted) ==
    \/ wanted = Nothing
    \/ \E s \in Screens : wanted[s] # "off" /\ now[s] = "off"
Matches(now, wanted) ==
    wanted # Nothing /\ \A s \in Screens : wanted[s] # "off" => now[s] = wanted[s]

Exactly(wanted) == [s \in Screens |-> IF wanted[s] = "off" THEN screen[s] ELSE wanted[s]]

\* What TryRestore can make of the desktop: the saved displays as they were,
\* unless Windows refuses some, which it may always do while the virtual display
\* is in the way.
Restorations(wanted) ==
    IF virtual = "attached" \/ May("restore")
      THEN {now \in Snapshots :
              \A s \in Screens : now[s] \in {screen[s], wanted[s], "moved"} /\
                                 (wanted[s] = "off" => now[s] = screen[s])}
      ELSE {Exactly(wanted)}

\* An inexact restore is a lapse, unless the virtual display is in its way: then it
\* is what the caller says (`around').
RestoreLapse(wanted, now, around) ==
    IF now = Exactly(wanted) THEN {} ELSE IF virtual = "attached" THEN around ELSE {"restore"}

\* RestoreDefaultTopology of an arrangement: every display is on, wherever Windows
\* likes; or Windows refuses that and one panel alone is on; or it refuses both.
DefaultTopology(now) ==
    \/ /\ screen' \in {after \in Snapshots :
                        \A s \in Screens : after[s] \in {now[s], "moved"} \ {"off"}}
       /\ virtual' = IF virtual = "none" THEN "none" ELSE "attached"
    \/ /\ May("default")
       /\ \E panel \in Screens : \E place \in {now[panel], "moved"} \ {"off"} :
             screen' = [s \in Screens |-> IF s = panel THEN place ELSE "off"]
       /\ virtual' = IF virtual = "attached" THEN "idle" ELSE virtual
    \/ May("default") /\ screen' = now /\ UNCHANGED virtual

\* Restore: TryRestore, then the default topology if a display did not come back.
Restore(wanted, around) ==
    \E now \in Restorations(wanted) :
        /\ IF MissingFrom(now, wanted)
             THEN DefaultTopology(now)
             ELSE screen' = now /\ UNCHANGED virtual
        /\ lapses' = lapses \cup RestoreLapse(wanted, now, around)
                       \cup IF MissingFrom(now, wanted) /\ \E s \in Screens : screen'[s] = "off"
                              THEN {"default"} ELSE {}

ClearMarker == marker' = [there |-> FALSE, saved |-> Nothing]

-----------------------------------------------------------------------------
(* Session::PrepareVirtualDisplay and DetachPhysicalDisplays.                *)

\* VirtualDisplay::Create; the driver or Windows may not come up with a display, and
\* one that Windows never enumerated is let go again.
Create ==
    /\ at = "idle"
    /\ virtual = "none"
    /\ sessions < MaxSessions
    /\ sessions' = sessions + 1
    /\ \/ virtual' = "idle" /\ holds' = TRUE /\ Goto("snapshot")
       \/ /\ May("create")
          /\ virtual' \in IF May("remove") THEN {"none", "idle"} ELSE {"none"}
          /\ UNCHANGED <<holds, at>>
    /\ UNCHANGED <<screen, marker, saved, topologyChanged, displaysDetached, other, crashes, lapses>>

Snapshot ==
    /\ at = "snapshot"
    /\ saved' = screen
    /\ Goto("mark")
    /\ UNCHANGED <<screen, virtual, marker, holds, topologyChanged, displaysDetached,
                   other, sessions, crashes, lapses>>

\* MarkDetached, whose failures are ignored: no file, or an empty one.
MarkDetached ==
    /\ at = "mark"
    /\ \/ marker' = [there |-> TRUE, saved |-> saved] /\ UNCHANGED lapses
       \/ /\ May("mark") /\ marker' \in {marker, [there |-> TRUE, saved |-> Nothing]}
          /\ lapses' = lapses \cup {"mark"}
    /\ topologyChanged' = TRUE
    /\ Goto("attach")
    /\ UNCHANGED <<screen, virtual, holds, saved, displaysDetached, other, sessions, crashes>>

\* The virtual display is parked beside the others, which stay where they are.
Attach ==
    /\ at = "attach"
    /\ \/ virtual = "idle" /\ virtual' = "attached" /\ Goto("primary")
       \/ (virtual = "none" \/ May("attach")) /\ Goto("try") /\ UNCHANGED virtual
    /\ UNCHANGED <<screen, marker, memory, other, sessions, crashes, lapses>>

\* The origin moves to the virtual display, and every other one with it.  A
\* failure "does NOT mean the desktop was left alone".
MakePrimary ==
    /\ at = "primary"
    /\ \/ /\ virtual = "attached"
          /\ screen' = [s \in Screens |-> IF screen[s] = "off" THEN "off" ELSE "moved"]
          /\ Goto("ready")
       \/ /\ virtual = "attached" /\ May("primary")
          /\ \E some \in SUBSET {s \in Screens : screen[s] # "off"} :
               screen' = [s \in Screens |-> IF s \in some THEN "moved" ELSE screen[s]]
          /\ Goto("try")
       \/ virtual = "none" /\ Goto("try") /\ UNCHANGED screen
    /\ UNCHANGED <<virtual, marker, memory, other, sessions, crashes, lapses>>

\* Mutant of KeepFound: the display to keep is not looked for.
KeepAnything == TRUE

\* KeepOnly looks for the display to keep among those attached.
KeepFound == virtual = "attached"

\* KeepOnly refuses rather than leave nothing attached, and can fail after
\* Windows has detached some of the others.
DetachPhysicalDisplays ==
    /\ at = "ready"
    /\ \/ KeepFound /\ screen' = Nothing /\ displaysDetached' = TRUE
       \/ /\ KeepFound /\ May("keep")
          /\ \E some \in SUBSET Screens :
               screen' = [s \in Screens |-> IF s \in some THEN "off" ELSE screen[s]]
          /\ UNCHANGED displaysDetached
       \/ ~KeepFound /\ UNCHANGED <<screen, displaysDetached>>
    /\ Goto("alone")
    /\ UNCHANGED <<virtual, marker, holds, saved, topologyChanged, other, sessions, crashes, lapses>>

-----------------------------------------------------------------------------
(* Session::RestoreDisplays, from STOP, a disconnect, a failed launch, the   *)
(* next request or Shutdown.                                                 *)

\* Mutant of RestoreDisplays: the marker goes first.
ForgetThenRestore ==
    /\ at \in {"idle", "ready", "alone"}
    /\ ClearMarker
    /\ Goto(IF topologyChanged THEN "try" ELSE "clear")
    /\ UNCHANGED <<screen, virtual, memory, other, sessions, crashes, lapses>>

RestoreDisplays ==
    /\ at \in {"idle", "ready", "alone"}
    /\ Goto(IF topologyChanged THEN "try" ELSE "clear")
    /\ UNCHANGED <<screen, virtual, marker, memory, other, sessions, crashes, lapses>>

\* RestoreDisplaysAround: try, and if that does not do it get the virtual display
\* out of the way and try again, this time with the default topology to fall
\* back on.
TryRestore ==
    /\ at = "try"
    /\ screen' \in Restorations(saved)
    /\ lapses' = lapses \cup RestoreLapse(saved, screen', {})
    /\ IF Matches(screen', saved)
         THEN Goto("clear")
         ELSE Goto(IF holds THEN "drop" ELSE "again")
    /\ UNCHANGED <<virtual, marker, memory, other, sessions, crashes>>

DropVirtualDisplay ==
    /\ at = "drop"
    /\ RemoveDisplay
    /\ holds' = FALSE
    /\ Goto("again")
    /\ UNCHANGED <<marker, saved, topologyChanged, displaysDetached, other, sessions, crashes, lapses>>

RestoreAgain ==
    /\ at = "again"
    /\ Restore(saved, {"remove"})
    /\ Goto("clear")
    /\ UNCHANGED <<marker, memory, other, sessions, crashes>>

\* The flags and the marker are cleared whatever came of it...
ClearFlags ==
    /\ at = "clear"
    /\ topologyChanged' = FALSE
    /\ displaysDetached' = (displaysDetached /\ ~topologyChanged)
    /\ ClearMarker
    /\ saved' = Nothing
    /\ Goto("release")
    /\ UNCHANGED <<screen, virtual, holds, other, sessions, crashes, lapses>>

\* ...and then the virtual display goes, if it has not gone yet.
Release ==
    /\ at = "release"
    /\ IF holds THEN RemoveDisplay ELSE UNCHANGED <<screen, virtual>>
    /\ holds' = FALSE
    /\ Goto("idle")
    /\ UNCHANGED <<marker, saved, topologyChanged, displaysDetached, other, sessions, crashes, lapses>>

-----------------------------------------------------------------------------
(* Crash and recovery.                                                       *)

Crash ==
    /\ at # "dead"
    /\ crashes < MaxCrashes
    /\ crashes' = crashes + 1
    /\ Goto("dead")
    /\ holds' = FALSE
    /\ saved' = Nothing
    /\ topologyChanged' = FALSE
    /\ displaysDetached' = FALSE
    /\ UNCHANGED <<screen, virtual, marker, other, sessions, lapses>>

\* The driver's watchdog: three seconds without a ping.
WatchdogExpires ==
    /\ holds => May("ping")
    /\ virtual # "none"
    /\ VirtualGoes
    /\ UNCHANGED <<marker, at, memory, other, sessions, crashes, lapses>>

\* Mutant of Start: the marker is looked at only by the serving mode.
StartWithoutRecovery ==
    /\ at = "dead"
    /\ lapses' = IF virtual = "none" THEN lapses ELSE lapses \cup {"early"}
    /\ Goto("idle")
    /\ UNCHANGED <<screen, virtual, marker, memory, other, sessions, crashes>>

\* wmain of the next process, as far as RecoverIfMarked's test.
Start ==
    /\ at = "dead"
    /\ lapses' = IF virtual = "none" THEN lapses ELSE lapses \cup {"early"}
    /\ Goto(IF marker.there THEN "recover" ELSE "idle")
    /\ UNCHANGED <<screen, virtual, marker, memory, other, sessions, crashes>>

Recover ==
    /\ at = "recover"
    /\ Restore(marker.saved, {})
    /\ Goto("forget")
    /\ UNCHANGED <<marker, memory, other, sessions, crashes>>

Forget ==
    /\ at = "forget"
    /\ ClearMarker
    /\ Goto("idle")
    /\ UNCHANGED <<screen, virtual, memory, other, sessions, crashes, lapses>>

\* Another invocation, which reaches RecoverIfMarked before it looks for a
\* running host.
OtherStarts ==
    /\ other = "none"
    /\ at # "dead"
    /\ crashes < MaxCrashes
    /\ crashes' = crashes + 1
    /\ marker.there
    /\ other' = "restore"
    /\ lapses' = lapses \cup {"second"}
    /\ UNCHANGED <<screen, virtual, marker, at, memory, sessions>>

OtherRestores ==
    /\ other = "restore"
    /\ Restore(marker.saved, {})
    /\ other' = "clear"
    /\ UNCHANGED <<marker, at, memory, sessions, crashes>>

OtherClears ==
    /\ other = "clear"
    /\ ClearMarker
    /\ other' = "none"
    /\ UNCHANGED <<screen, virtual, at, memory, sessions, crashes, lapses>>

-----------------------------------------------------------------------------
Switch ==
    \/ Create \/ Snapshot \/ MarkDetached \/ Attach \/ MakePrimary
    \/ DetachPhysicalDisplays
GiveBack ==
    \/ RestoreDisplays \/ TryRestore \/ DropVirtualDisplay \/ RestoreAgain
    \/ ClearFlags \/ Release
Recovery == Start \/ Recover \/ Forget
Other == OtherStarts \/ OtherRestores \/ OtherClears

Next == Switch \/ GiveBack \/ Crash \/ WatchdogExpires \/ Recovery \/ Other
Spec == Init /\ [][Next]_vars

\* Fairness.  The scheduled task starts a host that died (autostart.ps1), the
\* watchdog counts down, and a process goes on.  Nothing ends a session.
Fairness ==
    /\ WF_vars(Recovery)
    /\ WF_vars(WatchdogExpires /\ ~holds)
    /\ WF_vars(TryRestore \/ DropVirtualDisplay \/ RestoreAgain \/ ClearFlags \/ Release)
FairSpec == Spec /\ Fairness

-----------------------------------------------------------------------------
(* What the display switch promises.                                         *)

\* The user is owed a desktop, by a host that nothing has been refused.
Owed == screen # Home /\ lapses = {}

\* The marker on disk says how to give it back.
Recorded == marker = [there |-> TRUE, saved |-> Home]

\* Before the first change the way back is on disk, and it stays there until the
\* desktop is back, so that the process may die at any instant (display_topology.h:
\* "Written before touching anything, cleared after a successful restore"), unless
\* the disk or Windows refuses, the virtual display does not go in time, or another
\* process starts at the wrong time.
Undo == INSTANCE UndoRecord WITH owed <- Owed, recorded <- Recorded
UndoSpec == Undo!Spec

\* A host that died leaves nobody without their screens: the next one restores
\* them, marker or not.
ScreensComeBack == at = "dead" ~> screen = Home \/ lapses # {}

\* Whatever Windows refuses, there is a display to look at: the physical ones are
\* never all taken away when the virtual one is not part of the desktop.
NeverDark == (\A s \in Screens : screen[s] = "off") => virtual = "attached"

\* A host that is between sessions has left no screen off, even if Windows would
\* not put them back as they were: a missing one is fetched back with the default
\* topology.  It takes a default topology that is refused or falls short, a marker that
\* was not written or a second process that deletes it to leave one off.
NoScreenLeftOff ==
    at = "idle" /\ lapses \subseteq {"restore", "remove", "early"} =>
        \A s \in Screens : screen[s] # "off"

=============================================================================
