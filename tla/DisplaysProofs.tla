----------------------------- MODULE DisplaysProofs ----------------------------
(***************************************************************************)
(* Theorems about the display switch, for any set of screens and any       *)
(* number of sessions and crashes.                                         *)
(***************************************************************************)
EXTENDS Displays, TLAPS

-----------------------------------------------------------------------------
(* Types.                                                                    *)

LEMMA Arrangements == Home \in Snapshots /\ Nothing \in Snapshots
BY DEF Home, Nothing, Snapshots, Place

LEMMA MarkerTypes ==
    ASSUME NEW there \in BOOLEAN, NEW way \in Snapshots
    PROVE  [there |-> there, saved |-> way] \in [there : BOOLEAN, saved : Snapshots]
OBVIOUS

LEMMA VirtualGoesTypes ==
    ASSUME TypeOK, VirtualGoes
    PROVE  virtual' = "none" /\ screen' \in Snapshots
BY DEF TypeOK, VirtualGoes, Snapshots, Place

LEMMA RemoveDisplayTypes ==
    ASSUME TypeOK, RemoveDisplay
    PROVE  virtual' \in {"none", "idle", "attached"} /\ screen' \in Snapshots
<1>1. CASE VirtualGoes BY <1>1, VirtualGoesTypes
<1>2. CASE UNCHANGED <<screen, virtual>> BY <1>2 DEF TypeOK
<1>3. QED BY <1>1, <1>2 DEF RemoveDisplay

LEMMA DefaultTopologyTypes ==
    ASSUME TypeOK, NEW now \in Snapshots, DefaultTopology(now)
    PROVE  virtual' \in {"none", "idle", "attached"} /\ screen' \in Snapshots
<1>1. virtual' \in {"none", "idle", "attached"} BY DEF DefaultTopology, TypeOK
<1>2. CASE screen' \in Snapshots BY <1>1, <1>2
<1>3. CASE \E panel \in Screens : \E place \in {now[panel], "moved"} \ {"off"} :
             screen' = [s \in Screens |-> IF s = panel THEN place ELSE "off"]
  BY <1>1, <1>3 DEF Snapshots, Place
<1>4. QED BY <1>2, <1>3 DEF DefaultTopology

LEMMA RestorationTypes ==
    ASSUME TypeOK, NEW wanted \in Snapshots, NEW now \in Restorations(wanted)
    PROVE  now \in Snapshots
BY DEF TypeOK, Restorations, Exactly, Snapshots, Place

LEMMA RestoreTypes ==
    ASSUME TypeOK, NEW wanted \in Snapshots, NEW around \in SUBSET {"remove"},
           Restore(wanted, around)
    PROVE  /\ screen' \in Snapshots /\ virtual' \in {"none", "idle", "attached"}
           /\ lapses' \subseteq Lapses
<1>1. PICK now \in Restorations(wanted) :
        /\ IF MissingFrom(now, wanted)
             THEN DefaultTopology(now)
             ELSE screen' = now /\ UNCHANGED virtual
        /\ lapses' \subseteq lapses \cup {"restore", "default", "remove"}
  BY DEF Restore, RestoreLapse
<1>2. now \in Snapshots BY RestorationTypes
<1>3. screen' \in Snapshots /\ virtual' \in {"none", "idle", "attached"}
  BY <1>1, <1>2, DefaultTopologyTypes DEF TypeOK
<1>4. QED BY <1>1, <1>3 DEF TypeOK, Lapses

LEMMA TypeInit == Init => TypeOK
<1> SUFFICES ASSUME Init PROVE TypeOK OBVIOUS
<1>1. sessions = 0 /\ crashes = 0 BY DEF Init
<1>2. sessions \in Nat /\ crashes \in Nat BY <1>1
<1>3. /\ holds \in BOOLEAN /\ topologyChanged \in BOOLEAN
      /\ displaysDetached \in BOOLEAN
  BY Zenon DEF Init
<1>4. marker \in [there : BOOLEAN, saved : Snapshots] BY Arrangements DEF Init
<1>5. QED BY <1>2, <1>3, <1>4, Arrangements DEF Init, TypeOK, HostLabels

LEMMA TypeStep == TypeOK /\ [Next]_vars => TypeOK'
<1> SUFFICES ASSUME TypeOK, [Next]_vars PROVE TypeOK' OBVIOUS
<1> USE DEF TypeOK, HostLabels, Goto, memory
<1>1. CASE Create
  <2>1. holds' \in BOOLEAN BY <1>1, Zenon DEF Create
  <2>2. QED BY <1>1, <2>1 DEF Create
<1>2. CASE Snapshot BY <1>2 DEF Snapshot
<1>3. CASE MarkDetached
  <2>1. topologyChanged' \in BOOLEAN BY <1>3, Zenon DEF MarkDetached
  <2>2. marker' \in [there : BOOLEAN, saved : Snapshots]
    <3>1. marker' \in {marker, [there |-> TRUE, saved |-> saved],
                         [there |-> TRUE, saved |-> Nothing]}
      BY <1>3 DEF MarkDetached
    <3>2. TRUE \in BOOLEAN BY Zenon
    <3>3. \A way \in Snapshots :
            [there |-> TRUE, saved |-> way] \in [there : BOOLEAN, saved : Snapshots]
      BY <3>2, MarkerTypes
    <3>4. QED BY <3>1, <3>3, Arrangements
  <2>3. lapses' \subseteq Lapses BY <1>3 DEF MarkDetached, Lapses
  <2>4. QED BY <1>3, <2>1, <2>2, <2>3 DEF MarkDetached
<1>4. CASE Attach BY <1>4 DEF Attach
<1>5. CASE MakePrimary BY <1>5 DEF MakePrimary, Snapshots, Place
<1>6. CASE DetachPhysicalDisplays
  BY <1>6, Arrangements DEF DetachPhysicalDisplays, Snapshots, Place
<1>7. CASE RestoreDisplays BY <1>7 DEF RestoreDisplays
<1>8. CASE TryRestore
  <2>1. lapses' \subseteq Lapses BY <1>8 DEF TryRestore, RestoreLapse, Lapses
  <2>2. QED BY <1>8, <2>1, RestorationTypes DEF TryRestore
<1>9. CASE DropVirtualDisplay
  <2>1. holds' \in BOOLEAN BY <1>9, Zenon DEF DropVirtualDisplay
  <2>2. QED BY <1>9, <2>1, RemoveDisplayTypes DEF DropVirtualDisplay
<1>10. CASE RestoreAgain BY <1>10, RestoreTypes DEF RestoreAgain
<1>11. CASE ClearFlags BY <1>11, Arrangements DEF ClearFlags, ClearMarker
<1>12. CASE Release
  <2>1. holds' \in BOOLEAN BY <1>12, Zenon DEF Release
  <2>2. virtual' \in {"none", "idle", "attached"} /\ screen' \in Snapshots
    BY <1>12, RemoveDisplayTypes DEF Release
  <2>3. QED BY <1>12, <2>1, <2>2 DEF Release
<1>13. CASE Crash
  <2>1. /\ holds' \in BOOLEAN /\ topologyChanged' \in BOOLEAN
        /\ displaysDetached' \in BOOLEAN
    BY <1>13, Zenon DEF Crash
  <2>2. QED BY <1>13, <2>1, Arrangements DEF Crash
<1>14. CASE WatchdogExpires BY <1>14, VirtualGoesTypes DEF WatchdogExpires
<1>15. CASE Start BY <1>15 DEF Start, Lapses
<1>16. CASE Recover BY <1>16, RestoreTypes DEF Recover
<1>17. CASE Forget BY <1>17, Arrangements DEF Forget, ClearMarker
<1>18. CASE OtherStarts BY <1>18 DEF OtherStarts, Lapses
<1>19. CASE OtherRestores BY <1>19, RestoreTypes DEF OtherRestores
<1>20. CASE OtherClears BY <1>20, Arrangements DEF OtherClears, ClearMarker
<1>21. CASE UNCHANGED vars BY <1>21 DEF vars
<1>22. QED
  BY <1>1, <1>2, <1>3, <1>4, <1>5, <1>6, <1>7, <1>8, <1>9, <1>10, <1>11, <1>12, <1>13,
     <1>14, <1>15, <1>16, <1>17, <1>18, <1>19, <1>20, <1>21
     DEF Next, Switch, GiveBack, Recovery, Other

\* Every variable of the display switch keeps its type.
THEOREM DisplaysTypeCorrect == Spec => []TypeOK
<1>1. TypeOK /\ [Next]_vars => TypeOK' BY TypeStep
<1>2. QED BY <1>1, TypeInit, PTL DEF Spec

-----------------------------------------------------------------------------
(* Something to look at.                                                     *)

Dark == \A s \in Screens : screen[s] = "off"

\* A restore, complete or not, takes no screen away.
LEMMA RestorationsKeep ==
    ASSUME TypeOK, NEW wanted \in Snapshots, NEW now \in Restorations(wanted)
    PROVE  (\A s \in Screens : now[s] = "off") => Dark
BY DEF TypeOK, Restorations, Exactly, Snapshots, Place, Dark

LEMMA RestoreKeeps ==
    ASSUME TypeOK, NEW wanted \in Snapshots, NEW around, Restore(wanted, around)
    PROVE  Dark' => Dark /\ UNCHANGED virtual
<1>1. PICK now \in Restorations(wanted) :
        IF MissingFrom(now, wanted)
          THEN DefaultTopology(now)
          ELSE screen' = now /\ UNCHANGED virtual
  BY DEF Restore
<1>2. CASE screen' = now /\ UNCHANGED virtual BY <1>2, RestorationsKeep DEF Dark
<1>3. CASE \A s \in Screens : screen'[s] # "off"
  <2>1. Screens # {} BY DisplaysAssumption DEF DisplaysAssumption
  <2>2. QED BY <1>3, <2>1 DEF Dark
<1>4. CASE \E panel \in Screens : \E place \in {now[panel], "moved"} \ {"off"} :
             screen' = [s \in Screens |-> IF s = panel THEN place ELSE "off"]
  BY <1>4 DEF Dark
<1>5. QED BY <1>1, <1>2, <1>3, <1>4 DEF DefaultTopology

\* If the virtual display was all there was, Windows brings a screen back.
LEMMA VirtualGoesLight ==
    ASSUME TypeOK, VirtualGoes
    PROVE  ~Dark'
<1>1. CASE Dark
  <2>1. PICK s \in Screens : screen' = [screen EXCEPT ![s] = "moved"]
    BY <1>1 DEF VirtualGoes, Dark
  <2>2. screen'[s] = "moved" BY <2>1 DEF TypeOK, Snapshots
  <2>3. QED BY <2>2 DEF Dark
<1>2. CASE ~Dark BY <1>2 DEF VirtualGoes, Dark
<1>3. QED BY <1>1, <1>2

\* A virtual display that is let go brings one back or is still what it was.
LEMMA RemoveDisplayLight ==
    ASSUME TypeOK, RemoveDisplay
    PROVE  Dark' => Dark /\ UNCHANGED virtual
<1>1. CASE VirtualGoes BY <1>1, VirtualGoesLight
<1>2. CASE UNCHANGED <<screen, virtual>> BY <1>2 DEF Dark
<1>3. QED BY <1>1, <1>2 DEF RemoveDisplay

LEMMA NeverDarkStep == TypeOK /\ NeverDark /\ [Next]_vars => NeverDark'
<1> SUFFICES ASSUME TypeOK, NeverDark, [Next]_vars PROVE NeverDark' OBVIOUS
<1>a. Dark => virtual = "attached" BY DEF NeverDark, Dark
<1>b. SUFFICES Dark' => virtual' = "attached" BY DEF NeverDark, Dark
<1>c. marker.saved \in Snapshots /\ saved \in Snapshots BY DEF TypeOK
<1>1. CASE UNCHANGED <<screen, virtual>> BY <1>1, <1>a DEF Dark
<1>2. CASE Create
  <2>1. UNCHANGED screen /\ virtual = "none" BY <1>2 DEF Create
  <2>2. QED BY <2>1, <1>a DEF Dark
<1>3. CASE Attach BY <1>3, <1>a DEF Attach, Dark
<1>4. CASE MakePrimary
  <2>1. UNCHANGED virtual BY <1>4 DEF MakePrimary
  <2>2. Dark' => Dark BY <1>4 DEF MakePrimary, Dark
  <2>3. QED BY <2>1, <2>2, <1>a
<1>5. CASE DetachPhysicalDisplays
  BY <1>5, <1>a DEF DetachPhysicalDisplays, KeepFound, Dark
<1>6. CASE TryRestore
  <2>1. UNCHANGED virtual BY <1>6 DEF TryRestore
  <2>2. Dark' => Dark BY <1>6, <1>c, RestorationsKeep DEF TryRestore, Dark
  <2>3. QED BY <2>1, <2>2, <1>a
<1>7. CASE DropVirtualDisplay
  BY <1>7, <1>a, RemoveDisplayLight DEF DropVirtualDisplay
<1>8. CASE WatchdogExpires BY <1>8, VirtualGoesLight DEF WatchdogExpires
<1>9. CASE Release
  <2>1. CASE holds BY <1>9, <1>a, <2>1, RemoveDisplayLight DEF Release
  <2>2. CASE ~holds BY <1>9, <2>2, <1>1 DEF Release
  <2>3. QED BY <2>1, <2>2
<1>10. CASE RestoreAgain \/ Recover \/ OtherRestores
  <2>1. PICK around : Restore(saved, around) \/ Restore(marker.saved, around)
    BY <1>10 DEF RestoreAgain, Recover, OtherRestores
  <2>2. QED BY <2>1, <1>a, <1>c, RestoreKeeps
<1>11. CASE \/ Snapshot \/ MarkDetached \/ RestoreDisplays \/ ClearFlags \/ Crash
            \/ Start \/ Forget \/ OtherStarts \/ OtherClears
  BY <1>11, <1>1 DEF Snapshot, MarkDetached, RestoreDisplays, ClearFlags, Crash,
     Start, Forget, OtherStarts, OtherClears
<1>12. CASE UNCHANGED vars BY <1>12, <1>1 DEF vars
<1>13. QED
  BY <1>2, <1>3, <1>4, <1>5, <1>6, <1>7, <1>8, <1>9, <1>10, <1>11, <1>12
     DEF Next, Switch, GiveBack, Recovery, Other

\* Whatever Windows refuses, whoever dies and whoever restarts, the screens are not
\* all off unless the virtual display is the desktop: DisplayTopology::KeepOnly
\* looks for it, and its going brings one back.
THEOREM AlwaysSomethingToSee == Spec => []NeverDark
<1>1. Init => NeverDark
  <2>1. Screens # {} BY DisplaysAssumption DEF DisplaysAssumption
  <2>2. QED BY <2>1 DEF Init, NeverDark, Home
<1>2. TypeOK /\ NeverDark /\ [Next]_vars => NeverDark' BY NeverDarkStep
<1>3. QED BY <1>1, <1>2, DisplaysTypeCorrect, PTL DEF Spec

-----------------------------------------------------------------------------
(* The undo record.                                                          *)

NoMarker == [there |-> FALSE, saved |-> Nothing]
Switched == {"attach", "primary", "ready", "alone", "try", "drop", "again"}

\* What is at home where, how far the record goes, and that a recovery has no virtual
\* display in its way.
UndoLabels ==
    /\ other = "none"
    /\ Recorded \/ (marker = NoMarker /\ screen = Home)
    /\ at \in Switched => Recorded /\ saved = Home /\ topologyChanged
    /\ at = "mark" => saved = Home
    /\ topologyChanged => at \in Switched \cup {"clear"}
    /\ at \in {"idle", "snapshot", "mark", "release"} => marker = NoMarker
    /\ at \in {"clear", "forget"} => screen = Home
    /\ at = "recover" => Recorded
    /\ at = "recover" => virtual = "none"

\* The inductive invariant behind UndoSpec: as long as nothing has lapsed.
UndoInv == lapses = {} => UndoLabels

\* A restore is exact when nothing lapses and it is the last one, or has no virtual
\* display in its way.
LEMMA RestoreIsExact ==
    ASSUME TypeOK, NEW around, virtual = "none" \/ around # {}, Restore(Home, around),
           lapses' = {}
    PROVE  screen' = Home /\ UNCHANGED virtual
<1>1. PICK now \in Restorations(Home) :
        /\ IF MissingFrom(now, Home)
             THEN DefaultTopology(now)
             ELSE screen' = now /\ UNCHANGED virtual
        /\ RestoreLapse(Home, now, around) \subseteq lapses'
  BY DEF Restore
<1>2. Exactly(Home) = Home BY DEF Exactly, Home
<1>3. now = Home
  <2>1. now # Exactly(Home) => around \subseteq lapses' \/ "restore" \in lapses'
    BY <1>1 DEF RestoreLapse
  <2>2. now # Exactly(Home) /\ virtual = "none" => "restore" \in lapses'
    BY <1>1 DEF RestoreLapse
  <2>3. QED BY <2>1, <2>2, <1>2
<1>4. ~MissingFrom(Home, Home)
  <2>1. PICK s \in Screens : TRUE BY DisplaysAssumption DEF DisplaysAssumption
  <2>2. Home[s] = "home" /\ Nothing[s] = "off" BY DEF Home, Nothing
  <2>3. QED BY <2>2 DEF MissingFrom, Home
<1>5. QED BY <1>1, <1>3, <1>4

\* A saved arrangement that matches is the saved one.
LEMMA MatchesHome ==
    ASSUME NEW now \in Snapshots, Matches(now, Home)
    PROVE  now = Home
BY DEF Matches, Home, Snapshots

\* The virtual display can go without disturbing screens that are at home.
LEMMA VirtualGoesHome ==
    ASSUME VirtualGoes, screen = Home
    PROVE  screen' = Home /\ virtual' = "none"
<1>1. PICK s \in Screens : TRUE BY DisplaysAssumption DEF DisplaysAssumption
<1>2. screen[s] # "off" BY DEF Home
<1>3. QED BY <1>2 DEF VirtualGoes

LEMMA RemoveDisplayHome ==
    ASSUME RemoveDisplay, screen = Home
    PROVE  screen' = Home
BY VirtualGoesHome DEF RemoveDisplay

\* What has lapsed stays lapsed.
LEMMA LapsesGrow ==
    ASSUME [Next]_vars
    PROVE  lapses \subseteq lapses'
<1>1. CASE MarkDetached BY <1>1 DEF MarkDetached
<1>2. CASE TryRestore BY <1>2 DEF TryRestore
<1>3. CASE RestoreAgain \/ Recover \/ OtherRestores
  BY <1>3 DEF RestoreAgain, Recover, OtherRestores, Restore
<1>4. CASE Start \/ OtherStarts BY <1>4 DEF Start, OtherStarts
<1>5. CASE UNCHANGED lapses BY <1>5
<1>6. QED
  BY <1>1, <1>2, <1>3, <1>4, <1>5
     DEF Next, Switch, GiveBack, Recovery, Other, Create, Snapshot, Attach, MakePrimary,
         DetachPhysicalDisplays, RestoreDisplays, DropVirtualDisplay, ClearFlags, Release,
         Crash, WatchdogExpires, Forget, OtherClears, vars

LEMMA UndoInit == Init => UndoInv
BY DEF Init, UndoInv, UndoLabels, NoMarker, Switched

\* The steps of a switch that nothing has refused.
LEMMA UndoLabelsStep ==
    ASSUME TypeOK, UndoLabels, [Next]_vars, lapses' = {}, lapses = {}
    PROVE  UndoLabels' /\ [Undo!Next]_<<Owed, Recorded>>
<1> USE DEF UndoLabels, Switched, Goto, memory
<1>z. (Owed <=> screen # Home) /\ (Owed' <=> screen' # Home) BY DEF Owed
<1>0. ASSUME UNCHANGED <<screen, marker>>
      PROVE  [Undo!Next]_<<Owed, Recorded>>
  BY <1>0 DEF Owed, Recorded
<1>a. ASSUME Recorded, UNCHANGED marker
      PROVE  [Undo!Next]_<<Owed, Recorded>>
  <2>1. Recorded /\ Recorded' = Recorded BY <1>a DEF Recorded
  <2>2. Owed' \in BOOLEAN BY Zenon DEF Owed
  <2>3. QED BY <2>1, <2>2 DEF Undo!Next, Undo!Change
<1>b. ASSUME ~Owed, ~Owed', ~Recorded'
      PROVE  [Undo!Next]_<<Owed, Recorded>>
  <2>1. Recorded' = FALSE BY <1>b, Zenon DEF Recorded
  <2>2. Owed' = Owed BY <1>b, Zenon DEF Owed
  <2>3. QED BY <1>b, <2>1, <2>2 DEF Undo!Next, Undo!Forget
<1>c. ~(marker = NoMarker /\ Recorded) BY DEF NoMarker, Recorded
<1>1. CASE Create
  <2>1. UndoLabels' BY <1>1 DEF Create, Owed, Recorded, NoMarker
  <2>2. QED BY <1>0, <1>1, <2>1 DEF Create
<1>2. CASE Snapshot
  <2>1. UndoLabels' BY <1>2, <1>c DEF Snapshot, Owed, Recorded, NoMarker
  <2>2. QED BY <1>0, <1>2, <2>1 DEF Snapshot
<1>3. CASE MarkDetached
  <2>1. Recorded' /\ UNCHANGED Owed /\ ~Owed
    BY <1>3, <1>c DEF MarkDetached, Owed, Recorded
  <2>2. UndoLabels' BY <1>3, <2>1, <1>c DEF MarkDetached
  <2>3. Recorded' = TRUE /\ Owed' = Owed BY <2>1, Zenon DEF Recorded, Owed
  <2>4. QED BY <2>1, <2>2, <2>3 DEF Undo!Next, Undo!Record
<1>4. CASE Attach
  <2>1. UndoLabels' BY <1>4, <1>c DEF Attach, Owed, Recorded, NoMarker
  <2>2. QED BY <1>0, <1>4, <2>1 DEF Attach
<1>5. CASE MakePrimary
  <2>1. UNCHANGED marker /\ Recorded BY <1>5 DEF MakePrimary
  <2>2. UndoLabels' BY <1>5, <2>1, <1>c DEF MakePrimary, Recorded
  <2>3. QED BY <1>a, <2>1, <2>2
<1>6. CASE DetachPhysicalDisplays
  <2>1. UNCHANGED marker /\ Recorded BY <1>6 DEF DetachPhysicalDisplays
  <2>2. UndoLabels' BY <1>6, <2>1, <1>c DEF DetachPhysicalDisplays, Recorded
  <2>3. QED BY <1>a, <2>1, <2>2
<1>7. CASE RestoreDisplays
  <2>1. at = "idle" => ~Owed /\ ~topologyChanged BY <1>z, <1>7, <1>c
  <2>2. UndoLabels' BY <1>7, <2>1, <1>c DEF RestoreDisplays, Owed, Recorded, NoMarker
  <2>3. QED BY <1>0, <1>7, <2>2 DEF RestoreDisplays
<1>8. CASE TryRestore
  <2>1. UNCHANGED marker /\ Recorded /\ saved = Home BY <1>8 DEF TryRestore
  <2>2. screen' \in Snapshots BY <1>8, RestorationTypes DEF TryRestore, TypeOK
  <2>3. Matches(screen', saved) => ~Owed' BY <2>1, <2>2, MatchesHome DEF Owed
  <2>4. UndoLabels' BY <1>z, <1>8, <2>1, <2>3, <1>c DEF TryRestore, Recorded
  <2>5. QED BY <1>a, <2>1, <2>4
<1>9. CASE DropVirtualDisplay
  <2>1. UNCHANGED marker /\ Recorded BY <1>9 DEF DropVirtualDisplay
  <2>2. UndoLabels' BY <1>9, <2>1, <1>c DEF DropVirtualDisplay, Recorded
  <2>3. QED BY <1>a, <2>1, <2>2
<1>10. CASE RestoreAgain
  <2>1. UNCHANGED marker /\ Recorded /\ saved = Home BY <1>10 DEF RestoreAgain
  <2>2. ~Owed' BY <1>10, <2>1, RestoreIsExact DEF RestoreAgain, Owed
  <2>3. UndoLabels' BY <1>z, <1>10, <2>1, <2>2, <1>c DEF RestoreAgain, Recorded
  <2>4. QED BY <1>a, <2>1, <2>3
<1>11. CASE ClearFlags
  <2>1. ~Owed /\ ~Owed' BY <1>11 DEF ClearFlags, Owed
  <2>2. marker' = NoMarker /\ ~Recorded'
    BY <1>11 DEF ClearFlags, ClearMarker, NoMarker, Recorded
  <2>3. ~topologyChanged' BY <1>11, Zenon DEF ClearFlags
  <2>4. UndoLabels' BY <1>11, <2>1, <2>2, <2>3 DEF ClearFlags
  <2>5. QED BY <1>b, <2>1, <2>2, <2>4
<1>12. CASE Release
  <2>1. UNCHANGED marker /\ ~Owed /\ ~Recorded BY <1>z, <1>12, <1>c DEF Release
  <2>2. ~Owed'
    <3>1. CASE holds BY <1>z, <1>12, <2>1, <3>1, RemoveDisplayHome DEF Release
    <3>2. CASE ~holds BY <1>12, <2>1, <3>2 DEF Release, Owed
    <3>3. QED BY <3>1, <3>2
  <2>3. UndoLabels' BY <1>z, <1>12, <2>1, <2>2, <1>c DEF Release, Recorded, NoMarker
  <2>4. ~Recorded' BY <2>1 DEF Recorded
  <2>5. QED BY <1>b, <2>1, <2>2, <2>3, <2>4
<1>13. CASE Crash
  <2>1. UndoLabels' BY <1>13, <1>c DEF Crash, Owed, Recorded, NoMarker
  <2>2. QED BY <1>0, <1>13, <2>1 DEF Crash
<1>14. CASE WatchdogExpires
  <2>1. UNCHANGED <<marker, at, other, saved, topologyChanged, holds>>
    BY <1>14 DEF WatchdogExpires
  <2>2. virtual' = "none" BY <1>14 DEF WatchdogExpires, VirtualGoes
  <2>3. ~Owed => ~Owed' BY <1>z, <1>14, VirtualGoesHome DEF WatchdogExpires
  <2>4. UndoLabels' BY <1>z, <2>1, <2>2, <2>3, <1>c DEF Recorded, NoMarker
  <2>5. CASE Recorded BY <1>a, <2>1, <2>4, <2>5
  <2>6. CASE ~Recorded
    <3>1. ~Owed /\ ~Owed' /\ ~Recorded' BY <1>z, <2>1, <2>3, <2>6 DEF Recorded
    <3>2. QED BY <1>b, <2>4, <3>1
  <2>7. QED BY <2>5, <2>6
<1>15. CASE Start
  <2>1. virtual = "none" BY <1>15 DEF Start
  <2>2. UNCHANGED <<screen, virtual, marker, holds, saved, topologyChanged, other>>
    BY <1>15 DEF Start
  <2>3. CASE Recorded
    <3>0. marker.there = TRUE BY <2>3 DEF Recorded
    <3>1. at' = "recover" BY <1>15, <3>0 DEF Start
    <3>2. Recorded' BY <2>2, <2>3 DEF Recorded
    <3>3. ~topologyChanged /\ virtual' = "none" BY <1>15, <2>1, <2>2 DEF Start
    <3>4. UndoLabels' BY <2>2, <3>1, <3>2, <3>3
    <3>5. QED BY <1>0, <2>2, <3>4
  <2>4. CASE marker = NoMarker /\ screen = Home
    <3>1. at' = "idle" BY <1>15, <2>4 DEF Start, NoMarker
    <3>2. marker' = NoMarker /\ screen' = Home BY <2>2, <2>4 DEF NoMarker
    <3>3. ~topologyChanged /\ virtual' = "none" BY <1>15, <2>1, <2>2 DEF Start
    <3>4. UndoLabels' BY <1>z, <2>2, <3>1, <3>2, <3>3
    <3>5. QED BY <1>0, <2>2, <3>4
  <2>5. QED BY <2>3, <2>4
<1>16. CASE Recover
  <2>1. UNCHANGED marker /\ Recorded /\ marker.saved = Home /\ virtual = "none"
    BY <1>16 DEF Recover, Recorded, TypeOK, HostLabels
  <2>2. ~Owed' BY <1>16, <2>1, RestoreIsExact DEF Recover, Owed
  <2>3. UndoLabels' BY <1>z, <1>16, <2>1, <2>2, <1>c DEF Recover, Recorded
  <2>4. QED BY <1>a, <2>1, <2>3
<1>17. CASE Forget
  <2>1. ~Owed /\ ~Owed' BY <1>17 DEF Forget, Owed
  <2>2. marker' = NoMarker /\ ~Recorded'
    BY <1>17 DEF Forget, ClearMarker, NoMarker, Recorded
  <2>3. UndoLabels' BY <1>17, <2>1, <2>2 DEF Forget
  <2>4. QED BY <1>b, <2>1, <2>2, <2>3
<1>18. CASE Other
  BY <1>18 DEF Other, OtherStarts, OtherRestores, OtherClears
<1>19. CASE UNCHANGED vars
  <2>1. UndoLabels' BY <1>19 DEF vars, Owed, Recorded, NoMarker
  <2>2. QED BY <1>0, <1>19, <2>1 DEF vars
<1>20. QED
  BY <1>1, <1>2, <1>3, <1>4, <1>5, <1>6, <1>7, <1>8, <1>9, <1>10, <1>11, <1>12, <1>13,
     <1>14, <1>15, <1>16, <1>17, <1>18, <1>19
     DEF Next, Switch, GiveBack, Recovery

\* Every step of the switch is a step of the record, or the promise has lapsed.
LEMMA UndoStep ==
    ASSUME TypeOK, UndoInv, [Next]_vars
    PROVE  UndoInv' /\ [Undo!Next]_<<Owed, Recorded>>
<1>1. CASE lapses' = {}
  <2>1. lapses = {} BY <1>1, LapsesGrow
  <2>2. QED BY <1>1, <2>1, UndoLabelsStep DEF UndoInv
<1>2. CASE lapses' # {}
  <2>1. UndoInv' BY <1>2 DEF UndoInv
  <2>2. Owed' = FALSE BY <1>2, Zenon DEF Owed
  <2>3. Recorded' \in BOOLEAN BY Zenon DEF Recorded
  <2>4. CASE Owed
    <3>1. Recorded /\ at # "mark" BY <2>4 DEF Owed, UndoInv, UndoLabels, NoMarker, Recorded
    <3>2. UNCHANGED marker
      <4>1. CASE MarkDetached \/ Create \/ Snapshot BY <4>1, <3>1, <2>4
            DEF MarkDetached, Create, Snapshot
      <4>2. CASE ClearFlags \/ Forget \/ OtherClears
        <5>1. lapses = {} /\ UNCHANGED lapses
          BY <4>2, <2>4 DEF ClearFlags, Forget, OtherClears, Owed
        <5>2. QED BY <5>1, <1>2
      <4>3. QED
        BY <4>1, <4>2 DEF Next, Switch, GiveBack, Recovery, Other, Attach, MakePrimary,
           DetachPhysicalDisplays, RestoreDisplays, TryRestore, DropVirtualDisplay,
           RestoreAgain, Release, Crash, WatchdogExpires, Start, Recover, OtherStarts,
           OtherRestores, vars
    <3>3. Recorded' = Recorded BY <3>2 DEF Recorded
    <3>4. Owed' \in BOOLEAN BY <2>2
    <3>5. QED BY <2>1, <3>1, <3>3, <3>4 DEF Undo!Next, Undo!Change
  <2>5. CASE ~Owed
    <3>1. Owed' = Owed BY <2>2, <2>5, Zenon DEF Owed
    <3>2. CASE Recorded' = TRUE BY <2>1, <3>1, <3>2, <2>5 DEF Undo!Next, Undo!Record
    <3>3. CASE Recorded' = FALSE BY <2>1, <3>1, <3>3, <2>5 DEF Undo!Next, Undo!Forget
    <3>4. QED
      <4>1. \A b \in BOOLEAN : b = TRUE \/ b = FALSE OBVIOUS
      <4>2. Recorded' = TRUE \/ Recorded' = FALSE BY <4>1, <2>3, Zenon
      <4>3. (Owed' = Owed) /\ (Undo!Next \/ UNCHANGED <<Owed, Recorded>>)
        BY <2>1, <3>1, <3>2, <3>3, <4>2 DEF Undo!Next, Undo!Record, Undo!Forget
      <4>4. QED BY <2>1, <4>3
  <2>6. QED BY <2>4, <2>5
<1>3. QED BY <1>1, <1>2

\* A change of the desktop is on record, on disk, before it is made and until it is
\* undone: Session::PrepareVirtualDisplay to RestoreDisplays and RecoverIfMarked
\* implement an undo record, wherever the process dies, until the disk or Windows
\* refuses, the virtual display outlasts the wait for its removal, or another process
\* starts at the wrong time.
THEOREM UndoImplemented == Spec => UndoSpec
<1>1. Init => Undo!Init BY DEF Init, Undo!Init, Owed, Recorded
<1>2. TypeOK /\ UndoInv /\ [Next]_vars => UndoInv' /\ [Undo!Next]_<<Owed, Recorded>>
  BY UndoStep
<1>3. QED
  BY <1>1, <1>2, UndoInit, DisplaysTypeCorrect, PTL DEF Spec, UndoSpec, Undo!Spec

-----------------------------------------------------------------------------
(* No screen left off.                                                       *)

AllOn(arrangement) == \A s \in Screens : arrangement[s] # "off"

\* The lapses that NoScreenLeftOff survives.
Minor == lapses \subseteq {"restore", "remove", "early"}

\* Where every screen is on, and where the way back to that is known.
ScreensLabels ==
    /\ other = "none"
    /\ at \in {"idle", "snapshot", "mark", "clear", "release", "forget"} => AllOn(screen)
    /\ at \in Switched \cup {"mark"} => AllOn(saved)
    /\ at \in Switched => marker.there /\ topologyChanged
    /\ topologyChanged => at \in Switched \cup {"clear"}
    /\ marker.there => AllOn(marker.saved)
    /\ at = "recover" => marker.there
    /\ at = "dead" => AllOn(screen) \/ marker.there

ScreensInv == Minor => ScreensLabels

\* A restore to an arrangement with every screen in it brings every screen back.
LEMMA RestoreBringsBack ==
    ASSUME TypeOK, NEW wanted \in Snapshots, NEW around, AllOn(wanted),
           Restore(wanted, around), "default" \notin lapses'
    PROVE  AllOn(screen')
<1>1. PICK now \in Restorations(wanted) :
        /\ MissingFrom(now, wanted) \/ screen' = now
        /\ ~(MissingFrom(now, wanted) /\ \E s \in Screens : screen'[s] = "off")
  BY DEF Restore
<1>2. CASE MissingFrom(now, wanted) BY <1>1, <1>2 DEF AllOn
<1>3. CASE ~MissingFrom(now, wanted) BY <1>1, <1>3 DEF MissingFrom, AllOn
<1>4. QED BY <1>2, <1>3

LEMMA MatchesAllOn ==
    ASSUME NEW now, NEW wanted, Matches(now, wanted), AllOn(wanted)
    PROVE  AllOn(now)
BY DEF Matches, AllOn

LEMMA VirtualGoesAllOn ==
    ASSUME VirtualGoes, AllOn(screen)
    PROVE  AllOn(screen')
<1>1. PICK s \in Screens : TRUE BY DisplaysAssumption DEF DisplaysAssumption
<1>2. QED BY <1>1 DEF VirtualGoes, AllOn

LEMMA RemoveDisplayAllOn ==
    ASSUME RemoveDisplay, AllOn(screen)
    PROVE  AllOn(screen')
BY VirtualGoesAllOn DEF RemoveDisplay

LEMMA ScreensStep ==
    ASSUME TypeOK, ScreensInv, [Next]_vars
    PROVE  ScreensInv'
<1> SUFFICES ASSUME Minor' PROVE ScreensLabels' BY DEF ScreensInv
<1>a. Minor /\ ScreensLabels BY LapsesGrow DEF ScreensInv, Minor
<1>b. {"mark", "default", "second"} \cap lapses' = {} BY DEF Minor
<1>c. saved \in Snapshots /\ marker.saved \in Snapshots BY DEF TypeOK
<1> USE <1>a DEF ScreensLabels, Switched, Goto, memory
<1>1. CASE Create BY <1>1 DEF Create
<1>2. CASE Snapshot BY <1>2 DEF Snapshot
<1>3. CASE MarkDetached
  <2>1. marker' = [there |-> TRUE, saved |-> saved] BY <1>3, <1>b DEF MarkDetached
  <2>2. marker'.there /\ marker'.saved = saved BY <2>1
  <2>3. topologyChanged' BY <1>3, Zenon DEF MarkDetached
  <2>4. QED BY <1>3, <2>2, <2>3 DEF MarkDetached, AllOn
<1>4. CASE Attach BY <1>4 DEF Attach
<1>5. CASE MakePrimary BY <1>5 DEF MakePrimary
<1>6. CASE DetachPhysicalDisplays BY <1>6 DEF DetachPhysicalDisplays
<1>7. CASE RestoreDisplays BY <1>7 DEF RestoreDisplays
<1>8. CASE TryRestore BY <1>8, MatchesAllOn DEF TryRestore
<1>9. CASE DropVirtualDisplay BY <1>9 DEF DropVirtualDisplay
<1>10. CASE RestoreAgain BY <1>10, <1>b, <1>c, RestoreBringsBack DEF RestoreAgain
<1>11. CASE ClearFlags
  <2>1. ~topologyChanged' BY <1>11, Zenon DEF ClearFlags
  <2>2. marker'.there = FALSE BY <1>11 DEF ClearFlags, ClearMarker
  <2>3. QED BY <1>11, <2>1, <2>2 DEF ClearFlags
<1>12. CASE Release
  <2>1. AllOn(screen') BY <1>12, RemoveDisplayAllOn DEF Release
  <2>2. QED BY <1>12, <2>1 DEF Release
<1>13. CASE Crash
  <2>1. ~topologyChanged' BY <1>13, Zenon DEF Crash
  <2>2. AllOn(screen) \/ marker.there BY DEF TypeOK, HostLabels
  <2>3. UNCHANGED <<screen, marker, other>> /\ at' = "dead" BY <1>13 DEF Crash
  <2>4. QED BY <2>1, <2>2, <2>3
<1>14. CASE WatchdogExpires
  <2>1. AllOn(screen) => AllOn(screen') BY <1>14, VirtualGoesAllOn DEF WatchdogExpires
  <2>2. UNCHANGED <<marker, at, memory, other>> BY <1>14 DEF WatchdogExpires
  <2>3. QED BY <2>1, <2>2
<1>15. CASE Start BY <1>15 DEF Start
<1>16. CASE Recover BY <1>16, <1>b, <1>c, RestoreBringsBack DEF Recover
<1>17. CASE Forget
  <2>1. marker'.there = FALSE BY <1>17 DEF Forget, ClearMarker
  <2>2. QED BY <1>17, <2>1 DEF Forget
<1>18. CASE OtherStarts BY <1>18, <1>b DEF OtherStarts
<1>19. CASE OtherRestores \/ OtherClears BY <1>19 DEF OtherRestores, OtherClears
<1>20. CASE UNCHANGED vars BY <1>20 DEF vars
<1>21. QED
  BY <1>1, <1>2, <1>3, <1>4, <1>5, <1>6, <1>7, <1>8, <1>9, <1>10, <1>11, <1>12, <1>13,
     <1>14, <1>15, <1>16, <1>17, <1>18, <1>19, <1>20
     DEF Next, Switch, GiveBack, Recovery, Other

\* Between sessions no screen is off, however the process got there: DisplayTopology
\* ::Restore falls back on the default topology for a screen that did not come back,
\* and the marker lets the next process do the same.
THEOREM EveryScreenOn == Spec => []NoScreenLeftOff
<1>1. Init => ScreensInv
  BY DEF Init, ScreensInv, ScreensLabels, AllOn, Home, Switched
<1>2. TypeOK /\ ScreensInv /\ [Next]_vars => ScreensInv' BY ScreensStep
<1>3. ScreensInv => NoScreenLeftOff
  BY DEF ScreensInv, ScreensLabels, Minor, AllOn, NoScreenLeftOff
<1>4. QED BY <1>1, <1>2, <1>3, DisplaysTypeCorrect, PTL DEF Spec
=============================================================================
