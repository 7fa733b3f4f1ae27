------------------------------ MODULE InputDesk ------------------------------
(***************************************************************************)
(* What a host process does to the desktop on its client's behalf, beside  *)
(* streaming it: mouse buttons (input_injector.cpp), the unlocking of a    *)
(* locked session before a launch (session_lock.cpp) and the reading of    *)
(* the game library through a helper program (game_library.cpp).  All of   *)
(* it happens on the network thread of the Session that is up; Host.tla    *)
(* has that thread's other work, and what the virtual pad holds.           *)
(*                                                                         *)
(* Windows may swallow any injected event (UIPI): SendInput is a choice.   *)
(***************************************************************************)
CONSTANTS
    Hosts,      \* processes started with --serve, numbered as they start
    Buttons     \* mouse buttons

VARIABLES
    session,    \* RunServer's session: absent, up, or inside Shutdown
    net,        \* where its network thread is
    hand,       \* the button MouseButtonEvent is working on
    held,       \* g_heldButtons
    down,       \* the buttons Windows takes for pressed
    lost        \* history: the buttons left down by a host that is gone, or
                \* whose bit a swallowed press cleared

deskVars == <<net, hand, held, down, lost>>

SessionStates == {"none", "up", "stopping"}
NetLabels == {"none", "reading", "library", "marked", "lifted",
              "query", "run", "poll"}

\* RecvExact returns a message: Stop closes the socket before it joins.
Listening(h) == net[h] = "reading" /\ session[h] = "up"

-----------------------------------------------------------------------------
\* MouseButtonEvent, a press: the bit first, then the event.
MarkPress(h, b) ==
    /\ Listening(h)
    /\ net' = [net EXCEPT ![h] = "marked"]
    /\ hand' = [hand EXCEPT ![h] = b]
    /\ held' = [held EXCEPT ![h] = @ \cup {b}]
    /\ UNCHANGED <<down, lost>>

\* A swallowed press clears the bit, also that of a button an earlier
\* swallowed lift left down.
PressSent(h) ==
    /\ net[h] = "marked"
    /\ net' = [net EXCEPT ![h] = "reading"]
    /\ \/ /\ down' = down \cup {hand[h]}
          /\ lost' = lost \ {hand[h]}
          /\ UNCHANGED held
       \/ /\ held' = [held EXCEPT ![h] = @ \ {hand[h]}]
          /\ lost' = lost \cup (down \cap {hand[h]})
          /\ UNCHANGED down
    /\ UNCHANGED <<hand>>

Lifted(B) == down' = down \ B /\ lost' = lost \ B

\* Mutant: the bit is cleared on `!pressed || !injected'.
LiftForgets(h, b) ==
    /\ Listening(h)
    /\ net' = [net EXCEPT ![h] = "lifted"]
    /\ hand' = [hand EXCEPT ![h] = b]
    /\ Lifted({b}) \/ UNCHANGED <<down, lost>>
    /\ UNCHANGED held

\* A lift: the event first.  Swallowed, it changes nothing: the bit stays.
LiftSent(h, b) ==
    /\ Listening(h)
    /\ net' = [net EXCEPT ![h] = "lifted"]
    /\ hand' = [hand EXCEPT ![h] = b]
    /\ Lifted({b})
    /\ UNCHANGED held

LiftNoted(h) ==
    /\ net[h] = "lifted"
    /\ net' = [net EXCEPT ![h] = "reading"]
    /\ held' = [held EXCEPT ![h] = @ \ {hand[h]}]
    /\ UNCHANGED <<hand, down, lost>>

\* ReleaseHeldButtons: every bit is taken and its button lifted, one event
\* each; the bit of a swallowed lift is put back.
ReleaseHeldButtons(h) ==
    \E lifted \in SUBSET held[h] :
        /\ held' = [held EXCEPT ![h] = @ \ lifted]
        /\ Lifted(lifted)

\* STOP, or the client goes: StopStreaming's release, if there was a stream,
\* and the server's own are one here, as the second finds what the first left.
ClientLeaves(h) ==
    /\ Listening(h)
    /\ ReleaseHeldButtons(h)
    /\ UNCHANGED <<net, hand>>

-----------------------------------------------------------------------------
\* HELLO and the console's page read the library: CaptureOutput reads the
\* helper's output until the helper closes it, however long that takes.
ListGames(h) ==
    /\ Listening(h)
    /\ net' = [net EXCEPT ![h] = "library"]
    /\ UNCHANGED <<hand, held, down, lost>>

LibraryRead(h) ==
    /\ net[h] = "library"
    /\ net' = [net EXCEPT ![h] = "reading"]
    /\ UNCHANGED <<hand, held, down, lost>>

\* LAUNCH: IsLocked asks Windows, whose answer is not the host's to know.
\* RequestUnlock looks for the helper task...
Launch(h) ==
    /\ Listening(h)
    /\ net' = [net EXCEPT ![h] = "query"]
    /\ UNCHANGED <<hand, held, down, lost>>

\* ...through schtasks, which counts as failed when it does not start or still
\* runs at the end of its time...
RunHidden(h, next) ==
    /\ \E after \in {next, "reading"} : net' = [net EXCEPT ![h] = after]
    /\ UNCHANGED <<hand, held, down, lost>>

HelperInstalled(h) == net[h] = "query" /\ RunHidden(h, "run")

\* ...runs it...
RunTask(h) == net[h] = "run" /\ RunHidden(h, "poll")

\* ...and polls until the lock has cleared or the deadline has passed, whether
\* or not somebody is waiting to shut the service down.
UnlockEnds(h) ==
    /\ net[h] = "poll"
    /\ net' = [net EXCEPT ![h] = "reading"]
    /\ UNCHANGED <<hand, held, down, lost>>

\* The client's doing, and the network thread's own steps, each bounded by a
\* timeout of the code except the reading of the library.
NetInput(h) ==
    \/ \E b \in Buttons : MarkPress(h, b) \/ LiftSent(h, b)
    \/ ClientLeaves(h)
    \/ ListGames(h)
    \/ Launch(h)

NetStep(h) ==
    \/ PressSent(h)
    \/ LiftNoted(h)
    \/ HelperInstalled(h)
    \/ RunTask(h)
    \/ UnlockEnds(h)
=============================================================================
