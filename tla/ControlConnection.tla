-------------------------- MODULE ControlConnection ---------------------------
(***************************************************************************)
(* The client's end of one control connection, from connect() to the last  *)
(* thread's end.  The coroutine in connect() (io), the main thread, the    *)
(* video receiver's thread, the reader and the writer share three fields   *)
(* without a lock: socket, connected and the queue outbound.  Every test   *)
(* and every write of one of them is a step of its own.                    *)
(*                                                                         *)
(* A screen makes a ControlConnection for every attempt and calls connect  *)
(* once.  StreamActivity ends it with stopSessionAndClose, LibraryActivity *)
(* with close.  Of the messages, the mouse button's edges, STOP and their  *)
(* order matter; any other is "note".                                      *)
(***************************************************************************)
EXTENDS Naturals, Sequences

CONSTANT MaxMessages  \* bound: messages queued before the screen lets go

ASSUME MessagesAssumption == MaxMessages \in Nat

VARIABLES
    screen,     \* whose connection it is: "stream" or "library"
    socket,     \* socket is not null
    connected,
    outbound,
    at,         \* where each thread is
    todo,       \* what it is about to put into the queue or on the wire
    cancelled,  \* the screen's coroutine scope is
    finger,     \* TouchController: the mouse button is held down
    open,       \* the TCP socket: "new", "open" or "closed" by the client
    link,       \* the host's end and the network are up
    wire,       \* written and not yet read by the host
    sent, got,  \* see OrderedChannel
    early       \* history: the screen let go while connect() was running

fields == <<socket, connected, outbound>>
transport == <<open, link, wire, got>>
vars == <<screen, fields, at, todo, cancelled, finger, transport, sent, early>>

Threads == {"io", "main", "receiver", "reader", "writer"}

Messages == {"hello", "down", "up", "note", "stop"}

Goes(t, place) == at' = [at EXCEPT ![t] = place]

Init ==
    /\ screen \in {"stream", "library"}
    /\ socket = FALSE
    /\ connected = FALSE
    /\ outbound = <<>>
    /\ at = [t \in Threads |-> CASE t = "io" -> "dialling"
                                 [] t \in {"main", "receiver"} -> "free"
                                 [] OTHER -> "none"]
    /\ todo = [t \in Threads |-> <<>>]
    /\ cancelled = FALSE
    /\ finger = FALSE
    /\ open = "new"
    /\ link = TRUE
    /\ wire = <<>>
    /\ sent = <<>>
    /\ got = <<>>
    /\ early = FALSE

-----------------------------------------------------------------------------
\* connect(), on Dispatchers.IO: the blocking connect fails or not...
Dial ==
    /\ at["io"] = "dialling"
    /\ \/ open' = "open" /\ Goes("io", "assigning")
       \/ open' = "closed" /\ Goes("io", "done")
    /\ UNCHANGED <<screen, fields, todo, cancelled, finger, link, wire, got, sent, early>>

\* ...then come socket, the queue and connected, a statement at a time...
Assign ==
    /\ at["io"] = "assigning"
    /\ socket' = TRUE
    /\ Goes("io", "emptying")
    /\ UNCHANGED <<screen, connected, outbound, todo, cancelled, finger, transport, sent, early>>

Empty ==
    /\ at["io"] = "emptying"
    /\ outbound' = <<>>
    /\ Goes("io", "connecting")
    /\ UNCHANGED <<screen, socket, connected, todo, cancelled, finger, transport, sent, early>>

Connected ==
    /\ at["io"] = "connecting"
    /\ connected' = TRUE
    /\ Goes("io", "starting")
    /\ UNCHANGED <<screen, socket, outbound, todo, cancelled, finger, transport, sent, early>>

\* ...and the two threads.  The reader is a coroutine of the screen's scope:
\* nothing is launched in one that is cancelled.
StartThreads ==
    /\ at["io"] = "starting"
    /\ at' = [at EXCEPT !["io"] = "greeting", !["writer"] = "taking",
                        !["reader"] = IF cancelled THEN "ended" ELSE "launched"]
    /\ UNCHANGED <<screen, fields, todo, cancelled, finger, transport, sent, early>>

-----------------------------------------------------------------------------
\* send(): the test of connected...
Send(t, from, m) ==
    /\ at[t] = from
    /\ IF connected
         THEN Goes(t, "sending") /\ todo' = [todo EXCEPT ![t] = <<m>>]
         ELSE Goes(t, IF t = "io" THEN "done" ELSE "free") /\ UNCHANGED todo

\* ...and the frame's place in the queue.  stopSessionAndClose queues its
\* frames without the test, the sentinel last.
Enqueue(t) ==
    /\ at[t] \in {"sending", "stopping"}
    /\ outbound' = Append(outbound, Head(todo[t]))
    /\ sent' = IF Head(todo[t]) = "CLOSE" THEN sent ELSE Append(sent, Head(todo[t]))
    /\ todo' = [todo EXCEPT ![t] = Tail(@)]
    /\ Goes(t, IF Len(todo[t]) > 1 THEN "stopping"
               ELSE IF at[t] = "stopping" THEN "left"
               ELSE IF t = "io" THEN "done" ELSE "free")
    /\ UNCHANGED <<screen, socket, connected, cancelled, finger, transport, early>>

SendHello ==
    /\ Send("io", "greeting", "hello")
    /\ UNCHANGED <<screen, fields, cancelled, finger, transport, sent, early>>

MaySend == Len(sent) < MaxMessages /\ at["main"] # "left"

\* The library asks for covers, once it has the games.
SendNote(t) ==
    /\ MaySend
    /\ t = "receiver" => screen = "stream"
    /\ screen = "library" => at["io"] = "done"
    /\ Send(t, "free", "note")
    /\ UNCHANGED <<screen, fields, cancelled, finger, transport, sent, early>>

\* Touch is on once a picture is shown, long after connect().  TouchController
\* remembers a press whether it could be sent or not.
Touch ==
    /\ MaySend
    /\ screen = "stream"
    /\ at["io"] = "done"
    /\ finger' = ~finger
    /\ Send("main", "free", IF finger THEN "up" ELSE "down")
    /\ UNCHANGED <<screen, fields, cancelled, transport, sent, early>>

-----------------------------------------------------------------------------
\* Mutant of CloseQueues: the sentinel is left to the socket's closing.
CloseQueuesNothing(t) ==
    /\ at[t] = "queueing"
    /\ Goes(t, "shutting")
    /\ UNCHANGED <<screen, fields, todo, cancelled, finger, transport, sent, early>>

\* close(), statement by statement, on whichever thread calls it.
CloseDrops(t) ==
    /\ at[t] = "dropping"
    /\ connected' = FALSE
    /\ at' = [at EXCEPT ![t] = "clearing",
                        !["reader"] = IF @ = "launched" THEN "ended" ELSE @]
    /\ UNCHANGED <<screen, socket, outbound, todo, cancelled, finger, transport, sent, early>>

CloseClears(t) ==
    /\ at[t] = "clearing"
    /\ outbound' = <<>>
    /\ Goes(t, "queueing")
    /\ UNCHANGED <<screen, socket, connected, todo, cancelled, finger, transport, sent, early>>

CloseQueues(t) ==
    /\ at[t] = "queueing"
    /\ outbound' = Append(outbound, "CLOSE")
    /\ Goes(t, "shutting")
    /\ UNCHANGED <<screen, socket, connected, todo, cancelled, finger, transport, sent, early>>

CloseShuts(t) ==
    /\ at[t] = "shutting"
    /\ open' = IF socket THEN "closed" ELSE open
    /\ Goes(t, "forgetting")
    /\ UNCHANGED <<screen, fields, todo, cancelled, finger, link, wire, got, sent, early>>

\* What follows on the reader and the writer is onDisconnected, which only
\* posts to the main thread, and the end of the thread.
CloseForgets(t) ==
    /\ at[t] = "forgetting"
    /\ socket' = FALSE
    /\ Goes(t, CASE t = "main" -> "left" [] t = "reader" -> "ended" [] t = "writer" -> "finally")
    /\ UNCHANGED <<screen, connected, outbound, todo, cancelled, finger, transport, sent, early>>

\* handleDisconnect: the test; two threads may both pass it.
Disconnects(t, otherwise) == Goes(t, IF connected THEN "dropping" ELSE otherwise)

-----------------------------------------------------------------------------
\* Mutant of StopSessionAndClose: STOP goes ahead of the releases.
StopThenRelease ==
    /\ at["main"] = "free"
    /\ screen = "stream"
    /\ early' = (at["io"] # "done")
    /\ finger' = FALSE
    /\ IF socket
         THEN /\ connected' = FALSE
              /\ socket' = FALSE
              /\ todo' = [todo EXCEPT !["main"] =
                             <<"stop">> \o (IF finger THEN <<"up">> ELSE <<>>) \o <<"CLOSE">>]
              /\ at' = [at EXCEPT !["main"] = "stopping",
                                  !["reader"] = IF @ = "launched" THEN "ended" ELSE @]
         ELSE /\ Goes("main", "dropping")
              /\ UNCHANGED <<connected, socket, todo>>
    /\ UNCHANGED <<screen, outbound, cancelled, transport, sent>>

\* teardownSession and onDestroy: touch.abandon gives the held buttons to
\* stopSessionAndClose.
StopSessionAndClose ==
    /\ at["main"] = "free"
    /\ screen = "stream"
    /\ early' = (at["io"] # "done")
    /\ finger' = FALSE
    /\ IF socket
         THEN /\ connected' = FALSE
              /\ socket' = FALSE
              /\ todo' = [todo EXCEPT !["main"] =
                             (IF finger THEN <<"up">> ELSE <<>>) \o <<"stop", "CLOSE">>]
              /\ at' = [at EXCEPT !["main"] = "stopping",
                                  !["reader"] = IF @ = "launched" THEN "ended" ELSE @]
         ELSE /\ Goes("main", "dropping")
              /\ UNCHANGED <<connected, socket, todo>>
    /\ UNCHANGED <<screen, outbound, cancelled, transport, sent>>

\* LibraryActivity.launchGame and onDestroy.
LibraryCloses ==
    /\ at["main"] = "free"
    /\ screen = "library"
    /\ early' = (at["io"] # "done")
    /\ Goes("main", "dropping")
    /\ UNCHANGED <<screen, fields, todo, cancelled, finger, transport, sent>>

\* The activity is destroyed and its scope with it; a launched coroutine that
\* has not begun never will.
CancelScope ==
    /\ at["main"] = "left"
    /\ ~cancelled
    /\ cancelled' = TRUE
    /\ at' = [at EXCEPT !["reader"] = IF @ = "launched" THEN "ended" ELSE @]
    /\ UNCHANGED <<screen, fields, todo, finger, transport, sent, early>>

-----------------------------------------------------------------------------
\* Mutant of WriterTakes: the loop runs while (connected).
WriterTakesWhileConnected ==
    /\ at["writer"] = "taking"
    /\ outbound # <<>>
    /\ outbound' = Tail(outbound)
    /\ IF Head(outbound) = "CLOSE" \/ ~connected
         THEN Goes("writer", "finally") /\ UNCHANGED todo
         ELSE Goes("writer", "writing") /\ todo' = [todo EXCEPT !["writer"] = <<Head(outbound)>>]
    /\ UNCHANGED <<screen, socket, connected, cancelled, finger, transport, sent, early>>

\* Mutant of WriterTakes: a coroutine for each message, as it used to be.
WriterTakesAny ==
    /\ at["writer"] = "taking"
    /\ \E i \in DOMAIN outbound :
          /\ outbound' = SubSeq(outbound, 1, i - 1) \o SubSeq(outbound, i + 1, Len(outbound))
          /\ IF outbound[i] = "CLOSE"
               THEN Goes("writer", "finally") /\ UNCHANGED todo
               ELSE Goes("writer", "writing") /\ todo' = [todo EXCEPT !["writer"] = <<outbound[i]>>]
    /\ UNCHANGED <<screen, socket, connected, cancelled, finger, transport, sent, early>>

\* writeLoop: take() waits for a frame; the sentinel ends the loop.
WriterTakes ==
    /\ at["writer"] = "taking"
    /\ outbound # <<>>
    /\ outbound' = Tail(outbound)
    /\ IF Head(outbound) = "CLOSE"
         THEN Goes("writer", "finally") /\ UNCHANGED todo
         ELSE Goes("writer", "writing") /\ todo' = [todo EXCEPT !["writer"] = <<Head(outbound)>>]
    /\ UNCHANGED <<screen, socket, connected, cancelled, finger, transport, sent, early>>

\* write() and flush(): on a dead link the kernel may still take the bytes.
WriterWrites ==
    /\ at["writer"] = "writing"
    /\ todo' = [todo EXCEPT !["writer"] = <<>>]
    /\ \/ /\ open = "open"
          /\ wire' = IF link THEN wire \o todo["writer"] ELSE wire
          /\ Goes("writer", "taking")
       \/ /\ open = "closed" \/ ~link
          /\ Disconnects("writer", "finally")
          /\ UNCHANGED wire
    /\ UNCHANGED <<screen, fields, cancelled, finger, open, link, got, sent, early>>

WriterEnds ==
    /\ at["writer"] = "finally"
    /\ open' = "closed"
    /\ Goes("writer", "ended")
    /\ UNCHANGED <<screen, fields, todo, cancelled, finger, link, wire, got, sent, early>>

-----------------------------------------------------------------------------
\* readLoop: it tests connected before each message, and a socket that is
\* closed on either side throws it out of readFully.
ReaderStarts ==
    /\ at["reader"] = "launched"
    /\ Goes("reader", "reading")
    /\ UNCHANGED <<screen, fields, todo, cancelled, finger, transport, sent, early>>

ReaderStops ==
    /\ at["reader"] = "reading"
    /\ ~connected \/ open = "closed" \/ ~link
    /\ Disconnects("reader", "ended")
    /\ UNCHANGED <<screen, fields, todo, cancelled, finger, transport, sent, early>>

-----------------------------------------------------------------------------
\* The host's control thread reads a message...
HostReads ==
    /\ link
    /\ wire # <<>>
    /\ wire' = Tail(wire)
    /\ got' = Append(got, Head(wire))
    /\ UNCHANGED <<screen, fields, at, todo, cancelled, finger, open, link, sent, early>>

\* ...and ends at the client's close, at its own shutdown or when the network
\* fails; what is on the way is lost.
HostEnds ==
    /\ link
    /\ open # "new"
    /\ link' = FALSE
    /\ wire' = <<>>
    /\ UNCHANGED <<screen, fields, at, todo, cancelled, finger, open, got, sent, early>>

-----------------------------------------------------------------------------
Connect == Dial \/ Assign \/ Empty \/ Connected \/ StartThreads \/ SendHello

Close(t) == CloseDrops(t) \/ CloseClears(t) \/ CloseQueues(t) \/ CloseShuts(t) \/ CloseForgets(t)

Writer == WriterTakes \/ WriterWrites \/ WriterEnds \/ Close("writer")

Reader == ReaderStarts \/ ReaderStops \/ Close("reader")

Next ==
    \/ Connect
    \/ \E t \in Threads : Enqueue(t)
    \/ \E t \in {"main", "receiver"} : SendNote(t)
    \/ Touch
    \/ StopSessionAndClose \/ LibraryCloses \/ Close("main") \/ CancelScope
    \/ Writer \/ Reader
    \/ HostReads \/ HostEnds

Spec == Init /\ [][Next]_vars

\* Every thread goes on with what it has begun, and the host reads.
Fairness ==
    /\ WF_vars(Connect) /\ WF_vars(Enqueue("io")) /\ WF_vars(Enqueue("main"))
    /\ WF_vars(Close("main")) /\ WF_vars(Writer) /\ WF_vars(Reader) /\ WF_vars(HostReads)

FairSpec == Spec /\ Fairness

-----------------------------------------------------------------------------
ClosePlaces == {"dropping", "clearing", "queueing", "shutting", "forgetting"}
IoPlaces == {"dialling", "assigning", "emptying", "connecting", "starting", "greeting", "sending", "done"}
MainPlaces == {"free", "sending", "stopping", "left"} \cup ClosePlaces
ReaderPlaces == {"none", "launched", "reading", "ended"} \cup ClosePlaces
WriterPlaces == {"none", "taking", "writing", "finally", "ended"} \cup ClosePlaces

TypeOK ==
    /\ screen \in {"stream", "library"}
    /\ {socket, connected, cancelled, finger, link, early} \subseteq BOOLEAN
    /\ outbound \in Seq(Messages \cup {"CLOSE"})
    /\ at \in [Threads -> IoPlaces \cup MainPlaces \cup ReaderPlaces \cup WriterPlaces]
    /\ at["io"] \in IoPlaces
    /\ at["main"] \in MainPlaces
    /\ at["receiver"] \in {"free", "sending"}
    /\ at["reader"] \in ReaderPlaces
    /\ at["writer"] \in WriterPlaces
    /\ todo \in [Threads -> Seq(Messages \cup {"CLOSE"})]
    /\ open \in {"new", "open", "closed"}
    /\ {wire, sent, got} \subseteq Seq(Messages)

Channel == INSTANCE OrderedChannel

\* The host reads what was queued, in that order and without a hole, whoever
\* queues, clears and closes (ControlConnection: a LEFTUP that overtakes or
\* loses its LEFTDOWN "latches the button down on the user's PC"), save where the
\* screen lets go before connect() has returned.
InOrder ==
    Channel!Init /\ [][early \/ Channel!Submit \/ Channel!Deliver]_Channel!channelVars

\* stopSessionAndClose: what the finger was holding down the host is told to lift,
\* and it is told before it is told to stop.
LiftedBeforeStop ==
    \A d, s \in DOMAIN got :
        d < s /\ got[d] = "down" /\ got[s] = "stop" => \E u \in d..s : got[u] = "up"

\* "a teardown message still go[es] out after the activity that queued it has
\* cancelled its scope": STOP reaches the host unless the link ends.
StopGoesOut ==
    ~early /\ at["main"] = "stopping" ~> ("stop" \in {got[i] : i \in DOMAIN got} \/ ~link)

\* A connection that is let go of, or whose link ends, gives up its threads and
\* its socket ("would leak an activity every time"), save where the screen lets
\* go before connect() has returned.
ThreadsEnd ==
    ~early /\ at["io"] = "done" /\ (at["main"] = "left" \/ ~link) ~>
        early \/ (open = "closed" /\ at["writer"] \in {"none", "ended"} /\ at["reader"] \in {"none", "ended"})

\* close: "Drops the connection at once".  A screen that is done with its
\* connection does not become connected later.
DroppedForGood == at["main"] = "left" => ~connected

=============================================================================
