----------------------------- MODULE ControlProofs -----------------------------
(***************************************************************************)
(* Theorems about ControlConnection: its types, that it implements         *)
(* OrderedChannel, that a button held down is lifted before STOP, and that *)
(* a connection let go of once established stays dropped, for any number   *)
(* of messages.                                                            *)
(***************************************************************************)
EXTENDS ControlConnection, SequenceTheorems, TLAPS

\* What is in each thread's hand, once it runs.
TodoInv ==
    /\ at["io"] \in {"dialling", "assigning", "emptying", "connecting", "starting"} =>
          at["reader"] = "none" /\ at["writer"] = "none"
    /\ at["io"] = "sending" => todo["io"] = <<"hello">>
    /\ at["receiver"] = "sending" => todo["receiver"] = <<"note">>
    /\ at["main"] = "free" => todo["main"] = <<>>
    /\ at["main"] = "sending" => todo["main"] \in {<<"note">>, <<"down">>, <<"up">>}
    /\ at["main"] = "stopping" =>
          todo["main"] \in {<<"up", "stop", "CLOSE">>, <<"stop", "CLOSE">>, <<"CLOSE">>}
    /\ IF at["writer"] = "writing" THEN \E m \in Messages : todo["writer"] = <<m>>
                                   ELSE todo["writer"] = <<>>

\* The connection is over: nothing that is written now gets to the host.
Over == open = "closed" \/ ~link

\* The screen still uses the connection.
InUse == at["main"] \in {"free", "sending"}

\* Only the end of a connection, or the screen, makes its threads close it.
ClosingInv ==
    /\ early => ~InUse
    /\ at["reader"] \in ClosePlaces \/ at["writer"] \in ClosePlaces => Over
    /\ screen = "library" =>
          /\ at["receiver"] = "free" /\ at["main"] # "stopping"
          /\ todo["main"] \in {<<>>, <<"note">>}
    /\ at["io"] = "dialling" <=> open = "new"
    /\ at["io"] = "dialling" => ~socket

\* While connect() is under way, and for as long as the screen uses what it made.
EstablishedInv ==
    /\ at["io"] # "done" => InUse
    /\ at["io"] \in {"dialling", "assigning", "emptying", "connecting"} =>
          /\ ~connected /\ outbound = <<>>
          /\ at["main"] = "free" /\ at["receiver"] = "free"
    /\ InUse /\ at["io"] \notin {"dialling", "assigning"} => socket \/ Over
    /\ InUse /\ at["io"] \notin {"dialling", "assigning", "emptying", "connecting"} =>
          connected \/ Over
    /\ at["main"] \in ClosePlaces => screen = "library" \/ Over

Delivered == got \o wire

StartOf(s, t) == Len(s) <= Len(t) /\ \A i \in DOMAIN s : s[i] = t[i]

Taken == Delivered \o todo["writer"]

Writing == at["writer"] \in {"none", "taking", "writing"}

\* No sentinel among the first i of o.
Unclosed(o, i) == \A j \in 1 .. i : o[j] # "CLOSE"

\* Up to a sentinel, o is what follows the sequence t in s.
Follows(t, o, s) ==
    \A i \in DOMAIN o : Unclosed(o, i) => Len(t) + i <= Len(s) /\ o[i] = s[Len(t) + i]

\* What was queued is what was taken from the queue and what is still in it, up to
\* a sentinel.
LineInv ==
    /\ StartOf(Taken, sent)
    /\ Writing =>
          /\ Follows(Taken, outbound, sent)
          /\ Unclosed(outbound, Len(outbound)) =>
                /\ at["main"] \in {"free", "sending", "stopping"} =>
                      Len(Taken) + Len(outbound) = Len(sent)
                /\ at["main"] = "left" => screen = "library"

OrderInv ==
    ~early => /\ EstablishedInv
              /\ StartOf(Delivered, sent)
              /\ ~Over => LineInv

-----------------------------------------------------------------------------
\* A press is lifted later in s.
LiftedIn(s, d) == \E u \in DOMAIN s : u > d /\ s[u] = "up"

LiftedBefore(s) ==
    \A d, e \in DOMAIN s :
        d < e /\ s[d] = "down" /\ s[e] = "stop" => \E u \in d .. e : s[u] = "up"

\* Every press that was queued has been lifted, is being, or is remembered.
FingerInv ==
    /\ InUse =>
          \A d \in DOMAIN sent : sent[d] = "down" =>
              finger \/ LiftedIn(sent, d) \/ todo["main"] = <<"up">>
    /\ at["main"] = "sending" /\ todo["main"] = <<"down">> => finger
    /\ at["main"] = "stopping" =>
          \A d \in DOMAIN sent : sent[d] = "down" =>
              LiftedIn(sent, d) \/ Head(todo["main"]) = "up"
    /\ InUse => \A i \in DOMAIN sent : sent[i] # "stop"
    /\ LiftedBefore(sent)

NoDown(s) == \A i \in DOMAIN s : s[i] # "down"

\* Touch begins after connect() has returned: a screen that let go before that has
\* pressed nothing.
Unpressed ==
    /\ NoDown(sent) /\ NoDown(outbound) /\ NoDown(Delivered)
    /\ \A t \in Threads : NoDown(todo[t])

LiftInv ==
    /\ early \/ at["io"] # "done" => Unpressed
    /\ ~early /\ ~Over => FingerInv
    /\ LiftedBefore(Delivered)

ControlInv == TypeOK /\ TodoInv /\ ClosingInv /\ OrderInv /\ LiftInv

-----------------------------------------------------------------------------
(* Sequences.                                                                *)

LEMMA AppendFacts ==
    ASSUME NEW S, NEW s \in Seq(S), NEW e \in S
    PROVE  /\ Append(s, e) \in Seq(S)
           /\ Len(Append(s, e)) = Len(s) + 1
           /\ DOMAIN s = 1 .. Len(s) /\ Len(s) \in Nat
           /\ DOMAIN Append(s, e) = 1 .. Len(s) + 1
           /\ \A i \in DOMAIN s : Append(s, e)[i] = s[i]
           /\ Append(s, e)[Len(s) + 1] = e
<1>1. DOMAIN s = 1 .. Len(s) /\ Len(s) \in Nat BY LenProperties
<1> QED BY <1>1

LEMMA TailFacts ==
    ASSUME NEW S, NEW s \in Seq(S), s # <<>>
    PROVE  /\ Head(s) \in S /\ Head(s) = s[1]
           /\ Tail(s) \in Seq(S)
           /\ Len(Tail(s)) = Len(s) - 1
           /\ Len(s) \in Nat \ {0}
           /\ DOMAIN s = 1 .. Len(s)
           /\ DOMAIN Tail(s) = 1 .. Len(s) - 1
           /\ \A i \in DOMAIN Tail(s) : Tail(s)[i] = s[i + 1]
<1>1. Len(s) \in Nat /\ DOMAIN s = 1 .. Len(s) /\ Len(s) # 0
  BY EmptySeq, LenProperties
<1>2. Tail(s) \in Seq(S) /\ Len(Tail(s)) = Len(s) - 1
      /\ \A i \in 1 .. Len(Tail(s)) : Tail(s)[i] = s[i + 1]
  BY HeadTailProperties
<1>3. DOMAIN Tail(s) = 1 .. Len(s) - 1
  BY <1>2, LenProperties
<1>4. Head(s) \in S /\ Head(s) = s[1]
  BY HeadTailProperties
<1> QED BY <1>1, <1>2, <1>3, <1>4

LEMMA ConcatFacts ==
    ASSUME NEW S, NEW s \in Seq(S), NEW t \in Seq(S)
    PROVE  /\ s \o t \in Seq(S)
           /\ Len(s) \in Nat /\ Len(t) \in Nat
           /\ Len(s \o t) = Len(s) + Len(t)
           /\ DOMAIN s = 1 .. Len(s)
           /\ DOMAIN (s \o t) = 1 .. Len(s) + Len(t)
           /\ \A i \in 1 .. Len(s) : (s \o t)[i] = s[i]
<1>1. /\ s \o t \in Seq(S)
      /\ Len(s \o t) = Len(s) + Len(t)
      /\ \A i \in 1 .. Len(s) + Len(t) : (s \o t)[i] = IF i <= Len(s) THEN s[i] ELSE t[i - Len(s)]
  BY ConcatProperties
<1>2. /\ Len(s) \in Nat /\ DOMAIN s = 1 .. Len(s)
      /\ Len(t) \in Nat /\ DOMAIN (s \o t) = 1 .. Len(s \o t)
  BY <1>1, LenProperties
<1> QED BY <1>1, <1>2

\* Reading moves the head of what is on the way.
LEMMA ReadingMoves ==
    ASSUME NEW S, NEW s \in Seq(S), NEW t \in Seq(S), t # <<>>
    PROVE  Append(s, Head(t)) \o Tail(t) = s \o t
<1>1. Append(s, Head(t)) = s \o <<Head(t)>> OBVIOUS
<1>2. Head(t) \in S /\ Tail(t) \in Seq(S) /\ <<Head(t)>> \in Seq(S)
  BY TailFacts
<1>3. t = <<Head(t)>> \o Tail(t)
  BY <1>2, HeadTailProperties
<1> QED BY <1>1, <1>2, <1>3, ConcatAssociative

LEMMA TuplesOfOne == \A m : Len(<<m>>) = 1 /\ Head(<<m>>) = m /\ Tail(<<m>>) = <<>>
OBVIOUS

LEMMA TuplesOfMore ==
    /\ \A a, b : Len(<<a, b>>) = 2 /\ Head(<<a, b>>) = a /\ Tail(<<a, b>>) = <<b>>
    /\ \A a, b, c :
          Len(<<a, b, c>>) = 3 /\ Head(<<a, b, c>>) = a /\ Tail(<<a, b, c>>) = <<b, c>>
OBVIOUS

LEMMA TuplesAreSequences ==
    ASSUME NEW S
    PROVE  /\ <<>> \in Seq(S)
           /\ \A a, b \in S : <<a, b>> \in Seq(S)
           /\ \A a, b, c \in S : <<a, b, c>> \in Seq(S)
OBVIOUS

LEMMA ReleaseThenStop ==
    /\ <<"up">> \o <<"stop", "CLOSE">> = <<"up", "stop", "CLOSE">>
    /\ <<>> \o <<"stop", "CLOSE">> = <<"stop", "CLOSE">>
<1> DEFINE S == {"up", "stop", "CLOSE"}
<1>1. <<"up">> \in Seq(S) /\ <<"stop", "CLOSE">> \in Seq(S) /\ <<"up", "stop", "CLOSE">> \in Seq(S)
  BY TuplesAreSequences
<1>2. <<"up">> \o <<"stop", "CLOSE">> \in Seq(S) /\ Len(<<"up">> \o <<"stop", "CLOSE">>) = 3
      /\ (<<"up">> \o <<"stop", "CLOSE">>)[1] = "up"
      /\ (<<"up">> \o <<"stop", "CLOSE">>)[2] = "stop"
      /\ (<<"up">> \o <<"stop", "CLOSE">>)[3] = "CLOSE"
  BY <1>1, ConcatProperties
<1>3. <<"up">> \o <<"stop", "CLOSE">> = <<"up", "stop", "CLOSE">>
  <2>1. \A i \in 1 .. 3 : (<<"up">> \o <<"stop", "CLOSE">>)[i] = <<"up", "stop", "CLOSE">>[i]
    BY <1>2
  <2> HIDE DEF S
  <2> QED BY <1>1, <1>2, <2>1, SeqEqual
<1>4. <<>> \o <<"stop", "CLOSE">> = <<"stop", "CLOSE">>
  BY <1>1, ConcatEmptySeq
<1> QED BY <1>3, <1>4

LEMMA OneMessage ==
    \A m \in Messages : <<m>> \in Seq(Messages) /\ <<m>> \in Seq(Messages \cup {"CLOSE"})
OBVIOUS

-----------------------------------------------------------------------------
(* Types, and what each thread has in hand.                                  *)

\* Thread t, which had m and then `rest' to queue, goes to `place'.
Queues(t, m, rest, place) ==
    /\ outbound' = Append(outbound, m)
    /\ sent' = IF m = "CLOSE" THEN sent ELSE Append(sent, m)
    /\ todo' = [todo EXCEPT ![t] = rest]
    /\ at' = [at EXCEPT ![t] = place]

\* Who queues what.
LEMMA EnqueueCases ==
    ASSUME TypeOK, TodoInv, NEW t \in Threads, Enqueue(t)
    PROVE  \/ t = "io" /\ at["io"] = "sending" /\ Queues(t, "hello", <<>>, "done")
           \/ t = "receiver" /\ at[t] = "sending" /\ Queues(t, "note", <<>>, "free")
           \/ /\ t = "main" /\ at[t] = "sending"
              /\ \E m \in {"note", "down", "up"} :
                    todo[t] = <<m>> /\ Queues(t, m, <<>>, "free")
           \/ /\ t = "main" /\ at[t] = "stopping"
              /\ \/ todo[t] = <<"up", "stop", "CLOSE">>
                    /\ Queues(t, "up", <<"stop", "CLOSE">>, "stopping")
                 \/ todo[t] = <<"stop", "CLOSE">> /\ Queues(t, "stop", <<"CLOSE">>, "stopping")
                 \/ todo[t] = <<"CLOSE">> /\ Queues(t, "CLOSE", <<>>, "left")
<1> USE DEF Threads, IoPlaces, MainPlaces, ReaderPlaces, WriterPlaces, ClosePlaces
<1>1. CASE t = "io"
  <2>1. at["io"] = "sending" /\ todo["io"] = <<"hello">> BY <1>1 DEF Enqueue, TypeOK, TodoInv
  <2> QED BY <1>1, <2>1, TuplesOfOne DEF Enqueue, Goes, Queues
<1>2. CASE t = "receiver"
  <2>1. at[t] = "sending" /\ todo[t] = <<"note">> BY <1>2 DEF Enqueue, TypeOK, TodoInv
  <2> QED BY <1>2, <2>1, TuplesOfOne DEF Enqueue, Goes, Queues
<1>3. CASE t = "main" /\ at[t] = "sending"
  <2>1. PICK m \in {"note", "down", "up"} : todo[t] = <<m>> BY <1>3 DEF TodoInv
  <2>2. Queues(t, m, <<>>, "free") BY <1>3, <2>1, TuplesOfOne DEF Enqueue, Goes, Queues
  <2> QED BY <1>3, <2>1, <2>2
<1>4. CASE t = "main" /\ at[t] = "stopping"
  <2>1. CASE todo[t] = <<"CLOSE">>
    BY <1>4, <2>1, TuplesOfOne DEF Enqueue, Goes, Queues
  <2>2. CASE todo[t] = <<"stop", "CLOSE">>
    BY <1>4, <2>2, TuplesOfMore DEF Enqueue, Goes, Queues
  <2>3. CASE todo[t] = <<"up", "stop", "CLOSE">>
    BY <1>4, <2>3, TuplesOfMore DEF Enqueue, Goes, Queues
  <2> QED BY <1>4, <2>1, <2>2, <2>3 DEF TodoInv
<1>5. CASE t \in {"reader", "writer"} BY <1>5 DEF Enqueue, TypeOK
<1> QED BY <1>1, <1>2, <1>3, <1>4, <1>5 DEF Enqueue, TypeOK

Places == IoPlaces \cup MainPlaces \cup ReaderPlaces \cup WriterPlaces

PlacesOf(t) == CASE t = "io" -> IoPlaces
                 [] t = "main" -> MainPlaces
                 [] t = "receiver" -> {"free", "sending"}
                 [] t = "reader" -> ReaderPlaces
                 [] t = "writer" -> WriterPlaces

\* TypeOK in parts.
PlaceType == at \in [Threads -> Places] /\ \A t \in Threads : at[t] \in PlacesOf(t)
TodoType == todo \in [Threads -> Seq(Messages \cup {"CLOSE"})]
QueueType == outbound \in Seq(Messages \cup {"CLOSE"}) /\ sent \in Seq(Messages)
WireType == wire \in Seq(Messages) /\ got \in Seq(Messages)
FlagType ==
    /\ screen \in {"stream", "library"} /\ open \in {"new", "open", "closed"}
    /\ socket \in BOOLEAN /\ connected \in BOOLEAN /\ cancelled \in BOOLEAN
    /\ finger \in BOOLEAN /\ link \in BOOLEAN /\ early \in BOOLEAN

LEMMA TypeParts == TypeOK <=> PlaceType /\ TodoType /\ QueueType /\ WireType /\ FlagType
<1>1. PlaceType <=> /\ at \in [Threads -> Places]
                    /\ at["io"] \in IoPlaces
                    /\ at["main"] \in MainPlaces
                    /\ at["receiver"] \in {"free", "sending"}
                    /\ at["reader"] \in ReaderPlaces
                    /\ at["writer"] \in WriterPlaces
  BY DEF PlaceType, PlacesOf, Threads
<1>2. {socket, connected, cancelled, finger, link, early} \subseteq BOOLEAN <=>
      /\ socket \in BOOLEAN /\ connected \in BOOLEAN /\ cancelled \in BOOLEAN
      /\ finger \in BOOLEAN /\ link \in BOOLEAN /\ early \in BOOLEAN
  BY Zenon
<1>3. {wire, sent, got} \subseteq Seq(Messages) <=>
      wire \in Seq(Messages) /\ sent \in Seq(Messages) /\ got \in Seq(Messages)
  OBVIOUS
<1> QED BY <1>1, <1>2, <1>3, Zenon DEF TypeOK, TodoType, QueueType, WireType, FlagType, Places

\* One thread goes to a place of its own.
LEMMA OneMoves ==
    ASSUME PlaceType, NEW t \in Threads, NEW place \in PlacesOf(t), Goes(t, place)
    PROVE  /\ PlaceType'
           /\ at'[t] = place
           /\ \A u \in Threads \ {t} : at'[u] = at[u]
<1>1. place \in Places
  BY DEF PlacesOf, Threads, Places, IoPlaces, MainPlaces, ReaderPlaces, WriterPlaces
<1> QED BY <1>1 DEF PlaceType, Goes

\* A reader that is launched and has not begun is stopped as well.
LEMMA ReaderToo ==
    ASSUME PlaceType, NEW t \in Threads, NEW place \in PlacesOf(t),
           at' = [at EXCEPT ![t] = place, !["reader"] = IF @ = "launched" THEN "ended" ELSE @]
    PROVE  /\ PlaceType'
           /\ t # "reader" => at'[t] = place
           /\ at'["reader"] \in {"ended", at["reader"], IF t = "reader" THEN place ELSE "ended"}
           /\ t # "reader" /\ at["reader"] # "launched" => at'["reader"] = at["reader"]
           /\ \A u \in Threads \ {t, "reader"} : at'[u] = at[u]
<1>1. place \in Places /\ "ended" \in Places /\ "reader" \in Threads
  BY DEF PlacesOf, Threads, Places, IoPlaces, MainPlaces, ReaderPlaces, WriterPlaces
<1>2. "ended" \in PlacesOf("reader") BY DEF PlacesOf, ReaderPlaces
<1> QED BY <1>1, <1>2 DEF PlaceType

LEMMA TypeInit == Init => TypeOK /\ TodoInv
<1> SUFFICES ASSUME Init PROVE TypeOK /\ TodoInv OBVIOUS
<1>1. PlaceType
  BY DEF Init, Threads, PlaceType, PlacesOf, Places, IoPlaces, MainPlaces, ReaderPlaces, WriterPlaces
<1>2. TodoType /\ \A t \in Threads : todo[t] = <<>> BY DEF Init, TodoType
<1>3. QueueType /\ WireType BY DEF Init, QueueType, WireType
<1>4. FlagType BY Zenon DEF Init, FlagType
<1>5. TodoInv BY <1>2 DEF Init, TodoInv, Threads
<1> QED BY <1>1, <1>2, <1>3, <1>4, <1>5, TypeParts

\* send() is one of these, whoever sends what.
LEMMA SendStep ==
    ASSUME TypeOK, TodoInv, NEW t \in Threads, NEW from, NEW m \in Messages, Send(t, from, m),
           \/ t = "io" /\ from = "greeting" /\ m = "hello"
           \/ t = "receiver" /\ from = "free" /\ m = "note"
           \/ t = "main" /\ from = "free" /\ m \in {"note", "down", "up"},
           UNCHANGED <<screen, fields, cancelled, transport, sent, early>>,
           finger' \in BOOLEAN
    PROVE  TypeOK' /\ TodoInv'
<1> USE DEF fields, transport, Threads, PlacesOf
<1>a. PlaceType /\ TodoType /\ QueueType /\ WireType /\ FlagType BY TypeParts
<1>b. PlaceType' /\ TodoType' /\ QueueType' /\ WireType' /\ FlagType' => TypeOK' BY TypeParts, PTL
<1>1. QueueType' /\ WireType' /\ FlagType' BY <1>a DEF QueueType, WireType, FlagType
<1>2. CASE connected
  <2>1. PlaceType' /\ at'[t] = "sending" /\ \A u \in Threads \ {t} : at'[u] = at[u]
    BY <1>2, <1>a, OneMoves DEF Send, IoPlaces, MainPlaces
  <2>2. TodoType' /\ todo'[t] = <<m>> /\ \A u \in Threads \ {t} : todo'[u] = todo[u]
    BY <1>2, <1>a, OneMessage DEF Send, TodoType
  <2>3. TodoInv' BY <2>1, <2>2 DEF TodoInv, Send
  <2> QED BY <1>b, <1>1, <2>1, <2>2, <2>3
<1>3. CASE ~connected
  <2> DEFINE place == IF t = "io" THEN "done" ELSE "free"
  <2>1. PlaceType' /\ at'[t] = place /\ \A u \in Threads \ {t} : at'[u] = at[u]
    BY <1>3, <1>a, OneMoves DEF Send, IoPlaces, MainPlaces
  <2>2. TodoType' /\ todo' = todo BY <1>3, <1>a DEF Send, TodoType
  <2>3. TodoInv' BY <2>1, <2>2 DEF TodoInv, Send
  <2> QED BY <1>b, <1>1, <2>1, <2>2, <2>3
<1> QED BY <1>2, <1>3

LEMMA TypeStep == TypeOK /\ TodoInv /\ [Next]_vars => TypeOK' /\ TodoInv'
<1> SUFFICES ASSUME TypeOK, TodoInv, [Next]_vars PROVE TypeOK' /\ TodoInv' OBVIOUS
<1> DEFINE Parts == PlaceType /\ TodoType /\ QueueType /\ WireType /\ FlagType
<1>a. Parts BY TypeParts
<1>b. Parts' => TypeOK' BY TypeParts, PTL
<1> USE DEF fields, transport, Threads, PlacesOf
<1>1. CASE Dial
  <2>1. PICK place \in {"assigning", "done"} : Goes("io", place) BY <1>1 DEF Dial
  <2>2. PlaceType' /\ at'["io"] = place /\ \A u \in Threads \ {"io"} : at'[u] = at[u]
    BY <2>1, <1>a, OneMoves DEF IoPlaces
  <2>3. FlagType' BY <1>1, <1>a DEF Dial, FlagType
  <2>4. TodoType' /\ QueueType' /\ WireType' BY <1>1, <1>a DEF Dial, TodoType, QueueType, WireType
  <2>5. TodoInv' BY <1>1, <2>2 DEF Dial, TodoInv
  <2> QED BY <1>b, <2>2, <2>3, <2>4, <2>5
<1>2. CASE Assign
  <2>1. PlaceType' /\ at'["io"] = "emptying" /\ \A u \in Threads \ {"io"} : at'[u] = at[u]
    BY <1>2, <1>a, OneMoves DEF Assign, IoPlaces
  <2>2. TodoType' /\ QueueType' /\ WireType' /\ FlagType'
    BY <1>2, <1>a DEF Assign, TodoType, QueueType, WireType, FlagType
  <2>3. TodoInv' BY <1>2, <2>1 DEF Assign, TodoInv
  <2> QED BY <1>b, <2>1, <2>2, <2>3
<1>3. CASE Empty
  <2>1. PlaceType' /\ at'["io"] = "connecting" /\ \A u \in Threads \ {"io"} : at'[u] = at[u]
    BY <1>3, <1>a, OneMoves DEF Empty, IoPlaces
  <2>2. TodoType' /\ QueueType' /\ WireType' /\ FlagType'
    BY <1>3, <1>a DEF Empty, TodoType, QueueType, WireType, FlagType
  <2>3. TodoInv' BY <1>3, <2>1 DEF Empty, TodoInv
  <2> QED BY <1>b, <2>1, <2>2, <2>3
<1>4. CASE Connected
  <2>1. PlaceType' /\ at'["io"] = "starting" /\ \A u \in Threads \ {"io"} : at'[u] = at[u]
    BY <1>4, <1>a, OneMoves DEF Connected, IoPlaces
  <2>2. TodoType' /\ QueueType' /\ WireType' /\ FlagType'
    BY <1>4, <1>a DEF Connected, TodoType, QueueType, WireType, FlagType
  <2>3. TodoInv' BY <1>4, <2>1 DEF Connected, TodoInv
  <2> QED BY <1>b, <2>1, <2>2, <2>3
<1>5. CASE StartThreads
  <2>1. /\ PlaceType'
        /\ at'["io"] = "greeting" /\ at'["writer"] = "taking"
        /\ at'["main"] = at["main"] /\ at'["receiver"] = at["receiver"]
    BY <1>5, <1>a DEF StartThreads, PlaceType, Places, IoPlaces, ReaderPlaces, WriterPlaces
  <2>2. TodoType' /\ QueueType' /\ WireType' /\ FlagType'
    BY <1>5, <1>a DEF StartThreads, TodoType, QueueType, WireType, FlagType
  <2>3. TodoInv' BY <1>5, <2>1 DEF StartThreads, TodoInv
  <2> QED BY <1>b, <2>1, <2>2, <2>3
<1>6. CASE SendHello
  <2>1. UNCHANGED <<screen, fields, cancelled, finger, transport, sent, early>> BY <1>6 DEF SendHello
  <2>2. finger' \in BOOLEAN BY <2>1, <1>a DEF FlagType
  <2>3. Send("io", "greeting", "hello") BY <1>6 DEF SendHello
  <2> QED BY <2>1, <2>2, <2>3, SendStep DEF Messages
<1>7. ASSUME NEW t \in Threads, Enqueue(t) PROVE TypeOK' /\ TodoInv'
  <2>1. PICK m \in Messages \cup {"CLOSE"}, rest \in {<<>>, <<"CLOSE">>, <<"stop", "CLOSE">>}, place \in PlacesOf(t) :
           /\ Queues(t, m, rest, place)
           /\ at[t] \in {"sending", "stopping"} /\ place = "stopping" <=> rest # <<>>
           /\ t = "main" \/ place \in {"free", "done"}
           /\ place # "sending"
    BY <1>7, EnqueueCases DEF Messages, IoPlaces, MainPlaces
  <2>2. UNCHANGED <<screen, socket, connected, cancelled, finger, transport, early>>
    BY <1>7 DEF Enqueue
  <2>3. PlaceType' /\ at'[t] = place /\ \A u \in Threads \ {t} : at'[u] = at[u]
    BY <2>1, <1>a, OneMoves DEF Queues, Goes
  <2>4. TodoType' /\ todo'[t] = rest /\ \A u \in Threads \ {t} : todo'[u] = todo[u]
    <3>1. rest \in Seq(Messages \cup {"CLOSE"})
      <4>1. "CLOSE" \in Messages \cup {"CLOSE"} /\ "stop" \in Messages \cup {"CLOSE"} BY DEF Messages
      <4>2. <<>> \in Seq(Messages \cup {"CLOSE"}) BY TuplesAreSequences
      <4>3. <<"stop", "CLOSE">> \in Seq(Messages \cup {"CLOSE"}) BY <4>1, TuplesAreSequences
      <4>4. <<"CLOSE">> \in Seq(Messages \cup {"CLOSE"}) BY <4>1
      <4> QED BY <4>2, <4>3, <4>4
    <3> QED BY <2>1, <3>1, <1>a DEF Queues, TodoType
  <2>5. QueueType' BY <2>1, <1>a DEF Queues, QueueType, Messages
  <2>6. WireType' /\ FlagType' BY <2>2, <1>a DEF WireType, FlagType
  <2>7. TodoInv' BY <1>7, <2>1, <2>3, <2>4 DEF TodoInv, Enqueue
  <2> QED BY <1>b, <2>3, <2>4, <2>5, <2>6, <2>7
<1>8. ASSUME NEW t \in {"main", "receiver"}, SendNote(t) PROVE TypeOK' /\ TodoInv'
  <2>1. UNCHANGED <<screen, fields, cancelled, finger, transport, sent, early>> BY <1>8 DEF SendNote
  <2>2. finger' \in BOOLEAN BY <2>1, <1>a DEF FlagType
  <2>3. Send(t, "free", "note") BY <1>8 DEF SendNote
  <2> QED BY <2>1, <2>2, <2>3, SendStep DEF Messages
<1>9. CASE Touch
  <2>1. finger' \in BOOLEAN BY <1>a, <1>9, Zenon DEF Touch, FlagType
  <2>2. PICK m \in {"up", "down"} : Send("main", "free", m) BY <1>9 DEF Touch
  <2>3. UNCHANGED <<screen, fields, cancelled, transport, sent, early>> BY <1>9 DEF Touch
  <2> QED BY <2>1, <2>2, <2>3, SendStep DEF Messages
<1>10. CASE StopSessionAndClose
  <2>1. early' \in BOOLEAN BY <1>10, Zenon DEF StopSessionAndClose
  <2>2. QueueType' /\ WireType' BY <1>10, <1>a DEF StopSessionAndClose, QueueType, WireType
  <2>3. FlagType' BY <1>10, <2>1, <1>a DEF StopSessionAndClose, FlagType
  <2>4. CASE socket
    <3>1. PICK r \in {<<"up", "stop", "CLOSE">>, <<"stop", "CLOSE">>} : todo' = [todo EXCEPT !["main"] = r]
      <4>1. CASE finger BY <1>10, <2>4, <4>1, ReleaseThenStop DEF StopSessionAndClose
      <4>2. CASE ~finger BY <1>10, <2>4, <4>2, ReleaseThenStop DEF StopSessionAndClose
      <4> QED BY <4>1, <4>2
    <3>2. PlaceType' /\ at'["main"] = "stopping" /\ at'["reader"] \in {"ended", at["reader"]}
          /\ \A u \in Threads \ {"main", "reader"} : at'[u] = at[u]
      BY <1>10, <2>4, <1>a, ReaderToo DEF StopSessionAndClose, MainPlaces
    <3>3. TodoType' /\ todo'["main"] = r /\ \A u \in Threads \ {"main"} : todo'[u] = todo[u]
      <4>1. {"CLOSE", "stop", "up"} \subseteq Messages \cup {"CLOSE"} BY DEF Messages
      <4>2. <<"stop", "CLOSE">> \in Seq(Messages \cup {"CLOSE"}) BY <4>1, TuplesAreSequences
      <4>3. <<"up", "stop", "CLOSE">> \in Seq(Messages \cup {"CLOSE"}) BY <4>1, TuplesAreSequences
      <4> QED BY <3>1, <4>2, <4>3, <1>a DEF TodoType
    <3>4. at["io"] \in {"dialling", "assigning", "emptying", "connecting", "starting"} => at'["reader"] = "none"
      BY <1>10, <2>4, <3>2 DEF StopSessionAndClose, TodoInv, PlaceType
    <3>5. TodoInv' BY <3>2, <3>3, <3>4 DEF TodoInv
    <3> QED BY <1>b, <2>2, <2>3, <3>2, <3>3, <3>5
  <2>5. CASE ~socket
    <3>1. PlaceType' /\ at'["main"] = "dropping" /\ \A u \in Threads \ {"main"} : at'[u] = at[u]
      BY <1>10, <2>5, <1>a, OneMoves DEF StopSessionAndClose, MainPlaces, ClosePlaces
    <3>2. TodoType' /\ todo' = todo BY <1>10, <2>5, <1>a DEF StopSessionAndClose, TodoType
    <3>3. TodoInv' BY <3>1, <3>2 DEF TodoInv
    <3> QED BY <1>b, <2>2, <2>3, <3>1, <3>2, <3>3
  <2> QED BY <2>4, <2>5
<1>11. CASE LibraryCloses
  <2>1. early' \in BOOLEAN BY <1>11, Zenon DEF LibraryCloses
  <2>2. PlaceType' /\ at'["main"] = "dropping" /\ \A u \in Threads \ {"main"} : at'[u] = at[u]
    BY <1>11, <1>a, OneMoves DEF LibraryCloses, MainPlaces, ClosePlaces
  <2>3. TodoType' /\ QueueType' /\ WireType' /\ FlagType'
    BY <1>11, <2>1, <1>a DEF LibraryCloses, TodoType, QueueType, WireType, FlagType
  <2>4. TodoInv' BY <1>11, <2>2 DEF LibraryCloses, TodoInv
  <2> QED BY <1>b, <2>2, <2>3, <2>4
<1>12. ASSUME NEW t \in {"main", "reader", "writer"}, Close(t) PROVE TypeOK' /\ TodoInv'
  <2>1. CASE CloseDrops(t)
    <3>1. "clearing" \in PlacesOf(t) BY DEF MainPlaces, ReaderPlaces, WriterPlaces, ClosePlaces
    <3>2. PlaceType' /\ (t # "reader" => at'[t] = "clearing")
          /\ at'["reader"] \in {"ended", at["reader"], IF t = "reader" THEN "clearing" ELSE "ended"}
          /\ (t # "reader" /\ at["reader"] # "launched" => at'["reader"] = at["reader"])
          /\ \A u \in Threads \ {t, "reader"} : at'[u] = at[u]
      BY <2>1, <3>1, <1>a, ReaderToo DEF CloseDrops
    <3>3. TodoType' /\ QueueType' /\ WireType' /\ FlagType'
      BY <2>1, <1>a DEF CloseDrops, TodoType, QueueType, WireType, FlagType
    <3>4. at["io"] \in {"dialling", "assigning", "emptying", "connecting", "starting"} => at'["reader"] = "none"
      BY <2>1, <3>2 DEF CloseDrops, TodoInv
    <3>5. TodoInv' BY <1>12, <2>1, <3>2, <3>3, <3>4 DEF CloseDrops, TodoInv
    <3> QED BY <1>b, <3>2, <3>3, <3>5
  <2>2. ASSUME NEW place \in PlacesOf(t), Goes(t, place), at[t] \in ClosePlaces, todo' = todo,
               place \in ClosePlaces \cup {"left", "ended", "finally"}
        PROVE  PlaceType' /\ TodoType' /\ TodoInv'
    <3>1. PlaceType' /\ at'[t] = place /\ \A u \in Threads \ {t} : at'[u] = at[u]
      BY <2>2, <1>a, OneMoves
    <3>2. TodoType' BY <2>2, <1>a DEF TodoType
    <3>3. TodoInv' BY <1>12, <2>2, <3>1 DEF TodoInv, ClosePlaces
    <3> QED BY <3>1, <3>2, <3>3
  <2>3. {"queueing", "shutting", "forgetting"} \subseteq PlacesOf(t)
    BY DEF MainPlaces, ReaderPlaces, WriterPlaces, ClosePlaces
  <2>4. CASE CloseClears(t)
    <3>1. QueueType' /\ WireType' /\ FlagType' BY <2>4, <1>a DEF CloseClears, QueueType, WireType, FlagType
    <3> QED BY <1>b, <2>2, <2>3, <2>4, <3>1 DEF CloseClears, ClosePlaces
  <2>5. CASE CloseQueues(t)
    <3>1. QueueType' /\ WireType' /\ FlagType' BY <2>5, <1>a DEF CloseQueues, QueueType, WireType, FlagType
    <3> QED BY <1>b, <2>2, <2>3, <2>5, <3>1 DEF CloseQueues, ClosePlaces
  <2>6. CASE CloseShuts(t)
    <3>1. QueueType' /\ WireType' /\ FlagType' BY <2>6, <1>a DEF CloseShuts, QueueType, WireType, FlagType
    <3> QED BY <1>b, <2>2, <2>3, <2>6, <3>1 DEF CloseShuts, ClosePlaces
  <2>7. CASE CloseForgets(t)
    <3>1. QueueType' /\ WireType' /\ FlagType' BY <2>7, <1>a DEF CloseForgets, QueueType, WireType, FlagType
    <3>2. PICK place \in PlacesOf(t) : Goes(t, place) /\ place \in {"left", "ended", "finally"}
      BY <1>12, <2>7 DEF CloseForgets, MainPlaces, ReaderPlaces, WriterPlaces
    <3> QED BY <1>b, <2>2, <2>7, <3>1, <3>2 DEF CloseForgets, ClosePlaces
  <2> QED BY <1>12, <2>1, <2>4, <2>5, <2>6, <2>7 DEF Close
<1>13. CASE CancelScope
  <2>1. PlaceType' /\ at'["reader"] \in {"ended", at["reader"]}
        /\ (at["reader"] = "none" => at'["reader"] = "none")
        /\ \A u \in Threads \ {"reader"} : at'[u] = at[u]
    BY <1>13, <1>a DEF CancelScope, PlaceType, Places, ReaderPlaces
  <2>2. TodoType' /\ QueueType' /\ WireType' /\ FlagType'
    BY <1>13, <1>a DEF CancelScope, TodoType, QueueType, WireType, FlagType
  <2>3. TodoInv' BY <1>13, <2>1 DEF CancelScope, TodoInv
  <2> QED BY <1>b, <2>1, <2>2, <2>3
<1>14. CASE WriterTakes
  <2>1. Head(outbound) \in Messages \cup {"CLOSE"} /\ Tail(outbound) \in Seq(Messages \cup {"CLOSE"})
    BY <1>14, <1>a, TailFacts DEF WriterTakes, QueueType
  <2>2. QueueType' /\ WireType' /\ FlagType'
    BY <1>14, <2>1, <1>a DEF WriterTakes, QueueType, WireType, FlagType
  <2>3. CASE Head(outbound) = "CLOSE"
    <3>1. PlaceType' /\ at'["writer"] = "finally" /\ \A u \in Threads \ {"writer"} : at'[u] = at[u]
      BY <1>14, <2>3, <1>a, OneMoves DEF WriterTakes, WriterPlaces
    <3>2. TodoType' /\ todo' = todo BY <1>14, <2>3, <1>a DEF WriterTakes, TodoType
    <3>3. TodoInv' BY <1>14, <3>1, <3>2 DEF WriterTakes, TodoInv
    <3> QED BY <1>b, <2>2, <3>1, <3>2, <3>3
  <2>4. CASE Head(outbound) # "CLOSE"
    <3>1. PlaceType' /\ at'["writer"] = "writing" /\ \A u \in Threads \ {"writer"} : at'[u] = at[u]
      BY <1>14, <2>4, <1>a, OneMoves DEF WriterTakes, WriterPlaces
    <3>2. TodoType' /\ todo'["writer"] = <<Head(outbound)>> /\ \A u \in Threads \ {"writer"} : todo'[u] = todo[u]
      BY <1>14, <2>1, <2>4, <1>a, OneMessage DEF WriterTakes, TodoType
    <3>3. TodoInv' BY <1>14, <2>1, <2>4, <3>1, <3>2 DEF WriterTakes, TodoInv
    <3> QED BY <1>b, <2>2, <3>1, <3>2, <3>3
  <2> QED BY <2>3, <2>4
<1>15. CASE WriterWrites
  <2>1. wire' \in Seq(Messages)
    <3>1. PICK m \in Messages : todo["writer"] = <<m>> BY <1>15 DEF WriterWrites, TodoInv
    <3>2. wire \o todo["writer"] \in Seq(Messages) BY <3>1, <1>a, OneMessage, ConcatFacts DEF WireType
    <3> QED BY <1>15, <3>2, <1>a DEF WriterWrites, WireType
  <2>2. PICK place \in {"taking", "dropping", "finally"} : Goes("writer", place)
    BY <1>15, Zenon DEF WriterWrites, Disconnects
  <2>3. PlaceType' /\ at'["writer"] = place /\ \A u \in Threads \ {"writer"} : at'[u] = at[u]
    BY <2>2, <1>a, OneMoves DEF WriterPlaces, ClosePlaces
  <2>4. TodoType' /\ todo'["writer"] = <<>> /\ \A u \in Threads \ {"writer"} : todo'[u] = todo[u]
    BY <1>15, <1>a, TuplesAreSequences DEF WriterWrites, TodoType
  <2>5. QueueType' /\ WireType' /\ FlagType' BY <1>15, <2>1, <1>a DEF WriterWrites, QueueType, WireType, FlagType
  <2>6. TodoInv' BY <1>15, <2>3, <2>4 DEF WriterWrites, TodoInv
  <2> QED BY <1>b, <2>3, <2>4, <2>5, <2>6
<1>16. CASE WriterEnds
  <2>1. PlaceType' /\ at'["writer"] = "ended" /\ \A u \in Threads \ {"writer"} : at'[u] = at[u]
    BY <1>16, <1>a, OneMoves DEF WriterEnds, WriterPlaces
  <2>2. TodoType' /\ QueueType' /\ WireType' /\ FlagType'
    BY <1>16, <1>a DEF WriterEnds, TodoType, QueueType, WireType, FlagType
  <2>3. TodoInv' BY <1>16, <2>1 DEF WriterEnds, TodoInv
  <2> QED BY <1>b, <2>1, <2>2, <2>3
<1>17. CASE ReaderStarts
  <2>1. PlaceType' /\ at'["reader"] = "reading" /\ \A u \in Threads \ {"reader"} : at'[u] = at[u]
    BY <1>17, <1>a, OneMoves DEF ReaderStarts, ReaderPlaces
  <2>2. TodoType' /\ QueueType' /\ WireType' /\ FlagType'
    BY <1>17, <1>a DEF ReaderStarts, TodoType, QueueType, WireType, FlagType
  <2>3. TodoInv' BY <1>17, <2>1 DEF ReaderStarts, TodoInv
  <2> QED BY <1>b, <2>1, <2>2, <2>3
<1>18. CASE ReaderStops
  <2>1. PICK place \in {"dropping", "ended"} : Goes("reader", place)
    BY <1>18, Zenon DEF ReaderStops, Disconnects
  <2>2. PlaceType' /\ at'["reader"] = place /\ \A u \in Threads \ {"reader"} : at'[u] = at[u]
    BY <2>1, <1>a, OneMoves DEF ReaderPlaces, ClosePlaces
  <2>3. TodoType' /\ QueueType' /\ WireType' /\ FlagType'
    BY <1>18, <1>a DEF ReaderStops, TodoType, QueueType, WireType, FlagType
  <2>4. TodoInv' BY <1>18, <2>2 DEF ReaderStops, TodoInv
  <2> QED BY <1>b, <2>2, <2>3, <2>4
<1>19. CASE HostReads
  <2>1. Head(wire) \in Messages /\ Tail(wire) \in Seq(Messages)
    BY <1>19, <1>a, TailFacts DEF HostReads, WireType
  <2>2. PlaceType' /\ TodoType' /\ QueueType' /\ WireType' /\ FlagType'
    BY <1>19, <2>1, <1>a DEF HostReads, PlaceType, TodoType, QueueType, WireType, FlagType
  <2>3. TodoInv' BY <1>19 DEF HostReads, TodoInv
  <2> QED BY <1>b, <2>2, <2>3
<1>20. CASE HostEnds
  <2>1. PlaceType' /\ TodoType' /\ QueueType' /\ FlagType'
    BY <1>20, <1>a DEF HostEnds, PlaceType, TodoType, QueueType, FlagType
  <2>2. WireType' BY <1>20, <1>a, TuplesAreSequences DEF HostEnds, WireType
  <2>3. TodoInv' BY <1>20 DEF HostEnds, TodoInv
  <2> QED BY <1>b, <2>1, <2>2, <2>3
<1>21. CASE UNCHANGED vars
  <2>1. PlaceType' /\ TodoType' /\ QueueType' /\ WireType' /\ FlagType'
    BY <1>21, <1>a DEF vars, PlaceType, TodoType, QueueType, WireType, FlagType
  <2>2. TodoInv' BY <1>21 DEF vars, TodoInv
  <2> QED BY <1>b, <2>1, <2>2
<1> QED BY <1>1, <1>2, <1>3, <1>4, <1>5, <1>6, <1>7, <1>8, <1>9, <1>10, <1>11, <1>12, <1>13,
           <1>14, <1>15, <1>16, <1>17, <1>18, <1>19, <1>20, <1>21
        DEF Next, Connect, Writer, Reader
-----------------------------------------------------------------------------
(* Who ends the connection.                                                  *)

\* What is over stays over.
LEMMA OverStays == TypeOK /\ ClosingInv /\ [Next]_vars => (Over => Over')
<1> SUFFICES ASSUME TypeOK, ClosingInv, [Next]_vars, Over PROVE Over' OBVIOUS
<1>1. CASE Dial BY <1>1 DEF Dial, ClosingInv, Over
<1>2. ASSUME NEW t \in Threads, CloseShuts(t) PROVE Over' BY <1>2 DEF CloseShuts, Over, TypeOK
<1>3. CASE WriterEnds BY <1>3 DEF WriterEnds, Over
<1>4. CASE HostEnds BY <1>4 DEF HostEnds, Over
<1>5. CASE UNCHANGED <<open, link>> BY <1>5 DEF Over
<1>6. \/ UNCHANGED <<open, link>> \/ Dial \/ WriterEnds \/ HostEnds
      \/ \E t \in Threads : CloseShuts(t)
  BY DEF Next, Connect, Assign, Empty, Connected, StartThreads, SendHello, Enqueue, SendNote, Touch,
         StopSessionAndClose, LibraryCloses, Close, CloseDrops, CloseClears, CloseQueues, CloseForgets,
         CancelScope, Writer, WriterTakes, WriterWrites, Reader, ReaderStarts, ReaderStops, HostReads,
         vars, transport, Threads
<1> QED BY <1>1, <1>2, <1>3, <1>4, <1>5, <1>6

\* Closing and establishing.
LEMMA ClosingInit == Init => ClosingInv /\ (~early => EstablishedInv)
BY TypeInit DEF Init, ClosingInv, EstablishedInv, InUse, Over, Threads, ClosePlaces

LEMMA ClosingStep ==
    ASSUME TypeOK, TodoInv, ClosingInv, ~early => EstablishedInv, [Next]_vars
    PROVE  ClosingInv' /\ (~early' => EstablishedInv')
<1> USE DEF fields, transport, Goes, Threads, InUse
<1>a. PlaceType /\ TodoType /\ QueueType /\ WireType /\ FlagType BY TypeParts
<1>b. TypeOK' /\ TodoInv' BY TypeStep
<1>c. PlaceType' BY <1>b, TypeParts, PTL
<1>d. Over => Over' BY OverStays
<1> USE <1>a, <1>b, <1>c, <1>d
<1> DEFINE Goal == ClosingInv' /\ (~early' => EstablishedInv')
<1> USE DEF PlaceType, ClosingInv, EstablishedInv, TodoInv, Over, ClosePlaces, IoPlaces, MainPlaces,
           ReaderPlaces, WriterPlaces, Places, PlacesOf
<1>1. CASE Dial BY <1>1 DEF Dial
<1>2. CASE Assign BY <1>2 DEF Assign
<1>3. CASE Empty BY <1>3 DEF Empty
<1>4. CASE Connected BY <1>4 DEF Connected
<1>5. CASE StartThreads BY <1>5 DEF StartThreads
<1>6. CASE SendHello
  <2>1. /\ at["io"] = "greeting" /\ at'["io"] \in {"sending", "done"}
        /\ \A u \in Threads \ {"io"} : at'[u] = at[u] /\ todo'[u] = todo[u]
        /\ at'["io"] = "done" => ~connected
    BY <1>6 DEF SendHello, Send, TodoType
  <2>2. UNCHANGED <<screen, fields, cancelled, finger, transport, sent, early>> BY <1>6 DEF SendHello
  <2> QED BY <2>1, <2>2
<1>7. ASSUME NEW t \in Threads, Enqueue(t) PROVE Goal
  <2>1. UNCHANGED <<screen, socket, connected, cancelled, transport, early>> BY <1>7 DEF Enqueue
  <2>2. early \/ at["io"] \notin {"dialling", "assigning", "emptying", "connecting"}
    <3>1. at[t] \in {"sending", "stopping"} BY <1>7 DEF Enqueue
    <3>2. t \in {"io", "main", "receiver"} BY <3>1
    <3> QED BY <3>1, <3>2
  <2>3. CASE t = "io"
    <3>1. /\ at'["io"] = "done" /\ \A u \in Threads \ {"io"} : at'[u] = at[u] /\ todo'[u] = todo[u]
          /\ at["io"] = "sending"
      BY <1>7, <2>3, EnqueueCases DEF Queues, TodoType
    <3> QED BY <2>1, <3>1
  <2>4. CASE t = "receiver" BY <1>7, <2>1, <2>2, <2>4, EnqueueCases DEF Queues
  <2>5. CASE t = "main" /\ at[t] = "sending"
    <3>1. at' = [at EXCEPT !["main"] = "free"] /\ todo' = [todo EXCEPT !["main"] = <<>>]
      BY <1>7, <2>5, EnqueueCases DEF Queues
    <3> QED BY <2>1, <2>2, <2>5, <3>1
  <2>6. CASE t = "main" /\ at[t] = "stopping"
    <3>1. /\ at'["main"] \in {"stopping", "left"}
          /\ \A u \in Threads \ {"main"} : at'[u] = at[u]
      BY <1>7, <2>6, EnqueueCases DEF Queues
    <3> QED BY <2>1, <2>2, <2>6, <3>1
  <2> QED BY <1>7, <2>3, <2>4, <2>5, <2>6, EnqueueCases
<1>8. ASSUME NEW t \in {"main", "receiver"}, SendNote(t) PROVE Goal
  <2>1. CASE t = "main" /\ connected
    <3>1. /\ at["main"] = "free" /\ at'["main"] = "sending"
          /\ \A u \in Threads \ {"main"} : at'[u] = at[u] /\ todo'[u] = todo[u]
          /\ todo'["main"] = <<"note">>
      BY <1>8, <2>1 DEF SendNote, Send, TodoType
    <3>2. UNCHANGED <<screen, fields, cancelled, finger, transport, sent, early>>
      BY <1>8 DEF SendNote
    <3> QED BY <2>1, <3>1, <3>2
  <2>2. CASE t = "receiver" /\ connected BY <1>8, <2>2 DEF SendNote, Send
  <2>3. CASE ~connected BY <1>8, <2>3 DEF SendNote, Send
  <2> QED BY <1>8, <2>1, <2>2, <2>3
<1>9. CASE Touch
  BY <1>9 DEF Touch, Send
<1>10. CASE StopSessionAndClose
  BY <1>10 DEF StopSessionAndClose
<1>11. CASE LibraryCloses
  BY <1>11 DEF LibraryCloses
<1>12. ASSUME NEW t \in {"main", "reader", "writer"}, Close(t) PROVE Goal
  <2>1. CASE CloseDrops(t) BY <1>12, <2>1 DEF CloseDrops
  <2>2. CASE CloseClears(t) BY <1>12, <2>2 DEF CloseClears
  <2>3. CASE CloseQueues(t) BY <1>12, <2>3 DEF CloseQueues
  <2>4. CASE CloseShuts(t) BY <1>12, <2>4 DEF CloseShuts
  <2>5. CASE CloseForgets(t) BY <1>12, <2>5 DEF CloseForgets
  <2> QED BY <1>12, <2>1, <2>2, <2>3, <2>4, <2>5 DEF Close
<1>13. CASE CancelScope BY <1>13 DEF CancelScope
<1>14. CASE WriterTakes
  <2>1. /\ at'["writer"] \in {"finally", "writing"}
        /\ \A u \in Threads \ {"writer"} : at'[u] = at[u] /\ todo'[u] = todo[u]
    BY <1>14 DEF WriterTakes, TodoType
  <2>2. /\ UNCHANGED <<screen, socket, connected, cancelled, finger, transport, sent, early>>
        /\ outbound # <<>>
    BY <1>14 DEF WriterTakes
  <2> QED BY <2>1, <2>2
<1>15. CASE WriterWrites BY <1>15 DEF WriterWrites, Disconnects
<1>16. CASE WriterEnds BY <1>16 DEF WriterEnds
<1>17. CASE ReaderStarts BY <1>17 DEF ReaderStarts
<1>18. CASE ReaderStops BY <1>18 DEF ReaderStops, Disconnects
<1>19. CASE HostReads BY <1>19 DEF HostReads
<1>20. CASE HostEnds BY <1>20 DEF HostEnds
<1>21. CASE UNCHANGED vars BY <1>21 DEF vars
<1> QED BY <1>1, <1>2, <1>3, <1>4, <1>5, <1>6, <1>7, <1>8, <1>9, <1>10, <1>11, <1>12, <1>13,
           <1>14, <1>15, <1>16, <1>17, <1>18, <1>19, <1>20, <1>21
        DEF Next, Connect, Writer, Reader
-----------------------------------------------------------------------------
(* The line.                                                                 *)

LEMMA StartOfMore ==
    ASSUME NEW S, NEW s \in Seq(S), NEW t \in Seq(S), StartOf(s, t), NEW e \in S
    PROVE  StartOf(s, Append(t, e))
BY AppendFacts, LenProperties DEF StartOf

LEMMA StartOfLess ==
    ASSUME NEW S, NEW s \in Seq(S), NEW u \in Seq(S), NEW t \in Seq(S), StartOf(s \o u, t)
    PROVE  StartOf(s, t)
<1>1. Len(t) \in Nat BY LenProperties
<1> QED BY <1>1, ConcatFacts DEF StartOf

LEMMA QueueOne ==
    ASSUME NEW S, NEW t \in Seq(S), NEW o \in Seq(S \cup {"CLOSE"}), NEW s \in Seq(S), NEW m \in S,
           Follows(t, o, s), Unclosed(o, Len(o)) => Len(t) + Len(o) = Len(s)
    PROVE  /\ Follows(t, Append(o, m), Append(s, m))
           /\ Unclosed(Append(o, m), Len(Append(o, m))) =>
                 /\ Unclosed(o, Len(o))
                 /\ Len(t) + Len(Append(o, m)) = Len(Append(s, m))
<1> DEFINE p == Append(o, m)
           r == Append(s, m)
<1>1. /\ Len(p) = Len(o) + 1 /\ Len(o) \in Nat /\ DOMAIN o = 1 .. Len(o) /\ DOMAIN p = 1 .. Len(o) + 1
      /\ \A i \in DOMAIN o : p[i] = o[i]
      /\ p[Len(o) + 1] = m
  BY AppendFacts
<1>2. /\ Len(r) = Len(s) + 1 /\ Len(s) \in Nat /\ DOMAIN s = 1 .. Len(s)
      /\ \A i \in DOMAIN s : r[i] = s[i]
      /\ r[Len(s) + 1] = m
  BY AppendFacts
<1>3. Len(t) \in Nat BY LenProperties
<1> HIDE DEF p, r
<1>n. /\ Len(p) = Len(o) + 1 /\ Len(r) = Len(s) + 1
      /\ Len(o) \in Nat /\ Len(s) \in Nat /\ Len(t) \in Nat
  BY <1>1, <1>2, <1>3
<1>4. \A i \in 0 .. Len(o) : Unclosed(p, i) => Unclosed(o, i)
  BY <1>1 DEF Unclosed
<1>5. Unclosed(p, Len(p)) => Unclosed(o, Len(o))
  BY <1>1 DEF Unclosed
<1>6. ASSUME NEW i \in DOMAIN p, Unclosed(p, i)
      PROVE  Len(t) + i <= Len(r) /\ p[i] = r[Len(t) + i]
  <2>1. CASE i \in DOMAIN o
    <3>1. Len(t) + i <= Len(s) /\ o[i] = s[Len(t) + i] BY <1>1, <1>4, <1>6, <2>1 DEF Follows
    <3>i. i \in 1 .. Len(o) BY <1>1, <2>1
    <3>j. Len(t) + i \in 1 .. Len(s) BY <1>n, <3>i, <3>1
    <3>2. Len(t) + i \in DOMAIN s BY <1>2, <3>j
    <3>3. p[i] = o[i] /\ r[Len(t) + i] = s[Len(t) + i] BY <1>1, <1>2, <2>1, <3>2
    <3>4. Len(t) + i <= Len(r) BY <1>n, <3>j
    <3> QED BY <3>1, <3>3, <3>4
  <2>2. CASE i = Len(o) + 1
    <3>1. Len(t) + Len(o) = Len(s) BY <1>1, <1>5, <1>6, <2>2
    <3>2. Len(t) + i = Len(s) + 1 BY <1>1, <1>3, <2>2, <3>1
    <3>3. Len(t) + i <= Len(r) BY <1>n, <3>2
    <3>4. r[Len(t) + i] = m BY <1>2, <3>2
    <3> QED BY <1>1, <2>2, <3>3, <3>4
  <2> QED BY <1>1, <1>6, <2>1, <2>2
<1>7. Follows(t, p, r) BY <1>6 DEF Follows
<1>8. ASSUME Unclosed(p, Len(p)) PROVE Unclosed(o, Len(o)) /\ Len(t) + Len(p) = Len(r)
  <2>1. Len(t) + Len(o) = Len(s) /\ Unclosed(o, Len(o)) BY <1>5, <1>8
  <2> QED BY <1>n, <2>1
<1> QED BY <1>7, <1>8 DEF p, r

LEMMA QueueSentinel ==
    ASSUME NEW S, NEW t, NEW o \in Seq(S \cup {"CLOSE"}), NEW s, Follows(t, o, s)
    PROVE  /\ Follows(t, Append(o, "CLOSE"), s)
           /\ ~Unclosed(Append(o, "CLOSE"), Len(Append(o, "CLOSE")))
<1> DEFINE p == Append(o, "CLOSE")
<1>1. /\ Len(p) = Len(o) + 1 /\ Len(o) \in Nat /\ DOMAIN o = 1 .. Len(o) /\ DOMAIN p = 1 .. Len(o) + 1
      /\ \A i \in DOMAIN o : p[i] = o[i]
      /\ p[Len(o) + 1] = "CLOSE"
  BY AppendFacts
<1> HIDE DEF p
<1>2. \A i \in DOMAIN p : Unclosed(p, i) => i \in DOMAIN o /\ Unclosed(o, i)
  BY <1>1 DEF Unclosed
<1>3. Follows(t, p, s) BY <1>1, <1>2 DEF Follows
<1>4. ~Unclosed(p, Len(p)) BY <1>1 DEF Unclosed
<1> QED BY <1>3, <1>4 DEF p

LEMMA TakeOne ==
    ASSUME NEW S, NEW t \in Seq(S), NEW o \in Seq(S \cup {"CLOSE"}), NEW s \in Seq(S),
           StartOf(t, s), Follows(t, o, s), o # <<>>, Head(o) # "CLOSE"
    PROVE  /\ StartOf(Append(t, Head(o)), s)
           /\ Follows(Append(t, Head(o)), Tail(o), s)
           /\ Unclosed(Tail(o), Len(Tail(o))) => Unclosed(o, Len(o))
           /\ Len(Append(t, Head(o))) + Len(Tail(o)) = Len(t) + Len(o)
<1> DEFINE h == Head(o)
           r == Tail(o)
           u == Append(t, h)
<1>1. /\ h \in S /\ h = o[1] /\ Len(r) = Len(o) - 1 /\ Len(o) \in Nat \ {0}
      /\ DOMAIN o = 1 .. Len(o) /\ DOMAIN r = 1 .. Len(o) - 1 /\ \A i \in DOMAIN r : r[i] = o[i + 1]
  BY TailFacts
<1>2. /\ Len(u) = Len(t) + 1 /\ Len(t) \in Nat /\ DOMAIN t = 1 .. Len(t) /\ DOMAIN u = 1 .. Len(t) + 1
      /\ \A i \in DOMAIN t : u[i] = t[i]
      /\ u[Len(t) + 1] = h
  BY <1>1, AppendFacts
<1>3. Len(s) \in Nat /\ DOMAIN s = 1 .. Len(s) BY LenProperties
<1>4. o[1] # "CLOSE" BY <1>1
<1> HIDE DEF h, r, u
<1>5. \A i \in 0 .. Len(r) : Unclosed(r, i) => Unclosed(o, i + 1)
  <2> SUFFICES ASSUME NEW i \in 0 .. Len(r), Unclosed(r, i), NEW j \in 1 .. i + 1
               PROVE  o[j] # "CLOSE"
    BY DEF Unclosed
  <2>1. CASE j = 1 BY <1>4, <2>1
  <2>2. CASE j # 1
    <3>1. j - 1 \in 1 .. i /\ j - 1 \in DOMAIN r /\ (j - 1) + 1 = j BY <1>1, <2>2
    <3>2. r[j - 1] = o[j] BY <1>1, <3>1
    <3> QED BY <3>1, <3>2 DEF Unclosed
  <2> QED BY <2>1, <2>2
<1>6. Len(t) + 1 <= Len(s) /\ h = s[Len(t) + 1]
  <2>1. 1 \in DOMAIN o /\ Unclosed(o, 1) BY <1>1, <1>4 DEF Unclosed
  <2> QED BY <1>1, <2>1 DEF Follows
<1>7. StartOf(u, s) BY <1>2, <1>3, <1>6 DEF StartOf
<1>8. ASSUME NEW i \in DOMAIN r, Unclosed(r, i)
      PROVE  Len(u) + i <= Len(s) /\ r[i] = s[Len(u) + i]
  <2>1. i + 1 \in DOMAIN o /\ Unclosed(o, i + 1) BY <1>1, <1>5, <1>8
  <2>2. Len(t) + (i + 1) <= Len(s) /\ o[i + 1] = s[Len(t) + (i + 1)] BY <2>1 DEF Follows
  <2> QED BY <1>1, <1>2, <1>8, <2>2
<1>9. Unclosed(r, Len(r)) => Unclosed(o, Len(o)) BY <1>1, <1>5
<1>10. Len(u) + Len(r) = Len(t) + Len(o) BY <1>1, <1>2
<1>11. Follows(u, r, s) BY <1>8 DEF Follows
<1> QED BY <1>7, <1>9, <1>10, <1>11 DEF h, r, u

LEMMA TakenType ==
    ASSUME TypeOK, TodoInv
    PROVE  Delivered \in Seq(Messages) /\ todo["writer"] \in Seq(Messages) /\ Taken \in Seq(Messages)
<1>1. Delivered \in Seq(Messages) BY TypeParts, ConcatFacts DEF WireType, Delivered
<1>2. todo["writer"] \in Seq(Messages)
  <2>1. CASE at["writer"] = "writing" BY <2>1, OneMessage DEF TodoInv
  <2>2. CASE at["writer"] # "writing" BY <2>2, TuplesAreSequences DEF TodoInv
  <2> QED BY <2>1, <2>2
<1>3. Taken \in Seq(Messages) BY <1>1, <1>2, ConcatFacts DEF Taken
<1> QED BY <1>1, <1>2, <1>3

\* What leaves the queue and the wire alone leaves the line alone.
LEMMA LineStays ==
    ASSUME UNCHANGED <<screen, outbound, sent, got, wire>>, todo'["writer"] = todo["writer"],
           Writing' => Writing,
           at'["main"] \in {"free", "sending", "stopping"} => at["main"] \in {"free", "sending", "stopping"},
           at'["main"] = "left" => at["main"] = "left" \/ screen = "library"
    PROVE  /\ StartOf(Delivered, sent) => StartOf(Delivered, sent)'
           /\ LineInv => LineInv'
<1>1. Delivered' = Delivered /\ Taken' = Taken BY DEF Delivered, Taken
<1> QED BY <1>1 DEF LineInv, StartOf, Follows, Unclosed

\* Whoever queues what, the line has it next.
LEMMA LineGrows ==
    ASSUME TypeOK, TodoInv, ClosingInv, EstablishedInv, ~Over, LineInv,
           NEW t \in Threads, at[t] \in {"sending", "stopping"}
    PROVE  Writing /\ Unclosed(outbound, Len(outbound)) =>
              at["main"] \in {"free", "sending", "stopping"} /\ Len(Taken) + Len(outbound) = Len(sent)
<1>1. t \in {"io", "main", "receiver"}
  BY DEF Threads, TypeOK, ReaderPlaces, WriterPlaces, ClosePlaces
<1>2. CASE t = "io" BY <1>2 DEF EstablishedInv, InUse, LineInv
<1>3. CASE t = "main" BY <1>3 DEF LineInv
<1>4. CASE t = "receiver"
  <2>1. screen = "stream" BY <1>4 DEF ClosingInv, TypeOK
  <2> QED BY <2>1 DEF EstablishedInv, LineInv, TypeOK, MainPlaces
<1> QED BY <1>1, <1>2, <1>3, <1>4

LEMMA LineLonger ==
    ASSUME TypeOK, TodoInv, NEW m \in Messages, Follows(Taken, outbound, sent),
           Unclosed(outbound, Len(outbound)) => Len(Taken) + Len(outbound) = Len(sent)
    PROVE  /\ Follows(Taken, Append(outbound, m), Append(sent, m))
           /\ Unclosed(Append(outbound, m), Len(Append(outbound, m))) =>
                 /\ Unclosed(outbound, Len(outbound))
                 /\ Len(Taken) + Len(Append(outbound, m)) = Len(Append(sent, m))
<1>1. outbound \in Seq(Messages \cup {"CLOSE"}) /\ sent \in Seq(Messages) /\ Taken \in Seq(Messages)
  BY TypeParts, TakenType DEF QueueType
<1> HIDE DEF Messages
<1> QED BY <1>1, QueueOne

\* What the writer writes is on the way.
LEMMA WritingMoves ==
    ASSUME TypeOK, TodoInv, got' = got, wire' = wire \o todo["writer"]
    PROVE  Delivered' = Taken
<1> DEFINE w == todo["writer"]
<1>1. got \in Seq(Messages) /\ wire \in Seq(Messages) /\ w \in Seq(Messages)
  BY TypeParts, TakenType DEF WireType
<1> HIDE DEF w
<1>2. (got \o wire) \o w = got \o (wire \o w) BY <1>1, ConcatAssociative
<1> QED BY <1>2 DEF w, Delivered, Taken

LEMMA OrderInit == Init => OrderInv
<1> SUFFICES ASSUME Init PROVE OrderInv OBVIOUS
<1>1. TypeOK /\ TodoInv BY TypeInit
<1>2. Delivered = <<>> /\ Taken = <<>> BY <1>1, ConcatEmptySeq, TakenType DEF Init, Delivered, Taken, Threads
<1>3. StartOf(<<>>, <<>>) BY DEF StartOf
<1>4. LineInv BY <1>2, <1>3 DEF Init, LineInv, Follows, Threads
<1> QED BY <1>2, <1>3, <1>4, ClosingInit DEF OrderInv, Init

\* The screen lets go once.
LEMMA StillNotEarly ==
    ASSUME ClosingInv, [Next]_vars, ~early' PROVE ~early
<1>1. early => ~InUse /\ ~early' BY DEF ClosingInv
<1>2. UNCHANGED early \/ StopSessionAndClose \/ LibraryCloses
  BY DEF Next, Connect, Dial, Assign, Empty, Connected, StartThreads, SendHello, Enqueue, SendNote, Touch,
         Close, CloseDrops, CloseClears, CloseQueues, CloseShuts, CloseForgets,
         CancelScope, Writer, WriterTakes, WriterWrites, WriterEnds, Reader, ReaderStarts, ReaderStops,
         HostReads, HostEnds, vars
<1> QED BY <1>1, <1>2 DEF StopSessionAndClose, LibraryCloses, InUse

LEMMA OrderStep ==
    ASSUME TypeOK, TodoInv, ClosingInv, OrderInv, [Next]_vars PROVE OrderInv'
<1> SUFFICES ASSUME ~early' PROVE StartOf(Delivered, sent)' /\ (~Over' => LineInv')
  BY ClosingStep DEF OrderInv
<1> USE DEF fields, transport, Goes, Threads, PlaceType, PlacesOf, IoPlaces, MainPlaces, ReaderPlaces,
            WriterPlaces, ClosePlaces
<1>a. PlaceType /\ TodoType /\ QueueType /\ WireType /\ FlagType BY TypeParts
<1>b. TypeOK' /\ TodoInv' /\ ClosingInv' /\ EstablishedInv' BY TypeStep, ClosingStep DEF OrderInv
<1>c. PlaceType' /\ QueueType' /\ WireType' BY <1>b, TypeParts, PTL
<1>d. Over => Over' BY OverStays
<1>e. ~early BY StillNotEarly
<1>f. EstablishedInv /\ StartOf(Delivered, sent) /\ (~Over => LineInv) BY <1>e DEF OrderInv
<1>g. /\ Delivered \in Seq(Messages) /\ todo["writer"] \in Seq(Messages) /\ Taken \in Seq(Messages)
      /\ sent \in Seq(Messages) /\ outbound \in Seq(Messages \cup {"CLOSE"})
  BY <1>a, TakenType DEF QueueType
<1> DEFINE Goal == StartOf(Delivered, sent)' /\ (~Over' => LineInv')
           Kept == /\ UNCHANGED <<screen, outbound, sent, got, wire>> /\ todo'["writer"] = todo["writer"]
                   /\ Writing' => Writing
                   /\ at'["main"] \in {"free", "sending", "stopping"} => at["main"] \in {"free", "sending", "stopping"}
                   /\ at'["main"] = "left" => at["main"] = "left" \/ screen = "library"
<1>k. Kept => Goal BY <1>d, <1>f, LineStays
<1> HIDE DEF Kept
<1> USE <1>a, <1>c
<1>1. CASE Dial BY <1>1, <1>k DEF Dial, Kept, Writing
<1>2. CASE Assign BY <1>2, <1>k DEF Assign, Kept, Writing
<1>3. CASE Empty BY <1>3, <1>k, <1>f DEF Empty, Kept, Writing, EstablishedInv
<1>4. CASE Connected BY <1>4, <1>k DEF Connected, Kept, Writing
<1>5. CASE StartThreads BY <1>5, <1>k DEF StartThreads, Kept, Writing, TodoInv
<1>6. CASE SendHello BY <1>6, <1>k DEF SendHello, Send, Kept, Writing, TodoType
<1>7. ASSUME NEW t \in Threads, Enqueue(t) PROVE Goal
  <2>1. /\ got' = got /\ wire' = wire /\ Delivered' = Delivered /\ screen' = screen /\ Over' = Over
        /\ t # "writer" /\ at'["writer"] = at["writer"] /\ todo'["writer"] = todo["writer"]
        /\ Taken' = Taken /\ Writing' = Writing
    <3>1. t # "writer" BY <1>7 DEF Enqueue
    <3> QED BY <1>7, <3>1 DEF Enqueue, Delivered, Taken, Writing, Over, TodoType
  <2>2. ~Over => (Writing /\ Unclosed(outbound, Len(outbound)) =>
              at["main"] \in {"free", "sending", "stopping"} /\ Len(Taken) + Len(outbound) = Len(sent))
    BY <1>7, <1>f, LineGrows DEF Enqueue
  <2>3. ASSUME NEW m \in Messages, outbound' = Append(outbound, m), sent' = Append(sent, m),
               at'["main"] # "left" \/ at["main"] = "left"
        PROVE  Goal
    <3>1. StartOf(Delivered, sent)' BY <1>f, <1>g, <2>1, <2>3, StartOfMore DEF StartOf
    <3>2. ASSUME ~Over PROVE LineInv'
      <4>1. LineInv BY <1>f, <3>2
      <4>2. StartOf(Taken', sent') BY <1>g, <2>1, <2>3, <4>1, StartOfMore DEF LineInv
      <4>3. ASSUME Writing
            PROVE  /\ Follows(Taken', outbound', sent')
                   /\ Unclosed(outbound', Len(outbound')) =>
                         /\ Unclosed(outbound, Len(outbound))
                         /\ Len(Taken') + Len(outbound') = Len(sent')
        <5>1. Follows(Taken, outbound, sent) BY <4>1, <4>3 DEF LineInv
        <5>2. Unclosed(outbound, Len(outbound)) => Len(Taken) + Len(outbound) = Len(sent)
          BY <2>2, <3>2, <4>3
        <5>3. /\ Follows(Taken, Append(outbound, m), Append(sent, m))
              /\ Unclosed(Append(outbound, m), Len(Append(outbound, m))) =>
                    /\ Unclosed(outbound, Len(outbound))
                    /\ Len(Taken) + Len(Append(outbound, m)) = Len(Append(sent, m))
          BY <5>1, <5>2, LineLonger
        <5> QED BY <2>1, <2>3, <5>3
      <4>4. Unclosed(outbound, Len(outbound)) /\ Writing => at["main"] # "left"
        BY <2>2, <3>2
      <4> QED BY <2>1, <2>3, <4>2, <4>3, <4>4 DEF LineInv
    <3> QED BY <2>1, <3>1, <3>2
  <2>4. ASSUME outbound' = Append(outbound, "CLOSE"), sent' = sent PROVE Goal
    <3>1. StartOf(Delivered, sent)' BY <1>f, <2>1, <2>4 DEF StartOf
    <3>2. ASSUME ~Over PROVE LineInv'
      <4>1. LineInv BY <1>f, <3>2
      <4>2. Writing => Follows(Taken', outbound', sent') /\ ~Unclosed(outbound', Len(outbound'))
        BY <1>g, <2>1, <2>4, <4>1, QueueSentinel DEF LineInv
      <4> QED BY <2>1, <2>4, <4>1, <4>2 DEF LineInv
    <3> QED BY <2>1, <3>1, <3>2
  <2>5. PICK m, rest, place :
           /\ m \in Messages \cup {"CLOSE"}
           /\ Queues(t, m, rest, place) /\ (place = "left" => m = "CLOSE")
    BY <1>7, EnqueueCases DEF Messages
  <2>6. CASE m = "CLOSE" BY <2>4, <2>5, <2>6 DEF Queues
  <2>7. CASE m # "CLOSE"
    <3>1. at'["main"] # "left" \/ at["main"] = "left" BY <2>5, <2>7 DEF Queues
    <3> QED BY <2>3, <2>5, <2>7, <3>1 DEF Queues
  <2> QED BY <2>6, <2>7
<1>8. ASSUME NEW t \in {"main", "receiver"}, SendNote(t) PROVE Goal
  BY <1>8, <1>k DEF SendNote, Send, Kept, Writing, TodoType
<1>9. CASE Touch BY <1>9, <1>k DEF Touch, Send, Kept, Writing, TodoType
<1>10. CASE StopSessionAndClose BY <1>10, <1>k DEF StopSessionAndClose, Kept, Writing, TodoType
<1>11. CASE LibraryCloses BY <1>11, <1>k DEF LibraryCloses, Kept, Writing
<1>12. ASSUME NEW t \in {"main", "reader", "writer"}, Close(t) PROVE Goal
  <2>1. CASE CloseDrops(t) BY <1>12, <2>1, <1>k DEF CloseDrops, Kept, Writing
  <2>2. t # "main" \/ screen = "stream" => Over
    BY <1>12, <1>f DEF Close, CloseDrops, CloseClears, CloseQueues, CloseShuts, CloseForgets,
                       ClosingInv, EstablishedInv, TypeOK
  <2>3. CASE CloseClears(t)
    <3>1. Delivered' = Delivered /\ Taken' = Taken /\ sent' = sent BY <2>3 DEF CloseClears, Delivered, Taken
    <3>2. ASSUME ~Over PROVE LineInv'
      <4>1. at'["main"] = "queueing" BY <1>12, <2>2, <2>3, <3>2 DEF CloseClears
      <4>2. outbound' = <<>> BY <2>3 DEF CloseClears
      <4> QED BY <1>f, <3>1, <3>2, <4>1, <4>2 DEF LineInv, Follows
    <3> QED BY <1>d, <1>f, <3>1, <3>2 DEF StartOf
  <2>4. CASE CloseQueues(t)
    <3>1. Delivered' = Delivered /\ Taken' = Taken /\ sent' = sent BY <2>4 DEF CloseQueues, Delivered, Taken
    <3>2. ASSUME ~Over PROVE LineInv'
      <4>1. t = "main" /\ Writing' = Writing BY <1>12, <2>2, <2>4, <3>2 DEF CloseQueues, Writing, TypeOK
      <4>2. Writing => Follows(Taken', outbound', sent') /\ ~Unclosed(outbound', Len(outbound'))
        BY <1>f, <1>g, <2>4, <3>1, <3>2, QueueSentinel DEF CloseQueues, LineInv
      <4> QED BY <1>f, <3>1, <3>2, <4>1, <4>2 DEF LineInv
    <3> QED BY <1>d, <1>f, <3>1, <3>2 DEF StartOf
  <2>5. CASE CloseShuts(t) BY <1>12, <2>5, <1>k DEF CloseShuts, Kept, Writing
  <2>6. CASE CloseForgets(t)
    <3>1. UNCHANGED <<screen, outbound, sent, got, wire, todo>> BY <2>6 DEF CloseForgets
    <3>2. CASE Over BY <1>d, <1>f, <3>1, <3>2 DEF Delivered, StartOf
    <3>3. CASE ~Over
      <4>1. t = "main" /\ screen = "library" BY <1>12, <2>2, <3>3 DEF TypeOK
      <4>2. Kept BY <2>6, <3>1, <4>1 DEF CloseForgets, Kept, Writing
      <4> QED BY <1>k, <4>2
    <3> QED BY <3>2, <3>3
  <2> QED BY <1>12, <2>1, <2>3, <2>4, <2>5, <2>6 DEF Close
<1>13. CASE CancelScope BY <1>13, <1>k DEF CancelScope, Kept, Writing
<1>14. CASE WriterTakes
  <2>1. Delivered' = Delivered /\ sent' = sent /\ Over' = Over /\ screen' = screen /\ at'["main"] = at["main"]
    BY <1>14 DEF WriterTakes, Delivered, Over
  <2>2. todo["writer"] = <<>> /\ Writing BY <1>14 DEF WriterTakes, TodoInv, Writing
  <2>3. CASE Head(outbound) = "CLOSE"
    <3>1. Taken' = Taken BY <1>14, <2>1, <2>3 DEF WriterTakes, Taken
    <3>2. ~Writing' BY <1>14, <2>3 DEF WriterTakes, Writing
    <3> QED BY <1>f, <2>1, <3>1, <3>2 DEF LineInv, StartOf
  <2>4. CASE Head(outbound) # "CLOSE"
    <3>1. Taken' = Append(Taken, Head(outbound))
      <4>1. todo'["writer"] = <<Head(outbound)>> BY <1>14, <2>4 DEF WriterTakes, TodoType
      <4>2. Taken = Delivered BY <1>g, <2>2, ConcatEmptySeq DEF Taken
      <4> QED BY <1>g, <2>1, <4>1, <4>2 DEF Taken
    <3>2. outbound' = Tail(outbound) /\ outbound # <<>> BY <1>14 DEF WriterTakes
    <3>3. ASSUME ~Over PROVE LineInv'
      <4>1. LineInv BY <1>f, <3>3
      <4>2. /\ StartOf(Taken', sent)
            /\ Follows(Taken', outbound', sent)
            /\ Unclosed(outbound', Len(outbound')) => Unclosed(outbound, Len(outbound))
            /\ Len(Taken') + Len(outbound') = Len(Taken) + Len(outbound)
        BY <1>g, <2>2, <2>4, <3>1, <3>2, <4>1, TakeOne DEF LineInv
      <4> QED BY <2>1, <2>2, <4>1, <4>2 DEF LineInv
    <3> QED BY <1>f, <2>1, <3>3 DEF StartOf
  <2> QED BY <2>3, <2>4
<1>15. CASE WriterWrites
  <2>1. /\ todo'["writer"] = <<>> /\ got' = got /\ sent' = sent /\ outbound' = outbound /\ screen' = screen
        /\ Over' = Over /\ at'["main"] = at["main"] /\ Writing
    <3>1. todo'["writer"] = <<>> BY <1>15 DEF WriterWrites, TodoType
    <3>2. at'["main"] = at["main"] BY <1>15 DEF WriterWrites, Disconnects
    <3> QED BY <1>15, <3>1, <3>2 DEF WriterWrites, Over, Writing
  <2>2. CASE Over
    <3>1. wire' = wire BY <1>15, <2>2 DEF WriterWrites, Over
    <3> QED BY <1>f, <2>1, <2>2, <3>1 DEF Delivered, StartOf
  <2>3. CASE ~Over
    <3>1. wire' = wire \o todo["writer"] BY <1>15, <2>3 DEF WriterWrites, Over
    <3>2. Delivered' = Taken
      BY <2>1, <3>1, WritingMoves
    <3>3. Taken' = Taken BY <1>g, <2>1, <3>2, ConcatEmptySeq DEF Taken
    <3> QED BY <1>f, <2>1, <2>3, <3>2, <3>3 DEF LineInv, StartOf
  <2> QED BY <2>2, <2>3
<1>16. CASE WriterEnds
  <2>1. Over' BY <1>16 DEF WriterEnds, Over
  <2> QED BY <1>16, <1>f, <2>1 DEF WriterEnds, Delivered, StartOf
<1>17. CASE ReaderStarts BY <1>17, <1>k DEF ReaderStarts, Kept, Writing
<1>18. CASE ReaderStops BY <1>18, <1>k DEF ReaderStops, Disconnects, Kept, Writing
<1>19. CASE HostReads
  <2>1. Delivered' = Delivered BY <1>19, ReadingMoves DEF HostReads, Delivered, WireType
  <2>2. Taken' = Taken BY <1>19, <2>1 DEF HostReads, Taken
  <2> QED BY <1>d, <1>f, <1>19, <2>1, <2>2 DEF HostReads, LineInv, StartOf, Follows, Unclosed, Writing
<1>20. CASE HostEnds
  <2>1. Over' BY <1>20 DEF HostEnds, Over
  <2>2. Delivered' = got BY <1>20, ConcatEmptySeq DEF HostEnds, Delivered, WireType
  <2>3. StartOf(got, sent) BY <1>f, <1>g, StartOfLess DEF Delivered, WireType
  <2> QED BY <1>20, <2>1, <2>2, <2>3 DEF HostEnds, StartOf
<1>21. CASE UNCHANGED vars BY <1>21, <1>k DEF vars, Kept, Writing
<1> QED BY <1>1, <1>2, <1>3, <1>4, <1>5, <1>6, <1>7, <1>8, <1>9, <1>10, <1>11, <1>12, <1>13,
           <1>14, <1>15, <1>16, <1>17, <1>18, <1>19, <1>20, <1>21
        DEF Next, Connect, Writer, Reader

-----------------------------------------------------------------------------
(* The button.                                                              *)

LEMMA NoDownFacts ==
    ASSUME NEW S, NEW s \in Seq(S), NEW t \in Seq(S)
    PROVE  /\ NoDown(<<>>)
           /\ \A m \in S : m # "down" => NoDown(<<m>>)
           /\ \A m \in S : NoDown(s) /\ m # "down" => NoDown(Append(s, m))
           /\ NoDown(s) /\ NoDown(t) => NoDown(s \o t)
           /\ NoDown(s \o t) => NoDown(s)
           /\ s # <<>> /\ NoDown(s) => NoDown(Tail(s)) /\ Head(s) # "down"
<1>1. NoDown(<<>>) /\ \A m \in S : m # "down" => NoDown(<<m>>) BY DEF NoDown
<1>2. \A m \in S : NoDown(s) /\ m # "down" => NoDown(Append(s, m))
  BY AppendFacts DEF NoDown
<1>3. /\ Len(s) \in Nat /\ Len(t) \in Nat /\ DOMAIN s = 1 .. Len(s) /\ DOMAIN t = 1 .. Len(t)
      /\ DOMAIN (s \o t) = 1 .. Len(s) + Len(t)
      /\ \A i \in 1 .. Len(s) + Len(t) : (s \o t)[i] = IF i <= Len(s) THEN s[i] ELSE t[i - Len(s)]
  BY ConcatFacts, ConcatProperties, LenProperties
<1>4. ASSUME NoDown(s), NoDown(t) PROVE NoDown(s \o t)
  <2> SUFFICES ASSUME NEW i \in 1 .. Len(s) + Len(t) PROVE (s \o t)[i] # "down" BY <1>3 DEF NoDown
  <2>1. CASE i <= Len(s) BY <1>3, <1>4, <2>1 DEF NoDown
  <2>2. CASE i > Len(s)
    <3>1. i - Len(s) \in DOMAIN t BY <1>3, <2>2
    <3> QED BY <1>3, <1>4, <2>2, <3>1 DEF NoDown
  <2> QED BY <1>3, <2>1, <2>2
<1>5. ASSUME NoDown(s \o t) PROVE NoDown(s)
  BY <1>5, ConcatFacts DEF NoDown
<1>6. ASSUME s # <<>>, NoDown(s) PROVE NoDown(Tail(s)) /\ Head(s) # "down"
  BY <1>6, TailFacts DEF NoDown
<1> QED BY <1>1, <1>2, <1>4, <1>5, <1>6

LEMMA LiftFacts ==
    ASSUME NEW S, NEW s \in Seq(S), NEW m \in S
    PROVE  /\ \A d \in DOMAIN s : LiftedIn(s, d) => LiftedIn(Append(s, m), d)
           /\ m = "up" => \A d \in DOMAIN s : LiftedIn(Append(s, m), d)
           /\ LiftedBefore(s) /\ m # "stop" => LiftedBefore(Append(s, m))
           /\ LiftedBefore(s) /\ (\A d \in DOMAIN s : s[d] = "down" => LiftedIn(s, d)) =>
                 LiftedBefore(Append(s, m))
<1> DEFINE r == Append(s, m)
<1>1. /\ DOMAIN s = 1 .. Len(s) /\ Len(s) \in Nat /\ DOMAIN r = 1 .. Len(s) + 1
      /\ \A i \in DOMAIN s : r[i] = s[i]
      /\ r[Len(s) + 1] = m
  BY AppendFacts
<1> HIDE DEF r
<1>2. \A d \in DOMAIN s : LiftedIn(s, d) => LiftedIn(r, d) BY <1>1 DEF LiftedIn
<1>3. m = "up" => \A d \in DOMAIN s : LiftedIn(r, d) BY <1>1 DEF LiftedIn
<1>4. ASSUME LiftedBefore(s), m # "stop" \/ \A d \in DOMAIN s : s[d] = "down" => LiftedIn(s, d)
      PROVE  LiftedBefore(r)
  <2> SUFFICES ASSUME NEW d \in DOMAIN r, NEW e \in DOMAIN r, d < e, r[d] = "down", r[e] = "stop"
               PROVE  \E u \in d .. e : r[u] = "up"
    BY DEF LiftedBefore
  <2>1. d \in DOMAIN s /\ s[d] = "down" BY <1>1
  <2>2. CASE e \in DOMAIN s
    <3>1. PICK u \in d .. e : s[u] = "up" BY <1>1, <1>4, <2>1, <2>2 DEF LiftedBefore
    <3>2. u \in DOMAIN s BY <1>1, <2>1, <2>2
    <3> QED BY <1>1, <3>1, <3>2
  <2>3. CASE e = Len(s) + 1
    <3>1. PICK u \in DOMAIN s : u > d /\ s[u] = "up" BY <1>1, <1>4, <2>1, <2>3 DEF LiftedIn
    <3>2. u \in d .. e BY <1>1, <2>1, <2>3, <3>1
    <3> QED BY <1>1, <3>1, <3>2
  <2> QED BY <1>1, <2>2, <2>3
<1> QED BY <1>2, <1>3, <1>4 DEF r

LEMMA LiftedAtStart ==
    ASSUME NEW S, NEW r \in Seq(S), NEW s \in Seq(S), StartOf(r, s), LiftedBefore(s)
    PROVE  LiftedBefore(r)
<1>1. /\ DOMAIN s = 1 .. Len(s) /\ Len(s) \in Nat /\ DOMAIN r = 1 .. Len(r) /\ Len(r) \in Nat
  BY LenProperties
<1> SUFFICES ASSUME NEW d \in DOMAIN r, NEW e \in DOMAIN r, d < e, r[d] = "down", r[e] = "stop"
             PROVE  \E u \in d .. e : r[u] = "up"
  BY DEF LiftedBefore
<1>2. d \in DOMAIN s /\ e \in DOMAIN s /\ s[d] = "down" /\ s[e] = "stop" BY <1>1 DEF StartOf
<1>3. PICK u \in d .. e : s[u] = "up" BY <1>2 DEF LiftedBefore
<1>4. u \in DOMAIN r BY <1>1, <1>3
<1> QED BY <1>3, <1>4 DEF StartOf

LEMMA NoDownLifted == \A s : NoDown(s) => LiftedBefore(s)
BY DEF NoDown, LiftedBefore

LEMMA EarlyStays ==
    ASSUME TypeOK, ClosingInv, [Next]_vars
    PROVE  /\ early' => early \/ at["io"] # "done"
           /\ at["io"] = "done" => at'["io"] = "done"
<1> USE DEF Threads, TypeOK, fields, transport
<1>1. CASE UNCHANGED early
  <2>1. at["io"] = "done" => at'["io"] = "done"
    BY DEF Next, Connect, Dial, Assign, Empty, Connected, StartThreads, SendHello, Send, Enqueue, SendNote,
         Touch, StopSessionAndClose, LibraryCloses, Close, CloseDrops, CloseClears, CloseQueues, CloseShuts,
         CloseForgets, CancelScope, Writer, WriterTakes, WriterWrites, WriterEnds, Disconnects, Reader,
         ReaderStarts, ReaderStops, HostReads, HostEnds, vars, Goes, ClosePlaces
  <2> QED BY <1>1, <2>1
<1>2. CASE StopSessionAndClose BY <1>2 DEF StopSessionAndClose, Goes
<1>3. CASE LibraryCloses BY <1>3 DEF LibraryCloses, Goes
<1>4. UNCHANGED early \/ StopSessionAndClose \/ LibraryCloses
  BY DEF Next, Connect, Dial, Assign, Empty, Connected, StartThreads, SendHello, Enqueue, SendNote, Touch,
         Close, CloseDrops, CloseClears, CloseQueues, CloseShuts, CloseForgets,
         CancelScope, Writer, WriterTakes, WriterWrites, WriterEnds, Reader, ReaderStarts, ReaderStops,
         HostReads, HostEnds, vars
<1> QED BY <1>1, <1>2, <1>3, <1>4

LEMMA UnpressedStep ==
    ASSUME TypeOK, TodoInv, ClosingInv, [Next]_vars, early \/ at["io"] # "done", Unpressed
    PROVE  Unpressed'
<1>a. TodoType /\ outbound \in Seq(Messages \cup {"CLOSE"}) /\ sent \in Seq(Messages)
      /\ wire \in Seq(Messages) /\ got \in Seq(Messages)
  BY TypeParts DEF QueueType, WireType
<1>b. /\ NoDown(sent) /\ NoDown(outbound) /\ NoDown(Delivered) /\ NoDown(got)
      /\ \A t \in Threads : NoDown(todo[t]) /\ todo[t] \in Seq(Messages \cup {"CLOSE"})
  BY <1>a, NoDownFacts DEF Unpressed, Delivered, TodoType
<1>c. /\ NoDown(<<"hello">>) /\ NoDown(<<"note">>) /\ NoDown(<<>>)
      /\ NoDown(<<"up", "stop", "CLOSE">>) /\ NoDown(<<"stop", "CLOSE">>) /\ NoDown(<<"CLOSE">>)
  BY DEF NoDown
<1> USE DEF fields, transport, Threads
<1> DEFINE Still == sent' = sent /\ outbound' = outbound /\ Delivered' = Delivered
           Hands == \A t \in Threads : NoDown(todo'[t])
<1>d. Still /\ Hands => Unpressed' BY <1>b DEF Unpressed
<1>e. UNCHANGED <<sent, outbound, got, wire, todo>> => Unpressed' BY <1>b DEF Unpressed, Delivered
<1>1. CASE Connect
  <2>1. CASE SendHello
    <3>1. Still BY <2>1 DEF SendHello, Delivered
    <3>2. Hands BY <2>1, <1>a, <1>b, <1>c DEF SendHello, Send, TodoType
    <3> QED BY <1>d, <3>1, <3>2
  <2>2. CASE Empty BY <2>2, <1>b, <1>c DEF Empty, Unpressed, Delivered
  <2> QED BY <1>1, <1>e, <2>1, <2>2 DEF Connect, Dial, Assign, Connected, StartThreads
<1>2. ASSUME NEW t \in Threads, Enqueue(t) PROVE Unpressed'
  <2>1. PICK m, rest, place :
           /\ m \in Messages \cup {"CLOSE"} /\ todo[t] # <<>> /\ Head(todo[t]) = m
           /\ Queues(t, m, rest, place)
           /\ rest \in {<<>>, <<"CLOSE">>, <<"stop", "CLOSE">>}
    BY <1>2, EnqueueCases DEF Messages, TodoInv
  <2>2. m # "down" BY <1>b, <2>1, NoDownFacts
  <2>3. NoDown(outbound') BY <1>a, <1>b, <2>1, <2>2, NoDownFacts DEF Queues
  <2>4. NoDown(sent')
    <3>1. CASE m = "CLOSE" BY <1>b, <2>1, <3>1 DEF Queues
    <3>2. CASE m # "CLOSE"
      <4>1. m \in Messages /\ sent' = Append(sent, m) BY <2>1, <3>2 DEF Queues
      <4> QED BY <1>a, <1>b, <2>2, <4>1, NoDownFacts
    <3> QED BY <3>1, <3>2
  <2>5. NoDown(Delivered') BY <1>b, <1>2 DEF Enqueue, Delivered
  <2>6. Hands BY <1>a, <1>b, <1>c, <2>1 DEF Queues, TodoType
  <2> QED BY <2>3, <2>4, <2>5, <2>6 DEF Unpressed
<1>3. ASSUME NEW t \in {"main", "receiver"}, SendNote(t) PROVE Unpressed'
  <2>1. Still BY <1>3 DEF SendNote, Delivered
  <2>2. Hands BY <1>3, <1>a, <1>b, <1>c DEF SendNote, Send, TodoType
  <2> QED BY <1>d, <2>1, <2>2
<1>4. ~Touch BY DEF Touch, Send, ClosingInv, InUse
<1>5. CASE StopSessionAndClose
  <2>1. Still BY <1>5 DEF StopSessionAndClose, Delivered
  <2>2. Hands
    <3>1. CASE finger BY <1>5, <1>a, <1>b, <1>c, <3>1, ReleaseThenStop DEF StopSessionAndClose, TodoType
    <3>2. CASE ~finger BY <1>5, <1>a, <1>b, <1>c, <3>2, ReleaseThenStop DEF StopSessionAndClose, TodoType
    <3> QED BY <3>1, <3>2
  <2> QED BY <1>d, <2>1, <2>2
<1>6. ASSUME NEW t \in {"main", "reader", "writer"}, Close(t) PROVE Unpressed'
  <2>1. CASE CloseClears(t) BY <2>1, <1>b, <1>c DEF CloseClears, Unpressed, Delivered
  <2>2. CASE CloseQueues(t)
    <3>0. "CLOSE" \in Messages \cup {"CLOSE"} /\ "CLOSE" # "down" OBVIOUS
    <3>1. NoDown(Append(outbound, "CLOSE")) BY <1>a, <1>b, <3>0, NoDownFacts
    <3> QED BY <1>b, <2>2, <3>1 DEF CloseQueues, Unpressed, Delivered
  <2> QED BY <1>6, <1>e, <2>1, <2>2 DEF Close, CloseDrops, CloseShuts, CloseForgets
<1>7. CASE WriterTakes
  <2>1. NoDown(Tail(outbound)) /\ Head(outbound) # "down" /\ Head(outbound) \in Messages \cup {"CLOSE"}
    BY <1>7, <1>a, <1>b, NoDownFacts, TailFacts DEF WriterTakes
  <2>2. NoDown(<<Head(outbound)>>) BY <2>1, <1>a, NoDownFacts
  <2>3. Hands BY <1>7, <1>a, <1>b, <2>2 DEF WriterTakes, TodoType
  <2> QED BY <1>7, <1>b, <2>1, <2>3 DEF WriterTakes, Unpressed, Delivered
<1>8. CASE WriterWrites
  <2>1. Hands BY <1>8, <1>a, <1>b, <1>c DEF WriterWrites, TodoType
  <2>2. NoDown(Delivered')
    <3>1. CASE wire' = wire BY <1>8, <1>b, <3>1 DEF WriterWrites, Delivered
    <3>2. CASE wire' = wire \o todo["writer"]
      <4>1. Delivered' = Taken BY <1>8, <3>2, WritingMoves DEF WriterWrites
      <4>2. NoDown(Delivered \o todo["writer"])
        BY <1>b, TakenType, NoDownFacts
      <4> QED BY <4>1, <4>2 DEF Taken
    <3> QED BY <1>8, <3>1, <3>2 DEF WriterWrites
  <2> QED BY <1>8, <1>b, <2>1, <2>2 DEF WriterWrites, Unpressed
<1>9. CASE HostReads
  <2>1. Delivered' = Delivered BY <1>9, <1>a, ReadingMoves DEF HostReads, Delivered
  <2> QED BY <1>9, <1>b, <2>1 DEF HostReads, Unpressed
<1>10. CASE HostEnds
  <2>1. Delivered' = got BY <1>10, <1>a, ConcatEmptySeq DEF HostEnds, Delivered
  <2> QED BY <1>10, <1>b, <2>1 DEF HostEnds, Unpressed
<1>11. CASE LibraryCloses \/ CancelScope \/ WriterEnds \/ ReaderStarts \/ ReaderStops \/ UNCHANGED vars
  BY <1>11, <1>e DEF LibraryCloses, CancelScope, WriterEnds, ReaderStarts, ReaderStops, vars
<1> QED BY <1>1, <1>2, <1>3, <1>4, <1>5, <1>6, <1>7, <1>8, <1>9, <1>10, <1>11 DEF Next, Writer, Reader

\* What is queued for the button.
LEMMA FingerStep ==
    ASSUME TypeOK, TodoInv, ClosingInv, EstablishedInv, [Next]_vars, ~Over, FingerInv
    PROVE  FingerInv'
<1> USE DEF fields, transport, Threads, Goes
<1>a. PlaceType /\ TodoType /\ sent \in Seq(Messages) BY TypeParts DEF QueueType
<1>b. InUse /\ at["io"] = "done" => connected BY DEF EstablishedInv
<1>f. PlaceType' BY TypeStep, TypeParts, PTL
<1> DEFINE Same == /\ sent' = sent /\ finger' = finger
                   /\ at'["main"] = at["main"] /\ todo'["main"] = todo["main"]
<1>c. Same => FingerInv' BY DEF FingerInv, InUse, LiftedIn, LiftedBefore
<1>d. ASSUME sent' = sent, at'["main"] \in ClosePlaces \cup {"left"} PROVE FingerInv'
  BY <1>d DEF FingerInv, InUse, ClosePlaces, LiftedBefore
<1>1. CASE Connect
  BY <1>1, <1>a, <1>c DEF Connect, Dial, Assign, Empty, Connected, StartThreads, SendHello, Send,
                          PlaceType, TodoType
<1>2. ASSUME NEW t \in Threads, Enqueue(t) PROVE FingerInv'
  <2>1. finger' = finger BY <1>2 DEF Enqueue
  <2>2. ASSUME NEW m \in Messages, sent' = Append(sent, m)
        PROVE  /\ \A d \in DOMAIN sent' :
                     \/ /\ d \in DOMAIN sent /\ sent'[d] = sent[d]
                        /\ LiftedIn(sent, d) => LiftedIn(sent', d)
                        /\ m = "up" => LiftedIn(sent', d)
                     \/ sent'[d] = m
               /\ LiftedBefore(sent) /\ m # "stop" => LiftedBefore(sent')
    BY <1>a, <2>2, AppendFacts, LiftFacts
  <2>3. CASE t # "main"
    <3>1. PICK m \in {"hello", "note"} : sent' = Append(sent, m)
      BY <1>2, <2>3, EnqueueCases DEF Queues
    <3>2. at'["main"] = at["main"] /\ todo'["main"] = todo["main"]
      BY <1>2, <2>3, <1>a DEF Enqueue, PlaceType, TodoType
    <3>3. m \in Messages /\ m \notin {"down", "stop"} BY DEF Messages
    <3> QED BY <2>1, <2>2, <3>1, <3>2, <3>3 DEF FingerInv, InUse
  <2>4. CASE t = "main" /\ at[t] = "sending"
    <3>1. PICK m \in {"note", "down", "up"} : todo["main"] = <<m>> /\ Queues("main", m, <<>>, "free")
      BY <1>2, <2>4, EnqueueCases
    <3>2. m \in Messages /\ sent' = Append(sent, m) /\ at'["main"] = "free"
      BY <3>1, <1>a DEF Messages, Queues, PlaceType
    <3>3. /\ todo["main"] = <<"up">> => m = "up"
          /\ m = "down" => todo["main"] = <<"down">>
      BY <3>1
    <3>4. m = "down" => finger BY <2>4, <3>3 DEF FingerInv
    <3>5. \A d \in DOMAIN sent' : sent'[d] = "down" => finger \/ LiftedIn(sent', d)
      BY <2>2, <2>4, <3>2, <3>3, <3>4 DEF FingerInv, InUse
    <3>6. (\A i \in DOMAIN sent' : sent'[i] # "stop") /\ LiftedBefore(sent')
      BY <2>2, <2>4, <3>2 DEF FingerInv, InUse
    <3> QED BY <2>1, <3>2, <3>5, <3>6 DEF FingerInv, InUse
  <2>5. CASE t = "main" /\ at[t] = "stopping"
    <3>1. \A d \in DOMAIN sent : sent[d] = "down" => LiftedIn(sent, d) \/ Head(todo["main"]) = "up"
      BY <2>5 DEF FingerInv
    <3>2. CASE todo[t] = <<"up", "stop", "CLOSE">> /\ Queues(t, "up", <<"stop", "CLOSE">>, "stopping")
      <4>1. "up" \in Messages /\ sent' = Append(sent, "up") /\ at'["main"] = "stopping"
        BY <2>5, <3>2, <1>a DEF Messages, Queues, PlaceType
      <4> QED BY <2>1, <2>2, <4>1 DEF FingerInv, InUse
    <3>3. CASE todo[t] = <<"stop", "CLOSE">> /\ Queues(t, "stop", <<"CLOSE">>, "stopping")
      <4>1. "stop" \in Messages /\ sent' = Append(sent, "stop") /\ at'["main"] = "stopping"
        BY <2>5, <3>3, <1>a DEF Messages, Queues, PlaceType
      <4>2. \A d \in DOMAIN sent : sent[d] = "down" => LiftedIn(sent, d)
        BY <2>5, <3>1, <3>3, TuplesOfMore
      <4>3. LiftedBefore(sent') BY <1>a, <4>1, <4>2, LiftFacts DEF FingerInv
      <4>4. \A d \in DOMAIN sent' : sent'[d] = "down" => LiftedIn(sent', d)
        BY <2>2, <4>1, <4>2
      <4> QED BY <4>1, <4>3, <4>4 DEF FingerInv, InUse
    <3>4. CASE todo[t] = <<"CLOSE">> /\ Queues(t, "CLOSE", <<>>, "left")
      BY <1>d, <2>5, <3>4, <1>a DEF Queues, PlaceType
    <3> QED BY <1>2, <2>5, <3>2, <3>3, <3>4, EnqueueCases
  <2> QED BY <1>2, <2>3, <2>4, <2>5, EnqueueCases
<1>3. ASSUME NEW t \in {"main", "receiver"}, SendNote(t) PROVE FingerInv'
  <2>1. CASE t = "receiver" BY <1>3, <2>1, <1>a, <1>c DEF SendNote, Send, PlaceType, TodoType
  <2>2. CASE t = "main" /\ connected
    <3>1. /\ sent' = sent /\ finger' = finger /\ at["main"] = "free" /\ at'["main"] = "sending"
          /\ todo["main"] = <<>> /\ todo'["main"] = <<"note">>
      BY <1>3, <2>2, <1>a DEF SendNote, Send, PlaceType, TodoType, TodoInv
    <3> QED BY <3>1 DEF FingerInv, InUse, LiftedBefore, LiftedIn
  <2>3. CASE t = "main" /\ ~connected BY <1>3, <2>3, <1>a, <1>c DEF SendNote, Send, PlaceType, TodoType
  <2> QED BY <1>3, <2>1, <2>2, <2>3
<1>4. CASE Touch
  <2>1. connected /\ at["main"] = "free" /\ sent' = sent /\ todo["main"] = <<>>
    BY <1>4, <1>b DEF Touch, Send, InUse, TodoInv
  <2>2. at'["main"] = "sending" BY <1>4, <2>1, <1>a DEF Touch, Send, PlaceType
  <2>3. todo'["main"] = <<IF finger THEN "up" ELSE "down">> BY <1>4, <2>1, <1>a DEF Touch, Send, TodoType
  <2>4. CASE finger
    <3>1. todo'["main"] = <<"up">> BY <2>3, <2>4
    <3> QED BY <2>1, <2>2, <3>1 DEF FingerInv, InUse, LiftedBefore
  <2>5. CASE ~finger
    <3>1. finger' BY <1>4, <2>5 DEF Touch
    <3> QED BY <2>1, <2>2, <3>1 DEF FingerInv, InUse, LiftedBefore
  <2> QED BY <2>4, <2>5
<1>5. CASE StopSessionAndClose
  <2>1. CASE socket
    <3>1. /\ sent' = sent /\ at["main"] = "free" /\ at'["main"] = "stopping" /\ todo["main"] = <<>>
      BY <1>5, <2>1, <1>a DEF StopSessionAndClose, PlaceType, TodoInv
    <3>2. \A d \in DOMAIN sent : sent[d] = "down" => finger \/ LiftedIn(sent, d)
      BY <3>1 DEF FingerInv, InUse
    <3>3. finger => Head(todo'["main"]) = "up"
      <4>1. ASSUME finger PROVE todo'["main"] = <<"up", "stop", "CLOSE">>
        BY <1>5, <2>1, <4>1, <1>a, ReleaseThenStop DEF StopSessionAndClose, TodoType
      <4> QED BY <4>1, TuplesOfMore
    <3> QED BY <3>1, <3>2, <3>3 DEF FingerInv, InUse, LiftedBefore, LiftedIn
  <2>2. CASE ~socket BY <1>5, <2>2, <1>a, <1>d DEF StopSessionAndClose, PlaceType, ClosePlaces
  <2> QED BY <2>1, <2>2
<1>6. CASE LibraryCloses BY <1>6, <1>a, <1>d DEF LibraryCloses, PlaceType, ClosePlaces
<1>7. ASSUME NEW t \in {"main", "reader", "writer"}, Close(t) PROVE FingerInv'
  <2>1. CASE t = "main"
    BY <1>7, <2>1, <1>a, <1>d DEF Close, CloseDrops, CloseClears, CloseQueues, CloseShuts, CloseForgets,
                                  PlaceType, ClosePlaces
  <2>2. CASE t # "main"
    BY <1>7, <2>2, <1>a, <1>c DEF Close, CloseDrops, CloseClears, CloseQueues, CloseShuts, CloseForgets,
                                  PlaceType
  <2> QED BY <2>1, <2>2
<1>8. CASE CancelScope BY <1>8, <1>a, <1>c DEF CancelScope, PlaceType
<1>9. CASE Writer \/ ReaderStarts \/ ReaderStops
  <2>1. CASE WriterTakes BY <2>1, <1>a, <1>c DEF WriterTakes, PlaceType, TodoType
  <2>2. CASE WriterWrites BY <2>2, <1>a, <1>c DEF WriterWrites, Disconnects, PlaceType, TodoType
  <2> QED BY <1>7, <1>9, <2>1, <2>2, <1>a, <1>c
          DEF Writer, WriterEnds, ReaderStarts, ReaderStops, Disconnects, PlaceType
<1>10. CASE HostReads \/ HostEnds \/ UNCHANGED vars BY <1>10, <1>c DEF HostReads, HostEnds, vars
<1> QED BY <1>1, <1>2, <1>3, <1>4, <1>5, <1>6, <1>7, <1>8, <1>9, <1>10 DEF Next, Reader

LEMMA DeliveredOrSent ==
    ASSUME TypeOK, [Next]_vars
    PROVE  Delivered' = Delivered \/ WriterWrites \/ HostEnds
<1>1. CASE UNCHANGED <<got, wire>> BY <1>1 DEF Delivered
<1>2. CASE HostReads BY <1>2, TypeParts, ReadingMoves DEF HostReads, Delivered, WireType
<1>3. UNCHANGED <<got, wire>> \/ WriterWrites \/ HostReads \/ HostEnds
  BY DEF Next, Connect, Dial, Assign, Empty, Connected, StartThreads, SendHello, Enqueue, SendNote, Touch,
         StopSessionAndClose, LibraryCloses, Close, CloseDrops, CloseClears, CloseQueues, CloseShuts,
         CloseForgets, CancelScope, Writer, WriterTakes, WriterEnds, Reader, ReaderStarts, ReaderStops,
         vars, transport
<1> QED BY <1>1, <1>2, <1>3

\* Once the connection is over no more is delivered.
LEMMA OverDelivers ==
    ASSUME TypeOK, TodoInv, [Next]_vars, Over PROVE StartOf(Delivered', Delivered)
<1> USE DEF transport
<1>1. Delivered \in Seq(Messages) /\ got \in Seq(Messages) /\ wire \in Seq(Messages)
  BY TakenType, TypeParts DEF WireType
<1>2. CASE Delivered' = Delivered BY <1>1, <1>2, LenProperties DEF StartOf
<1>3. CASE WriterWrites BY <1>2, <1>3 DEF WriterWrites, Over, Delivered
<1>4. CASE HostEnds
  <2>1. Delivered' = got BY <1>1, <1>4, ConcatEmptySeq DEF HostEnds, Delivered
  <2>2. StartOf(Delivered, Delivered) BY <1>1, LenProperties DEF StartOf
  <2>3. StartOf(got \o wire, Delivered) BY <2>2 DEF Delivered
  <2>4. StartOf(got, Delivered) BY <1>1, <2>3, StartOfLess
  <2> QED BY <2>1, <2>4
<1> QED BY <1>2, <1>3, <1>4, DeliveredOrSent

\* What is delivered was queued before.
LEMMA StillDelivered ==
    ASSUME TypeOK, OrderInv, OrderInv', ~early, ~early', [Next]_vars
    PROVE  StartOf(Delivered', sent)
<1>1. CASE Delivered' = Delivered BY <1>1 DEF OrderInv
<1>2. CASE sent' = sent BY <1>2 DEF OrderInv
<1> QED BY <1>1, <1>2, DeliveredOrSent DEF WriterWrites, HostEnds

LEMMA LiftStep ==
    ASSUME TypeOK, TodoInv, ClosingInv, OrderInv, LiftInv, [Next]_vars
    PROVE  LiftInv'
<1>1. TypeOK' /\ TodoInv' /\ ClosingInv' /\ OrderInv' BY TypeStep, ClosingStep, OrderStep DEF OrderInv
<1>2. early' \/ at'["io"] # "done" => Unpressed'
  <2> SUFFICES ASSUME early' \/ at'["io"] # "done" PROVE Unpressed' OBVIOUS
  <2>1. early \/ at["io"] # "done" BY EarlyStays
  <2> QED BY <2>1, UnpressedStep DEF LiftInv
<1>5. Delivered' \in Seq(Messages)
  <2>1. WireType' BY <1>1, TypeParts, PTL
  <2> QED BY <2>1, ConcatFacts DEF WireType, Delivered
<1>3. CASE early'
  <2>1. NoDown(Delivered') BY <1>2, <1>3 DEF Unpressed
  <2> QED BY <1>2, <1>3, <2>1, NoDownLifted DEF LiftInv
<1>4. CASE ~early'
  <2>1. ~early BY <1>4, StillNotEarly
  <2>2. ~Over' => FingerInv' BY <2>1, OverStays, FingerStep DEF LiftInv, OrderInv
  <2>3. LiftedBefore(Delivered')
    <3>1. CASE Over
      <4>1. Delivered \in Seq(Messages) BY TakenType
      <4>2. StartOf(Delivered', Delivered) BY <3>1, OverDelivers
      <4> QED BY <1>5, <4>1, <4>2, LiftedAtStart DEF LiftInv
    <3>2. CASE ~Over
      <4>1. sent \in Seq(Messages) BY TypeParts DEF QueueType
      <4>2. StartOf(Delivered', sent) BY <1>1, <1>4, <2>1, StillDelivered
      <4> QED BY <1>5, <2>1, <3>2, <4>1, <4>2, LiftedAtStart DEF LiftInv, FingerInv
    <3> QED BY <3>1, <3>2
  <2> QED BY <1>2, <1>4, <2>2, <2>3 DEF LiftInv
<1> QED BY <1>3, <1>4

-----------------------------------------------------------------------------
LEMMA ControlInit == Init => ControlInv
<1> SUFFICES ASSUME Init PROVE ControlInv OBVIOUS
<1>1. TypeOK /\ TodoInv /\ ClosingInv /\ OrderInv BY TypeInit, ClosingInit, OrderInit
<1>2. Delivered = <<>> BY ConcatEmptySeq DEF Init, Delivered
<1>3. NoDown(<<>>) BY DEF NoDown
<1>4. Unpressed BY <1>2, <1>3 DEF Init, Unpressed
<1>5. LiftedBefore(Delivered) /\ LiftedBefore(sent) BY <1>4, NoDownLifted DEF Unpressed
<1>6. FingerInv BY <1>5 DEF Init, FingerInv, InUse, Threads
<1> QED BY <1>1, <1>4, <1>5, <1>6 DEF ControlInv, LiftInv

LEMMA ControlStep == ControlInv /\ [Next]_vars => ControlInv'
<1> SUFFICES ASSUME ControlInv, [Next]_vars PROVE ControlInv' OBVIOUS
<1>1. TypeOK /\ TodoInv /\ ClosingInv /\ OrderInv /\ LiftInv BY DEF ControlInv
<1>2. TypeOK' /\ TodoInv' BY <1>1, TypeStep
<1>3. ClosingInv' BY <1>1, ClosingStep DEF OrderInv
<1>4. OrderInv' BY <1>1, OrderStep
<1>5. LiftInv' BY <1>1, LiftStep
<1> QED BY <1>2, <1>3, <1>4, <1>5 DEF ControlInv

\* The inductive invariant of a control connection (ControlConnection.kt): up to a
\* sentinel, the queue holds what was queued and not yet written, in order, and
\* only the end of the connection makes its own threads close it.
THEOREM ControlInvariant == Spec => []ControlInv
BY ControlInit, ControlStep, PTL DEF Spec

\* The connection's variables keep their types, and no thread leaves its places.
THEOREM ControlTypeCorrect == Spec => []TypeOK
<1>1. ControlInv => TypeOK BY DEF ControlInv
<1> QED BY <1>1, ControlInvariant, PTL

\* Every step of the connection queues one message, lets the host read the next one
\* or leaves the channel alone (ControlConnection.send, writeLoop, close), for any
\* number of messages, unless the screen let go while connect() was running.
LEMMA ChannelStep ==
    ControlInv /\ [Next]_vars =>
        [early \/ Channel!Submit \/ Channel!Deliver]_(Channel!channelVars)
<1> SUFFICES ASSUME ControlInv, [Next]_vars, ~early
             PROVE  Channel!Submit \/ Channel!Deliver \/ UNCHANGED <<sent, got>>
  BY DEF Channel!channelVars
<1>1. TypeOK /\ TodoInv /\ StartOf(Delivered, sent) BY DEF ControlInv, OrderInv
<1>2. sent \in Seq(Messages) /\ got \in Seq(Messages) /\ wire \in Seq(Messages)
  BY <1>1, TypeParts DEF QueueType, WireType
<1>3. ASSUME NEW t \in Threads, Enqueue(t) PROVE Channel!Submit \/ UNCHANGED <<sent, got>>
  <2>1. PICK m, rest, place : m \in Messages \cup {"CLOSE"} /\ Queues(t, m, rest, place)
    BY <1>1, <1>3, EnqueueCases DEF Messages
  <2>2. got' = got BY <1>3 DEF Enqueue, transport
  <2> QED BY <2>1, <2>2 DEF Queues, Channel!Submit
<1>4. CASE HostReads
  <2>1. wire # <<>> /\ got' = Append(got, Head(wire)) /\ sent' = sent BY <1>4 DEF HostReads
  <2>2. /\ Len(got) \in Nat /\ Len(wire) \in Nat \ {0} /\ Len(sent) \in Nat /\ Head(wire) = wire[1]
    BY <1>2, <2>1, TailFacts, LenProperties
  <2>3. Len(got) + 1 \in 1 .. Len(got) + Len(wire) BY <2>2
  <2>4. /\ DOMAIN Delivered = 1 .. Len(got) + Len(wire) /\ Len(Delivered) = Len(got) + Len(wire)
        /\ Delivered[Len(got) + 1] = wire[1]
    BY <1>2, <2>2, <2>3, ConcatFacts, ConcatProperties DEF Delivered
  <2>5. Len(got) < Len(sent) /\ Head(wire) = sent[Len(got) + 1]
    BY <1>1, <2>2, <2>3, <2>4 DEF StartOf
  <2> QED BY <2>1, <2>5 DEF Channel!Deliver
<1>5. UNCHANGED <<sent, got>> \/ HostReads \/ \E t \in Threads : Enqueue(t)
  BY DEF Next, Connect, Dial, Assign, Empty, Connected, StartThreads, SendHello, SendNote, Touch,
         StopSessionAndClose, LibraryCloses, Close, CloseDrops, CloseClears, CloseQueues, CloseShuts,
         CloseForgets, CancelScope, Writer, WriterTakes, WriterWrites, WriterEnds, Reader, ReaderStarts,
         ReaderStops, HostEnds, vars, transport
<1> QED BY <1>3, <1>4, <1>5

\* The connection implements OrderedChannel: the host reads what was queued, in that
\* order and without a hole, whoever queues, clears and closes.
THEOREM ChannelImplemented == Spec => InOrder
<1>1. Init => Channel!Init BY DEF Init, Channel!Init
<1> QED BY <1>1, ChannelStep, ControlInvariant, PTL DEF Spec, InOrder

\* A mouse button the host was told is down it is told to lift before it is told to
\* stop, however the session ends (StreamActivity.teardownSession, TouchController).
THEOREM ButtonsAreLifted == Spec => []LiftedBeforeStop
<1>1. ControlInv => LiftedBeforeStop
  <2> SUFFICES ASSUME ControlInv PROVE LiftedBefore(got) BY DEF LiftedBefore, LiftedBeforeStop
  <2>1. got \in Seq(Messages) /\ wire \in Seq(Messages) /\ Delivered \in Seq(Messages)
    BY TypeParts, TakenType DEF ControlInv, WireType
  <2>2. StartOf(Delivered, Delivered) BY <2>1, LenProperties DEF StartOf
  <2>3. StartOf(got \o wire, Delivered) BY <2>2 DEF Delivered
  <2>4. StartOf(got, Delivered) BY <2>1, <2>3, StartOfLess
  <2> QED BY <2>1, <2>4, LiftedAtStart DEF ControlInv, LiftInv
<1> QED BY <1>1, ControlInvariant, PTL
-----------------------------------------------------------------------------
\* The screen is done with its connection and has cleared the flag.
DropInv == ~InUse /\ at["main"] # "dropping" => ~connected

LEMMA DropStep ==
    ASSUME ControlInv, ControlInv', [Next]_vars, ~early, ~early', DropInv
    PROVE  DropInv'
<1> USE DEF fields, transport, Goes, Threads
<1>a. TypeOK /\ TodoInv /\ EstablishedInv BY DEF ControlInv, OrderInv
<1>b. PlaceType BY <1>a, TypeParts
<1>1. CASE Connected
  <2>1. at["main"] = "free" /\ at'["main"] = "free" BY <1>1, <1>a, <1>b DEF Connected, EstablishedInv, PlaceType
  <2> QED BY <2>1 DEF DropInv, InUse
<1>c. ASSUME connected' = connected, at'["main"] = at["main"] PROVE DropInv' BY <1>c DEF DropInv, InUse
<1>d. ASSUME connected' = FALSE \/ at'["main"] \in {"free", "sending", "dropping"} PROVE DropInv'
  BY <1>d DEF DropInv, InUse
<1>2. CASE Dial \/ Assign \/ Empty \/ StartThreads \/ SendHello
  BY <1>2, <1>b, <1>c DEF Dial, Assign, Empty, StartThreads, SendHello, Send, PlaceType
<1>3. ASSUME NEW t \in Threads, Enqueue(t) PROVE DropInv'
  <2>1. connected' = connected BY <1>3 DEF Enqueue
  <2>2. CASE t # "main" BY <1>3, <2>1, <2>2, <1>b, <1>c DEF Enqueue, PlaceType
  <2>3. CASE t = "main" /\ at[t] = "sending"
    BY <1>3, <2>3, <1>a, <1>b, <1>d, EnqueueCases DEF Queues, PlaceType
  <2>4. CASE t = "main" /\ at[t] = "stopping" BY <2>1, <2>4 DEF DropInv, InUse
  <2> QED BY <1>3, <2>2, <2>3, <2>4 DEF Enqueue
<1>4. ASSUME NEW t \in {"main", "receiver"}, SendNote(t) PROVE DropInv'
  <2>1. CASE t = "receiver" BY <1>4, <2>1, <1>b, <1>c DEF SendNote, Send, PlaceType
  <2>2. CASE t = "main" BY <1>4, <2>2, <1>b, <1>d DEF SendNote, Send, PlaceType
  <2> QED BY <1>4, <2>1, <2>2
<1>5. CASE Touch BY <1>5, <1>b, <1>d DEF Touch, Send, PlaceType
<1>6. CASE StopSessionAndClose BY <1>6, <1>b, <1>d DEF StopSessionAndClose, PlaceType
<1>7. CASE LibraryCloses BY <1>7, <1>b, <1>d DEF LibraryCloses, PlaceType
<1>8. ASSUME NEW t \in {"main", "reader", "writer"}, Close(t) PROVE DropInv'
  <2>1. CASE CloseDrops(t) BY <2>1, <1>d DEF CloseDrops
  <2>2. CASE t = "main" /\ ~CloseDrops(t)
    <3>1. connected' = connected /\ at["main"] \in ClosePlaces \ {"dropping"}
      BY <1>8, <2>2 DEF Close, CloseClears, CloseQueues, CloseShuts, CloseForgets, ClosePlaces
    <3> QED BY <3>1 DEF DropInv, InUse, ClosePlaces
  <2>3. CASE t # "main" /\ ~CloseDrops(t)
    BY <1>8, <2>3, <1>b, <1>c DEF Close, CloseClears, CloseQueues, CloseShuts, CloseForgets, PlaceType
  <2> QED BY <2>1, <2>2, <2>3
<1>9. CASE CancelScope BY <1>9, <1>b, <1>c DEF CancelScope, PlaceType
<1>10. CASE Writer \/ Reader
  BY <1>8, <1>10, <1>b, <1>c DEF Writer, WriterTakes, WriterWrites, WriterEnds, Reader, ReaderStarts,
                                 ReaderStops, Disconnects, PlaceType
<1>11. CASE HostReads \/ HostEnds \/ UNCHANGED vars BY <1>11, <1>c DEF HostReads, HostEnds, vars
<1> QED BY <1>1, <1>2, <1>3, <1>4, <1>5, <1>6, <1>7, <1>8, <1>9, <1>10, <1>11 DEF Next, Connect

\* close() drops the connection for good, as its comment promises
\* (ControlConnection.kt, DroppedForGood), once connect() has returned: only a screen
\* that let go while connect() was running can find it connected again.
THEOREM DroppedOnceEstablished == Spec => [](~early => DroppedForGood)
<1>1. Init => (~early => DropInv) BY DEF Init, DropInv
<1>2. ControlInv /\ ControlInv' /\ (~early => DropInv) /\ [Next]_vars => (~early => DropInv)'
  <2> SUFFICES ASSUME ControlInv, ControlInv', ~early => DropInv, [Next]_vars, ~early' PROVE DropInv'
    BY Zenon
  <2>1. ~early
    <3>1. ClosingInv BY DEF ControlInv
    <3> QED BY <3>1, StillNotEarly
  <2> QED BY <2>1, DropStep
<1>3. ControlInv /\ (~early => DropInv) => (~early => DroppedForGood)
  BY DEF DropInv, DroppedForGood, InUse
<1> QED BY <1>1, <1>2, <1>3, ControlInvariant, PTL DEF Spec

=============================================================================
