------------------------- MODULE PageHistoryProofs -------------------------
(***************************************************************************)
(* Proofs about PageHistory: type correctness, that the history has each   *)
(* event once, that it is complete on a page that missed nothing, and that *)
(* every event then stands under the round it happened in.                 *)
(*                                                                         *)
(* For the last two the messages on their way are read as what the page    *)
(* will be: handling them one by one takes it from round to round, and     *)
(* the events not yet followed by a reset are the rest of the log.         *)
(***************************************************************************)
EXTENDS PageHistory, SequenceTheorems, TLAPS

-----------------------------------------------------------------------------
(* Types.                                                                  *)

SrvType  == srv \in Server
ChanType == /\ chan \in Seq(Message) /\ Len(chan) <= MaxQueue
            /\ online \in BOOLEAN /\ (~online => chan = <<>>)
PageType == page \in Page
RestType ==
  /\ at \in Places
  /\ answer \in 0 .. MaxRounds
  /\ saved \in Seq(Entry)
  /\ missed \in BOOLEAN /\ faults \in 0 .. MaxFaults
LogType  == log \in Seq(Event)

LEMMA TypeParts == TypeOK <=> SrvType /\ ChanType /\ PageType /\ RestType /\ LogType
BY DEF TypeOK, SrvType, ChanType, PageType, RestType, LogType

\* A room that waits has no round, and the events of the log are of those that
\* happened so far.
ServerInv == srv.status = "WAITING" => srv.round = 0
Logged    == \A i \in DOMAIN log : log[i].n <= srv.events
LogOnce == \A i, j \in DOMAIN log : log[i] = log[j] => i = j

\* The steps of the server.
ServerActs ==
  \/ StartGame \/ (\E r \in Rounds : StartRound(r)) \/ AnnounceLeaders \/ ChangeLeader
  \/ BeginExchange \/ FinishExchange \/ ResetGame

\* A history that has each event once.
Once(h) == \A i, j \in DOMAIN h : h[i].event = h[j].event => i = j

HistoryInv ==
  /\ TypeOK /\ ServerInv /\ Logged /\ LogOnce
  /\ Once(page.history) /\ Once(saved)

LEMMA MessageTypes ==
  /\ [type |-> "GAME_RESET"] \in Message
  /\ \A r \in Rounds : [type |-> "ROUND_STARTED", round |-> r] \in Message
  /\ \A e \in Event : [type |-> "LEADERSHIP_CHANGED", event |-> e] \in Message
  /\ \A e \in Event : [type |-> "EXCHANGE_COMPLETE", event |-> e] \in Message
BY DEF Message

\* The events that happen are events.
LEMMA EventType ==
  ASSUME SrvType, srv.events < MaxEvents,
         NEW kind \in {"EXCHANGE", "LEADER"}, NEW r \in Rounds
  PROVE  /\ NewEvent(kind, r) \in Event
         /\ NewEvent(kind, r).n = srv.events + 1 /\ NewEvent(kind, r).round = r
         /\ srv.events + 1 \in 0 .. MaxEvents /\ srv.events \in Nat
<1>1. srv.events + 1 \in 1 .. MaxEvents /\ srv.events \in Nat
  BY PageHistoryAssumption DEF SrvType, Server
<1> QED
  BY <1>1 DEF NewEvent, Event

\* Messages queued for the page keep the type of the queue.
LEMMA SendType ==
  ASSUME ChanType, NEW ms \in Seq(Message), Send(ms)
  PROVE  /\ chan' \in Seq(Message) /\ Len(chan') <= MaxQueue
         /\ ~online => chan' = <<>>
<1>1. CASE online
  <2>1. /\ chan \o ms \in Seq(Message)
        /\ Len(chan \o ms) = Len(chan) + Len(ms)
    BY ConcatProperties DEF ChanType
  <2> QED
    BY <1>1, <2>1 DEF ChanType, Send
<1>2. CASE ~online
  BY <1>2 DEF ChanType, Send
<1> QED
  BY <1>1, <1>2

LEMMA SendOneType ==
  ASSUME ChanType, NEW m \in Message, Send(<<m>>), online' = online
  PROVE  ChanType'
<1>1. <<m>> \in Seq(Message)
  OBVIOUS
<1> QED
  BY <1>1, SendType DEF ChanType

LEMMA EmptyQueue == <<>> \in Seq(Message) /\ Len(<<>>) <= MaxQueue
<1>1. Len(<<>>) = 0
  OBVIOUS
<1> QED
  BY <1>1, PageHistoryAssumption

\* An event that is added to a history keeps its type, and that it has each
\* event once.
LEMMA AddEventKeeps ==
  ASSUME NEW p \in Page, NEW e \in Event, NEW r \in 0 .. MaxRounds, Once(p.history)
  PROVE  /\ AddEvent(p, e, r) \in Page /\ Once(AddEvent(p, e, r).history)
         /\ AddEvent(p, e, r).round = p.round
<1>1. CASE \E entry \in ToSet(p.history) : entry.event = e
  BY <1>1 DEF AddEvent
<1>2. CASE ~ \E entry \in ToSet(p.history) : entry.event = e
  <2> DEFINE x == [event |-> e, round |-> r]
  <2>1. p.history \in Seq(Entry) /\ x \in Entry
    BY DEF Page, Entry
  <2>2. AddEvent(p, e, r) = [p EXCEPT !.history = Append(p.history, x)]
    BY <1>2 DEF AddEvent
  <2>3. /\ Append(p.history, x) \in Seq(Entry)
        /\ DOMAIN p.history = 1 .. Len(p.history) /\ Len(p.history) \in Nat
        /\ DOMAIN Append(p.history, x) = 1 .. Len(p.history) + 1
        /\ \A i \in 1 .. Len(p.history) : Append(p.history, x)[i] = p.history[i]
        /\ Append(p.history, x)[Len(p.history) + 1] = x
    BY <2>1
  <2>4. \A i \in DOMAIN p.history : p.history[i].event # e
    BY <1>2 DEF ToSet
  <2>5. x.event = e
    OBVIOUS
  <2> HIDE DEF x
  <2>6. Once(Append(p.history, x))
    BY <2>3, <2>4, <2>5 DEF Once
  <2>7. /\ AddEvent(p, e, r) \in Page
        /\ AddEvent(p, e, r).history = Append(p.history, x)
        /\ AddEvent(p, e, r).round = p.round
    BY <2>2, <2>3 DEF Page
  <2> QED
    BY <2>6, <2>7
<1> QED
  BY <1>1, <1>2

-----------------------------------------------------------------------------
(* The messages.                                                           *)

\* The four kinds of message, and what each carries.
LEMMA MessageKinds ==
  ASSUME NEW m \in Message
  PROVE  \/ m.type = "GAME_RESET"
         \/ m.type = "ROUND_STARTED" /\ m.round \in Rounds
         \/ m.type = "LEADERSHIP_CHANGED" /\ m.event \in Event
         \/ m.type = "EXCHANGE_COMPLETE" /\ m.event \in Event
BY DEF Message

\* A message whose handling leaves the page a page, its history with each
\* event once, and the round as the message says.
LEMMA HandledKeeps ==
  ASSUME NEW p \in Page, NEW m \in Message, Once(p.history)
  PROVE  /\ Handled(p, m) \in Page /\ Once(Handled(p, m).history)
         /\ Handled(p, m).round = IF m.type = "GAME_RESET" THEN 0
                                  ELSE IF m.type = "ROUND_STARTED" THEN m.round
                                  ELSE p.round
<1>1. CASE m.type = "GAME_RESET"
  <2>1. Handled(p, m) = [p EXCEPT !.round = 0, !.history = <<>>]
    BY <1>1 DEF Handled, OnReset
  <2>2. 0 \in 0 .. MaxRounds /\ <<>> \in Seq(Entry)
    BY PageHistoryAssumption
  <2>3. Handled(p, m) \in Page
    BY <2>1, <2>2 DEF Page
  <2>4. Handled(p, m).history = <<>> /\ Handled(p, m).round = 0
    BY <2>1 DEF Page
  <2> QED
    BY <1>1, <2>3, <2>4 DEF Once
<1>2. CASE m.type = "ROUND_STARTED"
  <2>1. m.round \in Rounds
    BY <1>2, MessageKinds
  <2>2. Handled(p, m) = [p EXCEPT !.round = m.round]
    BY <1>2 DEF Handled
  <2>3. m.round \in 0 .. MaxRounds
    BY <2>1, PageHistoryAssumption DEF Rounds
  <2>4. Handled(p, m) \in Page
    BY <2>1, <2>2, <2>3 DEF Page
  <2>5. Handled(p, m).history = p.history /\ Handled(p, m).round = m.round
    BY <2>2 DEF Page
  <2> QED
    BY <1>2, <2>4, <2>5
<1>3. CASE m.type = "LEADERSHIP_CHANGED"
  <2>1. m.event \in Event /\ p.round \in 0 .. MaxRounds
    BY <1>3, MessageKinds DEF Page
  <2>2. Handled(p, m) = AddEvent(p, m.event, p.round)
    BY <1>3 DEF Handled, OnLeader
  <2> QED
    BY <1>3, <2>1, <2>2, AddEventKeeps
<1>4. CASE m.type = "EXCHANGE_COMPLETE"
  <2> DEFINE e == m.event
             q == IF e.round \in p.shown \/ Cardinality(p.shown) >= MaxShown THEN p
                  ELSE [p EXCEPT !.shown = @ \cup {e.round}, !.animating = TRUE]
  <2>1. e \in Event /\ e.round \in Rounds /\ e.round \in 0 .. MaxRounds
    BY <1>4, MessageKinds, PageHistoryAssumption DEF Event, Rounds
  <2>2. Handled(p, m) = AddEvent(q, e, e.round)
    BY <1>4 DEF Handled, OnExchange
  <2> HIDE DEF e
  <2>3. q \in Page /\ q.history = p.history /\ q.round = p.round
    BY <2>1 DEF Page
  <2> HIDE DEF q
  <2> QED
    BY <1>4, <2>1, <2>2, <2>3, AddEventKeeps
<1> QED
  BY <1>1, <1>2, <1>3, <1>4, MessageKinds

\* What Handle leaves behind: the page, and localStorage with it.
LEMMA HandleKeeps ==
  ASSUME HistoryInv, NEW m \in Message, Handle(m)
  PROVE  /\ PageType' /\ Once(page'.history)
         /\ saved' \in Seq(Entry) /\ Once(saved')
<1>1. page \in Page /\ saved \in Seq(Entry) /\ Once(page.history) /\ Once(saved)
  BY DEF HistoryInv, TypeOK
<1>2. page' \in Page /\ Once(page'.history)
  BY <1>1, HandledKeeps DEF Handle
<1>3. saved' \in {<<>>, saved, page'.history}
  BY DEF Handle, SavedAfter
<1>4. page'.history \in Seq(Entry)
  BY <1>2 DEF Page
<1>5. <<>> \in Seq(Entry) /\ Once(<<>>)
  BY DEF Once
<1> QED
  BY <1>1, <1>2, <1>3, <1>4, <1>5 DEF PageType

\* A message put at a later place of the queue instead of at its head.
LEMMA Behind ==
  ASSUME ChanType, NEW k \in 2 .. Len(chan)
  PROVE  /\ Tail(InsertAt(chan, k + 1, Head(chan))) \in Seq(Message)
         /\ Len(Tail(InsertAt(chan, k + 1, Head(chan)))) = Len(chan)
<1> DEFINE a == SubSeq(chan, 1, k)
           b == SubSeq(chan, k + 1, Len(chan))
           c == a \o <<Head(chan)>>
           d == c \o b
<1>1. /\ chan \in Seq(Message) /\ Len(chan) \in Nat /\ k \in Nat
      /\ k >= 2 /\ k <= Len(chan) /\ Head(chan) \in Message
  BY DEF ChanType
<1>2. a \in Seq(Message) /\ Len(a) = k
  BY <1>1, SubSeqProperties
<1>3. b \in Seq(Message) /\ Len(b) = Len(chan) - k
  <2>1. CASE k = Len(chan)
    <3>1. b = <<>>
      BY <1>1, <2>1
    <3> QED
      BY <1>1, <2>1, <3>1
  <2>2. CASE k < Len(chan)
    BY <1>1, <2>2, SubSeqProperties
  <2> QED
    BY <1>1, <2>1, <2>2
<1>4. <<Head(chan)>> \in Seq(Message) /\ Len(<<Head(chan)>>) = 1
  BY <1>1
<1>5. InsertAt(chan, k + 1, Head(chan)) = d
  <2>1. (k + 1) - 1 = k
    BY <1>1
  <2> QED
    BY <2>1 DEF InsertAt
<1> HIDE DEF a, b
<1>6. c \in Seq(Message) /\ Len(c) = k + 1
  BY <1>1, <1>2, <1>4, ConcatProperties
<1> HIDE DEF c
<1>7. d \in Seq(Message) /\ Len(d) = Len(chan) + 1
  <2>1. d \in Seq(Message) /\ Len(d) = Len(c) + Len(b)
    BY <1>3, <1>6, ConcatProperties
  <2> HIDE DEF d
  <2> QED
    BY <1>1, <1>3, <1>6, <2>1
<1> HIDE DEF d
<1>8. d # <<>> /\ Tail(d) \in Seq(Message) /\ Len(Tail(d)) = Len(d) - 1
  BY <1>1, <1>7
<1> QED
  BY <1>1, <1>5, <1>7, <1>8

-----------------------------------------------------------------------------
(* The types, and each event once.                                         *)

LEMMA HistoryInit == Init => HistoryInv
<1> SUFFICES ASSUME Init PROVE HistoryInv
  OBVIOUS
<1>1. SrvType /\ ServerInv
  <2>1. 0 \in 0 .. MaxGames /\ 0 \in 0 .. MaxRounds /\ 0 \in 0 .. MaxEvents
    BY PageHistoryAssumption
  <2> QED
    BY <2>1 DEF Init, SrvType, Server, ServerInv
<1>2. ChanType
  BY EmptyQueue DEF Init, ChanType
<1>3. 0 \in 0 .. MaxRounds /\ 0 \in 0 .. MaxFaults
  BY PageHistoryAssumption
<1>4. PageType /\ page.history = <<>>
  <2>1. FreshPage \in Page
    BY <1>3 DEF FreshPage, Page
  <2> QED
    BY <2>1 DEF Init, PageType, FreshPage
<1>5. RestType
  <2>1. missed \in BOOLEAN
    BY DEF Init
  <2> QED
    BY <1>3, <2>1 DEF Init, RestType, Places
<1>6. LogType /\ Logged /\ LogOnce
  BY DEF Init, LogType, Logged, LogOnce
<1>7. Once(page.history) /\ Once(saved)
  BY <1>4 DEF Init, Once
<1> QED
  BY <1>1, <1>2, <1>4, <1>5, <1>6, <1>7, TypeParts DEF HistoryInv

\* An event happens, and is sent: the log does not have it yet.
LEMMA HappensOnce ==
  ASSUME HistoryInv, NEW kind \in {"EXCHANGE", "LEADER"}, NEW r \in Rounds,
         NEW m \in Message, m.event = NewEvent(kind, r), Happens(m),
         online' = online, srv'.events = srv.events + 1
  PROVE  ChanType' /\ LogType' /\ Logged' /\ LogOnce'
<1> DEFINE e == m.event
<1>b. LogType /\ LogOnce /\ Logged /\ SrvType /\ ChanType
  BY TypeParts DEF HistoryInv
<1>1. /\ log \in Seq(Event) /\ Len(log) \in Nat /\ DOMAIN log = 1 .. Len(log)
      /\ \A i, j \in DOMAIN log : log[i] = log[j] => i = j
  BY <1>b DEF LogType, LogOnce
<1>c. \A i \in DOMAIN log : log[i].n <= srv.events
  BY <1>b DEF Logged
<1>a. \A i \in DOMAIN log : log[i].n \in Nat
  <2>1. \A i \in DOMAIN log : log[i] \in Event
    BY <1>1
  <2>2. \A x \in Event : x.n \in Nat
    BY PageHistoryAssumption DEF Event
  <2> QED
    BY <2>1, <2>2
<1>2. srv.events < MaxEvents /\ log' = Append(log, e) /\ Send(<<m>>)
  BY DEF Happens
<1>3. e \in Event /\ e.n = srv.events + 1 /\ srv.events \in Nat
  BY <1>b, <1>2, EventType
<1> HIDE DEF e
<1>4. /\ log' \in Seq(Event)
      /\ DOMAIN log' = 1 .. Len(log) + 1
      /\ \A i \in 1 .. Len(log) : log'[i] = log[i]
      /\ log'[Len(log) + 1] = e
  BY <1>1, <1>2, <1>3
<1>5. \A i \in DOMAIN log : log[i] # e
  BY <1>a, <1>c, <1>3
<1>6. LogType' /\ LogOnce'
  BY <1>1, <1>4, <1>5 DEF LogType, LogOnce
<1>7. Logged'
  BY <1>1, <1>a, <1>c, <1>3, <1>4 DEF Logged
<1>8. ChanType'
  BY <1>b, <1>2, SendOneType
<1> QED
  BY <1>6, <1>7, <1>8

\* The steps of the server: what each puts in the log is new there.
LEMMA ServerStep ==
  ASSUME HistoryInv, ServerActs
  PROVE  SrvType' /\ ServerInv' /\ ChanType' /\ LogType' /\ Logged' /\ LogOnce'
<1>0. /\ SrvType /\ ServerInv /\ ChanType /\ LogType /\ Logged /\ LogOnce
      /\ online' = online
  BY TypeParts DEF HistoryInv, ServerActs, StartGame, StartRound, AnnounceLeaders,
                   ChangeLeader, BeginExchange, FinishExchange, ResetGame
<1>a. /\ srv.events \in 0 .. MaxEvents /\ srv.round \in 0 .. MaxRounds
      /\ srv.moving \in 0 .. MaxRounds
      /\ srv.round > 0 => srv.round \in Rounds
      /\ srv.moving > 0 => srv.moving \in Rounds
  BY <1>0, PageHistoryAssumption DEF SrvType, Server, Rounds
<1>b. log' = log /\ srv'.events = srv.events => LogType' /\ Logged' /\ LogOnce'
  BY <1>0 DEF LogType, Logged, LogOnce
<1>1. CASE StartGame
  <2>1. /\ srv' = [srv EXCEPT !.status = "IN_PROGRESS", !.games = srv.games + 1]
        /\ srv.games < MaxGames /\ chan' = chan /\ log' = log
    BY <1>1 DEF StartGame
  <2>2. srv.games + 1 \in 0 .. MaxGames
    BY <1>0, <2>1, PageHistoryAssumption DEF SrvType, Server
  <2>3. SrvType' /\ ServerInv' /\ srv'.events = srv.events
    BY <1>0, <2>1, <2>2 DEF SrvType, Server, ServerInv
  <2> QED
    BY <1>0, <1>b, <2>1, <2>3 DEF ChanType
<1>2. ASSUME NEW r \in Rounds, StartRound(r)
      PROVE  SrvType' /\ ServerInv' /\ ChanType' /\ LogType' /\ Logged' /\ LogOnce'
  <2>1. /\ srv' = [srv EXCEPT !.round = r] /\ srv.status = "IN_PROGRESS"
        /\ Send(<<[type |-> "ROUND_STARTED", round |-> r]>>) /\ log' = log
    BY <1>2 DEF StartRound
  <2>2. r \in 0 .. MaxRounds
    BY PageHistoryAssumption DEF Rounds
  <2>3. SrvType' /\ ServerInv' /\ srv'.events = srv.events
    BY <1>0, <2>1, <2>2 DEF SrvType, Server, ServerInv
  <2>4. ChanType'
    BY <1>0, <2>1, MessageTypes, SendOneType
  <2> QED
    BY <1>b, <2>1, <2>3, <2>4
<1>3. CASE AnnounceLeaders
  <2>1. /\ srv' = srv /\ log' = log /\ srv.round \in Rounds
        /\ Send(<<[type |-> "ROUND_STARTED", round |-> srv.round]>>)
    BY <1>a, <1>3 DEF AnnounceLeaders
  <2>2. ChanType'
    BY <1>0, <2>1, MessageTypes, SendOneType
  <2> QED
    BY <1>0, <1>b, <2>1, <2>2 DEF SrvType, ServerInv
<1>4. CASE ChangeLeader
  <2> DEFINE m == [type |-> "LEADERSHIP_CHANGED", event |-> NewEvent("LEADER", srv.round)]
  <2>1. /\ srv' = [srv EXCEPT !.events = srv.events + 1]
        /\ srv.round \in Rounds /\ Happens(m) /\ srv.events < MaxEvents
    BY <1>a, <1>4 DEF ChangeLeader, Happens
  <2>2. NewEvent("LEADER", srv.round) \in Event /\ srv.events + 1 \in 0 .. MaxEvents
    BY <1>0, <2>1, EventType
  <2>3. m \in Message /\ m.event = NewEvent("LEADER", srv.round)
    BY <2>2, MessageTypes
  <2> HIDE DEF m
  <2>4. SrvType' /\ ServerInv' /\ srv'.events = srv.events + 1
    BY <1>0, <2>1, <2>2 DEF SrvType, Server, ServerInv
  <2> QED
    BY <1>0, <2>1, <2>3, <2>4, HappensOnce
<1>5. CASE BeginExchange
  <2>1. /\ srv' = [srv EXCEPT !.moving = srv.round] /\ chan' = chan /\ log' = log
    BY <1>5 DEF BeginExchange
  <2>2. SrvType' /\ ServerInv' /\ srv'.events = srv.events
    BY <1>0, <1>a, <2>1 DEF SrvType, Server, ServerInv
  <2> QED
    BY <1>0, <1>b, <2>1, <2>2 DEF ChanType
<1>6. CASE FinishExchange
  <2> DEFINE m == [type |-> "EXCHANGE_COMPLETE", event |-> NewEvent("EXCHANGE", srv.moving)]
  <2>1. /\ srv' = [srv EXCEPT !.moving = 0, !.events = srv.events + 1]
        /\ srv.moving \in Rounds /\ Happens(m) /\ srv.events < MaxEvents
    BY <1>a, <1>6 DEF FinishExchange, Happens
  <2>2. NewEvent("EXCHANGE", srv.moving) \in Event /\ srv.events + 1 \in 0 .. MaxEvents
    BY <1>0, <2>1, EventType
  <2>3. m \in Message /\ m.event = NewEvent("EXCHANGE", srv.moving)
    BY <2>2, MessageTypes
  <2> HIDE DEF m
  <2>4. 0 \in 0 .. MaxRounds
    BY PageHistoryAssumption
  <2>5. SrvType' /\ ServerInv' /\ srv'.events = srv.events + 1
    BY <1>0, <2>1, <2>2, <2>4 DEF SrvType, Server, ServerInv
  <2> QED
    BY <1>0, <2>1, <2>3, <2>5, HappensOnce
<1>7. CASE ResetGame
  <2>1. /\ srv' = [srv EXCEPT !.status = "WAITING", !.round = 0]
        /\ Send(<<[type |-> "GAME_RESET"]>>) /\ log' = <<>>
    BY <1>7 DEF ResetGame
  <2>2. 0 \in 0 .. MaxRounds
    BY PageHistoryAssumption
  <2>3. SrvType' /\ ServerInv'
    BY <1>0, <2>1, <2>2 DEF SrvType, Server, ServerInv
  <2>4. ChanType'
    BY <1>0, <2>1, MessageTypes, SendOneType
  <2>5. LogType' /\ Logged' /\ LogOnce'
    BY <2>1 DEF LogType, Logged, LogOnce
  <2> QED
    BY <2>3, <2>4, <2>5
<1> QED
  BY <1>1, <1>2, <1>3, <1>4, <1>5, <1>6, <1>7 DEF ServerActs

\* A step that leaves the server's game and the log alone.
LEMMA ServerAlone ==
  ASSUME HistoryInv, UNCHANGED <<srv, log>>
  PROVE  SrvType' /\ ServerInv' /\ LogType' /\ Logged' /\ LogOnce'
<1>1. SrvType /\ ServerInv /\ LogType /\ Logged /\ LogOnce
  BY TypeParts DEF HistoryInv
<1> QED
  BY <1>1 DEF SrvType, ServerInv, LogType, Logged, LogOnce

\* The steps of the page, and the faults.
LEMMA PageStep ==
  ASSUME HistoryInv,
         \/ Enter \/ Connect \/ GetCurrentRound \/ LoadRound \/ Receive
         \/ AnimationComplete \/ Overwrite \/ ReceiveTwice \/ Disconnect \/ Reload
  PROVE  ChanType' /\ PageType' /\ RestType' /\ Once(page'.history) /\ Once(saved')
<1>0. /\ SrvType /\ ChanType /\ PageType /\ RestType
      /\ Once(page.history) /\ Once(saved)
  BY TypeParts DEF HistoryInv
<1>a. Fault => faults' \in 0 .. MaxFaults
  BY <1>0, PageHistoryAssumption DEF Fault, RestType
<1>b. UNCHANGED page => PageType' /\ Once(page'.history)
  BY <1>0 DEF PageType
<1>c. UNCHANGED <<chan, online>> => ChanType'
  BY <1>0 DEF ChanType
<1>d. chan # <<>> =>
        /\ Head(chan) \in Message /\ Tail(chan) \in Seq(Message)
        /\ Len(Tail(chan)) <= MaxQueue /\ online
  BY <1>0, PageHistoryAssumption DEF ChanType
<1>e. 0 \in 0 .. MaxRounds
  BY PageHistoryAssumption
<1>1. CASE Enter
  BY <1>0, <1>1, <1>b, <1>c DEF Enter, RestType, Places
<1>2. CASE Connect
  <2>1. ChanType'
    BY <1>0, <1>2 DEF Connect, ChanType
  <2> QED
    BY <1>0, <1>2, <1>b, <2>1 DEF Connect, RestType
<1>3. CASE GetCurrentRound
  <2>1. srv.round \in 0 .. MaxRounds
    BY <1>0 DEF SrvType, Server
  <2>2. answer' \in 0 .. MaxRounds /\ at' \in Places
    BY <1>0, <1>3, <2>1 DEF GetCurrentRound, RestType, Places
  <2> QED
    BY <1>0, <1>3, <1>b, <1>c, <2>2 DEF GetCurrentRound, RestType
<1>4. CASE LoadRound
  <2> DEFINE r == IF answer = 0 THEN page.round ELSE answer
             h == IF saved = <<>> THEN page.history ELSE saved
  <2>1. page' = [page EXCEPT !.round = r, !.history = h]
    BY <1>4 DEF LoadRound
  <2>2. /\ r \in 0 .. MaxRounds
        /\ h \in Seq(Entry) /\ Once(h)
    BY <1>0 DEF PageType, Page, RestType
  <2> HIDE DEF r, h
  <2>3. PageType' /\ page'.history = h
    BY <1>0, <2>1, <2>2 DEF PageType, Page
  <2> QED
    BY <1>0, <1>4, <1>c, <1>e, <2>2, <2>3 DEF LoadRound, RestType, Places
<1>5. CASE Receive
  <2>1. Handle(Head(chan)) /\ chan # <<>> /\ Head(chan) \in Message
    BY <1>5, <1>d DEF Receive
  <2>2. /\ PageType' /\ Once(page'.history)
        /\ saved' \in Seq(Entry) /\ Once(saved')
    BY <2>1, HandleKeeps
  <2>3. ChanType'
    BY <1>0, <1>5, <1>d DEF Receive, ChanType
  <2> QED
    BY <1>0, <1>5, <2>2, <2>3 DEF Receive, RestType
<1>6. CASE AnimationComplete
  <2>1. PageType' /\ page'.history = page.history
    BY <1>0, <1>6 DEF AnimationComplete, PageType, Page
  <2> QED
    BY <1>0, <1>6, <1>c, <2>1 DEF AnimationComplete, RestType
<1>7. CASE Overwrite
  <2>1. chan # <<>>
    BY <1>0, <1>7 DEF Overwrite, ChanType
  <2>2. ChanType'
    BY <1>0, <1>7, <1>d, <2>1 DEF Overwrite, ChanType
  <2> QED
    BY <1>0, <1>7, <1>a, <1>b, <2>2 DEF Overwrite, RestType
<1>8. CASE ReceiveTwice
  <2>1. PICK k \in 2 .. Len(chan) : chan' = Tail(InsertAt(chan, k + 1, Head(chan)))
    BY <1>8 DEF ReceiveTwice
  <2>2. chan' \in Seq(Message) /\ Len(chan') = Len(chan) /\ chan # <<>>
    BY <1>0, <2>1, Behind DEF ChanType
  <2>3. ChanType'
    BY <1>0, <1>8, <1>d, <2>2 DEF ReceiveTwice, ChanType
  <2>4. Handle(Head(chan)) /\ Head(chan) \in Message
    BY <1>8, <1>d, <2>2 DEF ReceiveTwice
  <2>5. /\ PageType' /\ Once(page'.history)
        /\ saved' \in Seq(Entry) /\ Once(saved')
    BY <2>4, HandleKeeps
  <2> QED
    BY <1>0, <1>8, <1>a, <2>3, <2>5 DEF ReceiveTwice, RestType
<1>9. CASE Disconnect
  <2>1. ChanType'
    BY <1>9, EmptyQueue DEF Disconnect, ChanType
  <2> QED
    BY <1>0, <1>9, <1>a, <1>b, <2>1 DEF Disconnect, RestType
<1>10. CASE Reload
  <2>1. ChanType'
    BY <1>10, EmptyQueue DEF Reload, ChanType
  <2>2. FreshPage \in Page /\ FreshPage.history = <<>>
    BY PageHistoryAssumption DEF FreshPage, Page
  <2>3. PageType' /\ Once(page'.history)
    BY <1>10, <2>2 DEF Reload, PageType, Once
  <2> QED
    BY <1>0, <1>10, <1>a, <1>e, <2>1, <2>3 DEF Reload, RestType, Places
<1> QED
  BY <1>1, <1>2, <1>3, <1>4, <1>5, <1>6, <1>7, <1>8, <1>9, <1>10

LEMMA HistoryStep == HistoryInv /\ [Next]_vars => HistoryInv'
<1> SUFFICES ASSUME HistoryInv, [Next]_vars PROVE HistoryInv'
  OBVIOUS
<1>0. /\ TypeOK /\ ServerInv /\ Logged /\ LogOnce /\ RestType /\ PageType
      /\ Once(page.history) /\ Once(saved)
  BY TypeParts DEF HistoryInv
<1> SUFFICES /\ SrvType' /\ ChanType' /\ PageType' /\ RestType' /\ LogType'
             /\ ServerInv' /\ Logged' /\ LogOnce'
             /\ Once(page'.history) /\ Once(saved')
  BY TypeParts DEF HistoryInv, TypeOK, SrvType, ChanType, PageType, RestType, LogType
<1>1. CASE ServerActs
  <2>1. UNCHANGED <<page, saved, at, answer, faults>>
    BY <1>1 DEF ServerActs, StartGame, StartRound, AnnounceLeaders, ChangeLeader,
                BeginExchange, FinishExchange, ResetGame
  <2>2. missed' \in BOOLEAN
    BY <1>0, <1>1 DEF ServerActs, StartGame, StartRound, AnnounceLeaders, ChangeLeader,
                      BeginExchange, FinishExchange, ResetGame, Happens, Send, RestType
  <2>3. PageType' /\ RestType'
    BY <1>0, <2>1, <2>2 DEF PageType, RestType
  <2> QED
    BY <1>0, <1>1, <2>1, <2>3, ServerStep
<1>2. CASE \/ Enter \/ Connect \/ GetCurrentRound \/ LoadRound \/ Receive
           \/ AnimationComplete \/ Overwrite \/ ReceiveTwice \/ Disconnect \/ Reload
  <2>1. UNCHANGED <<srv, log>>
    BY <1>2 DEF Enter, Connect, GetCurrentRound, LoadRound, Receive,
                AnimationComplete, Overwrite, ReceiveTwice, Disconnect, Reload
  <2> QED
    BY <1>2, <2>1, PageStep, ServerAlone
<1>3. CASE UNCHANGED vars
  <2>1. UNCHANGED <<srv, chan, online, at, answer, page, saved, log, missed, faults>>
    BY <1>3 DEF vars
  <2>2. ChanType' /\ PageType' /\ RestType'
    BY <2>1, TypeParts DEF HistoryInv, ChanType, PageType, RestType
  <2> QED
    BY <1>0, <2>1, <2>2, ServerAlone
<1> QED
  BY <1>1, <1>2, <1>3 DEF Next, ServerActs

\* The page, the messages on their way to it and its localStorage hold what
\* they are made for, whatever is lost, repeated or loaded again.
THEOREM PageHistoryTypeCorrect == Spec => []TypeOK
<1>1. HistoryInv => TypeOK
  BY DEF HistoryInv
<1> QED
  BY <1>1, HistoryInit, HistoryStep, PTL DEF Spec

\* An event stands in the history once, however often it is delivered, and
\* with a history restored from localStorage (RoomPage.tsx:589-607 and 725-738
\* look for it).
THEOREM HistoryOnceHolds == Spec => []HistoryOnce
<1>1. HistoryInv => HistoryOnce
  BY DEF HistoryInv, Once, HistoryOnce
<1> QED
  BY <1>1, HistoryInit, HistoryStep, PTL DEF Spec

-----------------------------------------------------------------------------
(* A page that missed nothing: rounds.                                     *)

Undisturbed == faults = 0 /\ ~missed

IsEvent(m) == m.type \in {"LEADERSHIP_CHANGED", "EXCHANGE_COMPLETE"}

\* The round of a page in round pr once m was handled.
RoundAfter(pr, m) ==
  IF m.type = "GAME_RESET" THEN 0
  ELSE IF m.type = "ROUND_STARTED" THEN m.round
  ELSE pr

\* What a page in round pr files under its own round belongs there.
Fits(pr, m) == m.type = "LEADERSHIP_CHANGED" => m.event.round = pr

\* The rounds f a page in round pr goes through as it handles the queue c.
Leads(f, pr, c) ==
  /\ f \in [0 .. Len(c) -> 0 .. MaxRounds]
  /\ f[0] = pr
  /\ \A k \in 1 .. Len(c) : f[k] = RoundAfter(f[k - 1], c[k]) /\ Fits(f[k - 1], c[k])

\* Each change of leader in the queue meets the page in its own round, and all
\* of the queue leads the page to round r.
InRounds(pr, c, r) == \E f : Leads(f, pr, c) /\ f[Len(c)] = r

\* The entries of a history stand under the rounds of their events.
UnderTheirRounds(h) == \A i \in DOMAIN h : h[i].round = h[i].event.round

LEMMA RoundAfterType ==
  ASSUME NEW pr \in 0 .. MaxRounds, NEW m \in Message
  PROVE  RoundAfter(pr, m) \in 0 .. MaxRounds
BY MessageKinds, PageHistoryAssumption DEF RoundAfter, Rounds

LEMMA AppendInRounds ==
  ASSUME NEW pr, NEW c \in Seq(Message), NEW r, InRounds(pr, c, r),
         NEW m \in Message, Fits(r, m)
  PROVE  InRounds(pr, Append(c, m), RoundAfter(r, m))
<1> DEFINE d == Append(c, m)
           q == RoundAfter(r, m)
<1>1. /\ Len(c) \in Nat /\ Len(d) = Len(c) + 1 /\ d[Len(c) + 1] = m
      /\ \A k \in 1 .. Len(c) : d[k] = c[k]
  OBVIOUS
<1>2. PICK f : Leads(f, pr, c) /\ f[Len(c)] = r
  BY DEF InRounds
<1>3. q \in 0 .. MaxRounds
  <2>1. r \in 0 .. MaxRounds
    BY <1>1, <1>2 DEF Leads
  <2> QED
    BY <2>1, RoundAfterType
<1> HIDE DEF d, q
<1> DEFINE g == [k \in 0 .. Len(d) |-> IF k = Len(d) THEN q ELSE f[k]]
<1>4. /\ g[Len(d)] = q
      /\ \A k \in 0 .. Len(c) : g[k] = f[k]
  BY <1>1
<1>5. g \in [0 .. Len(d) -> 0 .. MaxRounds]
  BY <1>1, <1>2, <1>3 DEF Leads
<1> HIDE DEF g
<1>6. ASSUME NEW k \in 1 .. Len(d)
      PROVE  g[k] = RoundAfter(g[k - 1], d[k]) /\ Fits(g[k - 1], d[k])
  <2>1. CASE k \in 1 .. Len(c)
    <3>1. k \in 0 .. Len(c) /\ k - 1 \in 0 .. Len(c)
      BY <1>1, <2>1
    <3> QED
      BY <1>1, <1>2, <1>4, <2>1, <3>1 DEF Leads
  <2>2. CASE k = Len(c) + 1
    <3>1. k - 1 = Len(c) /\ Len(c) \in 0 .. Len(c) /\ k = Len(d)
      BY <1>1, <2>2
    <3> QED
      BY <1>1, <1>2, <1>4, <2>2, <3>1 DEF q
  <2> QED
    BY <1>1, <2>1, <2>2
<1>7. Leads(g, pr, d)
  <2>1. g[0] = f[0]
    BY <1>1, <1>4
  <2> QED
    BY <1>2, <1>5, <1>6, <2>1 DEF Leads
<1>8. InRounds(pr, d, q)
  BY <1>4, <1>7 DEF InRounds
<1> QED
  BY <1>8 DEF d, q

LEMMA TailInRounds ==
  ASSUME NEW pr, NEW c \in Seq(Message), NEW r, InRounds(pr, c, r), c # <<>>
  PROVE  InRounds(RoundAfter(pr, Head(c)), Tail(c), r) /\ Fits(pr, Head(c))
<1> DEFINE d == Tail(c)
<1>1. /\ Len(c) \in Nat /\ Len(c) > 0 /\ Len(d) = Len(c) - 1
      /\ \A k \in 1 .. Len(d) : d[k] = c[k + 1]
      /\ Head(c) = c[1]
  OBVIOUS
<1> HIDE DEF d
<1>2. PICK f : Leads(f, pr, c) /\ f[Len(c)] = r
  BY DEF InRounds
<1>3. f[1] = RoundAfter(pr, Head(c)) /\ Fits(pr, Head(c))
  <2>1. 1 \in 1 .. Len(c) /\ 1 - 1 = 0
    BY <1>1
  <2> QED
    BY <1>1, <1>2, <2>1 DEF Leads
<1> DEFINE g == [k \in 0 .. Len(d) |-> f[k + 1]]
<1>4. /\ g \in [0 .. Len(d) -> 0 .. MaxRounds]
      /\ \A k \in 0 .. Len(d) : g[k] = f[k + 1]
  BY <1>1, <1>2 DEF Leads
<1> HIDE DEF g
<1>5. g[0] = f[1] /\ g[Len(d)] = r
  BY <1>1, <1>2, <1>4
<1>6. ASSUME NEW k \in 1 .. Len(d)
      PROVE  g[k] = RoundAfter(g[k - 1], d[k]) /\ Fits(g[k - 1], d[k])
  <2>1. /\ k + 1 \in 1 .. Len(c) /\ (k + 1) - 1 = k
        /\ k \in 0 .. Len(d) /\ k - 1 \in 0 .. Len(d) /\ (k - 1) + 1 = k
    BY <1>1
  <2>2. g[k] = f[k + 1] /\ g[k - 1] = f[k] /\ d[k] = c[k + 1]
    BY <1>1, <1>4, <2>1
  <2>3. f[k + 1] = RoundAfter(f[k], c[k + 1]) /\ Fits(f[k], c[k + 1])
    BY <1>2, <2>1 DEF Leads
  <2> QED
    BY <2>2, <2>3
<1>7. Leads(g, f[1], d)
  BY <1>4, <1>5, <1>6 DEF Leads
<1>8. InRounds(f[1], d, r)
  BY <1>5, <1>7 DEF InRounds
<1> QED
  BY <1>3, <1>8 DEF d

\* What the handling of m does to the history.
LEMMA HandledHistory ==
  ASSUME NEW p \in Page, NEW m \in Message
  PROVE  /\ m.type = "GAME_RESET" => Handled(p, m).history = <<>>
         /\ m.type = "ROUND_STARTED" => Handled(p, m).history = p.history
         /\ IsEvent(m) =>
              Handled(p, m).history =
                IF \E entry \in ToSet(p.history) : entry.event = m.event THEN p.history
                ELSE Append(p.history,
                            [event |-> m.event,
                             round |-> IF m.type = "LEADERSHIP_CHANGED" THEN p.round
                                       ELSE m.event.round])
<1>1. CASE m.type = "GAME_RESET"
  BY <1>1 DEF Handled, OnReset, IsEvent, Page
<1>2. CASE m.type = "ROUND_STARTED"
  BY <1>2 DEF Handled, IsEvent, Page
<1>3. CASE m.type = "LEADERSHIP_CHANGED"
  <2>1. Handled(p, m) = AddEvent(p, m.event, p.round)
    BY <1>3 DEF Handled, OnLeader
  <2>2. AddEvent(p, m.event, p.round).history =
          IF \E entry \in ToSet(p.history) : entry.event = m.event THEN p.history
          ELSE Append(p.history, [event |-> m.event, round |-> p.round])
    BY DEF AddEvent, Page
  <2> QED
    BY <1>3, <2>1, <2>2 DEF IsEvent
<1>4. CASE m.type = "EXCHANGE_COMPLETE"
  <2> DEFINE e == m.event
             q == IF e.round \in p.shown \/ Cardinality(p.shown) >= MaxShown THEN p
                  ELSE [p EXCEPT !.shown = @ \cup {e.round}, !.animating = TRUE]
  <2>1. Handled(p, m) = AddEvent(q, m.event, m.event.round)
    BY <1>4 DEF Handled, OnExchange
  <2>2. q.history = p.history /\ q = [q EXCEPT !.history = q.history]
    BY DEF Page
  <2>3. DOMAIN q = DOMAIN p /\ "history" \in DOMAIN q
    BY DEF Page
  <2> HIDE DEF q
  <2>4. AddEvent(q, m.event, m.event.round).history =
          IF \E entry \in ToSet(q.history) : entry.event = m.event THEN q.history
          ELSE Append(q.history, [event |-> m.event, round |-> m.event.round])
    BY <2>3 DEF AddEvent
  <2> QED
    BY <1>4, <2>1, <2>2, <2>4 DEF IsEvent
<1> QED
  BY <1>1, <1>2, <1>3, <1>4, MessageKinds DEF IsEvent

\* A message that meets the page in the round it belongs to leaves the entries
\* under the rounds of their events.
LEMMA HandledInRound ==
  ASSUME NEW p \in Page, NEW m \in Message, Once(p.history),
         UnderTheirRounds(p.history), Fits(p.round, m)
  PROVE  /\ Handled(p, m).round = RoundAfter(p.round, m)
         /\ UnderTheirRounds(Handled(p, m).history)
<1>1. Handled(p, m).round = RoundAfter(p.round, m)
  BY HandledKeeps DEF RoundAfter
<1>2. CASE m.type = "GAME_RESET" \/ m.type = "ROUND_STARTED"
  <2>1. Handled(p, m).history \in {<<>>, p.history}
    BY <1>2, HandledHistory
  <2>2. UnderTheirRounds(<<>>)
    BY DEF UnderTheirRounds
  <2> QED
    BY <1>1, <2>1, <2>2
<1>3. CASE IsEvent(m)
  <2> DEFINE x == [event |-> m.event,
                   round |-> IF m.type = "LEADERSHIP_CHANGED" THEN p.round
                             ELSE m.event.round]
  <2>1. Handled(p, m).history \in {p.history, Append(p.history, x)}
    BY <1>3, HandledHistory
  <2>2. x.round = x.event.round
    BY <1>3 DEF Fits
  <2> HIDE DEF x
  <2>3. UnderTheirRounds(Append(p.history, x))
    <3>1. p.history \in Seq(Entry)
      BY DEF Page
    <3> QED
      BY <2>2, <3>1 DEF UnderTheirRounds
  <2> QED
    BY <1>1, <2>1, <2>3
<1> QED
  BY <1>1, <1>2, <1>3, MessageKinds DEF IsEvent

-----------------------------------------------------------------------------
(* A page that missed nothing: the log.                                    *)

\* The k-th message of the queue c is an event still to be shown: no reset
\* comes after it.
Current(c, k) == IsEvent(c[k]) /\ \A j \in k .. Len(c) : c[j].type # "GAME_RESET"

\* How many entries of the history h outlast the queue c.
Kept(h, c) ==
  IF \A k \in 1 .. Len(c) : c[k].type # "GAME_RESET" THEN Len(h) ELSE 0

\* The log g is what is kept of the history, and then the current events of
\* the queue in its order.
Told(h, c, g) ==
  /\ Kept(h, c) <= Len(g)
  /\ \A i \in 1 .. Kept(h, c) : g[i] = h[i].event
  /\ \A i \in Kept(h, c) + 1 .. Len(g) :
       \E k \in 1 .. Len(c) : Current(c, k) /\ c[k].event = g[i]
  /\ \A k \in 1 .. Len(c) : Current(c, k) =>
       \E i \in Kept(h, c) + 1 .. Len(g) : g[i] = c[k].event
  /\ \A k, l \in 1 .. Len(c) : \A i, j \in 1 .. Len(g) :
       Current(c, k) /\ Current(c, l) /\ k < l
         /\ g[i] = c[k].event /\ g[j] = c[l].event => i < j

\* A queue that grows by a message that is no reset keeps what was current.
LEMMA AppendCurrent ==
  ASSUME NEW c \in Seq(Message), NEW m \in Message, m.type # "GAME_RESET"
  PROVE  /\ Append(c, m) \in Seq(Message)
         /\ Len(Append(c, m)) = Len(c) + 1 /\ Append(c, m)[Len(c) + 1] = m
         /\ \A k \in 1 .. Len(c) : /\ Append(c, m)[k] = c[k]
                                  /\ Current(Append(c, m), k) <=> Current(c, k)
         /\ Current(Append(c, m), Len(c) + 1) <=> IsEvent(m)
         /\ \A h : Kept(h, Append(c, m)) = Kept(h, c)
<1> DEFINE d == Append(c, m)
<1>1. /\ Len(c) \in Nat /\ Len(d) = Len(c) + 1 /\ d[Len(c) + 1] = m
      /\ d \in Seq(Message)
      /\ \A k \in 1 .. Len(c) : d[k] = c[k]
  OBVIOUS
<1> HIDE DEF d
<1>2. \A k \in 1 .. Len(c) : Current(d, k) <=> Current(c, k)
  BY <1>1 DEF Current
<1>3. Current(d, Len(c) + 1) <=> IsEvent(m)
  BY <1>1 DEF Current
<1>4. \A h : Kept(h, d) = Kept(h, c)
  BY <1>1 DEF Kept
<1> QED
  BY <1>1, <1>2, <1>3, <1>4 DEF d

\* A round begins: the log does not change.
LEMMA RoundTold ==
  ASSUME NEW h, NEW c \in Seq(Message), NEW g \in Seq(Event), Told(h, c, g),
         NEW m \in Message, m.type = "ROUND_STARTED"
  PROVE  Told(h, Append(c, m), g)
<1> DEFINE d == Append(c, m)
<1>1. /\ Len(c) \in Nat /\ Len(d) = Len(c) + 1
      /\ \A k \in 1 .. Len(c) : d[k] = c[k] /\ (Current(d, k) <=> Current(c, k))
      /\ ~Current(d, Len(c) + 1)
      /\ Kept(h, d) = Kept(h, c)
  BY AppendCurrent DEF IsEvent
<1> HIDE DEF d
<1>2. \A k \in 1 .. Len(d) : Current(d, k) => k \in 1 .. Len(c) /\ Current(c, k)
  BY <1>1
<1>3. \A k \in 1 .. Len(c) : k \in 1 .. Len(d)
  BY <1>1
<1> DEFINE n == Kept(h, c)
<1>4. n <= Len(g) /\ \A i \in 1 .. n : g[i] = h[i].event
  BY DEF Told
<1>5. \A i \in n + 1 .. Len(g) : \E k \in 1 .. Len(d) : Current(d, k) /\ d[k].event = g[i]
  <2>1. \A i \in n + 1 .. Len(g) : \E k \in 1 .. Len(c) : Current(c, k) /\ c[k].event = g[i]
    BY DEF Told
  <2> HIDE DEF n
  <2> QED
    BY <1>1, <1>3, <2>1
<1>6. \A k \in 1 .. Len(d) : Current(d, k) =>
        \E i \in n + 1 .. Len(g) : g[i] = d[k].event
  <2>1. \A k \in 1 .. Len(c) : Current(c, k) =>
          \E i \in n + 1 .. Len(g) : g[i] = c[k].event
    BY DEF Told
  <2> HIDE DEF n
  <2> QED
    BY <1>1, <1>2, <2>1
<1>7. \A k, l \in 1 .. Len(d) : \A i, j \in 1 .. Len(g) :
        Current(d, k) /\ Current(d, l) /\ k < l
          /\ g[i] = d[k].event /\ g[j] = d[l].event => i < j
  BY <1>1, <1>2 DEF Told
<1>8. Told(h, d, g)
  BY <1>1, <1>4, <1>5, <1>6, <1>7 DEF Told
<1> QED
  BY <1>8 DEF d

\* An event happens and is sent.
LEMMA EventTold ==
  ASSUME NEW h \in Seq(Entry), NEW c \in Seq(Message), NEW g \in Seq(Event),
         Told(h, c, g), NEW m \in Message, IsEvent(m),
         \A i, j \in DOMAIN Append(g, m.event) :
           Append(g, m.event)[i] = Append(g, m.event)[j] => i = j
  PROVE  Told(h, Append(c, m), Append(g, m.event))
<1> DEFINE d == Append(c, m)
           f == Append(g, m.event)
           n == Kept(h, c)
<1>1. /\ Len(c) \in Nat /\ Len(d) = Len(c) + 1 /\ d[Len(c) + 1] = m
      /\ \A k \in 1 .. Len(c) : d[k] = c[k] /\ (Current(d, k) <=> Current(c, k))
      /\ Current(d, Len(c) + 1)
      /\ Kept(h, d) = n
  BY AppendCurrent DEF IsEvent
<1>2. /\ Len(g) \in Nat /\ Len(f) = Len(g) + 1 /\ f[Len(g) + 1] = m.event
      /\ \A i \in 1 .. Len(g) : f[i] = g[i]
      /\ DOMAIN f = 1 .. Len(g) + 1
  OBVIOUS
<1>3. n \in Nat
  BY DEF Kept
<1>4. \A i, j \in 1 .. Len(g) + 1 : f[i] = f[j] => i = j
  BY <1>2
<1> HIDE DEF d, f, n
<1>5. n <= Len(f) /\ \A i \in 1 .. n : f[i] = h[i].event
  BY <1>2, <1>3 DEF Told, n
<1>6. ASSUME NEW i \in n + 1 .. Len(f)
      PROVE  \E k \in 1 .. Len(d) : Current(d, k) /\ d[k].event = f[i]
  <2>1. CASE i = Len(g) + 1
    <3>1. Len(c) + 1 \in 1 .. Len(d)
      BY <1>1
    <3> QED
      BY <1>1, <1>2, <2>1, <3>1
  <2>2. CASE i # Len(g) + 1
    <3>1. i \in n + 1 .. Len(g) /\ i \in 1 .. Len(g)
      BY <1>2, <1>3, <2>2
    <3>2. PICK k \in 1 .. Len(c) : Current(c, k) /\ c[k].event = g[i]
      BY <3>1 DEF Told, n
    <3>3. k \in 1 .. Len(d)
      BY <1>1
    <3> QED
      BY <1>1, <1>2, <3>1, <3>2, <3>3
  <2> QED
    BY <2>1, <2>2
<1>7. ASSUME NEW k \in 1 .. Len(d), Current(d, k)
      PROVE  \E i \in n + 1 .. Len(f) : f[i] = d[k].event
  <2>1. CASE k = Len(c) + 1
    <3>1. Len(g) + 1 \in n + 1 .. Len(f)
      BY <1>2, <1>3 DEF Told, n
    <3> QED
      BY <1>1, <1>2, <2>1, <3>1
  <2>2. CASE k # Len(c) + 1
    <3>1. k \in 1 .. Len(c) /\ Current(c, k)
      BY <1>1, <1>7, <2>2
    <3>2. PICK i \in n + 1 .. Len(g) : g[i] = c[k].event
      BY <3>1 DEF Told, n
    <3>3. i \in n + 1 .. Len(f) /\ i \in 1 .. Len(g)
      BY <1>2, <1>3
    <3> QED
      BY <1>1, <1>2, <3>1, <3>2, <3>3
  <2> QED
    BY <2>1, <2>2
<1>8. ASSUME NEW k \in 1 .. Len(d), NEW l \in 1 .. Len(d),
             NEW i \in 1 .. Len(f), NEW j \in 1 .. Len(f),
             Current(d, k), Current(d, l), k < l,
             f[i] = d[k].event, f[j] = d[l].event
      PROVE  i < j
  <2>1. k \in 1 .. Len(c) /\ Current(c, k) /\ d[k] = c[k]
    BY <1>1, <1>8
  <2>2. PICK a \in n + 1 .. Len(g) : g[a] = c[k].event
    BY <2>1 DEF Told, n
  <2>3. a \in 1 .. Len(g) /\ i = a
    BY <1>2, <1>3, <1>4, <1>8, <2>1, <2>2
  <2>4. CASE l = Len(c) + 1
    <3>1. j = Len(g) + 1
      BY <1>1, <1>2, <1>4, <1>8, <2>4
    <3> QED
      BY <1>2, <2>3, <3>1
  <2>5. CASE l # Len(c) + 1
    <3>1. l \in 1 .. Len(c) /\ Current(c, l) /\ d[l] = c[l]
      BY <1>1, <1>8, <2>5
    <3>2. PICK b \in n + 1 .. Len(g) : g[b] = c[l].event
      BY <3>1 DEF Told, n
    <3>3. b \in 1 .. Len(g) /\ j = b
      BY <1>2, <1>3, <1>4, <1>8, <3>1, <3>2
    <3> QED
      BY <1>8, <2>1, <2>2, <2>3, <3>1, <3>2, <3>3 DEF Told
  <2> QED
    BY <2>4, <2>5
<1>9. Told(h, d, f)
  BY <1>1, <1>5, <1>6, <1>7, <1>8 DEF Told
<1> QED
  BY <1>9 DEF d, f

\* A reset is sent: nothing is current any more, and the log is empty.
LEMMA ResetTold ==
  ASSUME NEW h, NEW c \in Seq(Message), NEW m \in Message, m.type = "GAME_RESET"
  PROVE  Told(h, Append(c, m), <<>>)
<1> DEFINE d == Append(c, m)
<1>1. /\ Len(c) \in Nat /\ Len(d) = Len(c) + 1 /\ d[Len(c) + 1] = m
      /\ Len(c) + 1 \in 1 .. Len(d)
  OBVIOUS
<1> HIDE DEF d
<1>2. Kept(h, d) = 0
  BY <1>1 DEF Kept
<1>3. \A k \in 1 .. Len(d) : ~Current(d, k)
  BY <1>1 DEF Current
<1>4. Len(<<>>) = 0
  OBVIOUS
<1>5. Told(h, d, <<>>)
  BY <1>2, <1>3, <1>4 DEF Told
<1> QED
  BY <1>5 DEF d

\* A queue without its head: what is current in it, and what is kept.
LEMMA TailCurrent ==
  ASSUME NEW c \in Seq(Message), c # <<>>
  PROVE  /\ Tail(c) \in Seq(Message) /\ Len(Tail(c)) = Len(c) - 1
         /\ Len(c) \in Nat /\ Len(c) > 0 /\ Head(c) = c[1] /\ Head(c) \in Message
         /\ \A k \in 1 .. Len(Tail(c)) :
              /\ k + 1 \in 1 .. Len(c) /\ Tail(c)[k] = c[k + 1]
              /\ Current(Tail(c), k) <=> Current(c, k + 1)
         /\ Current(c, 1) => \A k \in 1 .. Len(c) : c[k].type # "GAME_RESET"
         /\ IsEvent(Head(c)) /\ ~Current(c, 1) =>
              \A h, h2 : Kept(h, c) = 0 /\ Kept(h2, Tail(c)) = 0
         /\ Head(c).type = "ROUND_STARTED" =>
              \A h : Kept(h, Tail(c)) = Kept(h, c)
         /\ Head(c).type = "GAME_RESET" => \A h : Kept(h, c) = 0
<1> DEFINE d == Tail(c)
<1>1. /\ Len(c) \in Nat /\ Len(c) > 0 /\ Len(d) = Len(c) - 1 /\ d \in Seq(Message)
      /\ \A k \in 1 .. Len(d) : k + 1 \in 1 .. Len(c) /\ d[k] = c[k + 1]
      /\ Head(c) = c[1] /\ c[1] \in Message
  OBVIOUS
<1> HIDE DEF d
<1>2. ASSUME NEW k \in 1 .. Len(d) PROVE Current(d, k) <=> Current(c, k + 1)
  <2>1. ASSUME Current(c, k + 1), NEW j \in k .. Len(d) PROVE d[j].type # "GAME_RESET"
    <3>1. j \in 1 .. Len(d) /\ j + 1 \in k + 1 .. Len(c)
      BY <1>1
    <3> QED
      BY <1>1, <2>1, <3>1 DEF Current
  <2>2. ASSUME Current(d, k), NEW j \in k + 1 .. Len(c) PROVE c[j].type # "GAME_RESET"
    <3>1. j - 1 \in k .. Len(d) /\ j - 1 \in 1 .. Len(d) /\ (j - 1) + 1 = j
      BY <1>1
    <3> QED
      BY <1>1, <2>2, <3>1 DEF Current
  <2>3. IsEvent(d[k]) <=> IsEvent(c[k + 1])
    BY <1>1
  <2> QED
    BY <2>1, <2>2, <2>3 DEF Current
<1>3. Current(c, 1) => \A k \in 1 .. Len(c) : c[k].type # "GAME_RESET"
  BY DEF Current
<1>4. (\A k \in 1 .. Len(d) : d[k].type # "GAME_RESET") <=>
      (\A k \in 2 .. Len(c) : c[k].type # "GAME_RESET")
  <2>1. ASSUME NEW k \in 2 .. Len(c)
        PROVE  k - 1 \in 1 .. Len(d) /\ d[k - 1] = c[k]
    <3>1. k - 1 \in 1 .. Len(d) /\ (k - 1) + 1 = k
      BY <1>1
    <3> QED
      BY <1>1, <3>1
  <2>2. \A k \in 1 .. Len(d) : k + 1 \in 2 .. Len(c)
    BY <1>1
  <2> QED
    BY <1>1, <2>1, <2>2
<1>5. 1 \in 1 .. Len(c) /\ \A k \in 1 .. Len(c) : k = 1 \/ k \in 2 .. Len(c)
  BY <1>1
<1>6. IsEvent(c[1]) /\ ~Current(c, 1) => \A h, h2 : Kept(h, c) = 0 /\ Kept(h2, d) = 0
  <2> SUFFICES ASSUME IsEvent(c[1]), ~Current(c, 1)
               PROVE  \A h, h2 : Kept(h, c) = 0 /\ Kept(h2, d) = 0
    OBVIOUS
  <2>1. PICK k \in 1 .. Len(c) : c[k].type = "GAME_RESET"
    BY DEF Current
  <2>2. k \in 2 .. Len(c)
    BY <1>5, <2>1 DEF IsEvent
  <2> QED
    BY <1>4, <2>1, <2>2 DEF Kept
<1>7. c[1].type = "ROUND_STARTED" => \A h : Kept(h, d) = Kept(h, c)
  BY <1>4, <1>5 DEF Kept
<1>8. c[1].type = "GAME_RESET" => \A h : Kept(h, c) = 0
  BY <1>5 DEF Kept
<1> QED
  BY <1>1, <1>2, <1>3, <1>6, <1>7, <1>8 DEF d

\* The head of the queue is no current event, and is handled.
LEMMA OldTold ==
  ASSUME NEW h, NEW h2, NEW c \in Seq(Message), c # <<>>, NEW g \in Seq(Event),
         Told(h, c, g), ~Current(c, 1), Kept(h, c) \in Nat,
         Kept(h2, Tail(c)) = Kept(h, c),
         \A i \in 1 .. Kept(h, c) : h2[i] = h[i]
  PROVE  Told(h2, Tail(c), g)
<1> DEFINE d == Tail(c)
           n == Kept(h, c)
<1>1. /\ Len(c) \in Nat /\ Len(c) > 0 /\ Len(d) = Len(c) - 1
      /\ \A k \in 1 .. Len(d) :
           /\ k + 1 \in 1 .. Len(c) /\ d[k] = c[k + 1]
           /\ Current(d, k) <=> Current(c, k + 1)
  BY TailCurrent
<1>2. n \in Nat /\ Kept(h2, d) = n /\ \A i \in 1 .. n : h2[i] = h[i]
  OBVIOUS
<1>a. n <= Len(g) /\ \A i \in 1 .. n : g[i] = h[i].event
  BY DEF Told
<1>b. \A i \in n + 1 .. Len(g) : \E k \in 1 .. Len(c) : Current(c, k) /\ c[k].event = g[i]
  BY DEF Told
<1>c. \A k \in 1 .. Len(c) : Current(c, k) =>
        \E i \in n + 1 .. Len(g) : g[i] = c[k].event
  BY DEF Told
<1>d. \A k, l \in 1 .. Len(c) : \A i, j \in 1 .. Len(g) :
        Current(c, k) /\ Current(c, l) /\ k < l
          /\ g[i] = c[k].event /\ g[j] = c[l].event => i < j
  BY DEF Told
<1> HIDE DEF d, n
<1>4. \A k \in 1 .. Len(c) : Current(c, k) => k - 1 \in 1 .. Len(d) /\ (k - 1) + 1 = k
  BY <1>1
<1>5. \A i \in n + 1 .. Len(g) : \E k \in 1 .. Len(d) : Current(d, k) /\ d[k].event = g[i]
  <2> TAKE i \in n + 1 .. Len(g)
  <2>1. PICK k \in 1 .. Len(c) : Current(c, k) /\ c[k].event = g[i]
    BY <1>b
  <2>2. /\ k - 1 \in 1 .. Len(d) /\ Current(d, k - 1) /\ d[k - 1] = c[k]
    BY <1>1, <1>4, <2>1
  <2> QED
    BY <2>1, <2>2
<1>6. \A k \in 1 .. Len(d) : Current(d, k) =>
        \E i \in n + 1 .. Len(g) : g[i] = d[k].event
  <2> SUFFICES ASSUME NEW k \in 1 .. Len(d), Current(d, k)
               PROVE  \E i \in n + 1 .. Len(g) : g[i] = d[k].event
    OBVIOUS
  <2>1. k + 1 \in 1 .. Len(c) /\ Current(c, k + 1) /\ d[k] = c[k + 1]
    BY <1>1
  <2> QED
    BY <1>c, <2>1
<1>7. ASSUME NEW k \in 1 .. Len(d), NEW l \in 1 .. Len(d),
             NEW i \in 1 .. Len(g), NEW j \in 1 .. Len(g),
             Current(d, k), Current(d, l), k < l,
             g[i] = d[k].event, g[j] = d[l].event
      PROVE  i < j
  <2>1. /\ k + 1 \in 1 .. Len(c) /\ l + 1 \in 1 .. Len(c) /\ k + 1 < l + 1
        /\ Current(c, k + 1) /\ Current(c, l + 1)
        /\ d[k] = c[k + 1] /\ d[l] = c[l + 1]
    BY <1>1, <1>7
  <2> QED
    <3>1. g[i] = c[k + 1].event /\ g[j] = c[l + 1].event
      BY <1>7, <2>1
    <3> QED
      BY <1>d, <2>1, <3>1
<1>8. Told(h2, d, g)
  BY <1>2, <1>a, <1>5, <1>6, <1>7 DEF Told
<1> QED
  BY <1>8 DEF d

\* The head of the queue is a current event: it is the next one
\* of the log, new to the history, and goes to its end.
LEMMA CurrentTold ==
  ASSUME NEW p \in Page, NEW c \in Seq(Message), c # <<>>, NEW g \in Seq(Event),
         Told(p.history, c, g), \A i, j \in 1 .. Len(g) : g[i] = g[j] => i = j,
         Current(c, 1)
  PROVE  Told(Handled(p, Head(c)).history, Tail(c), g)
<1> DEFINE d == Tail(c)
           m == Head(c)
           h == p.history
           f == Handled(p, m).history
           n == Len(h)
<1>1. /\ Len(c) \in Nat /\ Len(c) > 0 /\ Len(d) = Len(c) - 1
      /\ m = c[1] /\ m \in Message /\ 1 \in 1 .. Len(c)
      /\ \A k \in 1 .. Len(d) :
           /\ k + 1 \in 1 .. Len(c) /\ d[k] = c[k + 1]
           /\ Current(d, k) <=> Current(c, k + 1)
      /\ \A k \in 1 .. Len(c) : c[k].type # "GAME_RESET"
  BY TailCurrent
<1>2. h \in Seq(Entry) /\ n \in Nat /\ DOMAIN h = 1 .. n
  BY DEF Page
<1>3. Kept(h, c) = n
  BY <1>1 DEF Kept
<1>4. Kept(f, d) = Len(f)
  BY <1>1 DEF Kept
<1>5. n <= Len(g) /\ \A i \in 1 .. n : g[i] = h[i].event
  BY <1>3 DEF Told
<1>b. \A i \in n + 1 .. Len(g) : \E k \in 1 .. Len(c) : Current(c, k) /\ c[k].event = g[i]
  BY <1>3 DEF Told
<1>c. \A k \in 1 .. Len(c) : Current(c, k) =>
        \E i \in n + 1 .. Len(g) : g[i] = c[k].event
  BY <1>3 DEF Told
<1>d. \A k, l \in 1 .. Len(c) : \A i, j \in 1 .. Len(g) :
        Current(c, k) /\ Current(c, l) /\ k < l
          /\ g[i] = c[k].event /\ g[j] = c[l].event => i < j
  BY DEF Told
<1>6. IsEvent(m)
  BY <1>1 DEF Current
<1>7. Len(g) \in Nat
  OBVIOUS
<1> HIDE DEF d, h, n
<1>8. n + 1 \in 1 .. Len(g) /\ g[n + 1] = m.event
  <2>1. PICK i \in n + 1 .. Len(g) : g[i] = m.event
    BY <1>1, <1>c
  <2>2. n + 1 \in n + 1 .. Len(g) /\ n + 1 \in 1 .. Len(g) /\ i \in 1 .. Len(g)
    BY <1>2, <1>7
  <2>3. PICK k \in 1 .. Len(c) : Current(c, k) /\ c[k].event = g[n + 1]
    BY <1>b, <2>2
  <2>4. k = 1
    <3>1. CASE k > 1
      <4>1. i < n + 1
        BY <1>1, <1>d, <2>1, <2>2, <2>3, <3>1
      <4> QED
        BY <1>2, <2>1, <4>1
    <3> QED
      BY <3>1
  <2> QED
    BY <1>1, <2>2, <2>3, <2>4
<1>9. ~ \E entry \in ToSet(h) : entry.event = m.event
  <2>1. \A i \in 1 .. n : h[i].event # m.event
    BY <1>2, <1>5, <1>7, <1>8
  <2> QED
    BY <1>2, <2>1 DEF ToSet
<1>10. PICK x \in Entry : x.event = m.event /\ f = Append(h, x)
  <2> DEFINE x == [event |-> m.event,
                   round |-> IF m.type = "LEADERSHIP_CHANGED" THEN p.round
                             ELSE m.event.round]
  <2>1. f = Append(h, x)
    BY <1>1, <1>6, <1>9, HandledHistory DEF h
  <2>2. m.event \in Event /\ m.event.round \in 0 .. MaxRounds
    BY <1>1, <1>6, MessageKinds, PageHistoryAssumption DEF IsEvent, Event, Rounds
  <2>3. p.round \in 0 .. MaxRounds
    BY DEF Page
  <2>4. x \in Entry /\ x.event = m.event
    BY <2>2, <2>3 DEF Entry
  <2> HIDE DEF m, f, x
  <2> QED
    BY <2>1, <2>4
<1> HIDE DEF m, f
<1>11. /\ Len(f) = n + 1 /\ f[n + 1] = x
       /\ \A i \in 1 .. n : f[i] = h[i]
  BY <1>2, <1>10 DEF n
<1>12. Len(f) <= Len(g) /\ \A i \in 1 .. Len(f) : g[i] = f[i].event
  BY <1>2, <1>5, <1>7, <1>8, <1>10, <1>11
<1>13. ASSUME NEW i \in n + 2 .. Len(g)
       PROVE  \E k \in 1 .. Len(d) : Current(d, k) /\ d[k].event = g[i]
  <2>1. i \in n + 1 .. Len(g) /\ i \in 1 .. Len(g) /\ i # n + 1
    BY <1>2, <1>7
  <2>2. PICK k \in 1 .. Len(c) : Current(c, k) /\ c[k].event = g[i]
    BY <1>b, <2>1
  <2>3. k # 1
    BY <1>1, <1>8, <2>1, <2>2
  <2>4. k - 1 \in 1 .. Len(d) /\ (k - 1) + 1 = k
    BY <1>1, <2>3
  <2> QED
    BY <1>1, <2>2, <2>4
<1>14. ASSUME NEW k \in 1 .. Len(d), Current(d, k)
       PROVE  \E i \in n + 2 .. Len(g) : g[i] = d[k].event
  <2>1. /\ k + 1 \in 1 .. Len(c) /\ 1 < k + 1
        /\ Current(c, k + 1) /\ d[k] = c[k + 1]
    BY <1>1, <1>14
  <2>2. PICK i \in n + 1 .. Len(g) : g[i] = c[k + 1].event
    BY <1>c, <2>1
  <2>3. i \in 1 .. Len(g)
    BY <1>2, <1>7
  <2>4. n + 1 < i
    BY <1>1, <1>d, <1>8, <2>1, <2>2, <2>3
  <2>5. i \in n + 2 .. Len(g)
    BY <1>2, <1>7, <2>4
  <2> QED
    BY <2>1, <2>2, <2>5
<1>15. ASSUME NEW k \in 1 .. Len(d), NEW l \in 1 .. Len(d),
              NEW i \in 1 .. Len(g), NEW j \in 1 .. Len(g),
              Current(d, k), Current(d, l), k < l,
              g[i] = d[k].event, g[j] = d[l].event
       PROVE  i < j
  <2>1. /\ k + 1 \in 1 .. Len(c) /\ l + 1 \in 1 .. Len(c) /\ k + 1 < l + 1
        /\ Current(c, k + 1) /\ Current(c, l + 1)
        /\ d[k] = c[k + 1] /\ d[l] = c[l + 1]
    BY <1>1, <1>15
  <2> QED
    <3>1. g[i] = c[k + 1].event /\ g[j] = c[l + 1].event
      BY <1>15, <2>1
    <3> QED
      BY <1>d, <2>1, <3>1
<1>16. Len(f) + 1 = n + 2 /\ Kept(f, d) = Len(f)
  BY <1>2, <1>4, <1>11
<1>17. Told(f, d, g)
  BY <1>12, <1>13, <1>14, <1>15, <1>16 DEF Told
<1> QED
  BY <1>17 DEF d, m, f

LEMMA HandledTold ==
  ASSUME NEW p \in Page, NEW c \in Seq(Message), c # <<>>, NEW g \in Seq(Event),
         Told(p.history, c, g), \A i, j \in 1 .. Len(g) : g[i] = g[j] => i = j
  PROVE  Told(Handled(p, Head(c)).history, Tail(c), g)
<1> DEFINE h == p.history
           f == Handled(p, Head(c)).history
<1>1. Head(c) \in Message /\ Head(c) = c[1]
  BY TailCurrent
<1>2. h \in Seq(Entry) /\ Kept(h, c) \in Nat
  BY DEF Page, Kept
<1>3. CASE Current(c, 1)
  BY <1>3, CurrentTold
<1>4. CASE Head(c).type = "GAME_RESET"
  <2>1. f = <<>> /\ Len(<<>>) = 0
    BY <1>1, <1>4, HandledHistory
  <2>2. Kept(h, c) = 0 /\ Kept(f, Tail(c)) = 0 /\ ~Current(c, 1)
    BY <1>1, <1>4, <2>1, TailCurrent DEF Kept, Current, IsEvent
  <2> HIDE DEF f
  <2>3. Told(f, Tail(c), g)
    BY <1>2, <2>2, OldTold
  <2> QED
    BY <2>3 DEF f
<1>5. CASE Head(c).type = "ROUND_STARTED"
  <2>1. f = h
    BY <1>1, <1>5, HandledHistory
  <2>2. Kept(f, Tail(c)) = Kept(h, c) /\ ~Current(c, 1)
    BY <1>1, <1>5, <2>1, TailCurrent DEF Current, IsEvent
  <2> QED
    BY <1>2, <2>1, <2>2, OldTold
<1>6. CASE IsEvent(Head(c)) /\ ~Current(c, 1)
  <2>1. Kept(h, c) = 0 /\ Kept(f, Tail(c)) = 0
    BY <1>6, TailCurrent
  <2> HIDE DEF f
  <2>2. Told(f, Tail(c), g)
    BY <1>2, <1>6, <2>1, OldTold
  <2> QED
    BY <2>2 DEF f
<1> QED
  BY <1>1, <1>3, <1>4, <1>5, <1>6, MessageKinds DEF IsEvent

-----------------------------------------------------------------------------
(* A page that missed nothing: what holds of it.                           *)

\* Until the page is ready nothing was sent, and nothing is restored.
Quiet ==
  at # "READY" =>
    /\ srv.round = 0 /\ log = <<>> /\ chan = <<>>
    /\ answer = 0 /\ saved = <<>>
    /\ page.round = 0 /\ page.history = <<>>

CompleteInv ==
  /\ InRounds(page.round, chan, srv.round)
  /\ UnderTheirRounds(page.history)
  /\ Told(page.history, chan, log)
  /\ Quiet

PageInv == HistoryInv /\ (Undisturbed => CompleteInv)

\* Nothing was missed only if nothing was before, and what is sent reaches a
\* page that is ready.
LEMMA StillUndisturbed ==
  ASSUME HistoryInv, [Next]_vars, Undisturbed'
  PROVE  /\ Undisturbed /\ ~Fault
         /\ \A ms : Send(ms) => at = "READY" /\ chan' = chan \o ms
<1>0. faults \in Nat /\ missed \in BOOLEAN /\ faults' = 0 /\ ~missed'
  BY DEF HistoryInv, TypeOK, Undisturbed
<1>1. ~Fault
  BY <1>0 DEF Fault
<1>2. missed' = missed \/ \E ms : Send(ms)
  BY DEF Next, vars, StartGame, StartRound, AnnounceLeaders, ChangeLeader, BeginExchange,
         FinishExchange, ResetGame, Happens,
         Enter, Connect, GetCurrentRound, LoadRound, Receive, AnimationComplete,
         Overwrite, ReceiveTwice, Disconnect, Reload
<1>3. ~missed /\ \A ms : Send(ms) => online /\ at = "READY"
  BY <1>0, <1>2 DEF Send
<1>4. faults' = faults \/ Fault
  BY DEF Next, vars, StartGame, StartRound, AnnounceLeaders, ChangeLeader, BeginExchange,
         FinishExchange, ResetGame, Happens,
         Enter, Connect, GetCurrentRound, LoadRound, Receive, AnimationComplete,
         Overwrite, ReceiveTwice, Disconnect, Reload
<1> QED
  BY <1>0, <1>1, <1>3, <1>4 DEF Undisturbed, Send

LEMMA ConcatAppend ==
  ASSUME NEW c \in Seq(Message), NEW a \in Message
  PROVE  c \o <<a>> = Append(c, a)
OBVIOUS

LEMMA PageInit == Init => PageInv
<1> SUFFICES ASSUME Init PROVE CompleteInv
  BY HistoryInit DEF PageInv
<1>1. /\ page.round = 0 /\ page.history = <<>> /\ chan = <<>> /\ srv.round = 0
      /\ log = <<>> /\ saved = <<>> /\ answer = 0 /\ Len(<<>>) = 0
  BY DEF Init, FreshPage
<1>2. InRounds(page.round, chan, srv.round)
  <2> DEFINE f == [k \in 0 .. 0 |-> 0]
  <2>1. f \in [0 .. 0 -> 0 .. MaxRounds] /\ f[0] = 0
    BY PageHistoryAssumption
  <2> HIDE DEF f
  <2>2. Leads(f, 0, <<>>)
    BY <1>1, <2>1 DEF Leads
  <2> QED
    BY <1>1, <2>1, <2>2 DEF InRounds
<1>3. UnderTheirRounds(page.history)
  BY <1>1 DEF UnderTheirRounds
<1>4. Kept(page.history, chan) = 0
  BY <1>1 DEF Kept
<1>5. Told(page.history, chan, log)
  BY <1>1, <1>4 DEF Told
<1> QED
  BY <1>1, <1>2, <1>3, <1>5 DEF CompleteInv, Quiet

\* What changes neither the queue nor what it is compared with.
LEMMA PageWaits ==
  ASSUME HistoryInv, CompleteInv,
         UNCHANGED <<chan, log, saved>>,
         srv'.round = srv.round, page'.round = page.round, page'.history = page.history,
         at # "READY" \/ at' = "READY",
         at' = "READY" \/ answer' \in {answer, srv.round}
  PROVE  CompleteInv'
BY DEF CompleteInv, Quiet

\* The server tells a page that is ready.
LEMMA ServerTells ==
  ASSUME HistoryInv, HistoryInv', CompleteInv,
         \A ms : Send(ms) => at = "READY" /\ chan' = chan \o ms,
         ServerActs
  PROVE  CompleteInv'
<1>0. /\ chan \in Seq(Message) /\ srv \in Server /\ log \in Seq(Event)
      /\ page \in Page /\ page.history \in Seq(Entry)
      /\ InRounds(page.round, chan, srv.round) /\ UnderTheirRounds(page.history)
      /\ Told(page.history, chan, log)
  BY DEF HistoryInv, TypeOK, CompleteInv, Page
<1>1. page' = page /\ at' = at /\ UnderTheirRounds(page.history)'
  BY <1>0 DEF ServerActs, StartGame, StartRound, AnnounceLeaders, ChangeLeader,
              BeginExchange, FinishExchange, ResetGame
<1>a. /\ srv.round > 0 => srv.round \in Rounds
      /\ srv.moving > 0 => srv.moving \in Rounds
  BY <1>0, PageHistoryAssumption DEF Server, Rounds
<1>2. ASSUME NEW r \in Rounds, Send(<<[type |-> "ROUND_STARTED", round |-> r]>>),
             srv'.round = r, log' = log
      PROVE  CompleteInv'
  <2> DEFINE m == [type |-> "ROUND_STARTED", round |-> r]
  <2>1. m \in Message /\ m.type = "ROUND_STARTED" /\ m.round = r
    BY MessageTypes
  <2>2. Send(<<m>>)
    BY <1>2
  <2> HIDE DEF m
  <2>3. at = "READY" /\ chan' = Append(chan, m)
    BY <1>0, <2>1, <2>2, ConcatAppend
  <2>4. Fits(srv.round, m) /\ RoundAfter(srv.round, m) = srv'.round
    BY <1>2, <2>1 DEF Fits, RoundAfter
  <2>5. InRounds(page.round, chan', srv'.round)
    BY <1>0, <2>1, <2>3, <2>4, AppendInRounds
  <2>6. Told(page.history, chan', log)
    BY <1>0, <2>1, <2>3, RoundTold
  <2> QED
    BY <1>0, <1>1, <1>2, <2>3, <2>5, <2>6 DEF CompleteInv, Quiet
<1>3. ASSUME NEW m \in Message, IsEvent(m), Happens(m),
             Fits(srv.round, m), srv'.round = srv.round
      PROVE  CompleteInv'
  <2>1. at = "READY" /\ chan' = Append(chan, m) /\ log' = Append(log, m.event)
    BY <1>0, <1>3, ConcatAppend DEF Happens
  <2>2. RoundAfter(srv.round, m) = srv'.round
    BY <1>3 DEF RoundAfter, IsEvent
  <2>3. InRounds(page.round, chan', srv'.round)
    BY <1>0, <1>3, <2>1, <2>2, AppendInRounds
  <2>4. \A i, j \in DOMAIN log' : log'[i] = log'[j] => i = j
    BY DEF HistoryInv, LogOnce
  <2>5. Told(page.history, chan', log')
    BY <1>0, <1>3, <2>1, <2>4, EventTold
  <2> QED
    BY <1>0, <1>1, <2>1, <2>3, <2>5 DEF CompleteInv, Quiet
<1>4. CASE \E r \in Rounds : StartRound(r)
  <2>1. PICK r \in Rounds : StartRound(r)
    BY <1>4
  <2>2. srv'.round = r
    BY <1>0, <2>1 DEF StartRound, Server
  <2> QED
    BY <1>2, <2>1, <2>2 DEF StartRound
<1>5. CASE AnnounceLeaders
  BY <1>2, <1>5, <1>a DEF AnnounceLeaders
<1>6. CASE ChangeLeader
  <2> DEFINE e == NewEvent("LEADER", srv.round)
             m == [type |-> "LEADERSHIP_CHANGED", event |-> e]
  <2>1. /\ srv'.round = srv.round /\ srv.round \in Rounds
        /\ Happens(m) /\ srv.events < MaxEvents
    BY <1>0, <1>a, <1>6 DEF ChangeLeader, Happens, Server
  <2>2. e \in Event /\ e.round = srv.round
    BY <1>0, <2>1, EventType DEF SrvType
  <2>3. m \in Message /\ IsEvent(m) /\ Fits(srv.round, m)
    BY <2>2, MessageTypes DEF IsEvent, Fits
  <2> QED
    BY <1>3, <2>1, <2>3
<1>7. CASE FinishExchange
  <2> DEFINE e == NewEvent("EXCHANGE", srv.moving)
             m == [type |-> "EXCHANGE_COMPLETE", event |-> e]
  <2>1. /\ srv'.round = srv.round /\ srv.moving \in Rounds
        /\ Happens(m) /\ srv.events < MaxEvents
    BY <1>0, <1>a, <1>7 DEF FinishExchange, Happens, Server
  <2>2. e \in Event
    BY <1>0, <2>1, EventType DEF SrvType
  <2>3. m \in Message /\ IsEvent(m) /\ Fits(srv.round, m)
    BY <2>2, MessageTypes DEF IsEvent, Fits
  <2> QED
    BY <1>3, <2>1, <2>3
<1>8. CASE ResetGame
  <2> DEFINE m == [type |-> "GAME_RESET"]
  <2>1. Send(<<m>>) /\ log' = <<>> /\ srv'.round = 0
    BY <1>0, <1>8 DEF ResetGame, Server
  <2>2. m \in Message /\ m.type = "GAME_RESET"
    BY MessageTypes
  <2> HIDE DEF m
  <2>3. at = "READY" /\ chan' = Append(chan, m)
    BY <1>0, <2>1, <2>2, ConcatAppend
  <2>4. RoundAfter(srv.round, m) = srv'.round /\ Fits(srv.round, m)
    BY <2>1, <2>2 DEF RoundAfter, Fits
  <2>5. InRounds(page.round, chan', srv'.round)
    BY <1>0, <2>2, <2>3, <2>4, AppendInRounds
  <2>6. Told(page.history, chan', log')
    BY <1>0, <2>1, <2>2, <2>3, ResetTold
  <2> QED
    BY <1>0, <1>1, <2>3, <2>5, <2>6 DEF CompleteInv, Quiet
<1>9. CASE StartGame \/ BeginExchange
  <2>1. srv'.round = srv.round
    BY <1>0, <1>9 DEF StartGame, BeginExchange, Server
  <2> QED
    BY <1>9, <2>1, PageWaits DEF StartGame, BeginExchange
<1> QED
  BY <1>4, <1>5, <1>6, <1>7, <1>8, <1>9 DEF ServerActs

\* The page handles the next message.
LEMMA PageListens ==
  ASSUME HistoryInv, CompleteInv, Receive
  PROVE  CompleteInv'
<1>0. /\ page \in Page /\ chan \in Seq(Message) /\ log \in Seq(Event)
      /\ Once(page.history) /\ chan # <<>> /\ chan' = Tail(chan)
      /\ page' = Handled(page, Head(chan))
      /\ UNCHANGED <<srv, log, at>>
      /\ InRounds(page.round, chan, srv.round) /\ UnderTheirRounds(page.history)
      /\ Told(page.history, chan, log) /\ at = "READY"
  BY DEF HistoryInv, TypeOK, CompleteInv, Quiet, Receive, Handle
<1>1. Head(chan) \in Message
  BY <1>0
<1>2. /\ InRounds(RoundAfter(page.round, Head(chan)), Tail(chan), srv.round)
      /\ Fits(page.round, Head(chan))
  BY <1>0, TailInRounds
<1>3. /\ page'.round = RoundAfter(page.round, Head(chan))
      /\ UnderTheirRounds(page'.history)
  BY <1>0, <1>1, <1>2, HandledInRound
<1>4. \A i, j \in 1 .. Len(log) : log[i] = log[j] => i = j
  BY <1>0 DEF HistoryInv, LogOnce
<1>5. Told(page'.history, chan', log')
  BY <1>0, <1>4, HandledTold
<1> QED
  BY <1>0, <1>2, <1>3, <1>5 DEF CompleteInv, Quiet

LEMMA PageKeeps == PageInv /\ [Next]_vars => PageInv'
<1> SUFFICES ASSUME PageInv, [Next]_vars PROVE PageInv'
  OBVIOUS
<1>1. HistoryInv /\ HistoryInv'
  BY HistoryStep DEF PageInv
<1> SUFFICES ASSUME Undisturbed' PROVE CompleteInv'
  BY <1>1 DEF PageInv
<1>2. /\ CompleteInv /\ ~Fault
      /\ \A ms : Send(ms) => at = "READY" /\ chan' = chan \o ms
  BY <1>1, StillUndisturbed DEF PageInv
<1>3. srv \in Server /\ page \in Page
  BY <1>1 DEF HistoryInv, TypeOK
<1>4. CASE ServerActs
  BY <1>1, <1>2, <1>4, ServerTells
<1>5. CASE Receive
  BY <1>1, <1>2, <1>5, PageListens
<1>7. CASE Enter \/ Connect
  BY <1>1, <1>2, <1>7, PageWaits DEF Enter, Connect
<1>8. CASE GetCurrentRound
  <2>1. at' = "READY" \/ answer' = srv.round
    BY <1>8 DEF GetCurrentRound
  <2>2. /\ UNCHANGED <<chan, log, saved, page, srv>> /\ at = "JOINED"
    BY <1>8 DEF GetCurrentRound
  <2> QED
    BY <1>1, <1>2, <2>1, <2>2, PageWaits
<1>9. CASE LoadRound
  <2>1. at = "ASKED" /\ answer = 0 /\ saved = <<>>
    BY <1>2, <1>9 DEF LoadRound, CompleteInv, Quiet
  <2>2. page'.round = page.round /\ page'.history = page.history
    BY <1>3, <1>9, <2>1 DEF LoadRound, Page
  <2> QED
    BY <1>1, <1>2, <1>9, <2>1, <2>2, PageWaits DEF LoadRound
<1>10. CASE AnimationComplete
  <2>1. page'.round = page.round /\ page'.history = page.history
    BY <1>3, <1>10 DEF AnimationComplete, Page
  <2> QED
    BY <1>1, <1>2, <1>10, <2>1, PageWaits DEF AnimationComplete
<1>11. CASE Overwrite \/ ReceiveTwice \/ Disconnect \/ Reload
  BY <1>2, <1>11 DEF Overwrite, ReceiveTwice, Disconnect, Reload
<1>12. CASE UNCHANGED vars
  BY <1>1, <1>2, <1>12, PageWaits DEF vars
<1> QED
  BY <1>4, <1>5, <1>7, <1>8, <1>9, <1>10, <1>11, <1>12 DEF Next, ServerActs

\* A page that was ready for every message shows, when none is under way, the
\* all that was announced since the last reset, and nothing of before.
THEOREM HistoryIsCompleteHolds == Spec => []HistoryIsComplete
<1>1. PageInv => HistoryIsComplete
  <2> SUFFICES ASSUME PageInv, Undisturbed, chan = <<>>
               PROVE  log = [i \in DOMAIN page.history |-> page.history[i].event]
    BY DEF HistoryIsComplete, Undisturbed
  <2>1. /\ log \in Seq(Event) /\ page.history \in Seq(Entry)
        /\ Told(page.history, <<>>, log)
    BY DEF PageInv, HistoryInv, TypeOK, Page, CompleteInv
  <2>2. Len(<<>>) = 0 /\ Kept(page.history, <<>>) = Len(page.history)
    BY DEF Kept
  <2>3. Len(log) = Len(page.history)
    <3>1. Len(page.history) <= Len(log) /\ Len(log) \in Nat /\ Len(page.history) \in Nat
      BY <2>1, <2>2 DEF Told
    <3>2. CASE Len(page.history) < Len(log)
      <4>1. Len(log) \in Len(page.history) + 1 .. Len(log)
        BY <3>1, <3>2
      <4>2. \E k \in 1 .. Len(<<>>) : Current(<<>>, k) /\ <<>>[k].event = log[Len(log)]
        BY <2>1, <2>2, <4>1 DEF Told
      <4> QED
        BY <2>2, <4>2
    <3> QED
      BY <3>1, <3>2
  <2>4. \A i \in 1 .. Len(log) : log[i] = page.history[i].event
    BY <2>1, <2>2, <2>3 DEF Told
  <2> QED
    BY <2>1, <2>3, <2>4
<1> QED
  BY <1>1, PageInit, PageKeeps, PTL DEF Spec

\* On such a page every event stands in the section of the round it happened
\* in, although a change of leader does not name its round, and rounds may be
\* started before, or again after, the exchange of another.
THEOREM EventsInTheirRoundHolds == Spec => []EventsInTheirRound
<1>1. PageInv => EventsInTheirRound
  <2> SUFFICES ASSUME PageInv, Undisturbed,
                      NEW r \in Sections, NEW list \in ToSet(Section(r)), NEW i \in list
               PROVE  page.history[i].event.round = r
    BY DEF EventsInTheirRound, Undisturbed
  <2>1. list = Entries("EXCHANGE", r) \/ list = Entries("LEADER", r)
    BY DEF ToSet, Section
  <2>2. i \in DOMAIN page.history /\ page.history[i].round = r
    BY <2>1 DEF Entries
  <2> QED
    BY <2>2 DEF PageInv, CompleteInv, UnderTheirRounds
<1> QED
  BY <1>1, PageInit, PageKeeps, PTL DEF Spec
=============================================================================
