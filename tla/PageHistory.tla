---------------------------- MODULE PageHistory ----------------------------
(***************************************************************************)
(* What the page of one player (RoomPage.tsx) tells of the rounds of a     *)
(* game: the round, the animation of each exchange, and the history of     *)
(* exchanges and of changes of leader that it shows (RoundHistory.tsx) and *)
(* keeps in localStorage.  Who leads is HostagePanel's and PageVote's.     *)
(*                                                                         *)
(* Messages come in order over a socket; a second socket of the page may   *)
(* bring them again.  initializeRoom asks for the round and restores the   *)
(* history while messages are handled already.                             *)
(***************************************************************************)
EXTENDS Integers, Sequences, SequencesExt

CONSTANTS
  MaxGames,   \* bound: games started
  MaxRounds,  \* rounds of a game (3 in the code)
  MaxEvents,  \* bound: exchanges and changes of leader in all
  MaxShown,   \* animations a page shows (2 in the code)
  MaxQueue,   \* bound: messages on their way to the page
  MaxFaults   \* bound: reloads, lost connections, lost and repeated messages

ASSUME PageHistoryAssumption ==
  /\ MaxGames \in Nat \ {0} /\ MaxRounds \in Nat \ {0}
  /\ MaxEvents \in Nat /\ MaxShown \in Nat /\ MaxFaults \in Nat
  /\ MaxQueue \in Nat \ {0, 1}

Rounds == 1 .. MaxRounds

VARIABLES
  srv,     \* the game on the server
  chan,    \* the messages on their way to the page
  online,  \* the page's socket is registered with the hub
  at,      \* how far initializeRoom has come
  answer,  \* the round it was told, while that answer is on its way
  page,    \* the state of the page
  saved,   \* history_<code> in localStorage
  log,     \* history: the events announced since the last reset
  missed,  \* history: something was sent before the page was ready for it
  faults   \* history: faults so far

vars == <<srv, chan, online, at, answer, page, saved, log, missed, faults>>

-----------------------------------------------------------------------------
(* The values.                                                             *)

\* An event, with the round it happened in: n is what its timestamp, and the
\* player it names, tell apart.
Event == [kind: {"EXCHANGE", "LEADER"}, round: Rounds, n: 1 .. MaxEvents]

\* An entry of the history: an event under the round the page gives it.
Entry == [event: Event, round: 0 .. MaxRounds]

Server ==
  [status: {"WAITING", "IN_PROGRESS"}, games: 0 .. MaxGames, round: 0 .. MaxRounds,
   moving: 0 .. MaxRounds,   \* the round whose exchange is past its checks (0: none)
   events: 0 .. MaxEvents]   \* how many there were

Message ==
  [type: {"GAME_RESET"}]
  \cup [type: {"ROUND_STARTED"}, round: Rounds]
  \cup [type: {"LEADERSHIP_CHANGED", "EXCHANGE_COMPLETE"}, event: Event]

Page ==
  [round: 0 .. MaxRounds,       \* currentRound
   history: Seq(Entry),         \* historyEvents
   shown: SUBSET Rounds,        \* shownExchangeRoundsRef
   animating: BOOLEAN]          \* showExchangeAnimation

Places == {"OUT", "JOINED", "ASKED", "READY"}

TypeOK ==
  /\ srv \in Server
  /\ chan \in Seq(Message) /\ Len(chan) <= MaxQueue
  /\ online \in BOOLEAN
  /\ ~online => chan = <<>>
  /\ at \in Places
  /\ answer \in 0 .. MaxRounds
  /\ page \in Page
  /\ saved \in Seq(Entry)
  /\ log \in Seq(Event) /\ missed \in BOOLEAN
  /\ faults \in 0 .. MaxFaults

FreshPage == [round |-> 0, history |-> <<>>, shown |-> {},
              animating |-> FALSE]

Init ==
  /\ srv = [status |-> "WAITING", games |-> 0, round |-> 0,
            moving |-> 0, events |-> 0]
  /\ chan = <<>> /\ online = FALSE
  /\ at = "OUT" /\ answer = 0
  /\ page = FreshPage /\ saved = <<>>
  /\ log = <<>> /\ missed = FALSE
  /\ faults = 0

-----------------------------------------------------------------------------
(* The server.                                                             *)

\* The hub queues the messages ms for the page, when it is registered.
Send(ms) ==
  /\ Len(chan) + Len(ms) <= MaxQueue
  /\ chan' = IF online THEN chan \o ms ELSE chan
  /\ missed' = (missed \/ ~online \/ at # "READY")

\* The next event, of round r.
NewEvent(kind, r) == [kind |-> kind, round |-> r, n |-> srv.events + 1]

\* An event happens, and message m of it is broadcast.
Happens(m) ==
  /\ srv.events < MaxEvents
  /\ log' = Append(log, m.event)
  /\ Send(<<m>>)

\* GameService.StartGame; its first round comes after it.
StartGame ==
  /\ srv.status = "WAITING" /\ srv.games < MaxGames
  /\ srv' = [srv EXCEPT !.status = "IN_PROGRESS", !.games = @ + 1]
  /\ UNCHANGED <<chan, online, at, answer, page, saved, log, missed, faults>>

\* StartRound, which broadcasts the round.  Nothing binds r to the present one:
\* leaders may be ready before the exchange, LeaderReady may spawn two
\* goroutines, and a goroutine may be of an earlier round or game.
StartRound(r) ==
  /\ srv.status = "IN_PROGRESS"
  /\ srv' = [srv EXCEPT !.round = r]
  /\ Send(<<[type |-> "ROUND_STARTED", round |-> r]>>)
  /\ UNCHANGED <<online, at, answer, page, saved, log, faults>>

\* AssignLeaders or PreserveLeaders, which every StartRound is followed by: the
\* round there is by then is broadcast again.
AnnounceLeaders ==
  /\ srv.status = "IN_PROGRESS" /\ srv.round > 0
  /\ Send(<<[type |-> "ROUND_STARTED", round |-> srv.round]>>)
  /\ UNCHANGED <<srv, online, at, answer, page, saved, log, faults>>

\* A transfer or a vote makes another player leader of the page's room.
ChangeLeader ==
  /\ srv.status = "IN_PROGRESS" /\ srv.round > 0
  /\ srv' = [srv EXCEPT !.events = @ + 1]
  /\ Happens([type |-> "LEADERSHIP_CHANGED",
              event |-> NewEvent("LEADER", srv.round)])
  /\ UNCHANGED <<online, at, answer, page, saved, faults>>

\* ExecuteExchange reads the round and passes its checks.
BeginExchange ==
  /\ srv.status = "IN_PROGRESS" /\ srv.round > 0 /\ srv.moving = 0
  /\ srv' = [srv EXCEPT !.moving = srv.round]
  /\ UNCHANGED <<chan, online, at, answer, page, saved, log, missed, faults>>

\* It announces the exchange of the round it read, whatever round, or game, it
\* is by then.
FinishExchange ==
  /\ srv.moving > 0
  /\ srv' = [srv EXCEPT !.moving = 0, !.events = @ + 1]
  /\ Happens([type |-> "EXCHANGE_COMPLETE", event |-> NewEvent("EXCHANGE", srv.moving)])
  /\ UNCHANGED <<online, at, answer, page, saved, faults>>

\* GameService.ResetGame.
ResetGame ==
  /\ srv.status = "IN_PROGRESS"
  /\ srv' = [srv EXCEPT !.status = "WAITING", !.round = 0]
  /\ Send(<<[type |-> "GAME_RESET"]>>)
  /\ log' = <<>>
  /\ UNCHANGED <<online, at, answer, page, saved, faults>>

-----------------------------------------------------------------------------
(* initializeRoom.                                                         *)

\* The player is found or joined; from here the socket connects.
Enter ==
  /\ at = "OUT"
  /\ at' = "JOINED"
  /\ UNCHANGED <<srv, chan, online, answer, page, saved, log, missed, faults>>

\* The socket of the page is registered with the hub.
Connect ==
  /\ at # "OUT" /\ ~online
  /\ online' = TRUE
  /\ UNCHANGED <<srv, chan, at, answer, page, saved, log, missed, faults>>

\* The room is looked at, and in a game its round: the answer says what it is
\* now, or nothing before the first round.
GetCurrentRound ==
  /\ at = "JOINED"
  /\ IF srv.status = "IN_PROGRESS"
     THEN at' = "ASKED" /\ answer' = srv.round
     ELSE at' = "READY" /\ UNCHANGED answer
  /\ UNCHANGED <<srv, chan, online, page, saved, log, missed, faults>>

\* The answer has come; then the history is restored, if there is one.
LoadRound ==
  /\ at = "ASKED"
  /\ at' = "READY" /\ answer' = 0
  /\ page' = [page EXCEPT !.round = IF answer = 0 THEN @ ELSE answer,
                          !.history = IF saved = <<>> THEN @ ELSE saved]
  /\ UNCHANGED <<srv, chan, online, saved, log, missed, faults>>

-----------------------------------------------------------------------------
(* The messages.                                                           *)

\* Mutant of AddEvent: the event is only compared with the last one.
AddEventLast(p, e, round) ==
  IF p.history # <<>> /\ Last(p.history).event = e THEN p
  ELSE [p EXCEPT !.history = Append(@, [event |-> e, round |-> round])]

\* An event goes to the end of the history, unless it is there already.
AddEvent(p, e, round) ==
  IF \E entry \in ToSet(p.history) : entry.event = e THEN p
  ELSE [p EXCEPT !.history = Append(@, [event |-> e, round |-> round])]

\* Mutant of OnReset: the history of the page stays.
OnResetKeepsHistory(p) == [p EXCEPT !.round = 0]

\* GAME_RESET.  What it leaves alone: the animation, and the rounds whose
\* animation was shown.
OnReset(p) == [p EXCEPT !.round = 0, !.history = <<>>]

\* Mutant of OnExchange: the page counts on to the next round itself.
OnExchangeCounts(p, e) ==
  AddEvent(IF e.round \in p.shown \/ Cardinality(p.shown) >= MaxShown THEN p
           ELSE [p EXCEPT !.shown = @ \cup {e.round}, !.animating = TRUE,
                          !.round = IF @ = MaxRounds THEN 0 ELSE @ + 1],
           e, e.round)

\* EXCHANGE_COMPLETE: the animation is shown once for a round and MaxShown
\* times at most; the exchange goes to the history either way, under the round
\* the message names.
OnExchange(p, e) ==
  AddEvent(IF e.round \in p.shown \/ Cardinality(p.shown) >= MaxShown THEN p
           ELSE [p EXCEPT !.shown = @ \cup {e.round}, !.animating = TRUE],
           e, e.round)

\* LEADERSHIP_CHANGED: the message names no round, so the page's own is taken.
OnLeader(p, e) == AddEvent(p, e, p.round)

\* The effect of lastMessage.
Handled(p, m) ==
  CASE m.type = "GAME_RESET"    -> OnReset(p)
    [] m.type = "ROUND_STARTED" -> [p EXCEPT !.round = m.round]
    [] m.type = "LEADERSHIP_CHANGED" -> OnLeader(p, m.event)
    [] m.type = "EXCHANGE_COMPLETE"  -> OnExchange(p, m.event)

\* localStorage after message m has made the page p: GAME_RESET removes the
\* history, a change of it that is not empty is saved.
SavedAfter(p, m) ==
  IF m.type = "GAME_RESET" THEN <<>>
  ELSE IF p.history \in {<<>>, page.history} THEN saved
  ELSE p.history

\* The page renders with m as lastMessage.
Handle(m) ==
  /\ page' = Handled(page, m)
  /\ saved' = SavedAfter(page', m)

Receive ==
  /\ chan # <<>>
  /\ chan' = Tail(chan)
  /\ Handle(Head(chan))
  /\ UNCHANGED <<srv, online, at, answer, log, missed, faults>>

\* ExchangeAnimation has entered, shown the exchange and left, and calls
\* onComplete, in the game view (the one of a running game).
AnimationComplete ==
  /\ page.animating /\ at = "READY"
  /\ page' = [page EXCEPT !.animating = FALSE]
  /\ UNCHANGED <<srv, chan, online, at, answer, saved, log, missed, faults>>

-----------------------------------------------------------------------------
(* What goes wrong.                                                        *)

Fault == faults < MaxFaults /\ faults' = faults + 1

\* Two messages come before the page renders: only the later is lastMessage.
Overwrite ==
  /\ Fault
  /\ Len(chan) >= 2
  /\ chan' = Tail(chan)
  /\ UNCHANGED <<srv, online, at, answer, page, saved, log, missed>>

\* A second socket of the page is open and brings a message once more, behind
\* others.  (Straight after the first it is known as the last one handled.)
ReceiveTwice ==
  LET m == Head(chan) IN
  /\ Fault
  /\ \E k \in 2 .. Len(chan) : chan' = Tail(InsertAt(chan, k + 1, m))
  /\ Handle(m)
  /\ UNCHANGED <<srv, online, at, answer, log, missed>>

\* Mutant of Disconnect: the next connection brings what the lost one held.
DisconnectKeepsQueue ==
  /\ Fault
  /\ online
  /\ online' = FALSE
  /\ UNCHANGED <<srv, chan, at, answer, page, saved, log, missed>>

\* The connection is lost, with what was on its way.
Disconnect ==
  /\ Fault
  /\ online
  /\ online' = FALSE /\ chan' = <<>>
  /\ UNCHANGED <<srv, at, answer, page, saved, log, missed>>

\* The user loads the page again: localStorage stays.
Reload ==
  /\ Fault
  /\ at # "OUT"
  /\ at' = "OUT" /\ answer' = 0
  /\ online' = FALSE /\ chan' = <<>>
  /\ page' = FreshPage
  /\ UNCHANGED <<srv, saved, log, missed>>

-----------------------------------------------------------------------------
Next ==
  \/ StartGame \/ (\E r \in Rounds : StartRound(r)) \/ AnnounceLeaders \/ ChangeLeader
  \/ BeginExchange \/ FinishExchange \/ ResetGame
  \/ Enter \/ Connect \/ GetCurrentRound \/ LoadRound
  \/ Receive \/ AnimationComplete
  \/ Overwrite \/ ReceiveTwice \/ Disconnect \/ Reload

Spec == Init /\ [][Next]_vars

-----------------------------------------------------------------------------
(* RoundHistory, which shows the history by rounds.                        *)

\* The entries of one kind under round r, by their places in the history, in
\* whose order they are listed.
Entries(kind, r) ==
  {i \in DOMAIN page.history :
     page.history[i].round = r /\ page.history[i].event.kind = kind}

\* The rounds it has a section for, and what stands in one: the exchange comes
\* before the changes of leader, whatever came first.
Sections   == {entry.round : entry \in ToSet(page.history)}
Section(r) == <<Entries("EXCHANGE", r), Entries("LEADER", r)>>

-----------------------------------------------------------------------------
(* Properties.                                                             *)

\* An event is in the history once, whatever is delivered twice or restored
\* from localStorage (RoomPage.tsx:589-607 and
\* 725-738 look for it).
HistoryOnce ==
  \A i, j \in DOMAIN page.history :
    page.history[i].event = page.history[j].event => i = j

\* A page that was ready for every message shows, when none is under way,
\* all that was announced since the last reset and nothing of before, also of an
\* exchange that a new round or a reset came between.
HistoryIsComplete ==
  faults = 0 /\ ~missed /\ chan = <<>> =>
    log = [i \in DOMAIN page.history |-> page.history[i].event]

\* On such a page, every event stands in the section of the round it happened
\* in, although a change of leader does not name its round, rounds may be started
\* before, twice, or again, and an exchange may be announced in a later one.
EventsInTheirRound ==
  faults = 0 /\ ~missed =>
    \A r \in Sections : \A list \in ToSet(Section(r)) : \A i \in list :
      page.history[i].event.round = r

=============================================================================
