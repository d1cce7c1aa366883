------------------------------ MODULE RoomPage ------------------------------
(***************************************************************************)
(* The page of one player (RoomPage.tsx) through the games of its room:    *)
(* its view, its role and its place, fed by the WebSocket, by a poll of    *)
(* the room every three seconds and by requests of its own handlers.  The  *)
(* lists of the players of both rooms come with the same answers as the    *)
(* place of the player and are left out.                                   *)
(*                                                                         *)
(* The server is the little of it such a page can tell apart.  A request   *)
(* is answered with the room as it is at that moment, and the answer is    *)
(* applied later, whatever has happened to the page meanwhile.  Rounds,    *)
(* leaders and the history are PageHistory, the votes PageVote, the panel  *)
(* of a leader HostagePanel, the way into the room and its list of players *)
(* Lobby, and the connection Socket.                                       *)
(***************************************************************************)
EXTENDS Integers, Sequences, FiniteSets

CONSTANTS
  MaxGames,   \* bound: games started
  MaxMoves,   \* bound: exchanges of one game that move the player
  MaxQueue,   \* bound: messages on their way to the page
  MaxAnswers, \* bound: answers on their way to the page
  MaxFaults   \* bound: reloads, lost connections, messages and polls

ASSUME RoomPageAssumption ==
  /\ MaxGames \in Nat \ {0} /\ MaxMoves \in Nat /\ MaxFaults \in Nat
  /\ MaxQueue \in Nat \ {0, 1} /\ MaxAnswers \in Nat \ {0}

Rooms == {"RED_ROOM", "BLUE_ROOM"}
None  == "NONE"
Games == 1 .. MaxGames

VARIABLES
  srv,      \* the room on the server
  chan,     \* the messages on their way to the page
  online,   \* the page's socket is registered with the hub
  at,       \* how far initializeRoom has come
  answers,  \* the answers on their way to the page
  page,     \* the state of the page
  call,     \* "START" or "RESET" while that request of the page is under way
  owner,    \* the page is the owner's
  faults    \* history: faults so far

pageVars == <<srv, chan, online, at, answers, page, call, owner, faults>>

-----------------------------------------------------------------------------
(* The values.                                                             *)

\* The room; side is where the player of the page is.
Server ==
  [status: {"WAITING", "IN_PROGRESS", "REVEALING"}, game: 0 .. MaxGames,
   side: Rooms \cup {None}, moves: 0 .. MaxMoves]

\* What an answer says of the room: a role and a place only in a game.
Room == [status: {"WAITING", "IN_PROGRESS", "REVEALING"}, game: 0 .. MaxGames,
         side: Rooms \cup {None}]

Message ==
  [type: {"GAME_STARTED", "GAME_RESET", "GAME_REVEALING"}]
  \cup [type: {"ROLE_ASSIGNED"}, role: Games, side: Rooms]

\* The requests: the poll and GAME_REVEALING (fetchRoom), the second look of
\* initializeRoom, and the one at the end of an animation.
Kinds == {"fetch", "load", "moved"}

Page ==
  [view: {"lobby", "game", "reveal"},
   status: {"WAITING", "IN_PROGRESS", "REVEALING", None},
   role: 0 .. MaxGames,      \* whose game's role and team it shows, 0 for none
   side: Rooms \cup {None},  \* currentRoom
   roleDone: BOOLEAN,        \* roleAssignedProcessedRef
   switches: Nat,            \* callbacks of ROLE_ASSIGNED still to come
   starting: BOOLEAN, resetting: BOOLEAN]

Places == {"OUT", "JOINED", "LOADING", "ROUND", "READY"}

PageTypeOK ==
  /\ srv \in Server
  /\ \A i \in DOMAIN chan : chan[i] \in Message
  /\ Len(chan) <= MaxQueue
  /\ online \in BOOLEAN /\ owner \in BOOLEAN
  /\ at \in Places
  /\ ~online => chan = <<>>
  /\ answers \subseteq [kind: Kinds, room: Room]
  /\ page \in Page
  /\ call \in {None, "START", "RESET"}
  /\ faults \in 0 .. MaxFaults

\* The state of a page when it is loaded; the view is part of its address.
FreshPage(view) ==
  [view |-> view, status |-> None, role |-> 0, side |-> None, roleDone |-> FALSE,
   switches |-> 0, starting |-> FALSE, resetting |-> FALSE]

PageInit ==
  /\ srv = [status |-> "WAITING", game |-> 0, side |-> None, moves |-> 0]
  /\ chan = <<>> /\ online = FALSE
  /\ at = "OUT" /\ answers = {}
  /\ page = FreshPage("lobby")
  /\ call = None
  /\ owner \in BOOLEAN
  /\ faults = 0

-----------------------------------------------------------------------------
(* What the page shows.                                                    *)

\* The render goes by the first of these that holds.
Loading == at # "READY"
AtEnd   == ~Loading /\ page.status = "REVEALING"

\* The card of the role, full screen; without a role it leads away (Redirect).
CardShown == ~Loading /\ ~AtEnd /\ page.view = "reveal"
RoleShown == CardShown /\ page.role # 0

\* The game, which waits for the role and the place of the player.
GameShown ==
  /\ ~Loading /\ ~AtEnd /\ page.view = "game"
  /\ page.role # 0 /\ page.side # None

LobbyShown == ~Loading /\ ~AtEnd /\ page.view = "lobby"

\* The button of the lobby that starts a game; six players are there.
StartOffered == LobbyShown /\ owner /\ ~page.starting

\* The button of the game that leads everybody back to the lobby.
ResetOffered == GameShown /\ owner /\ ~page.resetting

-----------------------------------------------------------------------------
(* The server.                                                             *)

\* The hub queues the messages ms for the page, when it is registered.
Send(ms) ==
  /\ Len(chan) + Len(ms) <= MaxQueue
  /\ chan' = IF online THEN chan \o ms ELSE chan

\* GameService.StartGame, asked for by this page, or by the owner's.
StartGame ==
  /\ srv.status = "WAITING" /\ srv.game < MaxGames
  /\ owner => call = "START"
  /\ call' = None
  /\ \E side \in Rooms :
       /\ srv' = [srv EXCEPT !.status = "IN_PROGRESS", !.game = @ + 1, !.side = side]
       /\ Send(<<[type |-> "GAME_STARTED"],
                 [type |-> "ROLE_ASSIGNED", role |-> srv.game + 1, side |-> side]>>)
  /\ UNCHANGED <<online, at, answers, page, owner, faults>>

\* An exchange moves the player.  (Its message is PageHistory's.)
Exchange ==
  /\ srv.status = "IN_PROGRESS" /\ srv.moves < MaxMoves
  /\ \E side \in Rooms \ {srv.side} : srv' = [srv EXCEPT !.side = side, !.moves = @ + 1]
  /\ UNCHANGED <<chan, online, at, answers, page, call, owner, faults>>

\* transitionToRevealing, after the last round.
Reveal ==
  /\ srv.status = "IN_PROGRESS"
  /\ srv' = [srv EXCEPT !.status = "REVEALING"]
  /\ Send(<<[type |-> "GAME_REVEALING"]>>)
  /\ UNCHANGED <<online, at, answers, page, call, owner, faults>>

\* GameService.ResetGame, which has no look at who asks for it.
ResetGame ==
  /\ srv.status = "IN_PROGRESS"
  /\ owner => call = "RESET"
  /\ call' = None
  /\ srv' = [srv EXCEPT !.status = "WAITING", !.side = None, !.moves = 0]
  /\ Send(<<[type |-> "GAME_RESET"]>>)
  /\ UNCHANGED <<online, at, answers, page, owner, faults>>

\* The room as the server tells it now.
Told == [status |-> srv.status, side |-> srv.side,
         game |-> IF srv.status = "WAITING" THEN 0 ELSE srv.game]

\* When the page asks for the room: every three seconds and on
\* GAME_REVEALING, in initializeRoom, and at the end of an animation.
Asks(kind) ==
  CASE kind = "fetch" -> at # "OUT"
    [] kind = "load"  -> at = "JOINED"
    [] kind = "moved" -> GameShown /\ srv.moves > 0

\* GET of the room: it is answered as it is now.
GetRoom(kind) ==
  /\ Asks(kind)
  /\ Cardinality(answers) < MaxAnswers
  /\ answers' = answers \cup {[kind |-> kind, room |-> Told]}
  /\ at' = IF kind = "load" THEN "LOADING" ELSE at
  /\ UNCHANGED <<srv, chan, online, page, call, owner, faults>>

-----------------------------------------------------------------------------
(* initializeRoom.                                                         *)

\* The first look at the room, and the player found or joined; from here the
\* effects of the poll and of the socket run.
Enter ==
  /\ at = "OUT"
  /\ at' = "JOINED"
  /\ page' = IF srv.status = "IN_PROGRESS" /\ page.view = "lobby"
             THEN [page EXCEPT !.view = "game"] ELSE page
  /\ UNCHANGED <<srv, chan, online, answers, call, owner, faults>>

\* The socket of the page is registered with the hub.
Register ==
  /\ at # "OUT" /\ ~online
  /\ online' = TRUE
  /\ UNCHANGED <<srv, chan, at, answers, page, call, owner, faults>>

\* What a page takes over of a room, its game data only when there is a game.
FromRoom(p, room) ==
  IF room.status = "WAITING" THEN [p EXCEPT !.status = room.status]
  ELSE [p EXCEPT !.status = room.status, !.role = room.game, !.side = room.side]

\* Mutant of LoadRoom: a room that waits leads to the lobby.
LoadRoomToLobby(a) ==
  /\ a \in answers /\ a.kind = "load"
  /\ answers' = answers \ {a}
  /\ at' = IF a.room.status = "IN_PROGRESS" THEN "ROUND" ELSE "READY"
  /\ page' = IF a.room.status = "IN_PROGRESS" THEN FromRoom(page, a.room)
             ELSE [page EXCEPT !.status = a.room.status, !.view = "lobby"]
  /\ UNCHANGED <<srv, chan, online, call, owner, faults>>

\* The second look at the room has come.  Of a game that runs the page takes its
\* role and its place, and asks for the round and the vote; a room that is
\* revealing is shown by its status alone.
LoadRoom(a) ==
  /\ a \in answers /\ a.kind = "load"
  /\ answers' = answers \ {a}
  /\ at' = IF a.room.status = "IN_PROGRESS" THEN "ROUND" ELSE "READY"
  /\ page' = IF a.room.status = "IN_PROGRESS" THEN FromRoom(page, a.room)
             ELSE [page EXCEPT !.status = a.room.status]
  /\ UNCHANGED <<srv, chan, online, call, owner, faults>>

\* The round and the vote have come, or not (see PageHistory and PageVote): the
\* game is shown, whatever has become of it since the second look.
LoadRound ==
  /\ at = "ROUND"
  /\ at' = "READY"
  /\ page' = [page EXCEPT !.view = "game"]
  /\ UNCHANGED <<srv, chan, online, answers, call, owner, faults>>

-----------------------------------------------------------------------------
(* The messages.                                                           *)

\* GAME_RESET.  What it leaves alone: isResetting, what the page knows of the
\* room, and what initializeRoom and callbacks are still going to do.
OnReset(p) ==
  [p EXCEPT !.view = "lobby", !.role = 0, !.side = None, !.roleDone = FALSE]

\* Mutant of OnRole: the view is left to GAME_STARTED.
OnRoleStays(p, m) ==
  IF p.roleDone THEN p
  ELSE [p EXCEPT !.roleDone = TRUE, !.starting = FALSE, !.role = m.role,
                 !.side = m.side]

\* ROLE_ASSIGNED, once for each game.  The view is left to a callback.
OnRole(p, m) ==
  IF p.roleDone THEN p
  ELSE [p EXCEPT !.roleDone = TRUE, !.starting = FALSE, !.role = m.role,
                 !.side = m.side, !.switches = @ + 1]

\* The effect of lastMessage.
Handled(p, m) ==
  CASE m.type = "GAME_STARTED"  -> [p EXCEPT !.starting = FALSE, !.view = "game"]
    [] m.type = "ROLE_ASSIGNED" -> OnRole(p, m)
    [] m.type = "GAME_RESET"    -> OnReset(p)
    [] OTHER -> p

\* The page renders with the next message as lastMessage.
Receive ==
  LET m == Head(chan) IN
  /\ chan # <<>>
  /\ chan' = Tail(chan)
  /\ page' = Handled(page, m)
  /\ UNCHANGED <<srv, online, at, answers, call, owner, faults>>

\* The callback of a ROLE_ASSIGNED, after the next render or after messages that
\* were handled in between: the game is shown, also when it was reset.
SwitchView ==
  /\ page.switches > 0
  /\ page' = [page EXCEPT !.switches = @ - 1, !.view = "game"]
  /\ UNCHANGED <<srv, chan, online, at, answers, call, owner, faults>>

-----------------------------------------------------------------------------
(* Answers and the page's own handlers.                                    *)

\* Mutant of FetchRoom: the room of the player is not taken over.
FetchRoomNoSide(a) ==
  /\ a \in answers /\ a.kind = "fetch"
  /\ answers' = answers \ {a}
  /\ page' = [FromRoom(page, a.room) EXCEPT !.side = page.side]
  /\ UNCHANGED <<srv, chan, online, at, call, owner, faults>>

\* fetchRoom.
FetchRoom(a) ==
  /\ a \in answers /\ a.kind = "fetch"
  /\ answers' = answers \ {a}
  /\ page' = FromRoom(page, a.room)
  /\ UNCHANGED <<srv, chan, online, at, call, owner, faults>>

\* The room at the end of an animation: only the player's place, if it has one.
SetLists(a) ==
  /\ a \in answers /\ a.kind = "moved"
  /\ answers' = answers \ {a}
  /\ page' = [page EXCEPT !.side = IF a.room.side # None THEN a.room.side ELSE @]
  /\ UNCHANGED <<srv, chan, online, at, call, owner, faults>>

\* handleStartGame and handleResetGame up to their requests.
ClickStart ==
  /\ StartOffered /\ call = None
  /\ page' = [page EXCEPT !.starting = TRUE]
  /\ call' = "START"
  /\ UNCHANGED <<srv, chan, online, at, answers, owner, faults>>

ClickReset ==
  /\ ResetOffered /\ call = None
  /\ page' = [page EXCEPT !.resetting = TRUE]
  /\ call' = "RESET"
  /\ UNCHANGED <<srv, chan, online, at, answers, owner, faults>>

\* The server refuses the request, because of the status of the room.
CallFails ==
  /\ \/ call = "START" /\ srv.status # "WAITING"
     \/ call = "RESET" /\ srv.status # "IN_PROGRESS"
  /\ call' = None
  /\ page' = IF call = "START" THEN [page EXCEPT !.starting = FALSE]
             ELSE [page EXCEPT !.resetting = FALSE]
  /\ UNCHANGED <<srv, chan, online, at, answers, owner, faults>>

\* The card of the role, full screen, and back.
ShowRole ==
  /\ GameShown /\ page' = [page EXCEPT !.view = "reveal"]
  /\ UNCHANGED <<srv, chan, online, at, answers, call, owner, faults>>

CloseRole ==
  /\ RoleShown /\ page' = [page EXCEPT !.view = "game"]
  /\ UNCHANGED <<srv, chan, online, at, answers, call, owner, faults>>

\* A card without a role leads back to where the room is.
Redirect ==
  /\ CardShown /\ ~RoleShown
  /\ page' = [page EXCEPT !.view = IF page.status = "IN_PROGRESS" THEN "game" ELSE "lobby"]
  /\ UNCHANGED <<srv, chan, online, at, answers, call, owner, faults>>

-----------------------------------------------------------------------------
(* What goes wrong.                                                        *)

Fault == faults < MaxFaults /\ faults' = faults + 1

\* Two messages come before the page renders: only the later is lastMessage.
Overwrite ==
  /\ Fault
  /\ Len(chan) >= 2
  /\ chan' = Tail(chan)
  /\ UNCHANGED <<srv, online, at, answers, page, call, owner>>

\* The connection is lost, with what was on its way.
Disconnect ==
  /\ Fault
  /\ online
  /\ online' = FALSE /\ chan' = <<>>
  /\ UNCHANGED <<srv, at, answers, page, call, owner>>

\* The user loads the page again: its address, with the view, stays.
Reload ==
  /\ Fault
  /\ at # "OUT"
  /\ at' = "OUT" /\ answers' = {}
  /\ online' = FALSE /\ chan' = <<>>
  /\ page' = FreshPage(page.view)
  /\ call' = None
  /\ UNCHANGED <<srv, owner>>

-----------------------------------------------------------------------------
PageNext ==
  \/ StartGame \/ Exchange \/ Reveal \/ ResetGame
  \/ \E kind \in Kinds : GetRoom(kind)
  \/ Enter \/ Register
  \/ \E a \in answers : LoadRoom(a) \/ FetchRoom(a) \/ SetLists(a)
  \/ LoadRound
  \/ Receive \/ SwitchView
  \/ ClickStart \/ ClickReset \/ CallFails
  \/ ShowRole \/ CloseRole \/ Redirect
  \/ Overwrite \/ Disconnect \/ Reload

PageSpec == PageInit /\ [][PageNext]_pageVars

\* A step of the page that is due and comes once.
Due ==
  \/ Enter \/ Register \/ LoadRound \/ \E a \in answers : LoadRoom(a)
  \/ Receive \/ SwitchView \/ Redirect

\* The browser does what is due, the page polls the room, the server answers, and
\* an answer arrives.  Nobody has to play, to click or to leave.
PageFairness ==
  /\ WF_pageVars(Due)
  /\ \A kind \in {"fetch", "load"} : SF_pageVars(GetRoom(kind))
  /\ WF_pageVars(\E a \in answers : FetchRoom(a))
  /\ WF_pageVars(\E a \in answers : SetLists(a))

PageFairSpec == PageSpec /\ PageFairness

-----------------------------------------------------------------------------
(* Properties.                                                             *)

\* A page that was given its role by ROLE_ASSIGNED keeps a role and a place until
\* GAME_RESET, and it is out of the lobby or a callback is about to lead it out,
\* whatever older answers of the poll, of initializeRoom and of an animation still
\* arrive and whichever messages were lost (RoomPage.tsx:150-165, 244-251, 321-323,
\* 460-485, 505-521, 921).
AssignedIsInGame ==
  page.roleDone =>
    /\ page.role # 0 /\ page.side # None
    /\ page.view # "lobby" \/ page.switches > 0

\* The poll brings the page its role and its room, whatever was lost and in
\* whatever order the answers come, once the server is at rest.
CatchesUp ==
  <>[](srv.status = "IN_PROGRESS" =>
         page.role = srv.game /\ page.side = srv.side)

\* While nothing goes wrong, a page that is sent the start of a game comes to
\* show that game and is not led back to the lobby by an answer or a message
\* that is late, as long as the game is not reset (RoomPage.tsx:450-456).
StartIsSeen ==
  (\E i \in DOMAIN chan : chan[i].type = "GAME_STARTED")
    ~> [](page.view # "lobby" \/ srv.status = "WAITING" \/ chan # <<>> \/ faults > 0)

=============================================================================
