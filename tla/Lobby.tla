------------------------------- MODULE Lobby --------------------------------
(***************************************************************************)
(* The way of one visitor from the list of open rooms on the home page     *)
(* (HomePage.tsx, RoomList.tsx) into a room (initializeRoom of             *)
(* RoomPage.tsx), the waiting room with its list of players and the        *)
(* editor of the nickname, and the way out again, against PlayerService    *)
(* and the other visitors.                                                 *)
(*                                                                         *)
(* There is one public room.  A request is answered by the room as it is   *)
(* at that moment, and the answer is applied later; the request to leave   *)
(* is sent after the page has gone (handleBackToHome) and may be slow.     *)
(* What the room's creator chose is RoleConfig, a game is RoomPage.        *)
(***************************************************************************)
EXTENDS Integers, Sequences, FiniteSets

CONSTANTS
  MaxPlayers, \* the size of the room
  MaxJoins,   \* bound: players that ever join
  MaxQueue,   \* bound: messages on their way to the page
  MaxFaults   \* bound: reloads, lost connections, lost messages, failed requests

ASSUME LobbyAssumption ==
  /\ MaxPlayers \in Nat \ {0} /\ MaxJoins \in Nat \ {0}
  /\ MaxQueue \in Nat \ {0} /\ MaxFaults \in Nat

Ids    == 1 .. MaxJoins   \* the players' ids, in the order of their joins
Nobody == 0

VARIABLES
  srv,     \* the room on the server
  chan,    \* the messages on their way to the page
  online,  \* the page's socket is registered with the hub
  home,    \* the list of rooms on the home page
  page,    \* the visitor's page
  stored,  \* localStorage: the player id for this room
  polls,   \* the answers to the poll of the room on their way
  rename,  \* the last request to change the nickname, and its answer
  leaving, \* the players whose request to leave is on its way
  raced,   \* history: a join of the page was lost, or its leaving came late
  faults   \* history: faults so far

vars == <<srv, chan, online, home, page, stored, polls, rename, leaving, raced, faults>>

-----------------------------------------------------------------------------
(* The values.                                                             *)

\* The nickname of the page's player: the one the room gave it, the one it
\* chose, or that with the suffix that keeps it apart from another's.
Names == {"ANONYMOUS", "CHOSEN", "CHOSEN (2)"}
NoName == "NONE"

\* No answer to the poll: not a set of players.
NoPoll == {Nobody}

\* A message; of those about nicknames the ones about the page's player.
Message ==
  [type: {"PLAYER_JOINED", "PLAYER_LEFT"}, id: Ids]
  \cup [type: {"NICKNAME_CHANGED"}, name: Names]
  \cup [type: {"GAME_STARTED"}]

\* The room in the list: not there, with a seat, or full.
Offers == {"NONE", "OPEN", "FULL"}

TypeOK ==
  /\ srv \in [status: {"WAITING", "IN_PROGRESS", "GONE"}, players: SUBSET Ids, owners: SUBSET Ids,
              name: Names \cup {NoName}, joins: 0 .. MaxJoins]
  /\ chan \in Seq(Message) /\ Len(chan) <= MaxQueue
  /\ online \in BOOLEAN /\ (~online => chan = <<>>)
  /\ home \in [offer: Offers, loading: BOOLEAN, error: BOOLEAN, visible: BOOLEAN,
               answer: Offers \cup {"NO ANSWER"}]
  /\ page \in [at: {"HOME", "ENTERING", "LOADING", "LOBBY", "GAME", "ERROR"},
               self: {Nobody} \cup Ids, name: Names \cup {NoName}, list: SUBSET Ids]
  /\ stored \in {Nobody} \cup Ids
  /\ polls \in {NoPoll} \cup SUBSET Ids
  /\ rename \in [state: {"NO", "SENT", "DONE", "LATE", "UNTOLD"}, of: {Nobody} \cup Ids,
                 name: Names \cup {NoName}]
  /\ leaving \subseteq Ids
  /\ raced \in BOOLEAN
  /\ faults \in 0 .. MaxFaults

NoRename  == [state |-> "NO", of |-> Nobody, name |-> NoName]
FreshHome == [offer |-> "NONE", loading |-> TRUE, error |-> FALSE, visible |-> TRUE,
              answer |-> "NO ANSWER"]
PageAt(place) == [at |-> place, self |-> Nobody, name |-> NoName, list |-> {}]

\* A visitor on the home page, or one sent into the room just created, which
\* has no player yet.
Init ==
  /\ srv = [status |-> "WAITING", players |-> {}, owners |-> {},
            name |-> NoName, joins |-> 0]
  /\ chan = <<>> /\ online = FALSE
  /\ home = FreshHome
  /\ \E place \in {"HOME", "ENTERING"} : page = PageAt(place)
  /\ stored = Nobody /\ polls = NoPoll /\ rename = NoRename /\ leaving = {}
  /\ raced = FALSE /\ faults = 0

-----------------------------------------------------------------------------
(* The server.                                                             *)

Present == srv.players
Exists  == srv.status # "GONE"
Inside  == page.at \in {"LOADING", "LOBBY"}

\* The hub queues the message m for the page, when it is registered.
Send(m) ==
  IF online THEN Len(chan) < MaxQueue /\ chan' = Append(chan, m)
  ELSE UNCHANGED chan

\* JoinRoom lets the players of new in, who all looked at the room before one
\* of them was appended; two appends at once may lose one of the two.
Joins(new, kept, name) ==
  /\ srv.status = "WAITING" /\ Cardinality(Present) < MaxPlayers
  /\ new # {} /\ new \subseteq Ids
  /\ new = (srv.joins + 1) .. (srv.joins + Cardinality(new))
  /\ kept # {} /\ kept \subseteq new
  /\ srv' = [srv EXCEPT
       !.joins   = @ + Cardinality(new),
       !.players = @ \cup kept,
       !.name    = name,
       !.owners  = IF Present = {} THEN @ \cup new ELSE @]

\* One of the others joins.  (Two others at once are RoleConfig's.)
OtherJoins ==
  /\ \E i \in Ids :
       /\ Joins({i}, {i}, srv.name)
       /\ Send([type |-> "PLAYER_JOINED", id |-> i])
  /\ UNCHANGED <<online, home, page, stored, polls, rename, leaving, raced, faults>>

\* Mutant: an owner leaves like everybody else.
LeavesLikeOthers(i) ==
  IF srv.status = "IN_PROGRESS"
  THEN UNCHANGED srv /\ Send([type |-> "PLAYER_LEFT", id |-> i])
  ELSE IF Present = {i}
  THEN srv' = [srv EXCEPT !.status = "GONE"] /\ UNCHANGED chan
  ELSE srv' = [srv EXCEPT !.players = @ \ {i}] /\ Send([type |-> "PLAYER_LEFT", id |-> i])

\* What LeaveRoom does for player i, one of the room: in a game it only tells
\* the others, the leaving of an owner and of the last player deletes the room
\* (the page has no case for the message ROOM_CLOSED).
Leaves(i) ==
  IF srv.status = "IN_PROGRESS"
  THEN UNCHANGED srv /\ Send([type |-> "PLAYER_LEFT", id |-> i])
  ELSE IF i \in srv.owners \/ Present = {i}
  THEN srv' = [srv EXCEPT !.status = "GONE"] /\ UNCHANGED chan
  ELSE srv' = [srv EXCEPT !.players = @ \ {i}] /\ Send([type |-> "PLAYER_LEFT", id |-> i])

\* One of the others leaves.
OtherLeaves ==
  /\ \E i \in Present \ {page.self, stored} : Exists /\ i \notin leaving /\ Leaves(i)
  /\ UNCHANGED <<online, home, page, stored, polls, rename, leaving, raced, faults>>

\* LeaveRoom for the visitor, asked for when its page had gone already.  It is
\* late when the page has found itself in the room again meanwhile.
LeaveRoom(i) ==
  /\ i \in leaving
  /\ leaving' = leaving \ {i}
  /\ IF Exists /\ i \in Present THEN Leaves(i) ELSE UNCHANGED <<srv, chan>>
  /\ raced' = (raced \/ (Inside /\ page.self = i))
  /\ UNCHANGED <<online, home, page, stored, polls, rename, faults>>

\* The request to leave is lost, which the code does not mind: the player stays.
LeavingIsLost ==
  /\ leaving # {} /\ faults < MaxFaults
  /\ leaving' = {}
  /\ faults' = faults + 1
  /\ UNCHANGED <<srv, chan, online, home, page, stored, polls, rename, raced>>

\* The hub tells the room that the socket of one of the others was closed; the
\* player stays in the room.  (PLAYER_DISCONNECTED, handled as PLAYER_LEFT.)
OtherDisconnects ==
  /\ faults < MaxFaults /\ online /\ Exists
  /\ \E i \in Present \ {page.self} : Send([type |-> "PLAYER_LEFT", id |-> i])
  /\ faults' = faults + 1
  /\ UNCHANGED <<srv, online, home, page, stored, polls, rename, leaving, raced>>

\* A game is started in the room, and reset later on.  (GAME_RESET sends a page
\* to the waiting room, where one that missed GAME_STARTED is.)
PlayGame ==
  /\ Present # {}
  /\ \/ /\ srv.status = "WAITING"
        /\ srv' = [srv EXCEPT !.status = "IN_PROGRESS"]
        /\ Send([type |-> "GAME_STARTED"])
     \/ /\ srv.status = "IN_PROGRESS"
        /\ srv' = [srv EXCEPT !.status = "WAITING"]
        /\ UNCHANGED chan
  /\ UNCHANGED <<online, home, page, stored, polls, rename, leaving, raced, faults>>

-----------------------------------------------------------------------------
(* The home page.                                                          *)

\* The waiting room as ListPublicRooms gives it, and as listRooms counts it.
Offered ==
  IF srv.status # "WAITING" THEN "NONE"
  ELSE IF Cardinality(Present) < MaxPlayers THEN "OPEN" ELSE "FULL"

\* The buttons of the list: one to look again, one to retry after an error.
RefreshShown == home.offer # "NONE" /\ ~home.loading
RetryShown   == home.offer = "NONE" /\ home.error /\ ~home.loading

\* Mutant: no further answer is asked for after an error.
FetchRoomsUnlessError ==
  /\ page.at = "HOME" /\ home.answer = "NO ANSWER"
  /\ home.visible /\ ~home.error
  /\ home' = [home EXCEPT !.answer = Offered]
  /\ UNCHANGED <<srv, chan, online, page, stored, polls, rename, leaving, raced, faults>>

\* fetchRooms asks: when the list appears, and every five seconds while the tab
\* is visible.
FetchRooms ==
  /\ page.at = "HOME" /\ home.answer = "NO ANSWER"
  /\ home.visible
  /\ home' = [home EXCEPT !.answer = Offered]
  /\ UNCHANGED <<srv, chan, online, page, stored, polls, rename, leaving, raced, faults>>

\* handleManualRefresh and handleRetry ask as well.
ClickRefresh ==
  /\ page.at = "HOME" /\ home.answer = "NO ANSWER"
  /\ RefreshShown \/ RetryShown
  /\ home' = [home EXCEPT !.answer = Offered, !.loading = TRUE,
                          !.error = @ /\ ~RetryShown]
  /\ UNCHANGED <<srv, chan, online, page, stored, polls, rename, leaving, raced, faults>>

\* The answer to it.
SetRooms ==
  /\ home.answer # "NO ANSWER"
  /\ home' = [home EXCEPT !.offer = home.answer, !.error = FALSE, !.loading = FALSE,
                          !.answer = "NO ANSWER"]
  /\ UNCHANGED <<srv, chan, online, page, stored, polls, rename, leaving, raced, faults>>

\* It failed: the rooms of the last answer stay in the list.
FetchRoomsFails ==
  /\ home.answer # "NO ANSWER" /\ faults < MaxFaults
  /\ home' = [home EXCEPT !.error = TRUE, !.loading = FALSE, !.answer = "NO ANSWER"]
  /\ faults' = faults + 1
  /\ UNCHANGED <<srv, chan, online, page, stored, polls, rename, leaving, raced>>

\* The visitor turns to another tab, or comes back.
ChangeVisibility ==
  /\ page.at = "HOME"
  /\ home' = [home EXCEPT !.visible = ~@]
  /\ UNCHANGED <<srv, chan, online, page, stored, polls, rename, leaving, raced, faults>>

\* The way to the room: nothing looks at it again before its page does.
GoToRoom ==
  /\ page' = PageAt("ENTERING")
  /\ home' = FreshHome
  /\ UNCHANGED <<srv, chan, online, stored, polls, rename, leaving, raced, faults>>

\* The button of a room in the list: one without a seat has it disabled.
JoinOffered == page.at = "HOME" /\ home.offer = "OPEN"

HandleJoinFromList == JoinOffered /\ GoToRoom

\* The code of a room typed in, at any time.
HandleJoinRoom == page.at = "HOME" /\ GoToRoom

-----------------------------------------------------------------------------
(* The page of the room.                                                   *)

\* Mutant: the stored player is believed to be in the room.
UseStoredPlayer ==
  /\ page.at = "ENTERING" /\ Exists
  /\ stored # Nobody
  /\ page' = [page EXCEPT !.at = "LOADING", !.self = stored, !.name = srv.name]
  /\ raced' = FALSE
  /\ UNCHANGED <<srv, chan, online, home, stored, polls, rename, leaving, faults>>

\* initializeRoom finds the stored player among those of the room.
UseExistingPlayer ==
  /\ page.at = "ENTERING" /\ Exists
  /\ stored \in Present
  /\ page' = [page EXCEPT !.at = "LOADING", !.self = stored, !.name = srv.name]
  /\ raced' = FALSE
  /\ UNCHANGED <<srv, chan, online, home, stored, polls, rename, leaving, faults>>

\* It joins: alone, or at the same moment as another visitor.
JoinRoom ==
  /\ page.at = "ENTERING"
  /\ stored \notin Present
  /\ \E me \in Ids : \E new, kept \in SUBSET {me - 1, me, me + 1} :
       /\ me \in new /\ Cardinality(new) <= 2 /\ Joins(new, kept, "ANONYMOUS")
       /\ page' = [page EXCEPT !.at = "LOADING", !.self = me, !.name = "ANONYMOUS"]
       /\ stored' = me
       /\ raced' = (me \notin kept)
  /\ UNCHANGED <<chan, online, home, polls, rename, leaving, faults>>

\* There is no such room, no seat in it, or a game is going on.
EnterFails ==
  /\ page.at = "ENTERING"
  /\ \/ ~Exists
     \/ stored \notin Present /\ (srv.status # "WAITING" \/ Cardinality(Present) >= MaxPlayers)
  /\ page' = [page EXCEPT !.at = "ERROR"]
  /\ UNCHANGED <<srv, chan, online, home, stored, polls, rename, leaving, raced, faults>>

\* What is dropped with a page: its socket, and the answers it waits for.  A new
\* nickname it has asked for still reaches the server, LATE.
DropPage ==
  /\ chan' = <<>> /\ online' = FALSE
  /\ polls' = NoPoll
  /\ rename' = IF rename.state \in {"SENT", "LATE"} THEN [rename EXCEPT !.state = "LATE"]
               ELSE NoRename

\* The second look at the room; a game takes the page to RoomPage.
LoadRoom ==
  /\ page.at = "LOADING"
  /\ IF srv.status = "WAITING"
     THEN page' = [page EXCEPT !.at = "LOBBY", !.list = Present]
          /\ UNCHANGED <<chan, online, polls, rename>>
     ELSE page' = (IF Exists THEN PageAt("GAME") ELSE [page EXCEPT !.at = "ERROR"])
          /\ DropPage
  /\ UNCHANGED <<srv, home, stored, leaving, raced, faults>>

\* The socket is opened as soon as the page knows its player.
Connect ==
  /\ Inside /\ ~online
  /\ online' = TRUE
  /\ UNCHANGED <<srv, chan, home, page, stored, polls, rename, leaving, raced, faults>>

\* Mutant: the room is asked for only while the socket is open.
PollOnline ==
  /\ Inside /\ Exists /\ polls = NoPoll /\ online
  /\ polls' = Present
  /\ UNCHANGED <<srv, chan, online, home, page, stored, rename, leaving, raced, faults>>

\* The poll of the room every three seconds; of a room that is gone it fails,
\* which only the console is told.
Poll ==
  /\ Inside /\ Exists /\ polls = NoPoll
  /\ polls' = Present
  /\ UNCHANGED <<srv, chan, online, home, page, stored, rename, leaving, raced, faults>>

\* fetchRoom takes the players over.
FetchRoom ==
  /\ polls # NoPoll
  /\ page' = [page EXCEPT !.list = polls]
  /\ polls' = NoPoll
  /\ UNCHANGED <<srv, chan, online, home, stored, rename, leaving, raced, faults>>

\* The effect of a message, once there is a room in the page.
Handled(p, m) ==
  CASE m.type = "PLAYER_JOINED" -> [p EXCEPT !.list = @ \cup {m.id}]
    [] m.type = "PLAYER_LEFT" -> [p EXCEPT !.list = @ \ {m.id}]
    [] m.type = "NICKNAME_CHANGED" -> [p EXCEPT !.name = m.name]

\* The page handles the next message; a game takes it to RoomPage.
Receive ==
  /\ chan # <<>> /\ page.at = "LOBBY"
  /\ IF Head(chan).type = "GAME_STARTED"
     THEN page' = PageAt("GAME") /\ DropPage
     ELSE /\ page' = Handled(page, Head(chan))
          /\ chan' = Tail(chan)
          /\ UNCHANGED <<online, polls, rename>>
  /\ UNCHANGED <<srv, home, stored, leaving, raced, faults>>

\* A message is lost: the client's buffer is full, the next message replaces it
\* before the page has seen it, or the page's room is not there yet.
LoseMessage ==
  /\ chan # <<>>
  /\ IF page.at = "LOADING" THEN UNCHANGED faults
     ELSE faults < MaxFaults /\ faults' = faults + 1
  /\ chan' = Tail(chan)
  /\ UNCHANGED <<srv, online, home, page, stored, polls, rename, leaving, raced>>

\* The connection breaks.
Disconnect ==
  /\ online /\ faults < MaxFaults
  /\ online' = FALSE /\ chan' = <<>>
  /\ faults' = faults + 1
  /\ UNCHANGED <<srv, home, page, stored, polls, rename, leaving, raced>>

-----------------------------------------------------------------------------
(* The nickname, and the way out.                                          *)

\* NicknameEditor: the nickname is submitted, and nothing more until the
\* answer is there.  (Bound: nor while the request of an earlier page is LATE.)
HandleSubmit ==
  /\ page.at = "LOBBY" /\ rename.state \in {"NO", "UNTOLD"}
  /\ rename' = [state |-> "SENT", of |-> page.self, name |-> NoName]
  /\ UNCHANGED <<srv, chan, online, home, page, stored, polls, leaving, raced, faults>>

\* What the page makes of the answer to rename: nothing if the request was an
\* earlier page's; when it is in the room again it may go on UNTOLD.
Answer(final) ==
  IF rename.state = "SENT" THEN [rename EXCEPT !.state = "DONE", !.name = final]
  ELSE IF Inside THEN [rename EXCEPT !.state = "UNTOLD"] ELSE NoRename

\* UpdateNickname of the visitor's player, with a suffix when somebody else has
\* the nickname (handleDuplicateNickname), or its refusal: no room, no player.
\* (A player of the visitor who is in the room is the one last stored.)
UpdateNickname ==
  /\ rename.state \in {"SENT", "LATE"}
  /\ IF Exists /\ rename.of \in Present
     THEN \E final \in {"CHOSEN", "CHOSEN (2)"} :
            /\ srv' = [srv EXCEPT !.name = final]
            /\ Send([type |-> "NICKNAME_CHANGED", name |-> final])
            /\ rename' = Answer(final)
     ELSE rename' = NoRename /\ UNCHANGED <<srv, chan>>
  /\ UNCHANGED <<online, home, page, stored, polls, leaving, raced, faults>>

\* Mutant: the page takes the nickname typed in.
HandleNicknameTyped ==
  /\ rename.state = "DONE"
  /\ page' = [page EXCEPT !.name = "CHOSEN"]
  /\ rename' = NoRename
  /\ UNCHANGED <<srv, chan, online, home, stored, polls, leaving, raced, faults>>

\* handleNicknameUpdate takes the player of the answer over.
HandleNicknameUpdate ==
  /\ rename.state = "DONE"
  /\ page' = [page EXCEPT !.name = rename.name]
  /\ rename' = NoRename
  /\ UNCHANGED <<srv, chan, online, home, stored, polls, leaving, raced, faults>>

\* The answer is lost: the editor shows an error.
NicknameUpdateFails ==
  /\ rename.state = "DONE" /\ faults < MaxFaults
  /\ rename' = NoRename
  /\ faults' = faults + 1
  /\ UNCHANGED <<srv, chan, online, home, page, stored, polls, leaving, raced>>

\* handleBackToHome, from the waiting room or from the error: the page goes
\* first, and only then asks the server to take its player out.
HandleBackToHome ==
  /\ page.at \in {"LOBBY", "ERROR"}
  /\ leaving' = IF page.self = Nobody THEN leaving ELSE leaving \cup {page.self}
  /\ page' = PageAt("HOME")
  /\ home' = FreshHome
  /\ DropPage
  /\ UNCHANGED <<srv, stored, raced, faults>>

\* The page is loaded again.
Reload ==
  /\ Inside /\ faults < MaxFaults
  /\ page' = PageAt("ENTERING")
  /\ DropPage
  /\ faults' = faults + 1
  /\ UNCHANGED <<srv, home, stored, leaving, raced>>

Next ==
  \/ OtherJoins \/ OtherLeaves \/ OtherDisconnects \/ PlayGame
  \/ FetchRooms \/ ClickRefresh \/ SetRooms \/ FetchRoomsFails \/ ChangeVisibility
  \/ HandleJoinFromList \/ HandleJoinRoom
  \/ UseExistingPlayer \/ JoinRoom \/ EnterFails \/ LoadRoom
  \/ Connect \/ Disconnect \/ Poll \/ FetchRoom \/ Receive \/ LoseMessage
  \/ HandleSubmit \/ UpdateNickname \/ HandleNicknameUpdate \/ NicknameUpdateFails
  \/ HandleBackToHome \/ Reload
  \/ LeavingIsLost \/ \E i \in Ids : LeaveRoom(i)

Spec == Init /\ [][Next]_vars

\* The browser's timers and requests, and the server, do their work.  Nobody
\* has to join, leave, rename or play.
Fairness ==
  /\ WF_vars(FetchRooms) /\ WF_vars(SetRooms)
  /\ WF_vars(UseExistingPlayer \/ JoinRoom \/ EnterFails) /\ WF_vars(LoadRoom)
  /\ WF_vars(Poll) /\ WF_vars(FetchRoom) /\ WF_vars(Receive)
  /\ WF_vars(UpdateNickname) /\ WF_vars(HandleNicknameUpdate)
  /\ WF_vars(\E i \in Ids : LeaveRoom(i))

FairSpec == Spec /\ Fairness

-----------------------------------------------------------------------------
(* Properties.                                                             *)

\* player_service.go:52, 173: a room somebody is in has an owner in it, the only
\* one whose page offers to start a game, however joins and leavings cross.
RoomHasOwner == Exists /\ Present # {} => srv.owners \cap Present # {}

\* RoomPage.tsx:216-241: whatever player the browser has stored, one that left or
\* was never kept among them, a page in a room shows a player of that room; unless
\* its own join was lost to another's, or the leaving it asked for before it came
\* back is handled while it is there, which the code does not prevent.
StillMember == Inside /\ Exists /\ ~raced => page.self \in Present

\* RoomPage.tsx:747-754, 410-427: the answer to a change of nickname and the
\* message about it arrive in either order, and the page calls its player what
\* the room does once both are through.  (A change an earlier page asked for and
\* did not wait for may go UNTOLD.)
OwnNameIsRight ==
  Inside /\ Exists /\ ~raced /\ faults = 0 /\ rename.state = "NO"
  /\ (\A k \in DOMAIN chan : chan[k].type # "NICKNAME_CHANGED") /\ page.at # "LOADING"
    => page.name = srv.name

\* RoomPage.tsx:172-180: whatever messages were lost or came late, the list of
\* the waiting room is again and again the one of the server, as long as the
\* room exists.
LobbyCatchesUp == []<>(page.at = "LOBBY" /\ Exists => page.list = Present)

\* RoomList.tsx:57-73: a visitor looking at the home page while nobody plays is
\* again and again shown the room as it is.
ListCatchesUp ==
  <>[](page.at = "HOME" /\ home.visible /\ srv.status # "IN_PROGRESS") => []<>(home.offer = Offered)

=============================================================================
