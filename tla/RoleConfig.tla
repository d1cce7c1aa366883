----------------------------- MODULE RoleConfig -----------------------------
(***************************************************************************)
(* From the page on which a room's roles are chosen (RoleConfigPage.tsx)   *)
(* to the roles its games deal: CreateRoom, the joins that fill the room,  *)
(* and StartGame with its two ways to assign roles, AssignRolesWithConfig  *)
(* and, when that fails, AssignRoles.                                      *)
(*                                                                         *)
(* Players are counted, not named: shuffles decide who gets a role, not    *)
(* how many do.  Teams are the teams of the roles.                         *)
(***************************************************************************)
EXTENDS Integers, FiniteSets

CONSTANTS
  BlueRoles, RedRoles, GreyRoles, \* the roles of all-roles.json, by team
  MinPlayers,  \* 6, on the page and on the server
  MaxPlayers,  \* 30, on the server only
  MinRoles,    \* 4, on the page only
  ManyPlayers, \* 10, from which AssignRoles deals two spies of a team
  MaxCount,    \* 99, the most players of a role the page lets choose
  MaxJoins,    \* bound: calls of JoinRoom that overlap
  MaxRooms,    \* bound: rooms the page asks for
  MaxGames     \* bound: games started in a room

Roles    == BlueRoles \cup RedRoles \cup GreyRoles
Required == {"PRESIDENT", "BOMBER"}

\* The roles AssignRoles deals.
Hardcoded == {"PRESIDENT", "BLUE_SPY", "BLUE_OPERATIVE",
              "BOMBER", "RED_SPY", "RED_OPERATIVE"}

Dealable == Roles \cup Hardcoded

ASSUME RoleConfigAssumption ==
  /\ {"PRESIDENT", "BLUE_TEAM"} \subseteq BlueRoles /\ "BOMBER" \in RedRoles
  /\ BlueRoles \cap RedRoles = {} /\ GreyRoles \cap (BlueRoles \cup RedRoles) = {}
  /\ IsFiniteSet(Roles)
  /\ MinPlayers \in Nat \ {0, 1} /\ MaxPlayers \in Nat /\ MinPlayers <= MaxPlayers
  /\ MinRoles \in Nat /\ ManyPlayers \in Nat
  /\ MaxCount \in Nat \ {0} /\ MaxJoins \in Nat \ {0}
  /\ MaxRooms \in Nat \ {0} /\ MaxGames \in Nat

VARIABLES
  page,    \* the page of the visitor who makes the room
  request, \* its request for a room, and the answer
  room,    \* the room on the server
  joining, \* calls of JoinRoom that have found a seat
  dealt    \* how many players have each role

vars == <<page, request, room, joining, dealt>>

\* The places for players that the counts c give to the roles of S: sums of
\* counts are numbers of places.
Places(c, S) == UNION {{r} \X (1 .. c[r]) : r \in S}

\* How many players each role is chosen for; 0 for a role not chosen.
Selections  == [Roles -> 0 .. MaxCount]
Total(c) == Cardinality(Places(c, Roles))
Chosen(c) == {r \in Roles : c[r] > 0}
Size(c)  == Cardinality(Chosen(c))
Nothing  == [r \in Roles |-> 0]
NoDeal   == [r \in Dealable |-> 0]
NoRoom   == [status |-> "NONE", chosen |-> Nothing, max |-> 0, players |-> 0, games |-> 0]

\* More players than seats come from calls of JoinRoom that overlap: all but one
\* of them may be too many.
MostPlayers == MaxPlayers + MaxJoins - 1

TypeOK ==
  /\ page \in [at: {"LOADING", "READY", "NO ROLES", "LEFT"}, selected: Selections,
               creating: BOOLEAN, asked: 0 .. MaxRooms]
  /\ request \in [state: {"NONE", "SENT", "CREATED", "REFUSED"}, chosen: Selections]
  /\ room \in [status: {"NONE", "WAITING", "IN_PROGRESS", "REVEALING", "GONE"},
               chosen: Selections, max: 0 .. MaxPlayers,
               players: 0 .. MostPlayers, games: 0 .. MaxGames]
  /\ joining \in 0 .. MaxJoins
  /\ dealt \in [Dealable -> 0 .. MostPlayers]

NoRequest == [state |-> "NONE", chosen |-> Nothing]

Init ==
  /\ page = [at |-> "LOADING", selected |-> Nothing, creating |-> FALSE, asked |-> 0]
  /\ request = NoRequest
  /\ room = NoRoom
  /\ joining = 0
  /\ dealt = NoDeal

-----------------------------------------------------------------------------
(* The page.                                                               *)

\* loadRoles, with the required roles chosen; or without the roles, when they
\* cannot be had, and then nothing can be chosen.
LoadRoles ==
  /\ page.at = "LOADING"
  /\ \/ page' = [page EXCEPT !.at = "READY",
                   !.selected = [r \in Roles |-> IF r \in Required THEN 1 ELSE 0]]
     \/ page' = [page EXCEPT !.at = "NO ROLES"]
  /\ UNCHANGED <<request, room, joining, dealt>>

\* The cards of the required roles take no clicks.
Clickable(r) == page.at = "READY" /\ r \notin Required

\* The counts that the buttons on the card of a chosen role set: the one that
\* takes away is disabled at 1, the one that adds never is.
Counts(r) ==
  IF ~Clickable(r) \/ page.selected[r] = 0 THEN {}
  ELSE IF page.selected[r] = 1 THEN {2}
  ELSE {page.selected[r] - 1, page.selected[r] + 1}

\* Mutant: every role can be clicked away.
ToggleAnyRole(r) ==
  /\ page.at = "READY"
  /\ page' = [page EXCEPT !.selected[r] = IF @ > 0 THEN 0 ELSE 1]
  /\ UNCHANGED <<request, room, joining, dealt>>

\* toggleRole, a click on the card of a role.
ToggleRole(r) ==
  /\ Clickable(r)
  /\ page' = [page EXCEPT !.selected[r] = IF @ > 0 THEN 0 ELSE 1]
  /\ UNCHANGED <<request, room, joining, dealt>>

\* updateRoleCount, from one of those buttons.
UpdateRoleCount(r, count) ==
  /\ count \in Counts(r)
  /\ count <= MaxCount
  /\ page' = [page EXCEPT !.selected[r] = count]
  /\ UNCHANGED <<request, room, joining, dealt>>

\* The button that makes the room.
CreateOffered ==
  /\ page.at = "READY" /\ ~page.creating
  /\ Size(page.selected) >= MinRoles /\ Total(page.selected) >= MinPlayers

\* handleCreateRoom sends the choice as it is now.
HandleCreateRoom ==
  /\ CreateOffered /\ page.asked < MaxRooms
  /\ page' = [page EXCEPT !.creating = TRUE, !.asked = @ + 1]
  /\ request' = [state |-> "SENT", chosen |-> page.selected]
  /\ UNCHANGED <<room, joining, dealt>>

\* The answer: on to the room, or the button is back.
HandleAnswer ==
  /\ request.state \in {"CREATED", "REFUSED"}
  /\ page' = IF request.state = "CREATED"
             THEN [page EXCEPT !.at = "LEFT", !.selected = Nothing, !.creating = FALSE]
             ELSE [page EXCEPT !.creating = FALSE]
  /\ request' = NoRequest
  /\ UNCHANGED <<room, joining, dealt>>

\* It got lost.  A room that was made is still there, empty, and is not looked
\* at any more.
LoseAnswer ==
  /\ request.state \in {"CREATED", "REFUSED"}
  /\ page' = [page EXCEPT !.creating = FALSE]
  /\ request' = NoRequest
  /\ room' = NoRoom /\ joining' = 0 /\ dealt' = NoDeal

\* The button that leads back to the home page, disabled like the other.
BackToHome ==
  /\ page.at \in {"READY", "NO ROLES"} /\ ~page.creating
  /\ page' = [page EXCEPT !.at = "LEFT", !.selected = Nothing]
  /\ UNCHANGED <<request, room, joining, dealt>>

-----------------------------------------------------------------------------
(* The room.                                                               *)

\* Mutant: the server does not limit the seats.
CreateAnyRoom ==
  /\ request.state = "SENT"
  /\ request' = [request EXCEPT !.state = "CREATED"]
  /\ room' = [NoRoom EXCEPT !.status = "WAITING", !.chosen = request.chosen,
                            !.max = Total(request.chosen)]
  /\ UNCHANGED <<page, joining, dealt>>

\* CreateRoom: as many seats as the roles are for, if that is allowed.
CreateRoom ==
  /\ request.state = "SENT"
  /\ IF Total(request.chosen) \in MinPlayers .. MaxPlayers
     THEN /\ request' = [request EXCEPT !.state = "CREATED"]
          /\ room' = [NoRoom EXCEPT !.status = "WAITING", !.chosen = request.chosen,
                                    !.max = Total(request.chosen)]
     ELSE request' = [request EXCEPT !.state = "REFUSED"] /\ UNCHANGED room
  /\ UNCHANGED <<page, joining, dealt>>

\* JoinRoom finds a seat and no game going on.
FindSeat ==
  /\ room.status \in {"WAITING", "REVEALING"} /\ room.players < room.max
  /\ joining < MaxJoins
  /\ joining' = joining + 1
  /\ UNCHANGED <<page, request, room, dealt>>

\* It appends its player, whatever has happened since; of some that append at
\* once all may be in the room afterwards, or only one.
TakeSeat ==
  /\ joining > 0 /\ room.status # "GONE"
  /\ \E n \in 1 .. joining : joining' = joining - n
  /\ room' = [room EXCEPT !.players = @ + 1]
  /\ UNCHANGED <<page, request, dealt>>

\* LeaveRoom: in a game the player stays; an owner's leaving, or the last
\* player's, deletes the room.
LeaveRoom ==
  /\ room.status \in {"WAITING", "REVEALING"} /\ room.players > 0
  /\ \/ room.players > 1 /\ room' = [room EXCEPT !.players = @ - 1] /\ UNCHANGED dealt
     \/ room' = [NoRoom EXCEPT !.status = "GONE"] /\ dealt' = NoDeal
  /\ UNCHANGED <<page, request, joining>>

\* The players of the roles of a team, as chosen.
TeamCount(c, team) == Cardinality(Places(c, team))

\* AssignRolesWithConfig for n players, which fails when the roles are more.
\* The players not needed for grey and red roles are blue, and assignTeamRoles
\* fills a team up with its operative, BLUE_TEAM.
ConfigFails(c, n) == Total(c) > n

\* Mutant: teams are not filled up.
ConfigDealAsChosen(c, n) == [r \in Dealable |-> IF r \in Roles THEN c[r] ELSE 0]

ConfigDeal(c, n) ==
  LET blue == n - TeamCount(c, GreyRoles) - TeamCount(c, RedRoles)
      rest == blue - TeamCount(c, BlueRoles)
  IN  [r \in Dealable |->
         (IF r \in Roles THEN c[r] ELSE 0) + (IF r = "BLUE_TEAM" THEN rest ELSE 0)]

\* AssignTeams and AssignRoles: half of the players are blue, the others red.
HardcodedDeal(n) ==
  LET blue == n \div 2
      red  == n - blue
      spies(team) == IF n >= ManyPlayers THEN IF team - 1 < 2 THEN team - 1 ELSE 2
                     ELSE IF team - 1 < 1 THEN team - 1 ELSE 1
  IN  [r \in Dealable |->
         CASE r \in Required       -> 1
           [] r = "BLUE_SPY"       -> spies(blue)
           [] r = "RED_SPY"        -> spies(red)
           [] r = "BLUE_OPERATIVE" -> blue - 1 - spies(blue)
           [] r = "RED_OPERATIVE"  -> red - 1 - spies(red)
           [] OTHER                -> 0]

\* StartGame.
StartGame ==
  /\ room.status \in {"WAITING", "REVEALING"} /\ room.games < MaxGames
  /\ room.players >= MinPlayers
  /\ dealt' = IF ConfigFails(room.chosen, room.players)
              THEN HardcodedDeal(room.players)
              ELSE ConfigDeal(room.chosen, room.players)
  /\ room' = [room EXCEPT !.status = "IN_PROGRESS", !.games = @ + 1]
  /\ UNCHANGED <<page, request, joining>>

\* The last round ends (transitionToRevealing).
Reveal ==
  /\ room.status = "IN_PROGRESS"
  /\ room' = [room EXCEPT !.status = "REVEALING"]
  /\ UNCHANGED <<page, request, joining, dealt>>

\* ResetGame takes the roles back.
ResetGame ==
  /\ room.status = "IN_PROGRESS"
  /\ room' = [room EXCEPT !.status = "WAITING"]
  /\ dealt' = NoDeal
  /\ UNCHANGED <<page, request, joining>>

Next ==
  \/ LoadRoles \/ HandleCreateRoom \/ HandleAnswer \/ LoseAnswer \/ BackToHome
  \/ \E r \in Roles :
       ToggleRole(r) \/ \E count \in 0 .. MaxCount : UpdateRoleCount(r, count)
  \/ CreateRoom \/ FindSeat \/ TakeSeat \/ LeaveRoom
  \/ StartGame \/ Reveal \/ ResetGame

Spec == Init /\ [][Next]_vars

-----------------------------------------------------------------------------
(* Properties.                                                             *)

\* A game is going on.
Playing == room.status = "IN_PROGRESS"

\* RoleConfigPage.tsx:50-55, 66-71 and game_service.go:164-285: whatever was
\* clicked, whoever joined, left or overlapped, and whichever way the roles were
\* assigned, a game has one President and one Bomber.
OnePresidentOneBomber == Playing => \A r \in Required : dealt[r] = 1

\* The players the roles were dealt to.
DealtTo == Cardinality(Places(dealt, Dealable))

\* game_service.go:288-389: a game starts with a role for each of its players,
\* also for those of a room that overlapping joins made too full.  (Whoever takes
\* the seat it found before after that has none.)
EverybodyHasARole == [][~Playing /\ Playing' => DealtTo' = room.players]_vars

=============================================================================
