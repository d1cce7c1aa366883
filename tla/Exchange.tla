------------------------------ MODULE Exchange ------------------------------
(***************************************************************************)
(* One game room of the server: who stands in which coloured room, who     *)
(* leads it, which hostages were chosen, and the goroutines that move the  *)
(* game on.  The module joins the parts of GameService, RoundManager,      *)
(* LeaderService and ExchangeService that write the fields of the shared   *)
(* *models.Room.                                                           *)
(*                                                                         *)
(* Only ExchangeService has a lock (es.mu).  Every other handler and       *)
(* goroutine reads and writes the room without one, so a step here is the  *)
(* piece of a handler between two places where another actor gets in       *)
(* between: a "go" statement, the next call of a chain of calls, or the    *)
(* broadcast between the checks and the writes of ExecuteExchange.         *)
(*                                                                         *)
(* Membership is fixed while a game runs (JoinRoom is refused, LeaveRoom   *)
(* keeps the player), so the players are a constant.                       *)
(***************************************************************************)
EXTENDS Integers, FiniteSets

CONSTANTS
  Players,      \* room.Players
  Nobody,       \* the empty leader ID ""
  MinPlayers,   \* players StartGame asks for (6 in the code)
  SmallGame,    \* largest player count with one hostage in every round (10)
  MediumGame,   \* largest player count with two hostages in round 1 (21)
  MaxCalls      \* bound: calls and goroutines under way when others begin

ASSUME PlayersAssumption == IsFiniteSet(Players) /\ Nobody \notin Players
ASSUME SizeAssumption ==
  /\ MinPlayers \in Nat /\ MinPlayers > 1
  /\ SmallGame \in Nat /\ MediumGame \in Nat
ASSUME BoundAssumption == MaxCalls \in Nat \ {0}

RED  == "RED_ROOM"
BLUE == "BLUE_ROOM"
NONE == "NO_ROOM"       \* CurrentRoom = "": outside a game
Colors == {RED, BLUE}
Other(c) == IF c = RED THEN BLUE ELSE RED

LastRound == 3
Rounds == 1 .. LastRound

VARIABLES
  roomStatus,  \* room.Status
  session,     \* room.GameSession: "NIL" or "SET"
  place,       \* player.CurrentRoom
  roundNo,     \* RoundState.RoundNumber, 0 when RoundState is nil
  rstatus,     \* RoundState.Status
  timer,       \* RoundState.TimeRemaining: "RUNNING" above 0, else "EXPIRED"
  leader,      \* RedLeaderID and BlueLeaderID
  hostages,    \* RedHostages and BlueHostages
  ready,       \* the rooms with RedLeaderReady, BlueLeaderReady set
  swap,        \* the ExecuteExchange that holds es.mu, past its checks: "NO" one,
               \* or whether the RoundState it captured is still the room's
  moving,      \* the hostages it captured
  admitted,    \* StartGame calls past the status check
  starts,      \* StartRound(n) calls under way, by n
  finishing,   \* AssignLeaders/PreserveLeaders calls that follow them
  exchanges,   \* ExecuteExchange goroutines waiting for es.mu
  reveals      \* transitionToRevealing goroutines

roundVars == <<roundNo, rstatus, timer, leader, hostages, ready>>
gameVars  == <<roomStatus, session, place>>
callVars  == <<admitted, starts, finishing, exchanges, reveals>>
swapVars  == <<swap, moving>>
vars == <<gameVars, roundVars, swapVars, callVars>>

-----------------------------------------------------------------------------
(* Helpers.                                                                *)

In(c) == {p \in Players : place[p] = c}
Leaders == {leader[RED], leader[BLUE]}

\* A RoundState without hostages and without ready leaders.
NoHostages == [c \in Colors |-> {}]
NoLeaders  == [c \in Colors |-> Nobody]

\* The bound: others may begin while so many calls and goroutines are under way.
UnderWay ==
  admitted + starts[1] + starts[2] + starts[3]
    + finishing["ASSIGN"] + finishing["PRESERVE"] + exchanges + reveals
Admits == UnderWay < MaxCalls

\* The RoundState, or the whole session, that an exchange under way captured
\* is replaced: its pointers go out of date.
OutdateRound ==
  /\ swap' = IF swap = "CURRENT" THEN "OLD_ROUND" ELSE swap
  /\ UNCHANGED moving
OutdateGame ==
  /\ swap' = IF swap = "NO" THEN "NO" ELSE "OLD_GAME"
  /\ UNCHANGED moving

\* The hostages each room owes in a round: one in a small game, two or three
\* in the first round of a larger one.
GetHostageCount(playerCount, roundNumber) ==
  IF playerCount <= SmallGame THEN 1
  ELSE IF playerCount <= MediumGame
       THEN IF roundNumber = 1 THEN 2 ELSE 1
       ELSE IF roundNumber \in {1, 2} THEN 4 - roundNumber ELSE 1

HostageCount == GetHostageCount(Cardinality(Players), roundNo)

\* AssignRooms: a random half of the players, the larger one red.
RedRoomSize == Cardinality(Players) - (Cardinality(Players) \div 2)
AssignRooms(red) ==
  /\ Cardinality(red) = RedRoomSize
  /\ place' = [p \in Players |-> IF p \in red THEN RED ELSE BLUE]

\* The effect of StartRound on a room whose session is not nil.  The leaders
\* of the previous RoundState are carried over; without one they are empty.
NewRound(n) ==
  /\ roundNo' = n
  /\ rstatus' = "SETUP"
  /\ timer' = "RUNNING"
  /\ hostages' = NoHostages
  /\ ready' = {}
  /\ OutdateRound
  /\ UNCHANGED leader

\* room.GameSession becomes a session without a RoundState, or nil.
DropRound ==
  /\ roundNo' = 0
  /\ rstatus' = "SETUP"
  /\ timer' = "EXPIRED"
  /\ leader' = NoLeaders
  /\ hostages' = NoHostages
  /\ ready' = {}
  /\ OutdateGame

-----------------------------------------------------------------------------
Init ==
  /\ roomStatus = "WAITING" /\ session = "NIL"
  /\ place = [p \in Players |-> NONE]
  /\ roundNo = 0 /\ rstatus = "SETUP" /\ timer = "EXPIRED"
  /\ leader = NoLeaders /\ hostages = NoHostages /\ ready = {}
  /\ swap = "NO" /\ moving = NoHostages
  /\ admitted = 0
  /\ starts = [n \in Rounds |-> 0]
  /\ finishing = [f \in {"ASSIGN", "PRESERVE"} |-> 0]
  /\ exchanges = 0 /\ reveals = 0

-----------------------------------------------------------------------------
(* GameService.                                                            *)

\* StartGame, up to and including its checks.
StartGameCheck ==
  /\ roomStatus # "IN_PROGRESS"
  /\ Cardinality(Players) >= MinPlayers
  /\ Admits
  /\ admitted' = admitted + 1
  /\ UNCHANGED <<gameVars, roundVars, swapVars, starts, finishing, exchanges, reveals>>

\* StartGame: rooms are assigned and a new session replaces the old one.  The
\* call goes on to StartRound(1).
StartGame ==
  /\ admitted > 0
  /\ \E red \in SUBSET Players : AssignRooms(red)
  /\ roomStatus' = "IN_PROGRESS"
  /\ session' = "SET"
  /\ DropRound
  /\ admitted' = admitted - 1
  /\ starts' = [starts EXCEPT ![1] = @ + 1]
  /\ UNCHANGED <<finishing, exchanges, reveals>>

\* ResetGame: back to the lobby.
ResetGame ==
  /\ roomStatus = "IN_PROGRESS"
  /\ session' = "NIL"
  /\ place' = [p \in Players |-> NONE]
  /\ roomStatus' = "WAITING"
  /\ DropRound
  /\ UNCHANGED callVars

-----------------------------------------------------------------------------
(* RoundManager.                                                           *)

\* What the caller of StartRound(n) does next: StartGame assigns leaders, the
\* goroutine of LeaderReady preserves them.
After(n) == IF n = 1 THEN "ASSIGN" ELSE "PRESERVE"

\* StartRound(n), called by StartGame or by the goroutine of LeaderReady.
StartRound(n) ==
  /\ starts[n] > 0
  /\ session # "NIL"
  /\ NewRound(n)
  /\ starts' = [starts EXCEPT ![n] = @ - 1]
  /\ finishing' = [finishing EXCEPT ![After(n)] = @ + 1]
  /\ UNCHANGED <<gameVars, admitted, exchanges, reveals>>

\* StartRound(n) on a room that was reset: "no active game session".
StartRoundFails(n) ==
  /\ starts[n] > 0
  /\ session = "NIL"
  /\ starts' = [starts EXCEPT ![n] = @ - 1]
  /\ UNCHANGED <<gameVars, roundVars, swapVars, admitted, finishing, exchanges, reveals>>

\* POST rounds/start: StartRound(n) on request, AssignLeaders to follow.
RequestStartRound(n) ==
  /\ session # "NIL"
  /\ Admits
  /\ NewRound(n)
  /\ finishing' = [finishing EXCEPT !["ASSIGN"] = @ + 1]
  /\ UNCHANGED <<gameVars, admitted, starts, exchanges, reveals>>

\* tickTimer, the tick that takes TimeRemaining from 1 to 0.  Earlier ticks
\* change nothing this module keeps.
TimerExpires ==
  /\ roundNo # 0 /\ timer = "RUNNING"
  /\ timer' = "EXPIRED"
  /\ rstatus' = "SELECTING"
  /\ UNCHANGED <<gameVars, roundNo, leader, hostages, ready, swapVars, callVars>>

\* The room a leader speaks for when ready: red is looked up first.
ReadyFor(p) == IF leader[RED] = p THEN RED ELSE BLUE

\* Mutant of AdvanceGame: the reveal after the last round is forgotten.
AdvanceGameNoReveal(k) ==
  /\ Admits
  /\ IF roundNo = LastRound
     THEN UNCHANGED <<starts, reveals>>
     ELSE /\ starts' = [starts EXCEPT ![roundNo + 1] = @ + k]
          /\ UNCHANGED reveals

\* The goroutines (k of them) spawned once both leaders are ready.
AdvanceGame(k) ==
  /\ Admits
  /\ IF roundNo = LastRound
     THEN reveals' = reveals + k /\ UNCHANGED starts
     ELSE /\ starts' = [starts EXCEPT ![roundNo + 1] = @ + k]
          /\ UNCHANGED reveals

\* LeaderReady.  When it makes both rooms ready it spawns the goroutine that
\* goes on to the next round or to the reveal; the other leader's call, if it
\* is still between its write and its check, sees the same and spawns another.
LeaderReady(p) ==
  LET c == ReadyFor(p) IN
  /\ roundNo # 0
  /\ p \in Leaders
  /\ c \notin ready
  /\ ready' = ready \cup {c}
  /\ IF Other(c) \notin ready
     THEN UNCHANGED <<starts, reveals>>
     ELSE \E k \in {1, 2} : AdvanceGame(k)
  /\ UNCHANGED <<gameVars, roundNo, rstatus, timer, leader, hostages, swapVars,
                 admitted, finishing, exchanges>>

\* Mutant of TransitionToRevealing: the session is not looked at.
TransitionToRevealingBlindly ==
  /\ reveals > 0
  /\ reveals' = reveals - 1
  /\ roomStatus' = "REVEALING"
  /\ UNCHANGED <<session, place, roundVars, swapVars, admitted, starts, finishing,
                 exchanges>>

\* transitionToRevealing.
TransitionToRevealing ==
  /\ reveals > 0
  /\ reveals' = reveals - 1
  /\ roomStatus' = IF session = "NIL" THEN roomStatus ELSE "REVEALING"
  /\ UNCHANGED <<session, place, roundVars, swapVars, admitted, starts,
                 finishing, exchanges>>

-----------------------------------------------------------------------------
(* LeaderService.                                                          *)

\* Mutant of AssignLeaders: the round is announced with the red leader alone.
AssignLeadersRedOnly ==
  /\ finishing["ASSIGN"] > 0
  /\ roundNo # 0
  /\ \E r \in In(RED) : leader' = [leader EXCEPT ![RED] = r]
  /\ rstatus' = "ACTIVE"
  /\ finishing' = [finishing EXCEPT !["ASSIGN"] = @ - 1]
  /\ UNCHANGED <<gameVars, roundNo, timer, hostages, ready, swapVars, admitted,
                 starts, exchanges, reveals>>

\* AssignLeaders: one random player of each room.
AssignLeaders ==
  /\ finishing["ASSIGN"] > 0
  /\ roundNo # 0
  /\ \E r \in In(RED), b \in In(BLUE) :
        leader' = [c \in Colors |-> IF c = RED THEN r ELSE b]
  /\ rstatus' = "ACTIVE"
  /\ finishing' = [finishing EXCEPT !["ASSIGN"] = @ - 1]
  /\ UNCHANGED <<gameVars, roundNo, timer, hostages, ready, swapVars, admitted,
                 starts, exchanges, reveals>>

\* AssignLeaders without a round, or with nobody in one of the rooms.
AssignLeadersFails ==
  /\ finishing["ASSIGN"] > 0
  /\ roundNo = 0 \/ In(RED) = {} \/ In(BLUE) = {}
  /\ finishing' = [finishing EXCEPT !["ASSIGN"] = @ - 1]
  /\ UNCHANGED <<gameVars, roundVars, swapVars, admitted, starts, exchanges, reveals>>

\* PreserveLeaders: only a round with two known leaders becomes active.
PreserveLeaders ==
  /\ finishing["PRESERVE"] > 0
  /\ rstatus' = IF roundNo # 0 /\ Nobody \notin Leaders THEN "ACTIVE" ELSE rstatus
  /\ finishing' = [finishing EXCEPT !["PRESERVE"] = @ - 1]
  /\ UNCHANGED <<gameVars, roundNo, timer, leader, hostages, ready, swapVars,
                 admitted, starts, exchanges, reveals>>

\* Mutant of TransferLeadership: the office that changes hands is the one p holds.
TransferOffice(p, q) ==
  /\ roundNo # 0
  /\ p \in Leaders
  /\ rstatus # "SELECTING"
  /\ place[q] = place[p]
  /\ q \notin Leaders
  /\ leader' = [leader EXCEPT ![ReadyFor(p)] = q]
  /\ UNCHANGED <<gameVars, roundNo, rstatus, timer, hostages, ready, swapVars, callVars>>

\* TransferLeadership from p to q.  The office that changes hands is that of
\* the room p stands in.
TransferLeadership(p, q) ==
  /\ roundNo # 0
  /\ p \in Leaders
  /\ rstatus # "SELECTING"
  /\ place[q] = place[p]
  /\ q \notin Leaders
  /\ leader' = [leader EXCEPT ![IF place[p] = RED THEN RED ELSE BLUE] = q]
  /\ UNCHANGED <<gameVars, roundNo, rstatus, timer, hostages, ready, swapVars, callVars>>

\* Mutant of SetLeader: a winner who left the room is fetched back.
SetLeaderFetch(c, p) ==
  /\ roundNo # 0
  /\ leader' = [leader EXCEPT ![c] = p]
  /\ place' = [place EXCEPT ![p] = c]
  /\ UNCHANGED <<roomStatus, session, roundNo, rstatus, timer, hostages, ready,
                 swapVars, callVars>>

\* SetLeader, called by the voting service with the winner of an election in
\* room c.  Any player of the room can win one, in any phase of the round.
SetLeader(c, p) ==
  /\ roundNo # 0
  /\ place[p] = c
  /\ leader' = [leader EXCEPT ![c] = p]
  /\ UNCHANGED <<gameVars, roundNo, rstatus, timer, hostages, ready, swapVars, callVars>>

-----------------------------------------------------------------------------
(* ExchangeService.                                                        *)

\* The checks of SelectHostages on the players leader p names.
ValidSelection(p, chosen) ==
  /\ Cardinality(chosen) = HostageCount
  /\ chosen \cap Leaders = {}
  /\ \A h \in chosen : place[h] = place[p]

\* Mutant of SideOf: the selection is stored under the leader's office.
SideOfOffice(p) == ReadyFor(p)

\* The side a selection is stored on: that of the room the leader stands in.
SideOf(p) == IF place[p] = RED THEN RED ELSE BLUE

\* Mutant of SpawnExchange: only a red selection looks for the other one.
SpawnExchangeRedOnly(c) ==
  IF c = BLUE \/ hostages[BLUE] = {}
  THEN UNCHANGED exchanges
  ELSE Admits /\ exchanges' = exchanges + 1

\* The second selection spawns ExecuteExchange.
SpawnExchange(c) ==
  IF hostages[Other(c)] = {}
  THEN UNCHANGED exchanges
  ELSE Admits /\ exchanges' = exchanges + 1

\* SelectHostages, all of it under es.mu.  No phase of the round is asked for.
SelectHostages(p, chosen) ==
  LET c == SideOf(p) IN
  /\ swap = "NO"
  /\ roundNo # 0
  /\ p \in Leaders
  /\ ValidSelection(p, chosen)
  /\ hostages[c] = {}
  /\ hostages' = [hostages EXCEPT ![c] = chosen]
  /\ SpawnExchange(c)
  /\ UNCHANGED <<gameVars, roundNo, rstatus, timer, leader, ready, swapVars,
                 admitted, starts, finishing, reveals>>

\* What ExecuteExchange checks of the RoundState it finds.
ExchangeReady ==
  /\ roundNo # 0
  /\ \A c \in Colors : hostages[c] # {}
  /\ Cardinality(hostages[RED]) = Cardinality(hostages[BLUE])

\* ExecuteExchange takes es.mu, reads the RoundState, finds it complete and
\* announces EXCHANGE_READY.  It keeps its pointers to room and RoundState.
BeginExchange ==
  /\ exchanges > 0 /\ swap = "NO"
  /\ ExchangeReady
  /\ exchanges' = exchanges - 1
  /\ swap' = "CURRENT" /\ moving' = hostages
  /\ UNCHANGED <<gameVars, roundVars, admitted, starts, finishing, reveals>>

\* ExecuteExchange finds a RoundState it cannot work on and returns an error.
BeginExchangeFails ==
  /\ exchanges > 0 /\ swap = "NO"
  /\ ~ExchangeReady
  /\ exchanges' = exchanges - 1
  /\ UNCHANGED <<gameVars, roundVars, swapVars, admitted, starts, finishing, reveals>>

\* Where ExecuteExchange puts player p: the blue loop runs after the red one.
MovedTo(p) ==
  IF p \in moving[BLUE] THEN RED
  ELSE IF p \in moving[RED] THEN BLUE
  ELSE place[p]

\* ExecuteExchange moves the hostages, marks the RoundState it captured (a
\* replaced one is lost) and releases es.mu.
FinishExchange ==
  /\ swap # "NO"
  /\ place' = [p \in Players |-> MovedTo(p)]
  /\ rstatus' = IF swap = "CURRENT" THEN "COMPLETE" ELSE rstatus
  /\ swap' = "NO" /\ moving' = NoHostages
  /\ UNCHANGED <<roomStatus, session, roundNo, timer, leader, hostages,
                 ready, callVars>>

-----------------------------------------------------------------------------
Next ==
  \/ StartGameCheck
  \/ StartGame
  \/ ResetGame
  \/ \E n \in Rounds : StartRound(n)
  \/ \E n \in Rounds : StartRoundFails(n)
  \/ \E n \in Rounds : RequestStartRound(n)
  \/ TimerExpires
  \/ \E p \in Players : LeaderReady(p)
  \/ TransitionToRevealing
  \/ AssignLeaders
  \/ AssignLeadersFails
  \/ PreserveLeaders
  \/ \E p, q \in Players : TransferLeadership(p, q)
  \/ \E c \in Colors, p \in Players : SetLeader(c, p)
  \/ \E p \in Players, chosen \in SUBSET Players : SelectHostages(p, chosen)
  \/ BeginExchange
  \/ BeginExchangeFails
  \/ FinishExchange

Spec == Init /\ [][Next]_vars

\* Goroutines and calls under way are scheduled by the Go runtime; nothing is
\* assumed of the players' requests or of the timer.
Fairness ==
  /\ \A n \in Rounds : WF_vars(StartRound(n)) /\ WF_vars(StartRoundFails(n))
  /\ WF_vars(TransitionToRevealing)
  /\ WF_vars(AssignLeaders) /\ WF_vars(AssignLeadersFails)
  /\ WF_vars(PreserveLeaders)
  /\ WF_vars(BeginExchange) /\ WF_vars(BeginExchangeFails)
  /\ WF_vars(FinishExchange)

FairSpec == Spec /\ Fairness

-----------------------------------------------------------------------------
(* Properties.                                                             *)

\* Every variable keeps to the values the fields of Room, RoundState and the
\* goroutines can hold.
TypeOK ==
  /\ roomStatus \in {"WAITING", "IN_PROGRESS", "REVEALING"}
  /\ session \in {"NIL", "SET"}
  /\ place \in [Players -> Colors \cup {NONE}]
  /\ roundNo \in 0 .. LastRound
  /\ rstatus \in {"SETUP", "ACTIVE", "SELECTING", "COMPLETE"}
  /\ timer \in {"RUNNING", "EXPIRED"}
  /\ leader \in [Colors -> Players \cup {Nobody}]
  /\ hostages \in [Colors -> SUBSET Players]
  /\ ready \subseteq Colors
  /\ swap \in {"NO", "CURRENT", "OLD_ROUND", "OLD_GAME"}
  /\ moving \in [Colors -> SUBSET Players]
  /\ admitted \in Nat
  /\ starts \in [Rounds -> Nat]
  /\ finishing \in [{"ASSIGN", "PRESERVE"} -> Nat]
  /\ exchanges \in Nat /\ reveals \in Nat

AllHome(out)  == \A c \in Colors : out[c] \subseteq In(c)
AllMoved(out) == \A c \in Colors : out[c] # {} /\ out[c] \subseteq In(Other(c))

\* An exchange is all or nothing: the hostages of the current round all stand
\* in the room they were chosen in, or all stand in the other one, whatever
\* ExecuteExchange goroutines of this or an earlier round have run.
HostagesTogether == AllHome(hostages) \/ AllMoved(hostages)

\* A swap that began in an earlier game (reset and started again while
\* ExecuteExchange was between its checks and its writes).
ForeignSwap == swap = "OLD_GAME"

\* While a game lasts the two rooms keep their sizes: ExecuteExchange moves as
\* many players one way as the other, also when it runs twice in a round or
\* after the round was replaced.
ExchangePreservesSizes ==
  [][(roundNo # 0 /\ roundNo' # 0 /\ ~ForeignSwap)
       => \A c \in Colors : Cardinality(In(c)') = Cardinality(In(c))]_vars

\* A round is announced ACTIVE only with a leader in both offices, although
\* PreserveLeaders may run against a round of a later game.
ActiveRoundHasLeaders == rstatus = "ACTIVE" => Nobody \notin Leaders

\* Goroutines that outlive a game (StartRound, transitionToRevealing, the
\* timer) never bring a reset room back: a room waits exactly when it has no
\* session, and then it has no round; in a game everybody stands in a room.
NoGhostGame ==
  /\ session = "NIL" <=> roomStatus = "WAITING"
  /\ session = "NIL" => roundNo = 0
  /\ session # "NIL" => \A p \in Players : place[p] \in Colors

\* How the game looks to the votes held in one of its rooms.
Phase ==
  IF session = "NIL" THEN "LOBBY"
  ELSE IF roundNo = 0 THEN "NONE"
  ELSE IF rstatus = "SELECTING" THEN "SELECTING"
  ELSE "OPEN"

SizeOf(c) == IF c = RED THEN RedRoomSize ELSE Cardinality(Players) - RedRoomSize

Room(c) == INSTANCE ColouredRoom WITH
  Draws <- {m \in SUBSET Players : Cardinality(m) = SizeOf(c)},
  members <- In(c), leader <- leader[c], other <- leader[Other(c)], phase <- Phase

\* Whatever handlers and goroutines race, neither room ever sees more than what
\* Voting takes it to see: an exchange trades as many players one way as the
\* other, and only a player who stands in a room is put into its office.
RoomsAreColoured ==
  /\ \A c \in Colors : Room(c)!RoomInit
  /\ [][\A c \in Colors : [Room(c)!RoomNext]_(Room(c)!roomVars)]_vars

\* Two complete selections are carried out, or the round they were made in is
\* replaced: the ExecuteExchange goroutine is never forgotten.
SelectionIsHonoured ==
  (\A c \in Colors : hostages[c] # {})
    ~> (AllMoved(hostages) \/ \E c \in Colors : hostages[c] = {})

\* Once both leaders are ready the game goes on: to another round, to the
\* reveal, or back to the lobby.
ReadyIsHonoured ==
  ready = Colors
    ~> (roomStatus = "REVEALING" \/ ready # Colors)

=============================================================================
