---------------------------- MODULE ColouredRoom ----------------------------
(***************************************************************************)
(* One of the two coloured rooms of a game, as the votes held in it know   *)
(* it: who stands in it, who leads it and the other one, and the phase of  *)
(* the round.  The actions are what the services of the game do to it;     *)
(* Exchange implements them for both rooms, and Voting, which reads the    *)
(* room and elects its leader, runs against them.                          *)
(***************************************************************************)
EXTENDS FiniteSets

CONSTANTS
  Players,  \* room.Players
  Nobody,   \* the empty player ID
  Draws     \* the sets of players AssignRooms may put into this room

VARIABLES
  members,  \* players whose CurrentRoom is this room
  leader,   \* the leader ID of this room
  other,    \* the leader ID of the other room
  phase     \* "LOBBY" without a session, "NONE" without a round, "SELECTING",
            \* or "OPEN" in another phase

roomVars == <<members, leader, other, phase>>

Leaders == {leader, other}

InRound == phase \in {"OPEN", "SELECTING"}

RoomInit ==
  members = {} /\ leader = Nobody /\ other = Nobody /\ phase = "LOBBY"

NoLeader == leader' = Nobody /\ other' = Nobody

-----------------------------------------------------------------------------
\* StartGame: a new session, with rooms, without a round.  Two calls past the
\* check of the status both get here.
StartGame ==
  /\ phase' = "NONE"
  /\ members' \in Draws
  /\ NoLeader

\* ResetGame takes everybody out of the rooms.
ResetGame ==
  /\ phase # "LOBBY"
  /\ phase' = "LOBBY" /\ members' = {}
  /\ NoLeader

\* StartRound: the first round, the next or one on request, with the leaders of
\* the last.
StartRound ==
  /\ phase # "LOBBY"
  /\ phase' = "OPEN"
  /\ UNCHANGED <<members, leader, other>>

\* AssignLeaders draws new leaders for a round.
AssignLeaders ==
  /\ InRound
  /\ phase' = "OPEN"
  /\ leader' \in members /\ other' \in Players \ members
  /\ UNCHANGED members

\* The end of a timer opens hostage selection; PreserveLeaders, late, ends it.
PhaseChange ==
  /\ InRound
  /\ phase' \in {"OPEN", "SELECTING"}
  /\ UNCHANGED <<members, leader, other>>

\* ExecuteExchange takes some players out and puts as many others in, whether
\* they stood in the room or not: it may have begun in an earlier game.  It
\* completes the round it began in.
ExchangePlayers ==
  /\ UNCHANGED <<leader, other>>
  /\ phase' = phase \/ (InRound /\ phase' = "OPEN")
  /\ \E out, into \in SUBSET Players :
       /\ Cardinality(out) = Cardinality(into) /\ out \cap into = {}
       /\ members' = (members \ out) \cup into

\* TransferLeadership from p to q, in whichever room both of them stand: p may
\* be the leader of the other one.
TransferLeadership(p, q) ==
  /\ phase = "OPEN"
  /\ p \in Leaders /\ q \notin Leaders
  /\ p \in members <=> q \in members
  /\ leader' = IF p \in members THEN q ELSE leader
  /\ other' = IF p \in members THEN other ELSE q
  /\ UNCHANGED <<members, phase>>

\* SetLeader for an election of the other room.
SetOtherLeader(q) ==
  /\ InRound
  /\ q \in Players \ members
  /\ other' = q
  /\ UNCHANGED <<members, leader, phase>>

\* SetLeader for an election of this room.
SetLeader(q) ==
  /\ InRound
  /\ q \in members
  /\ leader' = q
  /\ UNCHANGED <<members, other, phase>>

\* What the other services do while votes are held in the room.
GameStep ==
  \/ StartGame \/ ResetGame \/ StartRound \/ AssignLeaders \/ PhaseChange
  \/ \E p, q \in Players : TransferLeadership(p, q)
  \/ \E q \in Players : SetOtherLeader(q)
  \/ ExchangePlayers

RoomNext == GameStep \/ \E q \in Players : SetLeader(q)

RoomSpec == RoomInit /\ [][RoomNext]_roomVars
=============================================================================
