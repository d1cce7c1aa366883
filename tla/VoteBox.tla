------------------------------- MODULE VoteBox -------------------------------
(***************************************************************************)
(* What a vote promises, apart from how VotingService carries it out.  A   *)
(* vote is opened, takes at most one ballot of each player while it is     *)
(* open, is closed once, and is then decided once on the ballots it was    *)
(* closed with.  A removal passes only with a YES, and a passed removal is *)
(* settled by exactly one election; no election has another origin.        *)
(***************************************************************************)
EXTENDS Naturals

CONSTANTS VoteIds, Players, NoBallot

VARIABLES stage, kind, ballots

boxVars == <<stage, kind, ballots>>

Init ==
  /\ stage = [v \in VoteIds |-> "NONE"]
  /\ kind = [v \in VoteIds |-> "NONE"]
  /\ ballots = [v \in VoteIds |-> [p \in Players |-> NoBallot]]

OpenRemoval(v) ==
  /\ stage[v] = "NONE"
  /\ stage' = [stage EXCEPT ![v] = "OPEN"]
  /\ kind' = [kind EXCEPT ![v] = "REMOVAL"]
  /\ UNCHANGED ballots

Cast(v, p) ==
  /\ stage[v] = "OPEN" /\ ballots[v][p] = NoBallot
  /\ \E choice \in {"YES", "NO"} \cup Players :
       ballots' = [ballots EXCEPT ![v][p] = choice]
  /\ UNCHANGED <<stage, kind>>

Close(v) ==
  /\ stage[v] = "OPEN"
  /\ stage' = [stage EXCEPT ![v] = "CLOSED"]
  /\ UNCHANGED <<kind, ballots>>

\* A removal is carried: an election is owed.
Carry(v) ==
  /\ stage[v] = "CLOSED" /\ kind[v] = "REMOVAL"
  /\ \E p \in Players : ballots[v][p] = "YES"
  /\ stage' = [stage EXCEPT ![v] = "PASSED"]
  /\ UNCHANGED <<kind, ballots>>

\* Any other decision, and an election that cannot be held.
Settle(v) ==
  /\ stage[v] \in {"CLOSED", "PASSED"}
  /\ stage' = [stage EXCEPT ![v] = "SETTLED"]
  /\ UNCHANGED <<kind, ballots>>

\* The election v that settles the passed removal u.
FollowUp(u, v) ==
  /\ stage[u] = "PASSED" /\ stage[v] = "NONE"
  /\ stage' = [stage EXCEPT ![u] = "SETTLED", ![v] = "OPEN"]
  /\ kind' = [kind EXCEPT ![v] = "ELECTION"]
  /\ UNCHANGED ballots

Next ==
  \/ \E v \in VoteIds : OpenRemoval(v) \/ Close(v) \/ Carry(v) \/ Settle(v)
  \/ \E v \in VoteIds, p \in Players : Cast(v, p)
  \/ \E u, v \in VoteIds : FollowUp(u, v)

Spec == Init /\ [][Next]_boxVars
=============================================================================
