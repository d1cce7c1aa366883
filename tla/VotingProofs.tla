---------------------------- MODULE VotingProofs ----------------------------
(***************************************************************************)
(* Theorems about Voting, for every set of players and every bound.        *)
(***************************************************************************)
EXTENDS Voting, FiniteSetTheorems, TLAPS

(***************************************************************************)
(* The inductive invariant.  A session that was not created yet is blank,  *)
(* so creating one keeps what is known of ballots and counts; and whoever  *)
(* is about to complete a session has seen it full, and it stays full.     *)
(***************************************************************************)
Untouched(v) ==
  /\ status[v] = "NONE" /\ closer[v] = "NONE"
  /\ ballots[v] = Blank
  /\ checks[v] = 0 /\ completers[v] = 0
FreshInv ==
  \A v \in VoteIds :
    /\ v > opened => Untouched(v)
    /\ v <= opened => vote[v].kind \in {"REMOVAL", "ELECTION"}
FullInv ==
  \A v \in VoteIds :
    (completers[v] > 0 \/ status[v] = "COMPLETED")
      => Cardinality(Voted(v)) >= vote[v].total
VotingInv == TypeOK /\ FreshInv /\ FullInv

\* A set of players has a number of members, and a larger one has no fewer.
LEMMA PlayerCount ==
  /\ \A S \in SUBSET Players : Cardinality(S) \in Nat
  /\ \A S, T \in SUBSET Players : S \subseteq T => Cardinality(S) <= Cardinality(T)
  BY VotingPlayers, FS_CardinalityType, FS_Subset

\* The service starts with no session.
LEMMA VotingInit == Init => VotingInv
  BY VotingPlayers, VotingSizes
     DEF Init, RoomInit, VotingInv, TypeOK, FreshInv, FullInv, Untouched, VoteIds, VoteRecords,
         NoVote, Blank, Choices

\* Creating a session: the next number is blank, and the others are as before.
LEMMA OpenStep ==
  ASSUME VotingInv,
         NEW session \in VoteRecords,
         session.kind \in {"REMOVAL", "ELECTION"},
         Open(opened + 1, session),
         UNCHANGED <<ballots, checks, completers>>,
         \A v \in VoteIds : closer'[v] = closer[v] \/ (v <= opened /\ closer'[v] = "DONE"),
         closer' \in [VoteIds -> {"NONE", "TALLY", "PAUSE", "CLEANUP", "DONE", "NOELECTION"}]
  PROVE  /\ opened' \in 0 .. MaxVotes /\ roomVote' \in 0 .. MaxVotes
         /\ vote' \in [VoteIds -> VoteRecords]
         /\ status' \in [VoteIds -> {"NONE", "ACTIVE", "COMPLETED", "TIMEOUT", "DELETED"}]
         /\ \A v \in VoteIds, p \in Players :
              ballots'[v][p] # NoBallot =>
                ballots'[v][p] \in IF vote'[v].kind = "ELECTION" THEN vote'[v].cands
                                   ELSE {"YES", "NO"}
         /\ FreshInv' /\ FullInv'
<1>1. opened \in 0 .. MaxVotes /\ opened < MaxVotes /\ opened' = opened + 1
      /\ opened + 1 \in VoteIds
  BY VotingSizes DEF VotingInv, TypeOK, Open, VoteIds
<1>2. Untouched(opened + 1)
  BY <1>1 DEF VotingInv, FreshInv
<1>3. /\ vote' \in [VoteIds -> VoteRecords]
      /\ vote'[opened + 1] = session
      /\ \A v \in VoteIds : v # opened + 1 => vote'[v] = vote[v]
  BY <1>1 DEF VotingInv, TypeOK, Open
<1>4. /\ status' \in [VoteIds -> {"NONE", "ACTIVE", "COMPLETED", "TIMEOUT", "DELETED"}]
      /\ status'[opened + 1] = "ACTIVE"
      /\ \A v \in VoteIds : v # opened + 1 => status'[v] = status[v]
  BY <1>1 DEF VotingInv, TypeOK, Open
<1>5. opened' \in 0 .. MaxVotes /\ roomVote' \in 0 .. MaxVotes
  BY <1>1, VotingSizes DEF Open, VoteIds
<1>6. ASSUME NEW v \in VoteIds, NEW p \in Players, ballots'[v][p] # NoBallot
      PROVE  ballots'[v][p] \in IF vote'[v].kind = "ELECTION" THEN vote'[v].cands
                                ELSE {"YES", "NO"}
  <2>1. v # opened + 1
    BY <1>2, <1>6 DEF Untouched, Blank
  <2> QED
    BY <1>3, <1>6, <2>1 DEF VotingInv, TypeOK
<1>7. FreshInv'
  <2> SUFFICES ASSUME NEW v \in VoteIds
               PROVE  /\ v > opened' => Untouched(v)'
                      /\ v <= opened' => vote'[v].kind \in {"REMOVAL", "ELECTION"}
    BY DEF FreshInv
  <2>1. v \in Int /\ opened \in Int
    BY <1>1 DEF VoteIds
  <2>2. CASE v > opened'
    BY <1>1, <1>4, <2>1, <2>2 DEF VotingInv, FreshInv, Untouched, Blank
  <2>3. CASE v <= opened'
    BY <1>1, <1>3, <2>1, <2>3 DEF VotingInv, FreshInv
  <2> QED
    BY <1>1, <2>1, <2>2, <2>3
<1>8. FullInv'
  <2> SUFFICES ASSUME NEW v \in VoteIds,
                      completers'[v] > 0 \/ status'[v] = "COMPLETED"
               PROVE  (Cardinality(Voted(v)) >= vote[v].total)'
    BY DEF FullInv
  <2>1. v # opened + 1
    BY <1>2, <1>4 DEF Untouched
  <2>2. Voted(v)' = Voted(v)
    BY DEF Voted
  <2> QED
    BY <1>3, <1>4, <2>1, <2>2 DEF VotingInv, FullInv
<1> QED
  BY <1>3, <1>4, <1>5, <1>6, <1>7, <1>8

\* Steps that leave the sessions and the calls alone.
LEMMA RoomFrame ==
  ASSUME VotingInv, UNCHANGED <<sessionVars, callVars, result>>,
         members' \subseteq Players,
         leader' \in Players \cup {Nobody}, other' \in Players \cup {Nobody},
         phase' \in {"LOBBY", "NONE", "OPEN", "SELECTING"}, changes' \in 0 .. MaxChanges
  PROVE  VotingInv'
  BY DEF VotingInv, TypeOK, FreshInv, FullInv, Untouched, Blank, Voted, sessionVars, callVars

RoomTypes ==
  /\ members \subseteq Players
  /\ leader \in Players \cup {Nobody} /\ other \in Players \cup {Nobody}
  /\ phase \in {"LOBBY", "NONE", "OPEN", "SELECTING"}

\* The other services keep the types of the room.
LEMMA GameTypes == RoomTypes /\ GameStep => RoomTypes'
<1> SUFFICES ASSUME RoomTypes, GameStep PROVE RoomTypes'
  OBVIOUS
<1> USE DEF RoomTypes
<1>1. CASE StartGame
  BY <1>1, VotingDraws DEF StartGame, NoLeader
<1>2. CASE ResetGame
  BY <1>2 DEF ResetGame, NoLeader
<1>3. CASE StartRound \/ PhaseChange
  BY <1>3 DEF StartRound, PhaseChange
<1>4. CASE AssignLeaders
  BY <1>4 DEF AssignLeaders
<1>5. CASE ExchangePlayers
  BY <1>5 DEF ExchangePlayers
<1>6. CASE \E p, q \in Players : TransferLeadership(p, q)
  BY <1>6 DEF TransferLeadership
<1>7. CASE \E q \in Players : SetOtherLeader(q)
  BY <1>7 DEF SetOtherLeader
<1> QED
  BY <1>1, <1>2, <1>3, <1>4, <1>5, <1>6, <1>7 DEF GameStep

\* A ballot is cast: nothing it makes full becomes less full.
LEMMA CastVoteKeeps ==
  ASSUME VotingInv, NEW v \in VoteIds, NEW p \in Players, CastVote(v, p)
  PROVE  VotingInv'
<1> PICK choice \in ValidChoice(v) : ballots' = [ballots EXCEPT ![v][p] = choice]
  BY DEF CastVote
<1> USE DEF VotingInv
<1>1. v <= opened /\ vote[v].kind \in {"REMOVAL", "ELECTION"}
  BY DEF FreshInv, Untouched, CastVote, TypeOK, VoteIds
<1>2. choice \in Choices
      /\ choice \in IF vote[v].kind = "ELECTION" THEN vote[v].cands ELSE {"YES", "NO"}
  BY <1>1 DEF ValidChoice, Choices, TypeOK, VoteRecords
<1>3. /\ ballots' \in [VoteIds -> [Players -> Choices \cup {NoBallot}]]
      /\ ballots'[v][p] = choice
      /\ \A u \in VoteIds, q \in Players : (u # v \/ q # p) => ballots'[u][q] = ballots[u][q]
      /\ \A u \in VoteIds : u # v => ballots'[u] = ballots[u]
  BY <1>2 DEF TypeOK
<1>4. TypeOK'
  BY <1>2, <1>3 DEF TypeOK, CastVote, otherVars, roomVars
<1>5. FreshInv'
  BY <1>1, <1>3 DEF FreshInv, Untouched, Blank, CastVote, TypeOK
<1>6. ASSUME NEW u \in VoteIds PROVE Cardinality(Voted(u)) <= Cardinality(Voted(u)')
  <2>1. Voted(u) \subseteq Voted(u)'
    BY <1>2, <1>3, VotingPlayers DEF Voted, Choices
  <2>2. Voted(u) \subseteq Players /\ Voted(u)' \subseteq Players
    BY DEF Voted
  <2> QED
    BY <2>1, <2>2, PlayerCount
<1>7. FullInv'
  <2> SUFFICES ASSUME NEW u \in VoteIds, completers'[u] > 0 \/ status'[u] = "COMPLETED"
               PROVE  (Cardinality(Voted(u)) >= vote[u].total)'
    BY DEF FullInv
  <2>1. Cardinality(Voted(u)) >= vote[u].total /\ vote' = vote
    BY DEF FullInv, CastVote
  <2>2. Cardinality(Voted(u)) \in Nat /\ Cardinality(Voted(u)') \in Nat /\ vote[u].total \in Nat
    BY PlayerCount DEF Voted, TypeOK, VoteRecords
  <2> QED
    BY <1>6, <2>1, <2>2
<1> QED
  BY <1>4, <1>5, <1>7

\* A step of the goroutines of session v alone: its ballots and its data stay.
LEMMA CloserStep ==
  ASSUME VotingInv, NEW v \in VoteIds, UNCHANGED <<opened, vote, ballots, starting>>,
         UNCHANGED <<members, other, phase, changes>>,
         leader' \in Players \cup {Nobody},
         roomVote' \in {0, roomVote},
         v <= opened,
         \A u \in VoteIds : u # v =>
            /\ status'[u] = status[u] /\ checks'[u] = checks[u]
            /\ completers'[u] = completers[u] /\ closer'[u] = closer[u],
         status' \in [VoteIds -> {"NONE", "ACTIVE", "COMPLETED", "TIMEOUT", "DELETED"}],
         checks' \in [VoteIds -> Nat], completers' \in [VoteIds -> Nat],
         closer' \in [VoteIds -> {"NONE", "TALLY", "PAUSE", "CLEANUP", "DONE", "NOELECTION"}],
         result' \in [VoteIds -> {"NONE", "PASSED", "FAILED", "TIMEOUT"}],
         (completers'[v] > 0 \/ status'[v] = "COMPLETED")
            => Cardinality(Voted(v)) >= vote[v].total
  PROVE  VotingInv'
<1>1. TypeOK'
  BY VotingSizes DEF VotingInv, TypeOK
<1>2. FreshInv'
  BY DEF VotingInv, FreshInv, Untouched, Blank, TypeOK, VoteIds
<1>3. FullInv'
  BY DEF VotingInv, FullInv, Voted
<1> QED
  BY <1>1, <1>2, <1>3 DEF VotingInv

\* Only a session that exists is closed, completed or decided.
LEMMA Existing ==
  ASSUME VotingInv, NEW v \in VoteIds,
         status[v] # "NONE" \/ closer[v] # "NONE" \/ checks[v] > 0 \/ completers[v] > 0
  PROVE  v <= opened
  BY DEF VotingInv, FreshInv, Untouched, TypeOK, VoteIds

\* Every step of the voting service and of its surroundings keeps VotingInv.
LEMMA VotingStep == VotingInv /\ [Next]_vars => VotingInv'
<1> SUFFICES ASSUME VotingInv, [Next]_vars PROVE VotingInv'
  OBVIOUS
<1>t. TypeOK /\ FreshInv /\ FullInv
  BY DEF VotingInv
<1>1. CASE \E i, t \in Players : StartVoteCheck(i, t)
  <2> PICK i \in Players, t \in Players : StartVoteCheck(i, t)
    BY <1>1
  <2>1. Cardinality(members) \in Nat
    BY <1>t, PlayerCount DEF TypeOK
  <2>2. TypeOK'
    BY <1>t, <2>1 DEF StartVoteCheck, TypeOK, otherVars, roomVars, sessionVars
  <2>3. FreshInv' /\ FullInv'
    BY <1>t DEF StartVoteCheck, FreshInv, FullInv, Untouched, Blank, Voted, sessionVars
  <2> QED
    BY <2>2, <2>3 DEF VotingInv
<1>2. CASE \E s \in starting : StartVote(s)
  <2> PICK s \in starting : StartVote(s)
    BY <1>2
  <2> DEFINE session == [kind |-> "REMOVAL", target |-> s.target,
                         total |-> s.total, cands |-> {}, after |-> 0]
  <2>1. session \in VoteRecords /\ session.kind \in {"REMOVAL", "ELECTION"}
    BY <1>t, VotingSizes DEF TypeOK, VoteRecords
  <2>2. /\ Open(opened + 1, session)
        /\ UNCHANGED <<ballots, checks, completers, closer, result>>
        /\ UNCHANGED <<members, leader, other, phase, changes>>
        /\ starting' \subseteq starting
    BY DEF StartVote, otherVars, roomVars
  <2>3. closer' \in [VoteIds -> {"NONE", "TALLY", "PAUSE", "CLEANUP", "DONE", "NOELECTION"}]
    BY <1>t, <2>2 DEF TypeOK
  <2> HIDE DEF session
  <2> QED
    BY <1>t, <2>1, <2>2, <2>3, OpenStep DEF VotingInv, TypeOK
<1>3. CASE \E v \in VoteIds, p \in Players : CastVote(v, p)
  BY <1>3, CastVoteKeeps
<1>4. CASE \E v \in VoteIds : CastVoteCheck(v)
  <2> PICK v \in VoteIds : CastVoteCheck(v)
    BY <1>4
  <2>1. v <= opened
    BY Existing DEF CastVoteCheck
  <2>2. checks' \in [VoteIds -> Nat] /\ completers' \in [VoteIds -> Nat]
    BY <1>t DEF CastVoteCheck, TypeOK
  <2>3. Cardinality(Voted(v)) \in Nat /\ vote[v].total \in Nat
    BY <1>t, PlayerCount DEF Voted, TypeOK, VoteRecords
  <2>4. (completers'[v] > 0 \/ status'[v] = "COMPLETED") => Cardinality(Voted(v)) >= vote[v].total
    <3>1. CASE IsFull(v)
      BY <2>3, <3>1 DEF IsFull
    <3>2. CASE ~IsFull(v)
      BY <1>t, <3>2 DEF CastVoteCheck, FullInv, sessionVars
    <3> QED
      BY <3>1, <3>2
  <2>5. \A u \in VoteIds : u # v => checks'[u] = checks[u] /\ completers'[u] = completers[u]
    BY <1>t DEF CastVoteCheck, TypeOK
  <2>6. UNCHANGED <<opened, vote, ballots, starting, members, leader, other, phase, changes,
                    roomVote, status, closer, result>>
    BY DEF CastVoteCheck, otherVars, roomVars, sessionVars
  <2> QED
    BY <1>t, <2>1, <2>2, <2>4, <2>5, <2>6, CloserStep DEF TypeOK
<1>5. CASE \E v \in VoteIds : CompleteVote(v)
  <2> PICK v \in VoteIds : CompleteVote(v)
    BY <1>5
  <2>1. v <= opened
    BY Existing DEF CompleteVote
  <2>2. /\ completers' \in [VoteIds -> Nat]
        /\ \A u \in VoteIds : u # v => completers'[u] = completers[u]
    BY <1>t DEF CompleteVote, TypeOK
  <2>3. Cardinality(Voted(v)) >= vote[v].total
    BY <1>t DEF CompleteVote, FullInv
  <2>4. /\ status' \in [VoteIds -> {"NONE", "ACTIVE", "COMPLETED", "TIMEOUT", "DELETED"}]
        /\ closer' \in [VoteIds -> {"NONE", "TALLY", "PAUSE", "CLEANUP", "DONE", "NOELECTION"}]
        /\ \A u \in VoteIds : u # v => status'[u] = status[u] /\ closer'[u] = closer[u]
    BY <1>t DEF CompleteVote, TypeOK
  <2>5. UNCHANGED <<opened, vote, ballots, starting, members, leader, other, phase, changes,
                    roomVote, checks, result>>
    BY DEF CompleteVote, otherVars, roomVars
  <2> QED
    BY <1>t, <2>1, <2>2, <2>3, <2>4, <2>5, CloserStep DEF TypeOK
<1>6. CASE \E v \in VoteIds : HandleVoteTimeout(v)
  <2> PICK v \in VoteIds : HandleVoteTimeout(v)
    BY <1>6
  <2>1. v <= opened
    BY Existing DEF HandleVoteTimeout
  <2>2. /\ status' \in [VoteIds -> {"NONE", "ACTIVE", "COMPLETED", "TIMEOUT", "DELETED"}]
        /\ closer' \in [VoteIds -> {"NONE", "TALLY", "PAUSE", "CLEANUP", "DONE", "NOELECTION"}]
        /\ \A u \in VoteIds : u # v => status'[u] = status[u] /\ closer'[u] = closer[u]
        /\ status'[v] = "TIMEOUT"
    BY <1>t DEF HandleVoteTimeout, TypeOK
  <2>3. UNCHANGED <<opened, vote, ballots, starting, members, leader, other, phase, changes,
                    checks, completers, result>> /\ roomVote' = 0
    BY DEF HandleVoteTimeout, otherVars, roomVars
  <2>4. (completers'[v] > 0 \/ status'[v] = "COMPLETED") => Cardinality(Voted(v)) >= vote[v].total
    BY <1>t, <2>2, <2>3 DEF FullInv
  <2> QED
    BY <1>t, <2>1, <2>2, <2>3, <2>4, CloserStep DEF TypeOK
<1>7. CASE \E v \in VoteIds : TallyRemoval(v)
  <2> PICK v \in VoteIds : TallyRemoval(v)
    BY <1>7
  <2>1. v <= opened
    BY Existing DEF TallyRemoval
  <2>2. /\ closer' \in [VoteIds -> {"NONE", "TALLY", "PAUSE", "CLEANUP", "DONE", "NOELECTION"}]
        /\ result' \in [VoteIds -> {"NONE", "PASSED", "FAILED", "TIMEOUT"}]
        /\ \A u \in VoteIds : u # v => closer'[u] = closer[u]
    BY <1>t DEF TallyRemoval, TypeOK
  <2>3. /\ UNCHANGED <<opened, vote, ballots, starting, members, other, phase, changes,
                       status, checks, completers>>
        /\ leader' \in Players \cup {Nobody}
        /\ roomVote' \in {0, roomVote}
    BY <1>t DEF TallyRemoval, TypeOK, otherVars, roomVars, sessionVars
  <2>4. (completers'[v] > 0 \/ status'[v] = "COMPLETED") => Cardinality(Voted(v)) >= vote[v].total
    BY <1>t, <2>3 DEF FullInv
  <2> QED
    BY <1>t, <2>1, <2>2, <2>3, <2>4, CloserStep DEF TypeOK
<1>8. CASE \E v \in VoteIds, w \in Players : TallyElection(v, w)
  <2> PICK v \in VoteIds, w \in Players : TallyElection(v, w)
    BY <1>8
  <2>1. v <= opened
    BY Existing DEF TallyElection
  <2>2. /\ closer' \in [VoteIds -> {"NONE", "TALLY", "PAUSE", "CLEANUP", "DONE", "NOELECTION"}]
        /\ result' \in [VoteIds -> {"NONE", "PASSED", "FAILED", "TIMEOUT"}]
        /\ \A u \in VoteIds : u # v => closer'[u] = closer[u]
    BY <1>t DEF TallyElection, AfterElection, TypeOK
  <2>3. /\ UNCHANGED <<opened, vote, ballots, starting, members, other, phase, changes,
                       status, checks, completers>>
        /\ leader' \in Players \cup {Nobody}
        /\ roomVote' \in {0, roomVote}
    BY <1>t DEF TallyElection, AfterElection, TypeOK, otherVars, roomVars, sessionVars
  <2>4. (completers'[v] > 0 \/ status'[v] = "COMPLETED") => Cardinality(Voted(v)) >= vote[v].total
    BY <1>t, <2>3 DEF FullInv
  <2> QED
    BY <1>t, <2>1, <2>2, <2>3, <2>4, CloserStep DEF TypeOK
<1>9. CASE \E v \in VoteIds : TallyEmptyElection(v)
  <2> PICK v \in VoteIds : TallyEmptyElection(v)
    BY <1>9
  <2>1. v <= opened
    BY Existing DEF TallyEmptyElection
  <2>2. /\ closer' \in [VoteIds -> {"NONE", "TALLY", "PAUSE", "CLEANUP", "DONE", "NOELECTION"}]
        /\ result' \in [VoteIds -> {"NONE", "PASSED", "FAILED", "TIMEOUT"}]
        /\ \A u \in VoteIds : u # v => closer'[u] = closer[u]
    BY <1>t DEF TallyEmptyElection, AfterElection, TypeOK
  <2>3. /\ UNCHANGED <<opened, vote, ballots, starting, members, other, phase, changes,
                       status, checks, completers>>
        /\ leader' \in Players \cup {Nobody}
        /\ roomVote' \in {0, roomVote}
    BY <1>t DEF TallyEmptyElection, AfterElection, TypeOK, otherVars, roomVars, sessionVars
  <2>4. (completers'[v] > 0 \/ status'[v] = "COMPLETED") => Cardinality(Voted(v)) >= vote[v].total
    BY <1>t, <2>3 DEF FullInv
  <2> QED
    BY <1>t, <2>1, <2>2, <2>3, <2>4, CloserStep DEF TypeOK
<1>10. CASE \E v \in VoteIds : CompleteVoteCleanup(v)
  <2> PICK v \in VoteIds : CompleteVoteCleanup(v)
    BY <1>10
  <2>1. v <= opened
    BY Existing DEF CompleteVoteCleanup
  <2>2. /\ closer' \in [VoteIds -> {"NONE", "TALLY", "PAUSE", "CLEANUP", "DONE", "NOELECTION"}]
        /\ result' \in [VoteIds -> {"NONE", "PASSED", "FAILED", "TIMEOUT"}]
        /\ \A u \in VoteIds : u # v => closer'[u] = closer[u]
    BY <1>t DEF CompleteVoteCleanup, TypeOK
  <2>3. /\ UNCHANGED <<opened, vote, ballots, starting, members, other, phase, changes,
                       status, checks, completers>>
        /\ leader' \in Players \cup {Nobody}
        /\ roomVote' \in {0, roomVote}
    BY <1>t DEF CompleteVoteCleanup, TypeOK, otherVars, roomVars, sessionVars
  <2>4. (completers'[v] > 0 \/ status'[v] = "COMPLETED") => Cardinality(Voted(v)) >= vote[v].total
    BY <1>t, <2>3 DEF FullInv
  <2> QED
    BY <1>t, <2>1, <2>2, <2>3, <2>4, CloserStep DEF TypeOK
<1>11. CASE \E v \in VoteIds : StartElectionVote(v)
  <2> PICK v \in VoteIds : StartElectionVote(v)
    BY <1>11
  <2> DEFINE session == [kind |-> "ELECTION", target |-> Nobody,
                         total |-> Cardinality(Candidates(v)),
                         cands |-> Candidates(v), after |-> v]
  <2>1. v <= opened
    BY Existing DEF StartElectionVote
  <2>2. Candidates(v) \subseteq Players /\ Cardinality(Candidates(v)) \in Nat
    BY <1>t, PlayerCount DEF Candidates, TypeOK
  <2>3. session \in VoteRecords /\ session.kind \in {"REMOVAL", "ELECTION"}
    BY <2>2, VotingSizes DEF VoteRecords, VoteIds
  <2>4. /\ Open(opened + 1, session)
        /\ UNCHANGED <<ballots, checks, completers, starting, result>>
        /\ UNCHANGED <<members, leader, other, phase, changes>>
    BY DEF StartElectionVote, otherVars, roomVars
  <2>5. /\ closer' \in [VoteIds -> {"NONE", "TALLY", "PAUSE", "CLEANUP", "DONE", "NOELECTION"}]
        /\ \A u \in VoteIds : closer'[u] = closer[u] \/ (u <= opened /\ closer'[u] = "DONE")
    BY <1>t, <2>1 DEF StartElectionVote, TypeOK
  <2> HIDE DEF session
  <2> QED
    BY <1>t, <2>3, <2>4, <2>5, OpenStep DEF VotingInv, TypeOK
<1>12. CASE \E v \in VoteIds : StartElectionVoteFails(v)
  <2> PICK v \in VoteIds : StartElectionVoteFails(v)
    BY <1>12
  <2>1. v <= opened
    BY Existing DEF StartElectionVoteFails
  <2>2. /\ closer' \in [VoteIds -> {"NONE", "TALLY", "PAUSE", "CLEANUP", "DONE", "NOELECTION"}]
        /\ result' \in [VoteIds -> {"NONE", "PASSED", "FAILED", "TIMEOUT"}]
        /\ \A u \in VoteIds : u # v => closer'[u] = closer[u]
    BY <1>t DEF StartElectionVoteFails, TypeOK
  <2>3. /\ UNCHANGED <<opened, vote, ballots, starting, members, other, phase, changes,
                       status, checks, completers>>
        /\ leader' \in Players \cup {Nobody}
        /\ roomVote' \in {0, roomVote}
    BY <1>t DEF StartElectionVoteFails, TypeOK, otherVars, roomVars, sessionVars
  <2>4. (completers'[v] > 0 \/ status'[v] = "COMPLETED") => Cardinality(Voted(v)) >= vote[v].total
    BY <1>t, <2>3 DEF FullInv
  <2> QED
    BY <1>t, <2>1, <2>2, <2>3, <2>4, CloserStep DEF TypeOK
<1>13. CASE \E v \in VoteIds : CleanupExpiredSession(v)
  <2> PICK v \in VoteIds : CleanupExpiredSession(v)
    BY <1>13
  <2>1. v <= opened
    BY Existing DEF CleanupExpiredSession
  <2>2. /\ status' \in [VoteIds -> {"NONE", "ACTIVE", "COMPLETED", "TIMEOUT", "DELETED"}]
        /\ status'[v] = "DELETED"
        /\ \A u \in VoteIds : u # v => status'[u] = status[u]
    BY <1>t DEF CleanupExpiredSession, TypeOK
  <2>3. UNCHANGED <<opened, vote, ballots, starting, members, leader, other, phase, changes,
                    roomVote, checks, completers, closer, result>>
    BY DEF CleanupExpiredSession, otherVars, roomVars, callVars
  <2>4. completers'[v] > 0 => Cardinality(Voted(v)) >= vote[v].total
    BY <1>t, <2>3 DEF FullInv
  <2> QED
    BY <1>t, <2>1, <2>2, <2>3, <2>4, CloserStep DEF TypeOK
<1>14. CASE OtherServices
  <2>1. RoomTypes'
    BY <1>t, <1>14, GameTypes DEF OtherServices, TypeOK, RoomTypes
  <2> QED
    BY <1>t, <1>14, <2>1, RoomFrame, VotingSizes DEF OtherServices, RoomTypes, TypeOK
<1>15. CASE UNCHANGED vars
  BY <1>t, <1>15, RoomFrame DEF TypeOK, vars, otherVars, roomVars
<1> QED
  BY <1>1, <1>2, <1>3, <1>4, <1>5, <1>6, <1>7, <1>8, <1>9, <1>10, <1>11, <1>12, <1>13,
     <1>14, <1>15 DEF Next

\* VotingInv is an invariant.
LEMMA VotingCorrect == Spec => []VotingInv
  BY VotingInit, VotingStep, PTL DEF Spec

\* Type correctness: sessions, ballots and pending calls keep their types, and a
\* ballot is always one that CastVote accepts for the type of the vote.
THEOREM VotingTypeCorrect == Spec => []TypeOK
  BY VotingCorrect, PTL DEF VotingInv

\* A session is COMPLETED only with as many ballots as TotalVoters, however the
\* CastVote calls that count them outside the lock and the timeout interleave.
THEOREM CompletedIsFullHolds == Spec => []CompletedIsFull
<1>1. VotingInv => CompletedIsFull
  BY DEF VotingInv, FullInv, CompletedIsFull
<1> QED
  BY <1>1, VotingCorrect, PTL

-----------------------------------------------------------------------------
\* One step of any service makes only a player of the room its leader.
LEMMA NewLeaderStep ==
  [Next]_vars => (leader' \notin {leader, Nobody} => leader' \in members')
<1> SUFFICES ASSUME [Next]_vars, leader' # leader, leader' # Nobody
             PROVE  leader' \in members'
  OBVIOUS
<1>1. CASE \E v \in VoteIds, w \in Players : TallyElection(v, w)
  BY <1>1 DEF TallyElection, CanLead
<1>2. CASE OtherServices
  <2>1. CASE \E p, q \in Players : TransferLeadership(p, q)
    BY <2>1 DEF TransferLeadership
  <2>2. CASE AssignLeaders
    BY <2>2 DEF AssignLeaders
  <2> QED
    BY <1>2, <2>1, <2>2 DEF OtherServices, GameStep, StartGame, ResetGame, NoLeader,
       StartRound, PhaseChange, ExchangePlayers, SetOtherLeader
<1>3. (\E v \in VoteIds, w \in Players : TallyElection(v, w)) \/ OtherServices
  BY DEF Next, vars, otherVars, roomVars, StartVoteCheck, StartVote, CastVote,
         CastVoteCheck, CompleteVote, HandleVoteTimeout, TallyRemoval,
         TallyEmptyElection, CompleteVoteCleanup, StartElectionVote,
         StartElectionVoteFails, CleanupExpiredSession
<1> QED
  BY <1>1, <1>2, <1>3

\* Elections decided after an exchange or in a later game still put only a player
\* of the room into its office.
THEOREM NewLeaderStandsInRoomHolds == Spec => NewLeaderStandsInRoom
  BY NewLeaderStep, PTL DEF Spec, NewLeaderStandsInRoom

\* What a step of Voting does to the room is a step of it: another service's, or
\* SetLeader for the winner of an election.
LEMMA RoomStep == [Next]_vars => [RoomNext]_roomVars
<1> SUFFICES ASSUME [Next]_vars PROVE [RoomNext]_roomVars
  OBVIOUS
<1>1. CASE OtherServices
  BY <1>1 DEF OtherServices, RoomNext
<1>2. ASSUME NEW v \in VoteIds, NEW w \in Players, TallyElection(v, w)
      PROVE  SetLeader(w) \/ UNCHANGED roomVars
  BY <1>2 DEF TallyElection, CanLead, SetLeader, roomVars
<1>3. \/ UNCHANGED otherVars \/ OtherServices
      \/ \E v \in VoteIds, w \in Players : TallyElection(v, w)
  BY DEF Next, vars, StartVoteCheck, StartVote, CastVote,
         CastVoteCheck, CompleteVote, HandleVoteTimeout, TallyRemoval,
         TallyEmptyElection, CompleteVoteCleanup, StartElectionVote,
         StartElectionVoteFails, CleanupExpiredSession
<1>4. CASE UNCHANGED otherVars
  BY <1>4 DEF otherVars
<1> QED
  BY <1>1, <1>2, <1>3, <1>4 DEF RoomNext

\* VotingService asks no more of the game than ColouredRoom, and does no more to
\* it: an election changes the leader of a running round, to a player of the room.
THEOREM VotingKeepsRoom == Spec => RoomSpec
<1>1. Init => RoomInit
  BY DEF Init
<1> QED
  BY <1>1, RoomStep, PTL DEF Spec, RoomSpec

-----------------------------------------------------------------------------
(***************************************************************************)
(* VotingService implements VoteBox.  On top of VotingInv the refinement   *)
(* needs that only a session that was closed has a goroutine deciding it.  *)
(***************************************************************************)
ClosedInv ==
  \A v \in VoteIds : closer[v] # "NONE" => status[v] \in {"COMPLETED", "TIMEOUT", "DELETED"}
BoxInv == VotingInv /\ ClosedInv

\* Every step keeps BoxInv.
LEMMA BoxInvStep == BoxInv /\ [Next]_vars => BoxInv'
<1> SUFFICES ASSUME BoxInv, [Next]_vars PROVE BoxInv'
  OBVIOUS
<1>0. VotingInv /\ ClosedInv /\ TypeOK /\ VotingInv'
  BY VotingStep DEF BoxInv, VotingInv
<1> SUFFICES ClosedInv'
  BY <1>0 DEF BoxInv
<1> USE <1>0 DEF ClosedInv, TypeOK
<1>1. CASE \E i, t \in Players : StartVoteCheck(i, t)
  BY <1>1 DEF StartVoteCheck, sessionVars, callVars
<1>2. CASE \E s \in starting : StartVote(s)
  <2> PICK s \in starting : StartVote(s)
    BY <1>2
  <2>1. Untouched(opened + 1) /\ opened + 1 \in VoteIds
    BY VotingSizes DEF VotingInv, FreshInv, StartVote, Open, VoteIds
  <2> QED
    BY <2>1 DEF StartVote, Open, Untouched
<1>3. CASE \E v \in VoteIds, p \in Players : CastVote(v, p)
  BY <1>3 DEF CastVote, sessionVars, callVars
<1>4. CASE \E v \in VoteIds : CastVoteCheck(v)
  BY <1>4 DEF CastVoteCheck, sessionVars, callVars
<1>5. CASE \E v \in VoteIds : CompleteVote(v)
  <2> PICK v \in VoteIds : CompleteVote(v)
    BY <1>5
  <2>1. CASE status[v] = "ACTIVE"
    BY <2>1 DEF CompleteVote
  <2>2. CASE status[v] # "ACTIVE"
    BY <2>2 DEF CompleteVote
  <2> QED
    BY <2>1, <2>2
<1>6. CASE \E v \in VoteIds : HandleVoteTimeout(v)
  BY <1>6 DEF HandleVoteTimeout
<1>7. CASE \E v \in VoteIds : TallyRemoval(v)
  BY <1>7 DEF TallyRemoval, sessionVars, callVars
<1>8. CASE \E v \in VoteIds, w \in Players : TallyElection(v, w)
  BY <1>8 DEF TallyElection, AfterElection, sessionVars, callVars
<1>9. CASE \E v \in VoteIds : TallyEmptyElection(v)
  BY <1>9 DEF TallyEmptyElection, AfterElection, sessionVars, callVars
<1>10. CASE \E v \in VoteIds : CompleteVoteCleanup(v)
  BY <1>10 DEF CompleteVoteCleanup, sessionVars, callVars
<1>11. CASE \E v \in VoteIds : StartElectionVote(v)
  <2> PICK v \in VoteIds : StartElectionVote(v)
    BY <1>11
  <2>1. Untouched(opened + 1) /\ opened + 1 \in VoteIds
    BY VotingSizes DEF VotingInv, FreshInv, StartElectionVote, Open, VoteIds
  <2> QED
    BY <2>1 DEF StartElectionVote, Open, Untouched
<1>12. CASE \E v \in VoteIds : StartElectionVoteFails(v)
  BY <1>12 DEF StartElectionVoteFails, sessionVars, callVars
<1>13. CASE \E v \in VoteIds : CleanupExpiredSession(v)
  BY <1>13 DEF CleanupExpiredSession, sessionVars, callVars
<1>14. CASE OtherServices
  BY <1>14 DEF OtherServices, sessionVars, callVars
<1>15. CASE UNCHANGED vars
  BY <1>15 DEF vars, sessionVars, callVars
<1> QED
  BY <1>1, <1>2, <1>3, <1>4, <1>5, <1>6, <1>7, <1>8, <1>9, <1>10, <1>11, <1>12, <1>13,
     <1>14, <1>15 DEF Next

\* VoteBox sees a session move to stage x when nothing else changes its stage.
LEMMA StageMove ==
  ASSUME NEW v \in VoteIds, NEW x, Stage(v)' = x,
         \A u \in VoteIds : u # v => Stage(u)' = Stage(u)
  PROVE  [u \in VoteIds |-> Stage(u)]' = [[u \in VoteIds |-> Stage(u)] EXCEPT ![v] = x]
  OBVIOUS

\* A removal that passes, in time or on timeout, has a YES.
LEMMA PassedHasYes ==
  ASSUME TypeOK, NEW v \in VoteIds, RemovalPasses(v)
  PROVE  \E p \in Players : ballots[v][p] = "YES"
<1>1. Cardinality(For(v, "YES")) \in Nat /\ Cardinality(Voted(v)) \in Nat
      /\ Cardinality(For(v, "YES")) <= Cardinality(Voted(v))
  BY PlayerCount, VotingPlayers DEF For, Voted
<1>2. vote[v].total \in Nat
  BY DEF TypeOK, VoteRecords
<1>3. Cardinality(For(v, "YES")) # 0
  BY <1>1, <1>2 DEF RemovalPasses
<1>4. For(v, "YES") # {}
  BY <1>3, FS_EmptySet
<1> QED
  BY <1>4 DEF For

\* Every step of VotingService is a step of VoteBox or leaves it as it is.
LEMMA BoxStep == BoxInv /\ [Next]_vars => [Box!Next]_(Box!boxVars)
<1> SUFFICES ASSUME BoxInv, [Next]_vars PROVE [Box!Next]_(Box!boxVars)
  OBVIOUS
<1>0. TypeOK /\ FreshInv /\ ClosedInv
  BY DEF BoxInv, VotingInv
<1>f. ASSUME UNCHANGED <<vote, ballots, status, closer>>
      PROVE  UNCHANGED Box!boxVars
  BY <1>f DEF Box!boxVars, Stage
<1>1. CASE \E i, t \in Players : StartVoteCheck(i, t)
  BY <1>1, <1>f DEF StartVoteCheck, sessionVars
<1>2. CASE \E s \in starting : StartVote(s)
  <2> PICK s \in starting : StartVote(s)
    BY <1>2
  <2>0. PICK n \in VoteIds : n = opened + 1
    BY <1>0, VotingSizes DEF TypeOK, StartVote, Open, VoteIds
  <2>1. Untouched(n)
    BY <1>0, <2>0 DEF TypeOK, FreshInv
  <2>2. Stage(n) = "NONE" /\ Stage(n)' = "OPEN"
    BY <1>0, <2>0, <2>1 DEF Stage, Untouched, StartVote, Open, TypeOK
  <2>3. \A u \in VoteIds : u # n => Stage(u)' = Stage(u)
    BY <1>0, <2>0 DEF Stage, StartVote, Open, TypeOK
  <2>4. [u \in VoteIds |-> vote[u].kind]' = [[u \in VoteIds |-> vote[u].kind] EXCEPT ![n] = "REMOVAL"]
    BY <1>0, <2>0 DEF StartVote, Open, TypeOK
  <2>5. [u \in VoteIds |-> Stage(u)]' = [[u \in VoteIds |-> Stage(u)] EXCEPT ![n] = "OPEN"]
    BY <2>2, <2>3, StageMove
  <2>6. UNCHANGED ballots
    BY DEF StartVote
  <2>7. Box!OpenRemoval(n)
    BY <2>2, <2>4, <2>5, <2>6 DEF Box!OpenRemoval
  <2> QED
    BY <2>7 DEF Box!Next
<1>3. CASE \E v \in VoteIds, p \in Players : CastVote(v, p)
  <2> PICK v \in VoteIds, p \in Players : CastVote(v, p)
    BY <1>3
  <2>1. Stage(v) = "OPEN" /\ ballots[v][p] = NoBallot
    BY DEF CastVote, Stage
  <2>2. PICK choice \in ValidChoice(v) : ballots' = [ballots EXCEPT ![v][p] = choice]
    BY DEF CastVote
  <2>3. choice \in {"YES", "NO"} \cup Players
    BY <1>0 DEF ValidChoice, TypeOK, VoteRecords
  <2>4. UNCHANGED <<[u \in VoteIds |-> Stage(u)], [u \in VoteIds |-> vote[u].kind]>>
    BY DEF CastVote, Stage
  <2>5. Box!Cast(v, p)
    BY <2>1, <2>2, <2>3, <2>4 DEF Box!Cast
  <2> QED
    BY <2>5 DEF Box!Next
<1>4. CASE \E v \in VoteIds : CastVoteCheck(v)
  BY <1>4, <1>f DEF CastVoteCheck, sessionVars
<1>5. CASE \E v \in VoteIds : CompleteVote(v)
  <2> PICK v \in VoteIds : CompleteVote(v)
    BY <1>5
  <2>1. CASE status[v] # "ACTIVE"
    BY <1>f, <2>1 DEF CompleteVote
  <2>2. CASE status[v] = "ACTIVE"
    <3>1. Stage(v) = "OPEN" /\ Stage(v)' = "CLOSED"
      BY <1>0, <2>2 DEF Stage, CompleteVote, TypeOK
    <3>2. \A u \in VoteIds : u # v => Stage(u)' = Stage(u)
      BY <1>0, <2>2 DEF Stage, CompleteVote, TypeOK
    <3>3. [u \in VoteIds |-> Stage(u)]' = [[u \in VoteIds |-> Stage(u)] EXCEPT ![v] = "CLOSED"]
      BY <3>1, <3>2, StageMove
    <3>4. Box!Close(v)
      BY <3>1, <3>3 DEF Box!Close, CompleteVote
    <3> QED
      BY <3>4 DEF Box!Next
  <2> QED
    BY <2>1, <2>2
<1>6. CASE \E v \in VoteIds : HandleVoteTimeout(v)
  <2> PICK v \in VoteIds : HandleVoteTimeout(v)
    BY <1>6
  <2>1. Stage(v) = "OPEN" /\ Stage(v)' = "CLOSED"
    BY <1>0 DEF Stage, HandleVoteTimeout, TypeOK
  <2>2. \A u \in VoteIds : u # v => Stage(u)' = Stage(u)
    BY <1>0 DEF Stage, HandleVoteTimeout, TypeOK
  <2>3. [u \in VoteIds |-> Stage(u)]' = [[u \in VoteIds |-> Stage(u)] EXCEPT ![v] = "CLOSED"]
    BY <2>1, <2>2, StageMove
  <2>4. Box!Close(v)
    BY <2>1, <2>3 DEF Box!Close, HandleVoteTimeout
  <2> QED
    BY <2>4 DEF Box!Next
<1>7. CASE \E v \in VoteIds : TallyRemoval(v)
  <2> PICK v \in VoteIds : TallyRemoval(v)
    BY <1>7
  <2>1. Stage(v) = "CLOSED" /\ vote[v].kind = "REMOVAL"
    BY <1>0 DEF Stage, ClosedInv, TallyRemoval
  <2>2. \A u \in VoteIds : u # v => Stage(u)' = Stage(u)
    BY <1>0 DEF Stage, TallyRemoval, sessionVars, TypeOK
  <2>3. UNCHANGED <<ballots, [u \in VoteIds |-> vote[u].kind]>>
    BY DEF TallyRemoval, sessionVars
  <2>4. CASE RemovalPasses(v)
    <3>1. Stage(v)' = "PASSED"
      BY <1>0, <2>4 DEF Stage, ClosedInv, TallyRemoval, sessionVars, TypeOK
    <3>2. [u \in VoteIds |-> Stage(u)]' = [[u \in VoteIds |-> Stage(u)] EXCEPT ![v] = "PASSED"]
      BY <2>2, <3>1, StageMove
    <3>3. \E p \in Players : ballots[v][p] = "YES"
      BY <1>0, <2>4, PassedHasYes
    <3>4. Box!Carry(v)
      BY <2>1, <2>3, <3>2, <3>3 DEF Box!Carry
    <3> QED
      BY <3>4 DEF Box!Next
  <2>5. CASE ~RemovalPasses(v)
    <3>1. Stage(v)' = "SETTLED"
      BY <1>0, <2>5 DEF Stage, ClosedInv, TallyRemoval, sessionVars, TypeOK
    <3>2. [u \in VoteIds |-> Stage(u)]' = [[u \in VoteIds |-> Stage(u)] EXCEPT ![v] = "SETTLED"]
      BY <2>2, <3>1, StageMove
    <3>3. Box!Settle(v)
      BY <2>1, <2>3, <3>2 DEF Box!Settle
    <3> QED
      BY <3>3 DEF Box!Next
  <2> QED
    BY <2>4, <2>5
<1>8. CASE \E v \in VoteIds, w \in Players : TallyElection(v, w)
  <2> PICK v \in VoteIds, w \in Players : TallyElection(v, w)
    BY <1>8
  <2>1. Stage(v) = "CLOSED" /\ Stage(v)' = "SETTLED"
    BY <1>0 DEF Stage, ClosedInv, TallyElection, AfterElection, sessionVars, TypeOK
  <2>2. \A u \in VoteIds : u # v => Stage(u)' = Stage(u)
    BY <1>0 DEF Stage, TallyElection, AfterElection, sessionVars, TypeOK
  <2>3. [u \in VoteIds |-> Stage(u)]' = [[u \in VoteIds |-> Stage(u)] EXCEPT ![v] = "SETTLED"]
    BY <2>1, <2>2, StageMove
  <2>4. Box!Settle(v)
    BY <2>1, <2>3 DEF Box!Settle, TallyElection, AfterElection, sessionVars
  <2> QED
    BY <2>4 DEF Box!Next
<1>9. CASE \E v \in VoteIds : TallyEmptyElection(v)
  <2> PICK v \in VoteIds : TallyEmptyElection(v)
    BY <1>9
  <2>1. Stage(v) = "CLOSED" /\ Stage(v)' = "SETTLED"
    BY <1>0 DEF Stage, ClosedInv, TallyEmptyElection, AfterElection, sessionVars, TypeOK
  <2>2. \A u \in VoteIds : u # v => Stage(u)' = Stage(u)
    BY <1>0 DEF Stage, TallyEmptyElection, AfterElection, sessionVars, TypeOK
  <2>3. [u \in VoteIds |-> Stage(u)]' = [[u \in VoteIds |-> Stage(u)] EXCEPT ![v] = "SETTLED"]
    BY <2>1, <2>2, StageMove
  <2>4. Box!Settle(v)
    BY <2>1, <2>3 DEF Box!Settle, TallyEmptyElection, AfterElection, sessionVars
  <2> QED
    BY <2>4 DEF Box!Next
<1>10. CASE \E v \in VoteIds : CompleteVoteCleanup(v)
  <2> PICK v \in VoteIds : CompleteVoteCleanup(v)
    BY <1>10
  <2>1. \A u \in VoteIds : Stage(u)' = Stage(u)
    BY <1>0 DEF Stage, ClosedInv, CompleteVoteCleanup, TypeOK
  <2> QED
    BY <2>1 DEF Box!boxVars, CompleteVoteCleanup
<1>11. CASE \E v \in VoteIds : StartElectionVote(v)
  <2> PICK v \in VoteIds : StartElectionVote(v)
    BY <1>11
  <2>0. PICK n \in VoteIds : n = opened + 1
    BY <1>0, VotingSizes DEF TypeOK, StartElectionVote, Open, VoteIds
  <2>1. Untouched(n) /\ n # v
    BY <1>0, <2>0 DEF TypeOK, FreshInv, Untouched, StartElectionVote
  <2>2. Stage(n) = "NONE" /\ Stage(n)' = "OPEN"
    BY <1>0, <2>0, <2>1 DEF Stage, Untouched, StartElectionVote, Open, TypeOK
  <2>3. Stage(v) = "PASSED" /\ Stage(v)' = "SETTLED"
    BY <1>0, <2>0, <2>1 DEF Stage, ClosedInv, StartElectionVote, Open, TypeOK
  <2>4. \A u \in VoteIds : u # n /\ u # v => Stage(u)' = Stage(u)
    BY <1>0, <2>0 DEF Stage, StartElectionVote, Open, TypeOK
  <2>5. [u \in VoteIds |-> vote[u].kind]' = [[u \in VoteIds |-> vote[u].kind] EXCEPT ![n] = "ELECTION"]
    BY <1>0, <2>0 DEF StartElectionVote, Open, TypeOK
  <2>6. [u \in VoteIds |-> Stage(u)]'
          = [[u \in VoteIds |-> Stage(u)] EXCEPT ![v] = "SETTLED", ![n] = "OPEN"]
    BY <2>1, <2>2, <2>3, <2>4
  <2>7. UNCHANGED ballots
    BY DEF StartElectionVote
  <2>8. Box!FollowUp(v, n)
    BY <2>2, <2>3, <2>5, <2>6, <2>7 DEF Box!FollowUp
  <2> QED
    BY <2>8 DEF Box!Next
<1>12. CASE \E v \in VoteIds : StartElectionVoteFails(v)
  <2> PICK v \in VoteIds : StartElectionVoteFails(v)
    BY <1>12
  <2>1. Stage(v) = "PASSED" /\ Stage(v)' = "SETTLED"
    BY <1>0 DEF Stage, ClosedInv, StartElectionVoteFails, sessionVars, TypeOK
  <2>2. \A u \in VoteIds : u # v => Stage(u)' = Stage(u)
    BY <1>0 DEF Stage, StartElectionVoteFails, sessionVars, TypeOK
  <2>3. [u \in VoteIds |-> Stage(u)]' = [[u \in VoteIds |-> Stage(u)] EXCEPT ![v] = "SETTLED"]
    BY <2>1, <2>2, StageMove
  <2>4. Box!Settle(v)
    BY <2>1, <2>3 DEF Box!Settle, StartElectionVoteFails, sessionVars
  <2> QED
    BY <2>4 DEF Box!Next
<1>13. CASE \E v \in VoteIds : CleanupExpiredSession(v)
  <2> PICK v \in VoteIds : CleanupExpiredSession(v)
    BY <1>13
  <2>1. \A u \in VoteIds : Stage(u)' = Stage(u)
    BY <1>0 DEF Stage, ClosedInv, CleanupExpiredSession, callVars, TypeOK
  <2> QED
    BY <2>1 DEF Box!boxVars, CleanupExpiredSession
<1>14. CASE OtherServices
  BY <1>14, <1>f DEF OtherServices, sessionVars, callVars
<1>15. CASE UNCHANGED vars
  BY <1>15, <1>f DEF vars, sessionVars, callVars
<1> QED
  BY <1>1, <1>2, <1>3, <1>4, <1>5, <1>6, <1>7, <1>8, <1>9, <1>10, <1>11, <1>12, <1>13,
     <1>14, <1>15 DEF Next

\* Every vote of VotingService is a vote as VoteBox promises it: closed once,
\* decided once on the ballots it was closed with, an election for each removal
\* that passed.
THEOREM VotingImplementsVoteBox == Spec => VotesAreBoxes
<1>1. Init => BoxInv
  BY VotingInit DEF Init, BoxInv, ClosedInv
<1>2. Init => Box!Init
  BY DEF Init, Box!Init, Stage, NoVote, Blank
<1> QED
  BY <1>1, <1>2, BoxInvStep, BoxStep, PTL DEF Spec, VotesAreBoxes, Box!Spec
=============================================================================
