------------------------------- MODULE Voting -------------------------------
(***************************************************************************)
(* VotingService for one coloured room: removal votes against a leader and *)
(* the election that follows a removal that passed.                        *)
(*                                                                         *)
(* The sessions and the roomVotes entry are guarded by vs.mu, but no       *)
(* operation holds it from its first check to its last write.  A step here *)
(* is what happens under one Lock/Unlock, or between two.  Timeouts and    *)
(* the seven-second pause are goroutines that may run at any later moment. *)
(*                                                                         *)
(* The room itself (members, leaders, phase of the round) belongs to the   *)
(* other services: what they do to it is ColouredRoom, which is what       *)
(* Exchange does to each of its rooms.                                     *)
(***************************************************************************)
EXTENDS ColouredRoom, Integers

CONSTANTS
  NoBallot,   \* a player without an entry in session.Votes
  MinRoom,    \* players a removal vote needs in the room (3 in the code)
  MaxVotes,   \* bound: votes started in one behaviour, an even number: each
              \* removal is counted with the election it may lead to
  MaxBallots, \* bound: ballots cast in one behaviour
  MaxChanges  \* bound: changes the other services make to the room

ASSUME VotingPlayers ==
  /\ IsFiniteSet(Players)
  /\ Nobody \notin Players
  /\ NoBallot \notin Players \cup {"YES", "NO"}
  /\ Players \cap {"YES", "NO"} = {}
ASSUME VotingDraws == Draws \subseteq SUBSET Players
ASSUME VotingSizes ==
  /\ MinRoom \in Nat /\ MaxVotes \in Nat \ {0}
  /\ MaxBallots \in Nat /\ MaxChanges \in Nat

VoteIds == 1 .. MaxVotes
Choices == {"YES", "NO"} \cup Players

VARIABLES
  changes,     \* changes to the room so far (bounded by MaxChanges)
  opened,      \* sessions created so far; session v is the v-th
  vote,        \* type, target, TotalVoters and candidates of each session;
               \* after is history: the removal an election follows, or 0
  status,      \* session.Status; "NONE" before, "DELETED" after
  ballots,     \* session.Votes
  roomVote,    \* the entry of vs.roomVotes for this room, 0 without one
  starting,    \* StartVote calls between HasActiveVote and Lock
  checks,      \* CastVote calls between Unlock and the count of votes
  completers,  \* CompleteVote goroutines that have not locked yet
  closer,      \* where the goroutine that closed the session has got to;
               \* "NOELECTION" after an error of StartElectionVote
  result       \* the result announced in VOTE_COMPLETED

otherVars   == <<roomVars, changes>>
sessionVars == <<opened, vote, status, ballots, roomVote>>
callVars    == <<starting, checks, completers, closer>>
vars == <<otherVars, sessionVars, callVars, result>>

-----------------------------------------------------------------------------
NoVote ==
  [kind |-> "NONE", target |-> Nobody, total |-> 0, cands |-> {}, after |-> 0]
Blank == [p \in Players |-> NoBallot]

\* The players with an entry in session.Votes, and those who chose c.
Voted(v) == {p \in Players : ballots[v][p] # NoBallot}
For(v, c) == {p \in Players : ballots[v][p] = c}

AllBallots == {b \in VoteIds \X Players : ballots[b[1]][b[2]] # NoBallot}

Removals == {v \in VoteIds : vote[v].kind = "REMOVAL"}

HasActiveVote == roomVote # 0 /\ status[roomVote] = "ACTIVE"

\* A new session is stored, becomes the room's vote and gets its timeout.
Open(v, session) ==
  /\ opened < MaxVotes
  /\ opened' = v
  /\ vote' = [vote EXCEPT ![v] = session]
  /\ status' = [status EXCEPT ![v] = "ACTIVE"]
  /\ roomVote' = v

Init ==
  /\ RoomInit /\ changes = 0
  /\ opened = 0
  /\ vote = [v \in VoteIds |-> NoVote]
  /\ status = [v \in VoteIds |-> "NONE"]
  /\ ballots = [v \in VoteIds |-> Blank]
  /\ roomVote = 0 /\ starting = {}
  /\ checks = [v \in VoteIds |-> 0]
  /\ completers = [v \in VoteIds |-> 0]
  /\ closer = [v \in VoteIds |-> "NONE"]
  /\ result = [v \in VoteIds |-> "NONE"]

-----------------------------------------------------------------------------
(* StartVote.                                                              *)

\* Player i asks for a vote against t: all the checks of StartVote.  The bound
\* leaves every removal room for its election.
StartVoteCheck(i, t) ==
  /\ phase = "OPEN"
  /\ i \in members \ Leaders
  /\ t \in members \cap Leaders
  /\ Cardinality(members) >= MinRoom
  /\ ~HasActiveVote
  /\ 2 * (Cardinality(Removals) + Cardinality(starting)) + 2 <= MaxVotes
  /\ starting' = starting \cup
       {[by |-> i, target |-> t, total |-> Cardinality(members)]}
  /\ UNCHANGED <<otherVars, sessionVars, checks, completers, closer, result>>

\* StartVote stores the session it made, without looking again.
StartVote(s) ==
  /\ Open(opened + 1, [kind |-> "REMOVAL", target |-> s.target,
                       total |-> s.total, cands |-> {}, after |-> 0])
  /\ starting' = starting \ {s}
  /\ UNCHANGED <<otherVars, ballots, checks, completers, closer, result>>

-----------------------------------------------------------------------------
(* CastVote.                                                               *)

\* What may be voted for.
ValidChoice(v) ==
  IF vote[v].kind = "REMOVAL" THEN {"YES", "NO"} ELSE vote[v].cands

\* CastVote under the lock.  The voter's room is not looked at.
CastVote(v, p) ==
  /\ status[v] = "ACTIVE"
  /\ ballots[v][p] = NoBallot
  /\ Cardinality(AllBallots) < MaxBallots
  /\ \E choice \in ValidChoice(v) : ballots' = [ballots EXCEPT ![v][p] = choice]
  /\ checks' = [checks EXCEPT ![v] = @ + 1]
  /\ UNCHANGED <<otherVars, opened, vote, status, roomVote, starting,
                 completers, closer, result>>

\* Mutant of IsFull: off by one.
IsAlmostFull(v) == Cardinality(Voted(v)) + 1 >= vote[v].total

\* The condition under which a CastVote completes the session.
IsFull(v) == Cardinality(Voted(v)) = vote[v].total

\* CastVote after Unlock: the votes are counted once more.
CastVoteCheck(v) ==
  /\ checks[v] > 0
  /\ checks' = [checks EXCEPT ![v] = @ - 1]
  /\ completers' = IF IsFull(v) THEN [completers EXCEPT ![v] = @ + 1] ELSE completers
  /\ UNCHANGED <<otherVars, sessionVars, starting, closer, result>>

-----------------------------------------------------------------------------
(* CompleteVote and handleVoteTimeout: closing and deciding a session.     *)

\* Mutant of CompleteVote: only the session's presence is checked.
CompleteVoteAgain(v) ==
  /\ completers[v] > 0
  /\ completers' = [completers EXCEPT ![v] = @ - 1]
  /\ IF status[v] # "DELETED"
     THEN /\ status' = [status EXCEPT ![v] = "COMPLETED"]
          /\ closer' = [closer EXCEPT ![v] = "TALLY"]
     ELSE UNCHANGED <<status, closer>>
  /\ UNCHANGED <<otherVars, opened, vote, ballots, roomVote, starting,
                 checks, result>>

\* CompleteVote locks; all but the first goroutine find the session closed.
CompleteVote(v) ==
  /\ completers[v] > 0
  /\ completers' = [completers EXCEPT ![v] = @ - 1]
  /\ IF status[v] = "ACTIVE"
     THEN /\ status' = [status EXCEPT ![v] = "COMPLETED"]
          /\ closer' = [closer EXCEPT ![v] = "TALLY"]
     ELSE UNCHANGED <<status, closer>>
  /\ UNCHANGED <<otherVars, opened, vote, ballots, roomVote, starting,
                 checks, result>>

\* Mutant of HandleVoteTimeout: an election never times out.
HandleRemovalTimeout(v) ==
  /\ status[v] = "ACTIVE" /\ vote[v].kind = "REMOVAL"
  /\ status' = [status EXCEPT ![v] = "TIMEOUT"]
  /\ roomVote' = 0
  /\ closer' = [closer EXCEPT ![v] = "TALLY"]
  /\ UNCHANGED <<otherVars, opened, vote, ballots, starting, checks, completers, result>>

\* handleVoteTimeout wakes up, once for each session, and locks.  A session that
\* is closed is left alone; for another, the room's entry goes whatever vote it
\* names.
HandleVoteTimeout(v) ==
  /\ status[v] = "ACTIVE"
  /\ status' = [status EXCEPT ![v] = "TIMEOUT"]
  /\ roomVote' = 0
  /\ closer' = [closer EXCEPT ![v] = "TALLY"]
  /\ UNCHANGED <<otherVars, opened, vote, ballots, starting, checks, completers, result>>

\* A full vote needs more than half of TotalVoters; a timed-out one more YES
\* than NO.
RemovalPasses(v) ==
  LET yes == Cardinality(For(v, "YES"))
      no  == Cardinality(Voted(v)) - yes
  IN IF status[v] = "COMPLETED" THEN yes > vote[v].total \div 2 ELSE yes > no

\* Mutant of TallyRemoval: a removal that passes on timeout is forgotten.
TallyRemovalForgets(v) ==
  LET passed == RemovalPasses(v) IN
  /\ closer[v] = "TALLY" /\ vote[v].kind = "REMOVAL"
  /\ result' = [result EXCEPT ![v] =
       IF passed THEN "PASSED" ELSE IF status[v] = "COMPLETED" THEN "FAILED" ELSE "TIMEOUT"]
  /\ closer' = [closer EXCEPT ![v] =
       IF status[v] = "TIMEOUT" THEN "DONE" ELSE IF passed THEN "PAUSE" ELSE "CLEANUP"]
  /\ UNCHANGED <<otherVars, sessionVars, starting, checks, completers>>

\* A removal is decided and announced; if it passed, the pause begins.
TallyRemoval(v) ==
  LET passed == RemovalPasses(v) IN
  /\ closer[v] = "TALLY" /\ vote[v].kind = "REMOVAL"
  /\ result' = [result EXCEPT ![v] =
       IF passed THEN "PASSED" ELSE IF status[v] = "COMPLETED" THEN "FAILED" ELSE "TIMEOUT"]
  /\ closer' = [closer EXCEPT ![v] =
       IF passed THEN "PAUSE" ELSE IF status[v] = "COMPLETED" THEN "CLEANUP" ELSE "DONE"]
  /\ UNCHANGED <<otherVars, sessionVars, starting, checks, completers>>

\* The candidates with most votes; the iteration order of a map picks one.
Winners(v) ==
  {c \in Players : For(v, c) # {} /\
     \A d \in Players : Cardinality(For(v, d)) <= Cardinality(For(v, c))}

\* Mutant of CanLead: the winner's room is not looked at.
CanLeadAnywhere(w) == InRound

\* SetLeader accepts a winner who still is in the room of a running round.
CanLead(w) == InRound /\ w \in members

AfterElection(v) ==
  closer' = [closer EXCEPT ![v] = IF status[v] = "COMPLETED" THEN "CLEANUP" ELSE "DONE"]

\* An election is decided for w, who becomes leader if SetLeader accepts.
TallyElection(v, w) ==
  /\ closer[v] = "TALLY" /\ vote[v].kind = "ELECTION"
  /\ w \in Winners(v)
  /\ leader' = IF CanLead(w) THEN w ELSE leader
  /\ result' = [result EXCEPT ![v] =
       IF status[v] = "TIMEOUT" THEN "TIMEOUT" ELSE IF CanLead(w) THEN "PASSED" ELSE "FAILED"]
  /\ AfterElection(v)
  /\ UNCHANGED <<members, other, phase, changes, sessionVars, starting, checks, completers>>

\* An election nobody voted in leaves everything as it was.
TallyEmptyElection(v) ==
  /\ closer[v] = "TALLY" /\ vote[v].kind = "ELECTION"
  /\ Winners(v) = {}
  /\ result' = [result EXCEPT ![v] = IF status[v] = "TIMEOUT" THEN "TIMEOUT" ELSE "FAILED"]
  /\ AfterElection(v)
  /\ UNCHANGED <<otherVars, sessionVars, starting, checks, completers>>

\* CompleteVote deletes the room's entry, whatever vote it names by now.
CompleteVoteCleanup(v) ==
  /\ closer[v] = "CLEANUP"
  /\ roomVote' = 0
  /\ closer' = [closer EXCEPT ![v] = "DONE"]
  /\ UNCHANGED <<otherVars, opened, vote, status, ballots, starting, checks,
                 completers, result>>

-----------------------------------------------------------------------------
(* StartElectionVote, seven seconds after a removal passed.                *)

Candidates(v) == members \ {vote[v].target}
CanElect(v) == InRound /\ Candidates(v) # {}

\* The election replaces whatever vote the room has.
StartElectionVote(v) ==
  /\ closer[v] = "PAUSE"
  /\ CanElect(v)
  /\ Open(opened + 1, [kind |-> "ELECTION", target |-> Nobody,
                       total |-> Cardinality(Candidates(v)),
                       cands |-> Candidates(v), after |-> v])
  /\ closer' = [closer EXCEPT ![v] = "DONE"]
  /\ UNCHANGED <<otherVars, ballots, starting, checks, completers, result>>

\* No round or no candidate: the error is logged and nothing tries again.  Only
\* CompleteVote deletes the room's entry then.
StartElectionVoteFails(v) ==
  /\ closer[v] = "PAUSE"
  /\ ~CanElect(v)
  /\ roomVote' = IF status[v] = "COMPLETED" THEN 0 ELSE roomVote
  /\ closer' = [closer EXCEPT ![v] = "NOELECTION"]
  /\ UNCHANGED <<otherVars, opened, vote, status, ballots, starting, checks,
                 completers, result>>

\* cleanupExpiredSessions deletes sessions older than five minutes: long after
\* their timeout of thirty seconds, the pause of seven and the calls that were
\* under way for them, and the oldest first.
CleanupExpiredSession(v) ==
  /\ closer[v] \in {"DONE", "NOELECTION"} /\ status[v] # "DELETED"
  /\ \A u \in 1 .. (v - 1) : status[u] = "DELETED"
  /\ checks[v] = 0 /\ completers[v] = 0
  /\ status' = [status EXCEPT ![v] = "DELETED"]
  /\ UNCHANGED <<otherVars, opened, vote, ballots, roomVote, callVars, result>>

-----------------------------------------------------------------------------
(* What the other services do to the room; votes under way go on.  A step  *)
(* that leaves the room as it is counts for none.                          *)

OtherServices ==
  /\ GameStep /\ roomVars' # roomVars
  /\ changes < MaxChanges /\ changes' = changes + 1
  /\ UNCHANGED <<sessionVars, callVars, result>>

-----------------------------------------------------------------------------
Next ==
  \/ \E i, t \in Players : StartVoteCheck(i, t)
  \/ \E s \in starting : StartVote(s)
  \/ \E v \in VoteIds, p \in Players : CastVote(v, p)
  \/ \E v \in VoteIds : CastVoteCheck(v)
  \/ \E v \in VoteIds : CompleteVote(v)
  \/ \E v \in VoteIds : HandleVoteTimeout(v)
  \/ \E v \in VoteIds : TallyRemoval(v)
  \/ \E v \in VoteIds, w \in Players : TallyElection(v, w)
  \/ \E v \in VoteIds : TallyEmptyElection(v)
  \/ \E v \in VoteIds : CompleteVoteCleanup(v)
  \/ \E v \in VoteIds : StartElectionVote(v)
  \/ \E v \in VoteIds : StartElectionVoteFails(v)
  \/ \E v \in VoteIds : CleanupExpiredSession(v)
  \/ OtherServices

Spec == Init /\ [][Next]_vars

\* A call or goroutine of session v goes on by one step.
SessionGoesOn(v) ==
  \/ CastVoteCheck(v)
  \/ CompleteVote(v)
  \/ TallyRemoval(v)
  \/ \E w \in Players : TallyElection(v, w)
  \/ TallyEmptyElection(v)
  \/ CompleteVoteCleanup(v)
  \/ StartElectionVote(v)
  \/ StartElectionVoteFails(v)

\* Some goroutine of a session is scheduled as long as one could go on, and
\* sleeps end; players and owners owe nothing.
Fairness ==
  \A v \in VoteIds : WF_vars(SessionGoesOn(v)) /\ WF_vars(HandleVoteTimeout(v))

FairSpec == Spec /\ Fairness

-----------------------------------------------------------------------------
(* Properties.                                                             *)

VoteRecords ==
  [kind : {"NONE", "REMOVAL", "ELECTION"}, target : Players \cup {Nobody},
   total : Nat, cands : SUBSET Players, after : 0 .. MaxVotes]

\* Every variable keeps its type, and a ballot is one the vote's type allows.
TypeOK ==
  /\ members \subseteq Players
  /\ leader \in Players \cup {Nobody} /\ other \in Players \cup {Nobody}
  /\ phase \in {"LOBBY", "NONE", "OPEN", "SELECTING"} /\ changes \in 0 .. MaxChanges
  /\ opened \in 0 .. MaxVotes
  /\ vote \in [VoteIds -> VoteRecords]
  /\ status \in [VoteIds -> {"NONE", "ACTIVE", "COMPLETED", "TIMEOUT", "DELETED"}]
  /\ ballots \in [VoteIds -> [Players -> Choices \cup {NoBallot}]]
  /\ \A v \in VoteIds, p \in Players :
       ballots[v][p] # NoBallot =>
         ballots[v][p] \in IF vote[v].kind = "ELECTION" THEN vote[v].cands ELSE {"YES", "NO"}
  /\ roomVote \in 0 .. MaxVotes
  /\ starting \subseteq [by : Players, target : Players, total : Nat]
  /\ checks \in [VoteIds -> Nat] /\ completers \in [VoteIds -> Nat]
  /\ closer \in [VoteIds -> {"NONE", "TALLY", "PAUSE", "CLEANUP", "DONE", "NOELECTION"}]
  /\ result \in [VoteIds -> {"NONE", "PASSED", "FAILED", "TIMEOUT"}]

\* A session is COMPLETED, rather than timed out, only with a vote of each of
\* the TotalVoters, although they are counted outside the lock by whichever
\* CastVote calls happen to look.
CompletedIsFull ==
  \A v \in VoteIds :
    status[v] = "COMPLETED" => Cardinality(Voted(v)) >= vote[v].total

\* How a session looks as an abstract vote.
Stage(v) ==
  IF status[v] = "NONE" THEN "NONE"
  ELSE IF status[v] = "ACTIVE" THEN "OPEN"
  ELSE IF closer[v] = "TALLY" THEN "CLOSED"
  ELSE IF closer[v] = "PAUSE" THEN "PASSED"
  ELSE "SETTLED"

Box == INSTANCE VoteBox WITH
         stage <- [v \in VoteIds |-> Stage(v)],
         kind <- [v \in VoteIds |-> vote[v].kind]

\* Whatever CastVote calls, CompleteVote goroutines and timeouts race for a
\* session, it is closed once and decided once on the ballots it was closed
\* with, and each passed removal has one election.
VotesAreBoxes == Box!Spec

\* Whoever is made leader of the room stands in it at that moment, also when an
\* election is decided after an exchange moved its winner, or after the game it
\* was held in was reset and another one started.
NewLeaderStandsInRoom ==
  [][leader' \notin {leader, Nobody} => leader' \in members']_vars

\* Every vote that is started is decided and announced.
EveryVoteIsDecided ==
  []<>(\A v \in VoteIds : status[v] # "NONE" => result[v] # "NONE")

\* A removal that passed is followed by its own election, whatever other removal
\* is started in the seven seconds of the pause, with or without a decision of
\* its own by then, and whichever of the two elections replaces the other's entry.
\* Only an error of StartElectionVote, which finds no round or nobody to elect
\* when the pause is over, leaves the room without one (voting_service.go:414-427,
\* 546-554, 663-722).
RemovalLeadsToElection ==
  []<>(\A v \in Removals :
         \/ result[v] \in {"FAILED", "TIMEOUT"}
         \/ closer[v] = "NOELECTION"
         \/ \E u \in VoteIds : vote[u].kind = "ELECTION" /\ vote[u].after = v)

=============================================================================
