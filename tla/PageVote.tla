------------------------------ MODULE PageVote ------------------------------
(***************************************************************************)
(* What the page of one player (RoomPage.tsx) does about the votes of its  *)
(* room, and VotePage.tsx, which puts a vote before the player.            *)
(*                                                                         *)
(* The server holds votes to remove the leader; seven seconds after one    *)
(* passed it holds the election of the next.  The page hears of them by    *)
(* messages, shows one vote at a time and puts it away three seconds after *)
(* its result, by a timeout that does not look what the page shows by      *)
(* then.  How votes are counted is Voting.tla.                             *)
(*                                                                         *)
(* canTransferLeadership is left out: it is only read by a dialog that no  *)
(* button opens.                                                           *)
(***************************************************************************)
EXTENDS Integers, Sequences, SequencesExt

CONSTANTS
  MaxVotes,  \* bound: votes held
  Voters,    \* players of the room, the leader among them
  MaxQueue,  \* bound: messages on their way to the page
  MaxFaults  \* bound: reloads, lost connections and lost messages

ASSUME PageVoteAssumption ==
  /\ MaxVotes \in Nat \ {0} /\ Voters \in Nat \ {0, 1}
  /\ MaxQueue \in Nat \ {0, 1} /\ MaxFaults \in Nat

Votes == 1 .. MaxVotes

VARIABLES
  srv,     \* the votes on the server
  chan,    \* the messages on their way to the page
  online,  \* the page's socket is registered with the hub
  at,      \* how far initializeRoom has come
  answer,  \* the vote it was told, while that answer is on its way
  page,    \* the state of the page and of its VotePage
  calls,   \* the ballots of the player whose requests are under way
  clears,  \* the votes whose result the page will put away
  missed,  \* history: something was sent before the page was ready for it
  overlap, \* history: a vote began before the page was done with another
  faults   \* history: faults so far

vars == <<srv, chan, online, at, answer, page, calls, clears, missed, overlap, faults>>

-----------------------------------------------------------------------------
(* The values.                                                             *)

Server ==
  [playing: BOOLEAN,         \* the room is IN_PROGRESS
   n: 0 .. MaxVotes,         \* votes so far
   roomVote: 0 .. MaxVotes,  \* roomVotes
   open: SUBSET Votes,       \* the votes that are ACTIVE
   elections: SUBSET Votes,
   due: SUBSET Votes,        \* the removals whose election is still to come
   voted: [Votes -> 0 .. Voters],
   mine: SUBSET Votes]       \* the votes the player of the page has voted in

Message ==
  [type: {"STARTED"}, vote: Votes, election: BOOLEAN]
  \cup [type: {"PROGRESS"}, count: 0 .. Voters]
  \cup [type: {"COMPLETED"}, vote: Votes]
  \cup [type: {"ELECTED", "RESET"}]  \* LEADERSHIP_CHANGED after an election, GAME_RESET

Session == [vote: 0 .. MaxVotes, election: BOOLEAN, count: 0 .. Voters]
NoSession == [vote |-> 0, election |-> FALSE, count |-> 0]

Page ==
  [view: {"lobby", "game", "vote"},
   active: Session,           \* activeVoteSession
   result: 0 .. MaxVotes,     \* the vote of voteResult
   hasVoted: BOOLEAN,
   mount: 0 .. MaxVotes,      \* the vote VotePage was mounted with, 0 if it is not
   out: BOOLEAN,              \* its timeRemaining is 0
   voting: BOOLEAN]           \* its isVoting

\* A ballot of the player, for a candidate or YES or NO, from which VotePage, and
\* what became of it.
Call == [vote: Votes, by: Votes, election: BOOLEAN, state: {"SENT", "OK", "FAILED"}]

Places == {"OUT", "JOINED", "LOOKED", "ASKED", "READY"}

TypeOK ==
  /\ srv \in Server
  /\ chan \in Seq(Message) /\ Len(chan) <= MaxQueue
  /\ online \in BOOLEAN
  /\ ~online => chan = <<>>
  /\ at \in Places
  /\ answer \in Session
  /\ page \in Page
  /\ calls \subseteq Call
  /\ clears \subseteq Votes
  /\ missed \in BOOLEAN /\ overlap \in BOOLEAN
  /\ faults \in 0 .. MaxFaults

FreshPage(view) ==
  [view |-> view, active |-> NoSession, result |-> 0, hasVoted |-> FALSE,
   mount |-> 0, out |-> FALSE, voting |-> FALSE]

Init ==
  /\ srv = [playing |-> TRUE, n |-> 0, roomVote |-> 0, open |-> {}, elections |-> {},
            due |-> {}, voted |-> [v \in Votes |-> 0], mine |-> {}]
  /\ chan = <<>> /\ online = FALSE
  /\ at = "OUT" /\ answer = NoSession
  /\ page = FreshPage("lobby")
  /\ calls = {} /\ clears = {}
  /\ missed = FALSE /\ overlap = FALSE /\ faults = 0

-----------------------------------------------------------------------------
(* The server.                                                             *)

\* The messages ms go to the players of the color: to nobody once a reset has
\* taken the players out of their rooms.
Send(ms) ==
  /\ Len(chan) + Len(ms) <= MaxQueue
  /\ chan' = IF online /\ srv.playing THEN chan \o ms ELSE chan
  /\ missed' = (missed \/ ~online \/ at # "READY")

\* The vote of room s that starts next.
Started(s, election) ==
  [s EXCEPT !.n = @ + 1, !.roomVote = s.n + 1, !.open = @ \cup {s.n + 1},
            !.elections = IF election THEN @ \cup {s.n + 1} ELSE @]

SendStarted(election) ==
  Send(<<[type |-> "STARTED", vote |-> srv.n + 1, election |-> election]>>)

\* The page has put vote v away.
PutAway(v) ==
  v \notin clears /\ \A i \in DOMAIN chan : chan[i] # [type |-> "COMPLETED", vote |-> v]

\* A vote begins now, and the page may not be done with the others: a vote is
\* open, a ballot's answer is under way, or the timeout of a result is to come.
Begins == overlap' = (overlap \/ srv.open # {} \/ calls # {} \/ \E v \in Votes : ~PutAway(v))

\* A player of the room, this one or another, starts a removal.
StartVote ==
  /\ srv.playing /\ srv.n < MaxVotes
  /\ srv.roomVote \notin srv.open
  /\ srv' = Started(srv, FALSE)
  /\ SendStarted(FALSE)
  /\ Begins
  /\ UNCHANGED <<online, at, answer, page, calls, clears, faults>>

\* Everybody has a ballot in a removal, the leader to be replaced none in an
\* election.
Total(v) == IF v \in srv.elections THEN Voters - 1 ELSE Voters

Voted(s, v) == [s EXCEPT !.voted[v] = @ + 1]

SendProgress(v) == Send(<<[type |-> "PROGRESS", count |-> srv.voted[v] + 1]>>)

\* Another player votes.
OtherVotes(v) ==
  /\ v \in srv.open /\ srv.voted[v] < Total(v)
  /\ v \notin srv.mine => srv.voted[v] < Voters - 1
  /\ srv' = Voted(srv, v)
  /\ SendProgress(v)
  /\ UNCHANGED <<online, at, answer, page, calls, clears, overlap, faults>>

\* What the end of vote v makes of the votes; keep says that the entry of
\* roomVotes is left to the election that follows.
Decided(v, passed, keep) ==
  [srv EXCEPT !.open = @ \ {v},
              !.due = IF passed /\ v \notin srv.elections THEN @ \cup {v} ELSE @,
              !.roomVote = IF keep THEN @ ELSE 0]

\* CompleteVote, when all have voted: a winner of an election is announced.
CompleteVote(v) ==
  /\ v \in srv.open /\ srv.voted[v] = Total(v)
  /\ \E passed \in BOOLEAN :
       /\ srv' = Decided(v, passed, passed /\ v \notin srv.elections)
       /\ Send(<<[type |-> "COMPLETED", vote |-> v]>>
               \o IF passed /\ v \in srv.elections THEN <<[type |-> "ELECTED"]>> ELSE <<>>)
  /\ UNCHANGED <<online, at, answer, page, calls, clears, overlap, faults>>

\* handleVoteTimeout, after 30 seconds.
HandleVoteTimeout(v) ==
  /\ v \in srv.open
  /\ \E passed \in BOOLEAN : srv' = Decided(v, passed, FALSE)
  /\ Send(<<[type |-> "COMPLETED", vote |-> v]>>)
  /\ UNCHANGED <<online, at, answer, page, calls, clears, overlap, faults>>

\* StartElectionVote takes the place of whatever vote the room has by then.
\* Timing: a message is handled well before four seconds are over, so that the
\* page has put the removal away, after three, when the election comes after seven.
StartElectionVote(v) ==
  /\ v \in srv.due /\ srv.playing /\ srv.n < MaxVotes
  /\ PutAway(v)
  /\ srv' = [Started(srv, TRUE) EXCEPT !.due = @ \ {v}]
  /\ SendStarted(TRUE)
  /\ Begins
  /\ UNCHANGED <<online, at, answer, page, calls, clears, faults>>

\* GameService.ResetGame, which the votes survive; no election comes after it.
ResetGame ==
  /\ srv.playing
  /\ srv' = [srv EXCEPT !.playing = FALSE, !.due = {}]
  /\ Send(<<[type |-> "RESET"]>>)
  /\ UNCHANGED <<online, at, answer, page, calls, clears, overlap, faults>>

-----------------------------------------------------------------------------
(* VotePage.                                                               *)

\* Mutant of Rendered: VotePage stays mounted, hidden, between two votes.
RenderedOnce(p, ready) ==
  LET shown == ready /\ p.view = "vote" /\ p.active.vote # 0
  IN [p EXCEPT !.view = IF ready /\ @ = "vote" /\ ~shown THEN "game" ELSE @,
               !.mount = IF shown THEN p.active.vote ELSE @]

\* The page p as it is rendered: a vote view without a vote leads to the game;
\* VotePage is mounted with the first vote of a vote view, with a full clock,
\* and keeps its state as long as the view stays.
Rendered(p, ready) ==
  LET shown == ready /\ p.view = "vote" /\ p.active.vote # 0
  IN IF shown /\ p.mount # 0 THEN p
     ELSE [p EXCEPT !.view = IF ready /\ @ = "vote" /\ ~shown THEN "game" ELSE @,
                    !.mount = IF shown THEN p.active.vote ELSE 0,
                    !.out = FALSE, !.voting = FALSE]

Render(p, place) == page' = Rendered(p, place = "READY")

\* VotePage shows the result, the ballot of the player, or the buttons, YES and
\* NO or one for each candidate; they are enabled until a click or the end.
ResultShown == page.mount # 0 /\ page.result # 0
BallotShown == page.mount # 0 /\ page.result = 0 /\ page.hasVoted
Buttons     == page.mount # 0 /\ ~ResultShown /\ ~BallotShown
Votable     == Buttons /\ ~page.voting /\ ~page.out

\* The countdown of VotePage ends.  Timing: it begins after the vote it was
\* mounted with, so it ends after that vote does.
CountDown ==
  /\ Buttons /\ ~page.out
  /\ page.mount \notin srv.open
  /\ page' = [page EXCEPT !.out = TRUE]
  /\ UNCHANGED <<srv, chan, online, at, answer, calls, clears, missed, overlap, faults>>

\* handleVoteClick and handleVote up to the request.
ClickVote ==
  /\ Votable
  /\ page' = [page EXCEPT !.voting = TRUE]
  /\ calls' = calls \cup {[vote |-> page.active.vote, by |-> page.mount,
                            election |-> page.active.election, state |-> "SENT"]}
  /\ UNCHANGED <<srv, chan, online, at, answer, clears, missed, overlap, faults>>

\* CastVote takes one ballot of a player, and for an election a candidate only.
Accepts(c) ==
  c.vote \in srv.open \ srv.mine /\ c.election = (c.vote \in srv.elections)

CastVote(c) ==
  /\ c \in calls /\ c.state = "SENT"
  /\ IF Accepts(c)
     THEN /\ srv' = [Voted(srv, c.vote) EXCEPT !.mine = @ \cup {c.vote}]
          /\ SendProgress(c.vote)
          /\ calls' = (calls \ {c}) \cup {[c EXCEPT !.state = "OK"]}
     ELSE /\ calls' = (calls \ {c}) \cup {[c EXCEPT !.state = "FAILED"]}
          /\ UNCHANGED <<srv, chan, missed>>
  /\ UNCHANGED <<online, at, answer, page, clears, overlap, faults>>

\* The request ends, for the page whatever it shows by now and for the VotePage
\* that sent it.
Answered(c) ==
  /\ c \in calls /\ c.state # "SENT"
  /\ calls' = calls \ {c}
  /\ page' = [page EXCEPT !.hasVoted = @ \/ c.state = "OK",
                          !.voting = @ /\ c.by # page.mount]
  /\ UNCHANGED <<srv, chan, online, at, answer, clears, missed, overlap, faults>>

\* The button that leads back to the game; none leads to the vote again.
Close ==
  /\ page.mount # 0
  /\ Render([page EXCEPT !.view = "game"], at)
  /\ UNCHANGED <<srv, chan, online, at, answer, calls, clears, missed, overlap, faults>>

-----------------------------------------------------------------------------
(* initializeRoom.                                                         *)

\* The player is found or joined; from here the socket connects.
Enter ==
  /\ at = "OUT"
  /\ at' = "JOINED"
  /\ UNCHANGED <<srv, chan, online, answer, page, calls, clears, missed, overlap, faults>>

\* The socket of the page is registered with the hub.
Connect ==
  /\ at # "OUT" /\ ~online
  /\ online' = TRUE
  /\ UNCHANGED <<srv, chan, at, answer, page, calls, clears, missed, overlap, faults>>

\* The second look at the room: only in a game it goes on to the vote.
Look ==
  /\ at = "JOINED"
  /\ at' = IF srv.playing THEN "LOOKED" ELSE "READY"
  /\ Render(page, IF srv.playing THEN "LOOKED" ELSE "READY")
  /\ UNCHANGED <<srv, chan, online, answer, calls, clears, missed, overlap, faults>>

\* GetCurrentVote answers with the vote of the room, and says of no vote that
\* it is an election.
GetCurrentVote ==
  /\ at = "LOOKED"
  /\ at' = "ASKED"
  /\ answer' = IF srv.roomVote \in srv.open
               THEN [vote |-> srv.roomVote, election |-> FALSE,
                     count |-> srv.voted[srv.roomVote]]
               ELSE NoSession
  /\ UNCHANGED <<srv, chan, online, page, calls, clears, missed, overlap, faults>>

\* The page p takes over vote session s.
Opened(p, s) ==
  [p EXCEPT !.view = "vote", !.active = s, !.hasVoted = FALSE, !.result = 0]

\* The answer has come.
LoadVote ==
  /\ at = "ASKED"
  /\ at' = "READY" /\ answer' = NoSession
  /\ Render(IF answer.vote # 0 THEN Opened(page, answer) ELSE [page EXCEPT !.view = "game"],
            "READY")
  /\ UNCHANGED <<srv, chan, online, calls, clears, missed, overlap, faults>>

-----------------------------------------------------------------------------
(* The messages.                                                           *)

\* Mutant of OnProgress: heeded by an open VotePage only.
OnProgressMounted(p, m) == IF p.mount = 0 THEN p ELSE [p EXCEPT !.active.count = m.count]

\* VOTE_PROGRESS, of whichever vote.
OnProgress(p, m) == IF p.active.vote = 0 THEN p ELSE [p EXCEPT !.active.count = m.count]

\* VOTE_COMPLETED, of whichever vote; its timeout is set with it.
OnCompleted(p, m) == [p EXCEPT !.result = m.vote]

\* Mutant of WithoutVote: only the view changes and the result goes.
WithoutResult(p) == [p EXCEPT !.view = "game", !.result = 0, !.hasVoted = FALSE]

\* The vote is put away, by the timeout of a result or by LEADERSHIP_CHANGED.
WithoutVote(p) ==
  [p EXCEPT !.view = "game", !.active = NoSession, !.result = 0, !.hasVoted = FALSE]

\* The effect of lastMessage.  GAME_RESET leaves the vote alone.
Handled(p, m) ==
  CASE m.type = "STARTED"   -> Opened(p, [vote |-> m.vote, election |-> m.election, count |-> 0])
    [] m.type = "PROGRESS"  -> OnProgress(p, m)
    [] m.type = "COMPLETED" -> OnCompleted(p, m)
    [] m.type = "ELECTED"   -> WithoutVote(p)
    [] m.type = "RESET"     -> [p EXCEPT !.view = "lobby"]

\* Mutant of ToClear: the result stays until the player closes it.
ToClearNever(m) == {}

\* The timeouts that message m sets.
ToClear(m) == IF m.type = "COMPLETED" THEN {m.vote} ELSE {}

\* The page renders with the next message as lastMessage.
Receive ==
  LET m == Head(chan) IN
  /\ chan # <<>>
  /\ chan' = Tail(chan)
  /\ clears' = clears \cup ToClear(m)
  /\ Render(Handled(page, m), at)
  /\ UNCHANGED <<srv, online, at, answer, calls, missed, overlap, faults>>

\* Three seconds after the result of vote v.
Clear(v) ==
  /\ v \in clears
  /\ clears' = clears \ {v}
  /\ Render(WithoutVote(page), at)
  /\ UNCHANGED <<srv, chan, online, at, answer, calls, missed, overlap, faults>>

-----------------------------------------------------------------------------
(* What goes wrong.                                                        *)

Fault == faults < MaxFaults /\ faults' = faults + 1

\* Two messages come before the page renders: only the later is lastMessage.
Overwrite ==
  /\ Fault
  /\ Len(chan) >= 2
  /\ chan' = Tail(chan)
  /\ UNCHANGED <<srv, online, at, answer, page, calls, clears, missed, overlap>>

\* The connection is lost, with what was on its way.
Disconnect ==
  /\ Fault
  /\ online
  /\ online' = FALSE /\ chan' = <<>>
  /\ UNCHANGED <<srv, at, answer, page, calls, clears, missed, overlap>>

\* The user loads the page again: its address, with the view, stays.
Reload ==
  /\ Fault
  /\ at # "OUT"
  /\ at' = "OUT" /\ answer' = NoSession
  /\ online' = FALSE /\ chan' = <<>>
  /\ page' = FreshPage(page.view)
  /\ calls' = {} /\ clears' = {}
  /\ UNCHANGED <<srv, missed, overlap>>

-----------------------------------------------------------------------------
Next ==
  \/ StartVote \/ ResetGame
  \/ \E v \in Votes :
       \/ OtherVotes(v) \/ CompleteVote(v) \/ HandleVoteTimeout(v)
       \/ StartElectionVote(v) \/ Clear(v)
  \/ Enter \/ Connect \/ Look \/ GetCurrentVote \/ LoadVote \/ Receive
  \/ CountDown \/ ClickVote \/ Close
  \/ \E c \in calls : CastVote(c) \/ Answered(c)
  \/ Overwrite \/ Disconnect \/ Reload

Spec == Init /\ [][Next]_vars

\* The browser connects, renders, and runs its timeouts; the server answers,
\* and ends a vote after 30 seconds.  Nobody has to start a vote or to vote.
Fairness ==
  /\ WF_vars(Enter) /\ WF_vars(Connect) /\ WF_vars(Look)
  /\ WF_vars(GetCurrentVote) /\ WF_vars(LoadVote) /\ WF_vars(Receive)
  /\ \A v \in Votes :
       /\ WF_vars(HandleVoteTimeout(v)) /\ WF_vars(StartElectionVote(v))
       /\ WF_vars(Clear(v))

FairSpec == Spec /\ Fairness

-----------------------------------------------------------------------------
(* Properties.                                                             *)

\* The page was there and ready for every message.
MissedNothing == faults = 0 /\ ~missed

\* The votes came one by one as well: each began when the page was done with the
\* one before it.
Undisturbed == MissedNothing /\ ~overlap

\* VotePage and the messages about votes: at rest, while votes come one by one,
\* the page shows a vote as under way exactly when one is, with as many ballots as
\* there are.  (When the next vote begins earlier, the timeout of the result before
\* puts it away unseen, and a late answer marks it as voted: RoomPage.tsx:679, 899.)
PageAgrees ==
  Undisturbed /\ srv.playing /\ at = "READY" /\ chan = <<>> =>
    /\ page.active.vote # 0 /\ page.result = 0 => page.active.vote \in srv.open
    /\ \A v \in srv.open :
         page.active = [vote |-> v, election |-> v \in srv.elections, count |-> srv.voted[v]]

\* However votes overlap, and whichever of them the results, their timeouts and the
\* ballots' answers belong to that reach the page while it shows another: it never
\* puts a vote before the player that is over (RoomPage.tsx:620-690, 899).
NoGhostVote ==
  MissedNothing /\ srv.playing /\ at = "READY" /\ chan = <<>> =>
    (page.active.vote # 0 /\ page.result = 0 => page.active.vote \in srv.open)

\* VotePage.tsx: the buttons are held back for a request (isVoting) no longer than
\* a ballot of this VotePage is under way, whatever votes it shows meanwhile and
\* whatever is lost.
VotingEnds == page.voting => \E c \in calls : c.by = page.mount

\* RoomPage.tsx:676: once the votes are over, also those that overlapped, the page
\* is back in the game, where the button for the next one is not hidden by an old
\* one.
VoteIsLeft ==
  <>[](MissedNothing /\ srv.playing =>
         page.view # "vote" /\ page.active.vote = 0)

\* RoomPage.tsx:309 and voting_service.go:717: VotePage handles removals and
\* elections, for a player who loads the page again too.
ElectionIsShown ==
  page.active.vote # 0 => page.active.election = (page.active.vote \in srv.elections)

=============================================================================
