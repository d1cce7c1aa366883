--------------------------- MODULE PageVoteProofs ---------------------------
(***************************************************************************)
(* Proofs about PageVote: type correctness; that a page which missed       *)
(* nothing agrees with the votes of the room as long as they come one by   *)
(* one; that it never puts a vote before the player that is over, however  *)
(* they overlap; and that the buttons wait for no request but their own.   *)
(*                                                                         *)
(* While the votes come one by one, whatever is on its way, under way or   *)
(* still shown belongs to the last of them, and the order of the messages  *)
(* tells how far the page has come with it.  When they overlap, all that   *)
(* is left is that behind the start of each vote that is over its end is   *)
(* on the way.                                                             *)
(***************************************************************************)
EXTENDS PageVote, SequenceTheorems, TLAPS

-----------------------------------------------------------------------------
(* Types.                                                                  *)

SrvType  == srv \in Server
ChanType == /\ chan \in Seq(Message) /\ Len(chan) <= MaxQueue
            /\ online \in BOOLEAN /\ (~online => chan = <<>>)
PageType == page \in Page
CallType == calls \subseteq Call /\ clears \subseteq Votes
RestType ==
  /\ at \in Places /\ answer \in Session
  /\ missed \in BOOLEAN /\ overlap \in BOOLEAN
  /\ faults \in 0 .. MaxFaults

LEMMA TypeParts == TypeOK <=> SrvType /\ ChanType /\ PageType /\ CallType /\ RestType
BY DEF TypeOK, SrvType, ChanType, PageType, CallType, RestType

\* A ballot of the player fits into a vote it has not voted in.
RoomForBallot == \A v \in Votes : v \notin srv.mine => srv.voted[v] < Voters

\* VotePage is mounted on a page that has a vote.
MountedOnVote == page.mount # 0 => page.active.vote # 0

BasicInv == TypeOK /\ RoomForBallot /\ MountedOnVote

LEMMA MessageTypes ==
  /\ \A v \in Votes : \A e \in BOOLEAN :
       [type |-> "STARTED", vote |-> v, election |-> e] \in Message
  /\ \A c \in 0 .. Voters : [type |-> "PROGRESS", count |-> c] \in Message
  /\ \A v \in Votes : [type |-> "COMPLETED", vote |-> v] \in Message
  /\ [type |-> "ELECTED"] \in Message /\ [type |-> "RESET"] \in Message
BY DEF Message

LEMMA MessageKinds ==
  ASSUME NEW m \in Message
  PROVE  \/ m.type = "STARTED" /\ m.vote \in Votes /\ m.election \in BOOLEAN
         \/ m.type = "PROGRESS" /\ m.count \in 0 .. Voters
         \/ m.type = "COMPLETED" /\ m.vote \in Votes
         \/ m.type = "ELECTED"
         \/ m.type = "RESET"
BY DEF Message

LEMMA SendType ==
  ASSUME ChanType, NEW ms \in Seq(Message), Send(ms), online' = online
  PROVE  ChanType'
<1>1. /\ chan \o ms \in Seq(Message)
      /\ Len(chan \o ms) = Len(chan) + Len(ms)
      /\ Len(chan) \in Nat /\ Len(ms) \in Nat
  BY ConcatProperties DEF ChanType
<1> QED
  BY <1>1 DEF ChanType, Send

LEMMA SendOneType ==
  ASSUME ChanType, NEW m \in Message, Send(<<m>>), online' = online
  PROVE  ChanType'
<1>1. <<m>> \in Seq(Message)
  OBVIOUS
<1> QED
  BY <1>1, SendType

LEMMA NoSessionType == NoSession \in Session /\ NoSession.vote = 0
<1>1. 0 \in 0 .. MaxVotes /\ 0 \in 0 .. Voters
  BY PageVoteAssumption
<1> QED
  BY <1>1 DEF NoSession, Session

LEMMA EmptyQueue == <<>> \in Seq(Message) /\ Len(<<>>) <= MaxQueue
<1>1. Len(<<>>) = 0
  OBVIOUS
<1> QED
  BY <1>1, PageVoteAssumption

\* What is rendered of a page: a vote view exactly with a vote to show, and
\* VotePage mounted with it, as it was if it was mounted before.
LEMMA RenderedIs ==
  ASSUME NEW p \in Page, NEW ready \in BOOLEAN
  PROVE  LET q == Rendered(p, ready)
             shown == ready /\ p.view = "vote" /\ p.active.vote # 0
         IN /\ q \in Page
            /\ q.active = p.active /\ q.result = p.result /\ q.hasVoted = p.hasVoted
            /\ q.mount = IF ~shown THEN 0
                         ELSE IF p.mount # 0 THEN p.mount ELSE p.active.vote
            /\ q.view = IF ready /\ p.view = "vote" /\ ~shown THEN "game" ELSE p.view
            /\ q.out => shown /\ p.mount # 0 /\ p.out
            /\ q.voting => shown /\ p.mount # 0 /\ p.voting
<1> DEFINE q == Rendered(p, ready)
           shown == ready /\ p.view = "vote" /\ p.active.vote # 0
           view == IF ready /\ p.view = "vote" /\ ~shown THEN "game" ELSE p.view
           mount == IF shown THEN p.active.vote ELSE 0
<1>1. CASE shown /\ p.mount # 0
  BY <1>1 DEF Rendered
<1>2. CASE ~(shown /\ p.mount # 0)
  <2>1. q = [p EXCEPT !.view = view, !.mount = mount, !.out = FALSE, !.voting = FALSE]
    BY <1>2 DEF Rendered
  <2>2. /\ view \in {"lobby", "game", "vote"} /\ mount \in 0 .. MaxVotes
        /\ p.active.vote \in 0 .. MaxVotes
    BY PageVoteAssumption DEF Page, Session
  <2> HIDE DEF q
  <2>3. q \in Page
    BY <2>1, <2>2 DEF Page
  <2>4. /\ q.active = p.active /\ q.result = p.result /\ q.hasVoted = p.hasVoted
        /\ q.mount = mount /\ q.view = view /\ ~q.out /\ ~q.voting
    BY <2>1, <2>2 DEF Page
  <2> QED
    BY <1>2, <2>3, <2>4 DEF q
<1> QED
  BY <1>1, <1>2

\* The effect of a message on the fields of the page.
LEMMA HandledIs ==
  ASSUME NEW p \in Page, NEW m \in Message
  PROVE  LET q == Handled(p, m)
         IN /\ q \in Page /\ q.mount = p.mount /\ q.out = p.out /\ q.voting = p.voting
            /\ m.type = "STARTED" =>
                 /\ q.view = "vote" /\ q.result = 0 /\ ~q.hasVoted
                 /\ q.active = [vote |-> m.vote, election |-> m.election, count |-> 0]
            /\ m.type = "PROGRESS" =>
                 /\ q.view = p.view /\ q.result = p.result /\ q.hasVoted = p.hasVoted
                 /\ q.active = IF p.active.vote = 0 THEN p.active
                               ELSE [p.active EXCEPT !.count = m.count]
            /\ m.type = "COMPLETED" =>
                 /\ q.view = p.view /\ q.active = p.active /\ q.hasVoted = p.hasVoted
                 /\ q.result = m.vote
            /\ m.type = "ELECTED" =>
                 q.view = "game" /\ q.active = NoSession /\ q.result = 0 /\ ~q.hasVoted
            /\ m.type = "RESET" =>
                 /\ q.view = "lobby" /\ q.active = p.active /\ q.result = p.result
                 /\ q.hasVoted = p.hasVoted
<1> DEFINE q == Handled(p, m)
<1>0. Votes \subseteq 0 .. MaxVotes /\ 0 \in 0 .. MaxVotes /\ 0 \in 0 .. Voters
  BY PageVoteAssumption DEF Votes
<1>1. CASE m.type = "STARTED"
  <2> DEFINE s == [vote |-> m.vote, election |-> m.election, count |-> 0]
  <2>1. q = [p EXCEPT !.view = "vote", !.active = s, !.hasVoted = FALSE, !.result = 0]
    BY <1>1 DEF Handled, Opened
  <2>2. s \in Session
    BY <1>0, <1>1, MessageKinds DEF Session
  <2> HIDE DEF s, q
  <2>3. q \in Page
    BY <1>0, <2>1, <2>2 DEF Page
  <2>4. /\ q.mount = p.mount /\ q.out = p.out /\ q.voting = p.voting
        /\ q.view = "vote" /\ q.result = 0 /\ ~q.hasVoted /\ q.active = s
    BY <2>1 DEF Page
  <2> QED
    BY <1>1, <2>3, <2>4 DEF q, s
<1>2. CASE m.type = "PROGRESS"
  <2> DEFINE s == IF p.active.vote = 0 THEN p.active ELSE [p.active EXCEPT !.count = m.count]
  <2>1. q = IF p.active.vote = 0 THEN p ELSE [p EXCEPT !.active.count = m.count]
    BY <1>2 DEF Handled, OnProgress
  <2>2. s \in Session
    BY <1>2, MessageKinds DEF Page, Session
  <2>3. q = [p EXCEPT !.active = s]
    BY <2>1 DEF Page
  <2> HIDE DEF s, q
  <2>4. /\ q \in Page /\ q.active = s
        /\ q.mount = p.mount /\ q.out = p.out /\ q.voting = p.voting
        /\ q.view = p.view /\ q.result = p.result /\ q.hasVoted = p.hasVoted
    BY <2>2, <2>3 DEF Page
  <2> QED
    BY <1>2, <2>4 DEF q, s
<1>3. CASE m.type = "COMPLETED"
  <2>1. q = [p EXCEPT !.result = m.vote]
    BY <1>3 DEF Handled, OnCompleted
  <2>2. m.vote \in 0 .. MaxVotes
    BY <1>0, <1>3, MessageKinds
  <2> HIDE DEF q
  <2>3. /\ q \in Page /\ q.result = m.vote
        /\ q.mount = p.mount /\ q.out = p.out /\ q.voting = p.voting
        /\ q.view = p.view /\ q.active = p.active /\ q.hasVoted = p.hasVoted
    BY <2>1, <2>2 DEF Page
  <2> QED
    BY <1>3, <2>3 DEF q
<1>4. CASE m.type = "ELECTED"
  <2>1. q = [p EXCEPT !.view = "game", !.active = NoSession, !.result = 0, !.hasVoted = FALSE]
    BY <1>4 DEF Handled, WithoutVote
  <2> HIDE DEF q
  <2>2. q \in Page
    BY <1>0, <2>1, NoSessionType DEF Page
  <2>3. /\ q.mount = p.mount /\ q.out = p.out /\ q.voting = p.voting
        /\ q.view = "game" /\ q.active = NoSession /\ q.result = 0 /\ ~q.hasVoted
    BY <2>1 DEF Page
  <2> QED
    BY <1>4, <2>2, <2>3 DEF q
<1>5. CASE m.type = "RESET"
  <2>1. q = [p EXCEPT !.view = "lobby"]
    BY <1>5 DEF Handled
  <2> HIDE DEF q
  <2>2. /\ q \in Page /\ q.view = "lobby"
        /\ q.mount = p.mount /\ q.out = p.out /\ q.voting = p.voting
        /\ q.active = p.active /\ q.result = p.result /\ q.hasVoted = p.hasVoted
    BY <2>1 DEF Page
  <2> QED
    BY <1>5, <2>2 DEF q
<1> QED
  BY <1>1, <1>2, <1>3, <1>4, <1>5, MessageKinds

LEMMA WithoutVoteIs ==
  ASSUME NEW p \in Page
  PROVE  LET q == WithoutVote(p)
         IN /\ q \in Page /\ q.mount = p.mount /\ q.out = p.out /\ q.voting = p.voting
            /\ q.view = "game" /\ q.active = NoSession /\ q.result = 0 /\ ~q.hasVoted
<1> DEFINE q == WithoutVote(p)
<1>1. q = [p EXCEPT !.view = "game", !.active = NoSession, !.result = 0, !.hasVoted = FALSE]
  BY DEF WithoutVote
<1>2. 0 \in 0 .. MaxVotes
  BY PageVoteAssumption
<1> HIDE DEF q
<1>3. q \in Page
  BY <1>1, <1>2, NoSessionType DEF Page
<1>4. /\ q.mount = p.mount /\ q.out = p.out /\ q.voting = p.voting
      /\ q.view = "game" /\ q.active = NoSession /\ q.result = 0 /\ ~q.hasVoted
  BY <1>1 DEF Page
<1> QED
  BY <1>3, <1>4 DEF q

LEMMA BasicInit == Init => BasicInv
<1> SUFFICES ASSUME Init PROVE BasicInv
  OBVIOUS
<1>0. /\ 0 \in 0 .. MaxVotes /\ 0 \in 0 .. Voters /\ 0 \in 0 .. MaxFaults /\ 0 < Voters
  BY PageVoteAssumption
<1>1. SrvType /\ RoomForBallot
  <2>1. [v \in Votes |-> 0] \in [Votes -> 0 .. Voters]
    BY <1>0
  <2>2. SrvType
    BY <1>0, <2>1 DEF Init, SrvType, Server
  <2>3. RoomForBallot
    BY <1>0 DEF Init, RoomForBallot
  <2> QED
    BY <2>2, <2>3
<1>2. ChanType
  BY EmptyQueue DEF Init, ChanType
<1>3. PageType /\ MountedOnVote
  <2>1. FreshPage("lobby") \in Page /\ FreshPage("lobby").mount = 0
    BY <1>0, NoSessionType DEF FreshPage, Page
  <2> QED
    BY <2>1 DEF Init, PageType, MountedOnVote
<1>4. CallType
  BY DEF Init, CallType
<1>5. RestType
  <2>1. missed \in BOOLEAN /\ overlap \in BOOLEAN
    BY DEF Init
  <2> QED
    BY <1>0, <2>1, NoSessionType DEF Init, RestType, Places
<1> QED
  BY <1>1, <1>2, <1>3, <1>4, <1>5, TypeParts DEF BasicInv

\* A vote that starts.
LEMMA StartedType ==
  ASSUME SrvType, RoomForBallot, srv.n < MaxVotes, NEW e \in BOOLEAN
  PROVE  LET s == Started(srv, e)
         IN /\ srv.n + 1 \in Votes /\ s \in Server
            /\ s.n = srv.n + 1 /\ s.roomVote = srv.n + 1
            /\ s.open = srv.open \cup {srv.n + 1}
            /\ s.elections = IF e THEN srv.elections \cup {srv.n + 1} ELSE srv.elections
            /\ s.playing = srv.playing /\ s.due = srv.due
            /\ s.voted = srv.voted /\ s.mine = srv.mine
<1> DEFINE w == srv.n + 1
           el == IF e THEN srv.elections \cup {w} ELSE srv.elections
           s == Started(srv, e)
<1>1. w \in Votes /\ w \in 0 .. MaxVotes
  BY PageVoteAssumption DEF SrvType, Server, Votes
<1>2. s = [srv EXCEPT !.n = w, !.roomVote = w, !.open = srv.open \cup {w},
                      !.elections = el]
  BY DEF Started
<1>3. srv.open \cup {w} \in SUBSET Votes /\ el \in SUBSET Votes
  BY <1>1 DEF SrvType, Server
<1> HIDE DEF s, w, el
<1>4. /\ s \in Server /\ s.n = w /\ s.roomVote = w /\ s.open = srv.open \cup {w}
      /\ s.elections = el /\ s.playing = srv.playing /\ s.due = srv.due
      /\ s.voted = srv.voted /\ s.mine = srv.mine
  BY <1>1, <1>2, <1>3 DEF SrvType, Server
<1> QED
  BY <1>1, <1>4 DEF s, w, el

\* A ballot is counted in vote v.
LEMMA VotedType ==
  ASSUME SrvType, NEW v \in Votes, srv.voted[v] < Voters
  PROVE  LET s == Voted(srv, v)
         IN /\ s \in Server /\ srv.voted[v] + 1 \in 0 .. Voters
            /\ s.voted = [srv.voted EXCEPT ![v] = srv.voted[v] + 1]
            /\ s.n = srv.n /\ s.roomVote = srv.roomVote /\ s.open = srv.open
            /\ s.elections = srv.elections /\ s.playing = srv.playing
            /\ s.due = srv.due /\ s.mine = srv.mine
<1> DEFINE s == Voted(srv, v)
           f == [srv.voted EXCEPT ![v] = srv.voted[v] + 1]
<1>1. srv.voted[v] + 1 \in 0 .. Voters
  BY PageVoteAssumption DEF SrvType, Server
<1>2. f \in [Votes -> 0 .. Voters]
  BY <1>1 DEF SrvType, Server
<1>3. s = [srv EXCEPT !.voted = f]
  BY DEF Voted, SrvType, Server
<1> HIDE DEF s, f
<1>4. /\ s \in Server /\ s.voted = f
      /\ s.n = srv.n /\ s.roomVote = srv.roomVote /\ s.open = srv.open
      /\ s.elections = srv.elections /\ s.playing = srv.playing
      /\ s.due = srv.due /\ s.mine = srv.mine
  BY <1>2, <1>3 DEF SrvType, Server
<1> QED
  BY <1>1, <1>4 DEF s, f

\* A vote that ends.
LEMMA DecidedType ==
  ASSUME SrvType, NEW v \in Votes, NEW passed \in BOOLEAN, NEW keep \in BOOLEAN
  PROVE  LET s == Decided(v, passed, keep)
         IN /\ s \in Server /\ s.n = srv.n /\ s.open = srv.open \ {v}
            /\ s.elections = srv.elections /\ s.playing = srv.playing
            /\ s.voted = srv.voted /\ s.mine = srv.mine
<1> DEFINE s == Decided(v, passed, keep)
           d == IF passed /\ v \notin srv.elections THEN srv.due \cup {v} ELSE srv.due
           r == IF keep THEN srv.roomVote ELSE 0
<1>1. s = [srv EXCEPT !.open = srv.open \ {v}, !.due = d, !.roomVote = r]
  BY DEF Decided
<1>2. /\ srv.open \ {v} \in SUBSET Votes /\ d \in SUBSET Votes /\ r \in 0 .. MaxVotes
  BY PageVoteAssumption DEF SrvType, Server
<1> HIDE DEF s, d, r
<1>3. /\ s \in Server /\ s.n = srv.n /\ s.open = srv.open \ {v}
      /\ s.elections = srv.elections /\ s.playing = srv.playing
      /\ s.voted = srv.voted /\ s.mine = srv.mine
  BY <1>1, <1>2 DEF SrvType, Server
<1> QED
  BY <1>3 DEF s

\* The steps of the server keep its type and that of the queue.
LEMMA ServerTypeStep ==
  ASSUME BasicInv,
         \/ StartVote \/ ResetGame
         \/ \E v \in Votes :
              \/ OtherVotes(v) \/ CompleteVote(v) \/ HandleVoteTimeout(v)
              \/ StartElectionVote(v)
  PROVE  SrvType' /\ ChanType' /\ RoomForBallot'
<1>0. SrvType /\ ChanType /\ RoomForBallot
  BY TypeParts DEF BasicInv
<1>1. CASE StartVote
  <2>1. /\ srv.n < MaxVotes /\ srv' = Started(srv, FALSE) /\ online' = online
        /\ Send(<<[type |-> "STARTED", vote |-> srv.n + 1, election |-> FALSE]>>)
    BY <1>1 DEF StartVote, SendStarted
  <2>2. /\ srv.n + 1 \in Votes /\ srv' \in Server
        /\ srv'.voted = srv.voted /\ srv'.mine = srv.mine
    BY <1>0, <2>1, StartedType
  <2>3. ChanType'
    BY <1>0, <2>1, <2>2, MessageTypes, SendOneType
  <2> QED
    BY <1>0, <2>2, <2>3 DEF SrvType, RoomForBallot
<1>2. CASE ResetGame
  <2>1. /\ srv' = [srv EXCEPT !.playing = FALSE, !.due = {}] /\ online' = online
        /\ Send(<<[type |-> "RESET"]>>)
    BY <1>2 DEF ResetGame
  <2>2. ChanType'
    BY <1>0, <2>1, MessageTypes, SendOneType
  <2>3. SrvType' /\ srv'.voted = srv.voted /\ srv'.mine = srv.mine
    BY <1>0, <2>1 DEF SrvType, Server
  <2> QED
    BY <1>0, <2>2, <2>3 DEF RoomForBallot
<1>3. ASSUME NEW v \in Votes, OtherVotes(v) PROVE SrvType' /\ ChanType' /\ RoomForBallot'
  <2>1. /\ srv' = Voted(srv, v) /\ online' = online
        /\ Send(<<[type |-> "PROGRESS", count |-> srv.voted[v] + 1]>>)
        /\ srv.voted[v] < Total(v)
        /\ v \notin srv.mine => srv.voted[v] < Voters - 1
    BY <1>3 DEF OtherVotes, SendProgress
  <2>2. srv.voted[v] \in Nat /\ srv.voted[v] < Voters
    BY <1>0, <2>1, PageVoteAssumption DEF Total, SrvType, Server
  <2>3. /\ srv' \in Server /\ srv.voted[v] + 1 \in 0 .. Voters
        /\ srv'.voted = [srv.voted EXCEPT ![v] = srv.voted[v] + 1]
        /\ srv'.mine = srv.mine
    BY <1>0, <2>1, <2>2, VotedType
  <2>4. ChanType'
    BY <1>0, <2>1, <2>3, MessageTypes, SendOneType
  <2>5. RoomForBallot'
    <3>1. srv.voted \in [Votes -> 0 .. Voters]
      BY <1>0 DEF SrvType, Server
    <3> QED
      BY <1>0, <2>1, <2>2, <2>3, <3>1, PageVoteAssumption DEF RoomForBallot
  <2> QED
    BY <2>3, <2>4, <2>5 DEF SrvType
<1>4. ASSUME NEW v \in Votes, CompleteVote(v) PROVE SrvType' /\ ChanType' /\ RoomForBallot'
  <2> DEFINE done == [type |-> "COMPLETED", vote |-> v]
             news(passed) == IF passed /\ v \in srv.elections
                             THEN <<[type |-> "ELECTED"]>> ELSE <<>>
  <2>1. PICK passed \in BOOLEAN :
          /\ srv' = Decided(v, passed, passed /\ v \notin srv.elections)
          /\ Send(<<done>> \o news(passed))
    BY <1>4 DEF CompleteVote
  <2>2. /\ srv' \in Server /\ srv'.voted = srv.voted /\ srv'.mine = srv.mine
    BY <1>0, <2>1, DecidedType
  <2>3. <<done>> \in Seq(Message) /\ news(passed) \in Seq(Message)
    <3>1. done \in Message /\ [type |-> "ELECTED"] \in Message
      BY MessageTypes
    <3> HIDE DEF done
    <3> QED
      BY <3>1
  <2> HIDE DEF done, news
  <2>4. <<done>> \o news(passed) \in Seq(Message)
    BY <2>3, ConcatProperties
  <2>5. ChanType'
    BY <1>0, <1>4, <2>1, <2>4, SendType DEF CompleteVote
  <2> QED
    BY <1>0, <2>2, <2>5 DEF SrvType, RoomForBallot
<1>5. ASSUME NEW v \in Votes, HandleVoteTimeout(v)
      PROVE  SrvType' /\ ChanType' /\ RoomForBallot'
  <2>1. PICK passed \in BOOLEAN : srv' = Decided(v, passed, FALSE)
    BY <1>5 DEF HandleVoteTimeout
  <2>2. /\ srv' \in Server /\ srv'.voted = srv.voted /\ srv'.mine = srv.mine
    BY <1>0, <2>1, DecidedType
  <2>3. ChanType'
    BY <1>0, <1>5, MessageTypes, SendOneType DEF HandleVoteTimeout
  <2> QED
    BY <1>0, <2>2, <2>3 DEF SrvType, RoomForBallot
<1>6. ASSUME NEW v \in Votes, StartElectionVote(v)
      PROVE  SrvType' /\ ChanType' /\ RoomForBallot'
  <2>1. /\ srv.n < MaxVotes /\ srv' = [Started(srv, TRUE) EXCEPT !.due = @ \ {v}]
        /\ Send(<<[type |-> "STARTED", vote |-> srv.n + 1, election |-> TRUE]>>)
        /\ online' = online
    BY <1>6 DEF StartElectionVote, SendStarted
  <2> DEFINE s == Started(srv, TRUE)
  <2>2. /\ srv.n + 1 \in Votes /\ s \in Server
        /\ s.voted = srv.voted /\ s.mine = srv.mine
    BY <1>0, <2>1, StartedType
  <2>3. ChanType'
    BY <1>0, <2>1, <2>2, MessageTypes, SendOneType
  <2> HIDE DEF s
  <2>4. srv' = [s EXCEPT !.due = s.due \ {v}]
    BY <2>1 DEF s
  <2>5. SrvType' /\ srv'.voted = s.voted /\ srv'.mine = s.mine
    BY <2>2, <2>4 DEF SrvType, Server
  <2> QED
    BY <1>0, <2>2, <2>3, <2>5 DEF RoomForBallot
<1> QED
  BY <1>1, <1>2, <1>3, <1>4, <1>5, <1>6

\* What is rendered of a page of the right type keeps it, and has VotePage
\* mounted on a vote.
LEMMA RenderType ==
  ASSUME NEW p \in Page, NEW place, Render(p, place)
  PROVE  PageType' /\ MountedOnVote'
<1> DEFINE ready == place = "READY"
           q == Rendered(p, ready)
<1>1. ready \in BOOLEAN
  OBVIOUS
<1> HIDE DEF ready
<1>2. q \in Page /\ (q.mount # 0 => q.active.vote # 0)
  BY <1>1, RenderedIs
<1>3. page' = q
  BY DEF Render, ready
<1> QED
  BY <1>2, <1>3 DEF PageType, MountedOnVote

\* A ballot of the player.
LEMMA CastVoteType ==
  ASSUME BasicInv, NEW c \in calls, CastVote(c)
  PROVE  SrvType' /\ ChanType' /\ RoomForBallot' /\ CallType'
<1>0. SrvType /\ ChanType /\ RoomForBallot /\ CallType /\ c \in Call
  BY TypeParts DEF BasicInv, CallType
<1>1. \A st \in {"OK", "FAILED"} : [c EXCEPT !.state = st] \in Call
  BY <1>0 DEF Call
<1>2. CallType'
  BY <1>0, <1>1 DEF CastVote, CallType
<1>3. CASE Accepts(c)
  <2> DEFINE s == Voted(srv, c.vote)
  <2>1. /\ srv' = [s EXCEPT !.mine = @ \cup {c.vote}] /\ online' = online
        /\ Send(<<[type |-> "PROGRESS", count |-> srv.voted[c.vote] + 1]>>)
        /\ c.vote \in Votes /\ c.vote \notin srv.mine
    BY <1>0, <1>3 DEF CastVote, SendProgress, Accepts, Call
  <2>2. srv.voted[c.vote] < Voters
    BY <1>0, <2>1 DEF RoomForBallot
  <2>3. /\ s \in Server /\ srv.voted[c.vote] + 1 \in 0 .. Voters
        /\ s.voted = [srv.voted EXCEPT ![c.vote] = srv.voted[c.vote] + 1]
        /\ s.mine = srv.mine
    BY <1>0, <2>1, <2>2, VotedType
  <2>4. ChanType'
    BY <1>0, <2>1, <2>3, MessageTypes, SendOneType
  <2> HIDE DEF s
  <2>5. /\ srv' = [s EXCEPT !.mine = s.mine \cup {c.vote}]
        /\ s.mine \cup {c.vote} \in SUBSET Votes
    BY <2>1, <2>3 DEF Server
  <2>6. SrvType' /\ srv'.voted = s.voted /\ srv'.mine = s.mine \cup {c.vote}
    BY <2>3, <2>5 DEF SrvType, Server
  <2>7. RoomForBallot'
    <3>1. srv.voted \in [Votes -> 0 .. Voters]
      BY <1>0 DEF SrvType, Server
    <3> QED
      BY <1>0, <2>3, <2>6, <3>1 DEF RoomForBallot
  <2> QED
    BY <1>2, <2>4, <2>6, <2>7
<1>4. CASE ~Accepts(c)
  BY <1>0, <1>2, <1>4 DEF CastVote, SrvType, ChanType, RoomForBallot
<1> QED
  BY <1>3, <1>4

LEMMA BasicStep == BasicInv /\ [Next]_vars => BasicInv'
<1> SUFFICES ASSUME BasicInv, [Next]_vars PROVE BasicInv'
  OBVIOUS
<1>0. /\ SrvType /\ ChanType /\ PageType /\ CallType /\ RestType
      /\ RoomForBallot /\ MountedOnVote /\ page \in Page
  BY TypeParts DEF BasicInv, PageType
<1> SUFFICES /\ SrvType' /\ ChanType' /\ PageType' /\ CallType' /\ RestType'
             /\ RoomForBallot' /\ MountedOnVote'
  BY TypeParts DEF BasicInv, TypeOK, SrvType, ChanType, PageType, CallType, RestType
<1>a. Fault => faults' \in 0 .. MaxFaults
  BY <1>0, PageVoteAssumption DEF Fault, RestType
<1>b. \A ms : Send(ms) => missed' \in BOOLEAN
  BY <1>0 DEF Send, RestType
<1>c. UNCHANGED srv => SrvType' /\ RoomForBallot'
  BY <1>0 DEF SrvType, RoomForBallot
<1>d. UNCHANGED <<chan, online>> => ChanType'
  BY <1>0 DEF ChanType
<1>e. UNCHANGED page => PageType' /\ MountedOnVote'
  BY <1>0 DEF PageType, MountedOnVote
<1>f. UNCHANGED <<calls, clears>> => CallType'
  BY <1>0 DEF CallType
<1>g. UNCHANGED <<at, answer, missed, overlap, faults>> => RestType'
  BY <1>0 DEF RestType
<1>h. chan # <<>> =>
        /\ Head(chan) \in Message /\ Tail(chan) \in Seq(Message)
        /\ Len(Tail(chan)) <= MaxQueue /\ online
  BY <1>0, PageVoteAssumption DEF ChanType
<1>1. CASE \/ StartVote \/ ResetGame
           \/ \E v \in Votes :
                \/ OtherVotes(v) \/ CompleteVote(v) \/ HandleVoteTimeout(v)
                \/ StartElectionVote(v)
  <2>1. UNCHANGED <<page, calls, clears, at, answer, faults>>
    BY <1>1 DEF StartVote, ResetGame, OtherVotes, CompleteVote, HandleVoteTimeout,
                StartElectionVote
  <2>2. \E ms : Send(ms)
    BY <1>1 DEF StartVote, ResetGame, OtherVotes, CompleteVote, HandleVoteTimeout,
                StartElectionVote, SendStarted, SendProgress
  <2>3. overlap' \in BOOLEAN
    BY <1>0, <1>1 DEF StartVote, ResetGame, OtherVotes, CompleteVote, HandleVoteTimeout,
                StartElectionVote, Begins, RestType
  <2>4. RestType'
    BY <1>0, <1>b, <2>1, <2>2, <2>3 DEF RestType
  <2> QED
    BY <1>1, <1>e, <1>f, <2>1, <2>4, ServerTypeStep
<1>2. ASSUME NEW v \in Votes, Clear(v)
      PROVE  PageType' /\ MountedOnVote' /\ CallType'
  <2>1. WithoutVote(page) \in Page
    BY <1>0, WithoutVoteIs
  <2> QED
    BY <1>0, <1>2, <2>1, RenderType DEF Clear, CallType
<1>3. CASE Enter
  BY <1>0, <1>3, <1>c, <1>d, <1>e, <1>f DEF Enter, RestType, Places
<1>4. CASE Connect
  BY <1>0, <1>4, <1>c, <1>e, <1>f, <1>g DEF Connect, ChanType
<1>5. CASE Look
  <2>1. PageType' /\ MountedOnVote'
    BY <1>0, <1>5, RenderType DEF Look
  <2> QED
    BY <1>0, <1>5, <1>c, <1>d, <1>f, <2>1 DEF Look, RestType, Places
<1>6. CASE GetCurrentVote
  <2>1. answer' \in Session
    <3>1. CASE srv.roomVote \in srv.open
      <4>1. /\ srv.roomVote \in Votes /\ srv.roomVote \in 0 .. MaxVotes
            /\ srv.voted[srv.roomVote] \in 0 .. Voters
        BY <1>0, <3>1 DEF SrvType, Server
      <4> QED
        BY <1>6, <3>1, <4>1 DEF GetCurrentVote, Session
    <3>2. CASE srv.roomVote \notin srv.open
      BY <1>6, <3>2, NoSessionType DEF GetCurrentVote
    <3> QED
      BY <3>1, <3>2
  <2> QED
    BY <1>0, <1>6, <1>c, <1>d, <1>e, <1>f, <2>1 DEF GetCurrentVote, RestType, Places
<1>7. CASE LoadVote
  <2> DEFINE p == IF answer.vote # 0 THEN Opened(page, answer)
                  ELSE [page EXCEPT !.view = "game"]
  <2>1. answer \in Session /\ 0 \in 0 .. MaxVotes
    BY <1>0, PageVoteAssumption DEF RestType
  <2>2. p \in Page
    BY <1>0, <2>1 DEF Opened, Page
  <2>3. PageType' /\ MountedOnVote'
    BY <1>7, <2>2, RenderType DEF LoadVote
  <2> QED
    BY <1>0, <1>7, <1>c, <1>d, <1>f, <2>3, NoSessionType DEF LoadVote, RestType, Places
<1>8. CASE Receive
  <2>1. /\ chan # <<>> /\ chan' = Tail(chan) /\ Head(chan) \in Message
        /\ clears' = clears \cup ToClear(Head(chan)) /\ Render(Handled(page, Head(chan)), at)
    BY <1>8, <1>h DEF Receive
  <2>2. Handled(page, Head(chan)) \in Page
    BY <1>0, <2>1, HandledIs
  <2>3. PageType' /\ MountedOnVote'
    BY <2>1, <2>2, RenderType
  <2>4. ToClear(Head(chan)) \subseteq Votes
    BY <2>1, MessageKinds DEF ToClear
  <2>5. ChanType'
    BY <1>0, <1>8, <1>h, <2>1 DEF Receive, ChanType
  <2> QED
    BY <1>0, <1>8, <1>c, <1>g, <2>1, <2>3, <2>4, <2>5 DEF Receive, CallType
<1>9. CASE CountDown \/ ClickVote
  <2>1. PageType' /\ page'.mount = page.mount /\ page'.active = page.active
    BY <1>0, <1>9 DEF CountDown, ClickVote, PageType, Page
  <2>2. MountedOnVote'
    BY <1>0, <2>1 DEF MountedOnVote
  <2>3. CallType'
    <3>1. CASE ClickVote
      <4> DEFINE c == [vote |-> page.active.vote, by |-> page.mount,
                       election |-> page.active.election, state |-> "SENT"]
      <4>1. page.mount # 0 /\ page.active.vote # 0
        BY <1>0, <3>1 DEF ClickVote, Votable, Buttons, MountedOnVote
      <4>2. page.mount \in Votes /\ page.active.vote \in Votes
            /\ page.active.election \in BOOLEAN
        BY <1>0, <4>1, PageVoteAssumption DEF Page, Session, Votes
      <4>3. c \in Call
        BY <4>2 DEF Call
      <4> QED
        BY <1>0, <3>1, <4>3 DEF ClickVote, CallType
    <3>2. CASE CountDown
      BY <1>f, <3>2 DEF CountDown
    <3> QED
      BY <1>9, <3>1, <3>2
  <2> QED
    BY <1>9, <1>c, <1>d, <1>g, <2>1, <2>2, <2>3 DEF CountDown, ClickVote
<1>10. CASE Close
  <2>1. [page EXCEPT !.view = "game"] \in Page
    BY <1>0 DEF Page
  <2> QED
    BY <1>10, <1>c, <1>d, <1>f, <1>g, <2>1, RenderType DEF Close
<1>11. ASSUME NEW c \in calls, CastVote(c)
       PROVE  PageType' /\ MountedOnVote' /\ RestType'
  <2>1. missed' \in BOOLEAN
    BY <1>0, <1>b, <1>11 DEF CastVote, SendProgress, RestType
  <2> QED
    BY <1>0, <1>e, <1>11, <2>1 DEF CastVote, RestType
<1>12. ASSUME NEW c \in calls, Answered(c)
       PROVE  PageType' /\ MountedOnVote' /\ CallType'
  <2>1. /\ (page.hasVoted \/ c.state = "OK") \in BOOLEAN
        /\ (page.voting /\ c.by # page.mount) \in BOOLEAN
    OBVIOUS
  <2>2. PageType' /\ page'.mount = page.mount /\ page'.active = page.active
    BY <1>0, <1>12, <2>1 DEF Answered, PageType, Page
  <2> QED
    BY <1>0, <1>12, <2>2 DEF Answered, MountedOnVote, CallType
<1>13. CASE Overwrite
  <2>1. chan # <<>>
    BY <1>0, <1>13 DEF Overwrite, ChanType
  <2>2. ChanType'
    BY <1>0, <1>13, <1>h, <2>1 DEF Overwrite, ChanType
  <2> QED
    BY <1>0, <1>13, <1>a, <1>c, <1>e, <1>f, <2>2 DEF Overwrite, RestType
<1>14. CASE Disconnect
  <2>1. ChanType'
    BY <1>14, EmptyQueue DEF Disconnect, ChanType
  <2> QED
    BY <1>0, <1>14, <1>a, <1>c, <1>e, <1>f, <2>1 DEF Disconnect, RestType
<1>15. CASE Reload
  <2>1. ChanType'
    BY <1>15, EmptyQueue DEF Reload, ChanType
  <2>2. FreshPage(page.view) \in Page /\ FreshPage(page.view).mount = 0
    BY <1>0, NoSessionType, PageVoteAssumption DEF FreshPage, Page
  <2>3. PageType' /\ MountedOnVote'
    BY <1>15, <2>2 DEF Reload, PageType, MountedOnVote
  <2>4. CallType'
    BY <1>15 DEF Reload, CallType
  <2> QED
    BY <1>0, <1>15, <1>a, <1>c, <2>1, <2>3, <2>4, NoSessionType DEF Reload, RestType, Places
<1>16. CASE UNCHANGED vars
  BY <1>16, <1>c, <1>d, <1>e, <1>f, <1>g DEF vars
<1>17. ASSUME NEW v \in Votes, Clear(v)
       PROVE  SrvType' /\ ChanType' /\ RestType' /\ RoomForBallot'
  BY <1>c, <1>d, <1>g, <1>17 DEF Clear
<1>18. ASSUME NEW c \in calls, Answered(c)
       PROVE  SrvType' /\ ChanType' /\ RestType' /\ RoomForBallot'
  BY <1>c, <1>d, <1>g, <1>18 DEF Answered
<1> QED
  BY <1>1, <1>2, <1>3, <1>4, <1>5, <1>6, <1>7, <1>8, <1>9, <1>10, <1>11, <1>12, <1>13,
     <1>14, <1>15, <1>16, <1>17, <1>18, CastVoteType DEF Next

\* The votes, the messages, the page and its VotePage, and the requests of the
\* player hold what they are made for, whatever is lost or loaded again: a
\* ballot is asked for and counted in a vote that exists, and no vote has more
\* ballots than voters.
THEOREM PageVoteTypeCorrect == Spec => []TypeOK
<1>1. BasicInv => TypeOK
  BY DEF BasicInv
<1> QED
  BY <1>1, BasicInit, BasicStep, PTL DEF Spec

-----------------------------------------------------------------------------
(* The messages of one vote.                                               *)

Has(c, t) == \E k \in 1 .. Len(c) : c[k].type = t

\* The queue c tells of the start and the end of no vote but v, with election
\* kind e: the start first, the ballots, then the end.  After a reset nothing
\* is told.
Orderly(c, v, e) ==
  /\ \A k \in 1 .. Len(c) :
       /\ c[k].type = "STARTED" => c[k].vote = v /\ c[k].election = e
       /\ c[k].type = "COMPLETED" => c[k].vote = v
       /\ c[k].type = "RESET" => k = Len(c)
  /\ \A k, l \in 1 .. Len(c) :
       /\ c[k].type = "STARTED" /\ c[l].type \in {"STARTED", "PROGRESS", "COMPLETED"} =>
            k <= l
       /\ c[k].type \in {"PROGRESS", "COMPLETED"} /\ c[l].type = "COMPLETED" => k <= l

\* A new leader is announced between two votes: behind the end of one, before
\* the start of another, or while the vote is over.
Elected(c, over) ==
  \A k \in 1 .. Len(c) : c[k].type = "ELECTED" =>
    \/ over
    \/ \E j \in 1 .. k : c[j].type = "COMPLETED"
    \/ \E j \in k .. Len(c) : c[j].type = "STARTED"

\* The last number of ballots that the queue c tells is x.
Tallied(c, x) ==
  \A k \in 1 .. Len(c) :
    c[k].type = "PROGRESS" /\ (\A l \in k + 1 .. Len(c) : c[l].type # "PROGRESS") =>
      c[k].count = x

\* A queue with one message more.
LEMMA Appended ==
  ASSUME NEW c \in Seq(Message), NEW m \in Message
  PROVE  /\ Append(c, m) \in Seq(Message)
         /\ Len(c) \in Nat /\ Len(Append(c, m)) = Len(c) + 1
         /\ Append(c, m)[Len(c) + 1] = m
         /\ \A k \in 1 .. Len(c) : Append(c, m)[k] = c[k]
OBVIOUS

LEMMA AppendHas ==
  ASSUME NEW c \in Seq(Message), NEW m \in Message, NEW t
  PROVE  Has(Append(c, m), t) <=> Has(c, t) \/ m.type = t
<1> DEFINE d == Append(c, m)
<1>1. /\ Len(c) \in Nat /\ Len(d) = Len(c) + 1 /\ d[Len(c) + 1] = m
      /\ \A k \in 1 .. Len(c) : d[k] = c[k]
  BY Appended
<1> HIDE DEF d
<1>2. Len(c) + 1 \in 1 .. Len(d) /\ \A k \in 1 .. Len(c) : k \in 1 .. Len(d)
  BY <1>1
<1>3. Has(d, t) <=> Has(c, t) \/ m.type = t
  BY <1>1, <1>2 DEF Has
<1> QED
  BY <1>3 DEF d

\* A vote starts when nothing of another is on its way.
LEMMA StartOrderly ==
  ASSUME NEW c \in Seq(Message), NEW v, NEW e, Orderly(c, v, e),
         NEW m \in Message, m.type = "STARTED",
         ~Has(c, "STARTED"), ~Has(c, "PROGRESS"), ~Has(c, "COMPLETED"), ~Has(c, "RESET")
  PROVE  Orderly(Append(c, m), m.vote, m.election)
<1> DEFINE d == Append(c, m)
<1>1. /\ Len(c) \in Nat /\ Len(d) = Len(c) + 1 /\ d[Len(c) + 1] = m
      /\ \A k \in 1 .. Len(c) : d[k] = c[k]
  BY Appended
<1> HIDE DEF d
<1>2. \A k \in 1 .. Len(d) :
        d[k].type \in {"STARTED", "PROGRESS", "COMPLETED", "RESET"} =>
          k = Len(c) + 1 /\ d[k] = m
  BY <1>1 DEF Has
<1>3. Orderly(d, m.vote, m.election)
  BY <1>1, <1>2 DEF Orderly
<1> QED
  BY <1>3 DEF d

\* Another message comes behind.
LEMMA AppendOrderly ==
  ASSUME NEW c \in Seq(Message), NEW v, NEW e, Orderly(c, v, e),
         NEW m \in Message, m.type # "STARTED", ~Has(c, "RESET"),
         m.type \in {"PROGRESS", "COMPLETED"} => ~Has(c, "COMPLETED"),
         m.type = "COMPLETED" => m.vote = v
  PROVE  Orderly(Append(c, m), v, e)
<1> DEFINE d == Append(c, m)
<1>1. /\ Len(c) \in Nat /\ Len(d) = Len(c) + 1 /\ d[Len(c) + 1] = m
      /\ \A k \in 1 .. Len(c) : d[k] = c[k]
  BY Appended
<1> HIDE DEF d
<1>2. \A k \in 1 .. Len(d) : k \in 1 .. Len(c) \/ k = Len(c) + 1
  BY <1>1
<1>3. ASSUME NEW k \in 1 .. Len(d)
      PROVE  /\ d[k].type = "STARTED" => d[k].vote = v /\ d[k].election = e
             /\ d[k].type = "COMPLETED" => d[k].vote = v
             /\ d[k].type = "RESET" => k = Len(d)
  <2>1. CASE k \in 1 .. Len(c)
    BY <1>1, <2>1 DEF Orderly, Has
  <2>2. CASE k = Len(c) + 1
    BY <1>1, <2>2
  <2> QED
    BY <1>2, <2>1, <2>2
<1>4. ASSUME NEW k \in 1 .. Len(d), NEW l \in 1 .. Len(d)
      PROVE  /\ d[k].type = "STARTED" /\ d[l].type \in {"STARTED", "PROGRESS", "COMPLETED"} =>
                  k <= l
             /\ d[k].type \in {"PROGRESS", "COMPLETED"} /\ d[l].type = "COMPLETED" => k <= l
  <2>1. CASE l = Len(c) + 1
    BY <1>1, <2>1
  <2>2. CASE l \in 1 .. Len(c) /\ k \in 1 .. Len(c)
    BY <1>1, <2>2 DEF Orderly
  <2>3. CASE l \in 1 .. Len(c) /\ k = Len(c) + 1
    BY <1>1, <2>3 DEF Has
  <2> QED
    BY <1>2, <2>1, <2>2, <2>3
<1>5. Orderly(d, v, e)
  BY <1>3, <1>4 DEF Orderly
<1> QED
  BY <1>5 DEF d

LEMMA AppendElected ==
  ASSUME NEW c \in Seq(Message), NEW o \in BOOLEAN, NEW o2 \in BOOLEAN, Elected(c, o),
         NEW m \in Message, m.type = "STARTED" \/ (o => o2),
         m.type = "ELECTED" => Has(c, "COMPLETED")
  PROVE  Elected(Append(c, m), o2)
<1> DEFINE d == Append(c, m)
<1>1. /\ Len(c) \in Nat /\ Len(d) = Len(c) + 1 /\ d[Len(c) + 1] = m
      /\ \A k \in 1 .. Len(c) : d[k] = c[k]
  BY Appended
<1> HIDE DEF d
<1>2. ASSUME NEW k \in 1 .. Len(d), d[k].type = "ELECTED"
      PROVE  \/ o2
             \/ \E j \in 1 .. k : d[j].type = "COMPLETED"
             \/ \E j \in k .. Len(d) : d[j].type = "STARTED"
  <2>1. CASE k = Len(c) + 1
    <3>1. PICK j \in 1 .. Len(c) : c[j].type = "COMPLETED"
      BY <1>1, <1>2, <2>1 DEF Has
    <3>2. j \in 1 .. k /\ d[j].type = "COMPLETED"
      BY <1>1, <2>1, <3>1
    <3> QED
      BY <3>2
  <2>2. CASE k \in 1 .. Len(c) /\ m.type = "STARTED"
    <3>1. Len(c) + 1 \in k .. Len(d)
      BY <1>1, <2>2
    <3> QED
      BY <1>1, <2>2, <3>1
  <2>3. CASE k \in 1 .. Len(c) /\ m.type # "STARTED"
    <3>1. c[k].type = "ELECTED" /\ (o => o2)
      BY <1>1, <1>2, <2>3
    <3>2. CASE \E j \in 1 .. k : c[j].type = "COMPLETED"
      <4>1. PICK j \in 1 .. k : c[j].type = "COMPLETED"
        BY <3>2
      <4>2. d[j] = c[j]
        BY <1>1, <2>3
      <4> QED
        BY <4>1, <4>2
    <3>3. CASE \E j \in k .. Len(c) : c[j].type = "STARTED"
      <4>1. PICK j \in k .. Len(c) : c[j].type = "STARTED"
        BY <3>3
      <4>2. d[j] = c[j] /\ j \in k .. Len(d)
        BY <1>1, <2>3
      <4> QED
        BY <4>1, <4>2
    <3> QED
      BY <2>3, <3>1, <3>2, <3>3 DEF Elected
  <2> QED
    BY <1>1, <2>1, <2>2, <2>3
<1>3. Elected(d, o2)
  BY <1>2 DEF Elected
<1> QED
  BY <1>3 DEF d

LEMMA AppendTallied ==
  ASSUME NEW c \in Seq(Message), NEW x, Tallied(c, x), NEW m \in Message
  PROVE  /\ m.type # "PROGRESS" => Tallied(Append(c, m), x)
         /\ m.type = "PROGRESS" => Tallied(Append(c, m), m.count)
<1> DEFINE d == Append(c, m)
<1>1. /\ Len(c) \in Nat /\ Len(d) = Len(c) + 1 /\ d[Len(c) + 1] = m
      /\ \A k \in 1 .. Len(c) : d[k] = c[k]
  BY Appended
<1> HIDE DEF d
<1>2. ASSUME m.type # "PROGRESS", NEW k \in 1 .. Len(d), d[k].type = "PROGRESS",
             \A l \in k + 1 .. Len(d) : d[l].type # "PROGRESS"
      PROVE  d[k].count = x
  <2>1. k \in 1 .. Len(c)
    BY <1>1, <1>2
  <2>2. \A l \in k + 1 .. Len(c) : l \in k + 1 .. Len(d) /\ d[l] = c[l]
    BY <1>1, <2>1
  <2> QED
    BY <1>1, <1>2, <2>1, <2>2 DEF Tallied
<1>3. ASSUME m.type = "PROGRESS", NEW k \in 1 .. Len(d),
             \A l \in k + 1 .. Len(d) : d[l].type # "PROGRESS"
      PROVE  d[k].count = m.count
  <2>1. CASE k \in 1 .. Len(c)
    <3>1. Len(c) + 1 \in k + 1 .. Len(d)
      BY <1>1, <2>1
    <3> QED
      BY <1>1, <1>3, <3>1
  <2> QED
    BY <1>1, <2>1
<1>4. /\ m.type # "PROGRESS" => Tallied(d, x)
      /\ m.type = "PROGRESS" => Tallied(d, m.count)
  BY <1>2, <1>3 DEF Tallied
<1> QED
  BY <1>4 DEF d

\* A queue without its head.
LEMMA Tailed ==
  ASSUME NEW c \in Seq(Message), c # <<>>
  PROVE  /\ Len(c) \in Nat /\ Len(c) > 0 /\ Len(Tail(c)) = Len(c) - 1
         /\ Tail(c) \in Seq(Message) /\ Head(c) = c[1] /\ Head(c) \in Message
         /\ \A k \in 1 .. Len(Tail(c)) : k + 1 \in 2 .. Len(c) /\ Tail(c)[k] = c[k + 1]
         /\ \A k \in 2 .. Len(c) : k - 1 \in 1 .. Len(Tail(c)) /\ Tail(c)[k - 1] = c[k]
<1> DEFINE d == Tail(c)
<1>1. /\ Len(c) \in Nat /\ Len(c) > 0 /\ Len(d) = Len(c) - 1
      /\ d \in Seq(Message) /\ Head(c) = c[1] /\ Head(c) \in Message
      /\ \A k \in 1 .. Len(d) : d[k] = c[k + 1]
  OBVIOUS
<1> HIDE DEF d
<1>2. \A k \in 1 .. Len(d) : k + 1 \in 2 .. Len(c)
  BY <1>1
<1>3. ASSUME NEW k \in 2 .. Len(c) PROVE k - 1 \in 1 .. Len(d) /\ d[k - 1] = c[k]
  <2>1. k - 1 \in 1 .. Len(d) /\ (k - 1) + 1 = k
    BY <1>1
  <2> QED
    BY <1>1, <2>1
<1> QED
  BY <1>1, <1>2, <1>3 DEF d

LEMMA TailHas ==
  ASSUME NEW c \in Seq(Message), c # <<>>, NEW t
  PROVE  Has(c, t) <=> Head(c).type = t \/ Has(Tail(c), t)
<1> DEFINE d == Tail(c)
<1>1. /\ Len(c) \in Nat /\ Len(c) > 0 /\ Head(c) = c[1]
      /\ \A k \in 1 .. Len(d) : k + 1 \in 2 .. Len(c) /\ d[k] = c[k + 1]
      /\ \A k \in 2 .. Len(c) : k - 1 \in 1 .. Len(d) /\ d[k - 1] = c[k]
  BY Tailed
<1> HIDE DEF d
<1>2. ASSUME Has(c, t) PROVE c[1].type = t \/ Has(d, t)
  <2>1. PICK k \in 1 .. Len(c) : c[k].type = t
    BY <1>2 DEF Has
  <2>2. CASE k = 1
    BY <2>1, <2>2
  <2>3. CASE k \in 2 .. Len(c)
    BY <1>1, <2>1, <2>3 DEF Has
  <2> QED
    BY <1>1, <2>2, <2>3
<1>3. ASSUME Has(d, t) PROVE Has(c, t)
  <2>1. PICK k \in 1 .. Len(d) : d[k].type = t
    BY <1>3 DEF Has
  <2>2. k + 1 \in 1 .. Len(c) /\ c[k + 1].type = t
    BY <1>1, <2>1
  <2> QED
    BY <2>2 DEF Has
<1>4. c[1].type = t => Has(c, t)
  <2>1. 1 \in 1 .. Len(c)
    BY <1>1
  <2> QED
    BY <2>1 DEF Has
<1> QED
  BY <1>1, <1>2, <1>3, <1>4 DEF d

\* What the head of an orderly queue says of the rest.
LEMMA TailOrderly ==
  ASSUME NEW c \in Seq(Message), c # <<>>, NEW v, NEW e, Orderly(c, v, e)
  PROVE  /\ Orderly(Tail(c), v, e)
         /\ Head(c).type = "STARTED" => Head(c).vote = v /\ Head(c).election = e
         /\ Head(c).type = "COMPLETED" => Head(c).vote = v
         /\ Head(c).type \in {"STARTED", "PROGRESS", "COMPLETED"} => ~Has(Tail(c), "STARTED")
         /\ Head(c).type = "COMPLETED" =>
              ~Has(Tail(c), "PROGRESS") /\ ~Has(Tail(c), "COMPLETED")
         /\ Head(c).type = "RESET" => \A t : ~Has(Tail(c), t)
<1> DEFINE d == Tail(c)
<1>1. /\ Len(c) \in Nat /\ Len(c) > 0 /\ Head(c) = c[1] /\ Len(d) = Len(c) - 1
      /\ \A k \in 1 .. Len(d) : k + 1 \in 2 .. Len(c) /\ d[k] = c[k + 1]
  BY Tailed
<1> HIDE DEF d
<1>2. 1 \in 1 .. Len(c) /\ \A k \in 1 .. Len(d) : k + 1 \in 1 .. Len(c) /\ ~(k + 1 <= 1)
  BY <1>1
<1>3. ASSUME NEW k \in 1 .. Len(d)
      PROVE  /\ d[k].type = "STARTED" => d[k].vote = v /\ d[k].election = e
             /\ d[k].type = "COMPLETED" => d[k].vote = v
             /\ d[k].type = "RESET" => k = Len(d)
  BY <1>1, <1>2 DEF Orderly
<1>4. ASSUME NEW k \in 1 .. Len(d), NEW l \in 1 .. Len(d)
      PROVE  /\ d[k].type = "STARTED" /\ d[l].type \in {"STARTED", "PROGRESS", "COMPLETED"} =>
                  k <= l
             /\ d[k].type \in {"PROGRESS", "COMPLETED"} /\ d[l].type = "COMPLETED" => k <= l
  <2>1. k + 1 <= l + 1 => k <= l
    BY <1>1
  <2>2. k + 1 \in 1 .. Len(c) /\ l + 1 \in 1 .. Len(c) /\ d[k] = c[k + 1] /\ d[l] = c[l + 1]
    BY <1>1, <1>2
  <2> QED
    BY <2>1, <2>2 DEF Orderly
<1>5. Orderly(d, v, e)
  BY <1>3, <1>4 DEF Orderly
<1>6. c[1].type \in {"STARTED", "PROGRESS", "COMPLETED"} => ~Has(d, "STARTED")
  BY <1>1, <1>2 DEF Orderly, Has
<1>7. c[1].type = "COMPLETED" => ~Has(d, "PROGRESS") /\ ~Has(d, "COMPLETED")
  BY <1>1, <1>2 DEF Orderly, Has
<1>8. c[1].type = "RESET" => \A t : ~Has(d, t)
  BY <1>1, <1>2 DEF Orderly, Has
<1>9. /\ c[1].type = "STARTED" => c[1].vote = v /\ c[1].election = e
      /\ c[1].type = "COMPLETED" => c[1].vote = v
  BY <1>2 DEF Orderly
<1> QED
  BY <1>1, <1>5, <1>6, <1>7, <1>8, <1>9 DEF d

LEMMA TailElected ==
  ASSUME NEW c \in Seq(Message), c # <<>>,
         NEW o \in BOOLEAN, NEW o2 \in BOOLEAN, Elected(c, o),
         o => o2, Head(c).type = "COMPLETED" => o2
  PROVE  /\ Elected(Tail(c), o2)
         /\ Head(c).type = "ELECTED" => o \/ Has(c, "STARTED")
<1> DEFINE d == Tail(c)
<1>1. /\ Len(c) \in Nat /\ Len(c) > 0 /\ Head(c) = c[1] /\ Len(d) = Len(c) - 1
      /\ \A k \in 1 .. Len(d) : k + 1 \in 2 .. Len(c) /\ d[k] = c[k + 1]
      /\ \A k \in 2 .. Len(c) : k - 1 \in 1 .. Len(d) /\ d[k - 1] = c[k]
  BY Tailed
<1> HIDE DEF d
<1>2. ASSUME NEW k \in 1 .. Len(d), d[k].type = "ELECTED"
      PROVE  \/ o2
             \/ \E j \in 1 .. k : d[j].type = "COMPLETED"
             \/ \E j \in k .. Len(d) : d[j].type = "STARTED"
  <2>1. k + 1 \in 1 .. Len(c) /\ c[k + 1].type = "ELECTED"
    BY <1>1, <1>2
  <2>2. CASE \E j \in 1 .. k + 1 : c[j].type = "COMPLETED"
    <3>1. PICK j \in 1 .. k + 1 : c[j].type = "COMPLETED"
      BY <2>2
    <3>2. CASE j = 1
      BY <1>1, <3>1, <3>2
    <3>3. CASE j # 1
      <4>1. j \in 2 .. Len(c) /\ j - 1 \in 1 .. k
        BY <1>1, <3>3
      <4> QED
        BY <1>1, <3>1, <4>1
    <3> QED
      BY <3>2, <3>3
  <2>3. CASE \E j \in k + 1 .. Len(c) : c[j].type = "STARTED"
    <3>1. PICK j \in k + 1 .. Len(c) : c[j].type = "STARTED"
      BY <2>3
    <3>2. j \in 2 .. Len(c) /\ j - 1 \in k .. Len(d)
      BY <1>1
    <3> QED
      BY <1>1, <3>1, <3>2
  <2> QED
    BY <2>1, <2>2, <2>3 DEF Elected
<1>3. Elected(d, o2)
  BY <1>2 DEF Elected
<1>4. c[1].type = "ELECTED" => o \/ Has(c, "STARTED")
  <2>1. 1 \in 1 .. Len(c) /\ 1 .. 1 = {1}
    BY <1>1
  <2> QED
    BY <2>1 DEF Elected, Has
<1> QED
  BY <1>1, <1>3, <1>4 DEF d

LEMMA TailTallied ==
  ASSUME NEW c \in Seq(Message), c # <<>>, NEW x, Tallied(c, x)
  PROVE  /\ Tallied(Tail(c), x)
         /\ Head(c).type = "PROGRESS" => Head(c).count = x \/ Has(Tail(c), "PROGRESS")
<1> DEFINE d == Tail(c)
<1>1. /\ Len(c) \in Nat /\ Len(c) > 0 /\ Head(c) = c[1] /\ Len(d) = Len(c) - 1
      /\ \A k \in 1 .. Len(d) : k + 1 \in 2 .. Len(c) /\ d[k] = c[k + 1]
      /\ \A k \in 2 .. Len(c) : k - 1 \in 1 .. Len(d) /\ d[k - 1] = c[k]
  BY Tailed
<1> HIDE DEF d
<1>2. ASSUME NEW k \in 1 .. Len(d), d[k].type = "PROGRESS",
             \A l \in k + 1 .. Len(d) : d[l].type # "PROGRESS"
      PROVE  d[k].count = x
  <2>1. ASSUME NEW l \in (k + 1) + 1 .. Len(c) PROVE c[l].type # "PROGRESS"
    <3>1. l \in 2 .. Len(c) /\ l - 1 \in k + 1 .. Len(d)
      BY <1>1
    <3> QED
      BY <1>1, <1>2, <3>1
  <2>2. k + 1 \in 1 .. Len(c) /\ d[k] = c[k + 1]
    BY <1>1
  <2> QED
    BY <1>2, <2>1, <2>2 DEF Tallied
<1>3. c[1].type = "PROGRESS" /\ ~Has(d, "PROGRESS") => c[1].count = x
  <2>1. ASSUME ~Has(d, "PROGRESS"), NEW l \in 1 + 1 .. Len(c) PROVE c[l].type # "PROGRESS"
    <3>1. l \in 2 .. Len(c)
      BY <1>1
    <3> QED
      BY <1>1, <2>1, <3>1 DEF Has
  <2>2. 1 \in 1 .. Len(c)
    BY <1>1
  <2> QED
    BY <2>1, <2>2 DEF Tallied
<1>4. Tallied(d, x)
  BY <1>2 DEF Tallied
<1> QED
  BY <1>1, <1>3, <1>4 DEF d

-----------------------------------------------------------------------------
(* A page that was ready for every message, with the votes one by one.     *)

Coming == Has(chan, "STARTED")
Ending == Has(chan, "COMPLETED")
Open   == srv.n \in srv.open

\* Nothing of the last vote is told any more, and it is not open.
Over == ~Open /\ ~Coming /\ ~Ending

\* The page shows a vote and no result of it.
Showing == page.active.vote # 0 /\ page.result = 0

\* Until the page is ready there was no vote, and it is told of none.
Waiting ==
  at # "READY" =>
    /\ srv.n = 0 /\ srv.playing /\ srv.roomVote = 0
    /\ chan = <<>> /\ answer.vote = 0 /\ page.view # "vote"

ServerSync ==
  /\ srv.open \subseteq {srv.n}
  /\ \A v \in Votes : v > srv.n => srv.voted[v] = 0 /\ v \notin srv.elections
  /\ Orderly(chan, srv.n, srv.n \in srv.elections)
  /\ Elected(chan, Over)
  /\ Has(chan, "RESET") => ~srv.playing

CallSync ==
  /\ clears \subseteq {srv.n}
  /\ \A c \in calls : /\ c.vote = srv.n /\ c.by = srv.n
                      /\ c.state = "OK" => srv.n \in srv.mine

PageSync ==
  /\ page.active.vote = 0 => page.active = NoSession /\ page.result = 0
  /\ page.active.vote # 0 =>
       /\ page.active.vote = srv.n /\ page.active.election = (srv.n \in srv.elections)
       /\ page.result = IF clears = {} THEN 0 ELSE srv.n
       /\ page.hasVoted => srv.n \in srv.mine
  /\ page.mount \in {0, page.active.vote}
  /\ page.view = "vote" <=> page.mount # 0
  /\ page.out => page.mount # 0 /\ ~Open
  /\ page.voting => page.mount # 0 /\ calls # {}

\* The page has not heard of the vote yet, shows it, shows its result, or has
\* put it away.
Phases ==
  /\ Coming => page.active.vote = 0 /\ clears = {} /\ calls = {}
  /\ Open => ~Ending
  /\ Open \/ Ending => clears = {} /\ (Coming \/ Showing)
  /\ ~srv.playing => Has(chan, "RESET") \/ (~Coming /\ page.mount = 0)

\* As long as the room plays: a vote that the page has, or will have, and no
\* result of, is open or ends soon, with as many ballots as it will be told.
PlayingSync ==
  srv.playing =>
    /\ Has(chan, "PROGRESS") \/ Coming \/ (page.active.vote # 0 /\ clears = {}) =>
         Open \/ Ending
    /\ Open \/ Ending =>
         /\ Tallied(chan, srv.voted[srv.n])
         /\ \/ Has(chan, "PROGRESS")
            \/ (IF Coming THEN 0 ELSE page.active.count) = srv.voted[srv.n]

Synced == Waiting /\ ServerSync /\ CallSync /\ PageSync /\ Phases /\ PlayingSync

SyncInv == BasicInv /\ (Undisturbed => Synced)

\* What holds in a state of the right types.
LEMMA SyncTypes ==
  ASSUME BasicInv
  PROVE  /\ srv \in Server /\ chan \in Seq(Message) /\ page \in Page
         /\ page.active \in Session /\ calls \subseteq Call /\ clears \subseteq Votes
         /\ srv.n \in Nat /\ srv.voted \in [Votes -> 0 .. Voters]
         /\ srv.open \subseteq Votes /\ srv.elections \subseteq Votes
         /\ 0 \notin Votes /\ MountedOnVote
         /\ Coming \in BOOLEAN /\ Ending \in BOOLEAN /\ Open \in BOOLEAN
         /\ Over \in BOOLEAN
BY PageVoteAssumption
   DEF BasicInv, TypeOK, Server, Page, Votes, Coming, Ending, Open, Over, Has

LEMMA SyncInit == Init => SyncInv
<1> SUFFICES ASSUME Init PROVE Synced
  BY BasicInit DEF SyncInv
<1>1. /\ chan = <<>> /\ Len(<<>>) = 0 /\ at = "OUT" /\ calls = {} /\ clears = {}
      /\ answer = NoSession /\ NoSession.vote = 0
      /\ srv.n = 0 /\ srv.playing /\ srv.roomVote = 0 /\ srv.open = {}
      /\ srv.elections = {} /\ \A v \in Votes : srv.voted[v] = 0
  BY DEF Init, NoSession
<1>2. /\ page.active = NoSession /\ page.result = 0 /\ page.mount = 0
      /\ page.view = "lobby" /\ ~page.out /\ ~page.voting
  BY DEF Init, FreshPage
<1>3. \A t : ~Has(chan, t)
  BY <1>1 DEF Has
<1>4. Waiting
  BY <1>1, <1>2 DEF Waiting
<1>5. ServerSync
  <2>1. Orderly(chan, srv.n, srv.n \in srv.elections)
    BY <1>1 DEF Orderly
  <2>2. Elected(chan, Over)
    BY <1>1 DEF Elected
  <2> QED
    BY <1>1, <1>3, <2>1, <2>2 DEF ServerSync
<1>6. CallSync /\ PageSync
  BY <1>1, <1>2 DEF CallSync, PageSync
<1>7. Phases /\ PlayingSync
  BY <1>1, <1>2, <1>3 DEF Phases, PlayingSync, Coming, Ending, Open
<1> QED
  BY <1>4, <1>5, <1>6, <1>7 DEF Synced

\* A page that has put every vote away has no end of one on its way.
LEMMA NothingLeft ==
  ASSUME BasicInv, \A v \in Votes : PutAway(v)
  PROVE  clears = {} /\ ~Ending
<1>1. clears \subseteq Votes /\ chan \in Seq(Message)
  BY SyncTypes
<1>2. clears = {}
  BY <1>1 DEF PutAway
<1>3. ASSUME NEW k \in 1 .. Len(chan), chan[k].type = "COMPLETED" PROVE FALSE
  <2>1. chan[k] \in Message /\ k \in DOMAIN chan
    BY <1>1
  <2>2. \E v \in Votes : chan[k] = [type |-> "COMPLETED", vote |-> v]
    BY <1>3, <2>1 DEF Message
  <2> QED
    BY <2>1, <2>2 DEF PutAway
<1> QED
  BY <1>2, <1>3 DEF Ending, Has

\* A vote starts, and the page is told of it.
LEMMA StartSync ==
  ASSUME BasicInv, Synced, at' = "READY", srv.playing, srv.open = {}, calls = {},
         \A v \in Votes : PutAway(v),
         NEW e \in BOOLEAN, srv.n + 1 \in Votes,
         chan' = Append(chan, [type |-> "STARTED", vote |-> srv.n + 1, election |-> e]),
         srv'.n = srv.n + 1, srv'.open = {srv.n + 1}, srv'.playing,
         srv'.elections = IF e THEN srv.elections \cup {srv.n + 1} ELSE srv.elections,
         srv'.voted = srv.voted, srv'.mine = srv.mine,
         UNCHANGED <<page, calls, clears>>
  PROVE  Synced'
<1> DEFINE m == [type |-> "STARTED", vote |-> srv.n + 1, election |-> e]
<1>0. /\ chan \in Seq(Message) /\ srv.n \in Nat /\ 0 \notin Votes
      /\ Open \in BOOLEAN /\ Over \in BOOLEAN /\ Coming \in BOOLEAN
      /\ srv.elections \subseteq Votes /\ MountedOnVote /\ page.active \in Session
      /\ Waiting /\ ServerSync /\ CallSync /\ PageSync /\ Phases /\ PlayingSync
  BY SyncTypes DEF Synced
<1>1. clears = {} /\ ~Ending /\ ~Open
  BY NothingLeft DEF Open
<1>2. /\ ~Has(chan, "PROGRESS") /\ ~Coming /\ page.active.vote = 0
      /\ ~Has(chan, "RESET")
  BY <1>0, <1>1 DEF PlayingSync, ServerSync
<1>3. page.mount = 0
  BY <1>0, <1>2 DEF MountedOnVote
<1>4. /\ m \in Message /\ m.type = "STARTED" /\ m.vote = srv.n + 1 /\ m.election = e
      /\ chan' = Append(chan, m)
  BY MessageTypes
<1> HIDE DEF m
<1>5. /\ Coming' /\ ~Ending' /\ ~Has(chan', "PROGRESS") /\ ~Has(chan', "RESET")
  BY <1>0, <1>1, <1>2, <1>4, AppendHas DEF Coming, Ending
<1>6. e = (srv'.n \in srv'.elections)
  BY <1>0 DEF ServerSync
<1>7. Orderly(chan', srv'.n, srv'.n \in srv'.elections)
  <2>1. Orderly(chan', srv.n + 1, e)
    BY <1>0, <1>1, <1>2, <1>4, StartOrderly DEF ServerSync, Coming, Ending
  <2> QED
    BY <1>6, <2>1
<1>8. Elected(chan', Over')
  <2>1. Over' \in BOOLEAN
    BY DEF Over
  <2> HIDE DEF Over
  <2> QED
    BY <1>0, <1>4, <2>1, AppendElected DEF ServerSync
<1>9. ServerSync'
  <2>1. \A v \in Votes : v > srv'.n => srv'.voted[v] = 0 /\ v \notin srv'.elections
    <3>1. \A v \in Votes : v > srv.n + 1 => v > srv.n /\ v # srv.n + 1
      BY <1>0 DEF Votes
    <3> QED
      BY <1>0, <3>1 DEF ServerSync
  <2> QED
    BY <1>5, <1>7, <1>8, <2>1 DEF ServerSync
<1>10. CallSync'
  BY <1>1 DEF CallSync
<1>11. PageSync'
  BY <1>0, <1>1, <1>2, <1>3 DEF PageSync
<1>12. Phases'
  BY <1>1, <1>2, <1>5 DEF Phases
<1>13. PlayingSync'
  <2>1. srv'.voted[srv'.n] = 0
    BY <1>0 DEF ServerSync
  <2>2. Tallied(chan', 0)
    BY <1>5 DEF Tallied, Has
  <2>3. Open'
    BY DEF Open
  <2> QED
    BY <1>5, <2>1, <2>2, <2>3 DEF PlayingSync
<1>14. Waiting'
  BY DEF Waiting
<1> QED
  BY <1>9, <1>10, <1>11, <1>12, <1>13, <1>14 DEF Synced

\* A ballot is counted, and the page is told while the room plays.
LEMMA BallotSync ==
  ASSUME BasicInv, Synced, at' = "READY", NEW v \in Votes, v \in srv.open,
         srv.voted[v] + 1 \in 0 .. Voters,
         srv'.voted = [srv.voted EXCEPT ![v] = srv.voted[v] + 1],
         srv'.n = srv.n, srv'.open = srv.open, srv'.playing = srv.playing,
         srv'.elections = srv.elections, srv.mine \subseteq srv'.mine,
         chan' = IF srv.playing
                 THEN Append(chan, [type |-> "PROGRESS", count |-> srv.voted[v] + 1])
                 ELSE chan,
         UNCHANGED <<page, clears>>, CallSync', calls' = {} <=> calls = {}
  PROVE  Synced'
<1> DEFINE m == [type |-> "PROGRESS", count |-> srv.voted[v] + 1]
<1>0. /\ chan \in Seq(Message) /\ srv.n \in Nat /\ 0 \notin Votes
      /\ Open \in BOOLEAN /\ Over \in BOOLEAN /\ Coming \in BOOLEAN
      /\ srv.voted \in [Votes -> 0 .. Voters]
      /\ ServerSync /\ PageSync /\ Phases /\ PlayingSync
  BY SyncTypes DEF Synced
<1>1. v = srv.n /\ Open /\ ~Ending
  BY <1>0 DEF ServerSync, Open, Phases
<1>2. m \in Message /\ m.type = "PROGRESS" /\ m.count = srv.voted[v] + 1
  BY MessageTypes
<1>3. chan' = IF srv.playing THEN Append(chan, m) ELSE chan
  OBVIOUS
<1> HIDE DEF m
<1>4. \A t : t # "PROGRESS" => (Has(chan', t) <=> Has(chan, t))
  BY <1>0, <1>2, <1>3, AppendHas
<1>5. Open' /\ (Coming' <=> Coming) /\ (Ending' <=> Ending) /\ (Over' <=> Over)
  BY <1>1, <1>4 DEF Open, Coming, Ending, Over
<1>6. srv.playing => ~Has(chan, "RESET")
  BY <1>0 DEF ServerSync
<1>7. Orderly(chan', srv.n, srv.n \in srv.elections)
  <2>1. Orderly(chan, srv.n, srv.n \in srv.elections)
    BY <1>0 DEF ServerSync
  <2> QED
    BY <1>0, <1>1, <1>2, <1>3, <1>6, <2>1, AppendOrderly DEF Ending
<1>8. Elected(chan', Over)
  <2>1. Elected(chan, Over)
    BY <1>0 DEF ServerSync
  <2> HIDE DEF Over
  <2> QED
    BY <1>0, <1>2, <1>3, <2>1, AppendElected
<1>9. ServerSync'
  <2>1. \A w \in Votes : w > srv'.n => srv'.voted[w] = 0 /\ w \notin srv'.elections
    BY <1>0, <1>1 DEF ServerSync
  <2>2. Elected(chan', Over')
    BY <1>1, <1>5, <1>8 DEF Over
  <2> QED
    BY <1>0, <1>4, <1>7, <2>1, <2>2 DEF ServerSync
<1>10. PageSync' /\ Phases'
  BY <1>0, <1>1, <1>4, <1>5 DEF PageSync, Phases, Showing
<1>11. PlayingSync'
  <2> SUFFICES ASSUME srv.playing
               PROVE  Tallied(chan', srv'.voted[srv.n]) /\ Has(chan', "PROGRESS")
    BY <1>5 DEF PlayingSync
  <2>1. Tallied(chan, srv.voted[srv.n])
    BY <1>0, <1>1 DEF PlayingSync
  <2>2. srv'.voted[srv.n] = m.count
    BY <1>0, <1>1, <1>2
  <2> QED
    BY <1>0, <1>2, <1>3, <2>1, <2>2, AppendTallied, AppendHas
<1>12. Waiting'
  BY DEF Waiting
<1> QED
  BY <1>9, <1>10, <1>11, <1>12 DEF Synced

\* A vote ends, and the page is told, of the new leader too, while the room plays.
LEMMA EndSync ==
  ASSUME BasicInv, Synced, at' = "READY", NEW v \in Votes, v \in srv.open,
         srv'.n = srv.n, srv'.open = srv.open \ {v}, srv'.playing = srv.playing,
         srv'.elections = srv.elections, srv'.voted = srv.voted, srv'.mine = srv.mine,
         NEW m \in Message, m.type = "COMPLETED", m.vote = v,
         NEW w \in Message, w.type = "ELECTED",
         chan' \in IF srv.playing THEN {Append(chan, m), Append(Append(chan, m), w)}
                   ELSE {chan},
         UNCHANGED <<page, calls, clears>>
  PROVE  Synced'
<1> DEFINE d == Append(chan, m)
<1>0. /\ chan \in Seq(Message) /\ srv.n \in Nat
      /\ Open \in BOOLEAN /\ Over \in BOOLEAN /\ Coming \in BOOLEAN
      /\ ServerSync /\ CallSync /\ PageSync /\ Phases /\ PlayingSync
  BY SyncTypes DEF Synced
<1>1. v = srv.n /\ Open /\ ~Ending /\ ~Over /\ ~Open'
  BY <1>0 DEF ServerSync, Open, Phases, Over
<1>2. /\ d \in Seq(Message) /\ Has(d, "COMPLETED")
      /\ \A t : t # "COMPLETED" => (Has(d, t) <=> Has(chan, t))
  BY <1>0, Appended, AppendHas
<1> HIDE DEF d
<1>3. chan' \in IF srv.playing THEN {d, Append(d, w)} ELSE {chan}
  BY DEF d
<1>4. /\ \A t : t \notin {"COMPLETED", "ELECTED"} => (Has(chan', t) <=> Has(chan, t))
      /\ srv.playing => Ending'
      /\ ~srv.playing => ~Ending'
  <2>1. \A t : Has(Append(d, w), t) <=> Has(d, t) \/ t = "ELECTED"
    BY <1>2, AppendHas
  <2> QED
    BY <1>1, <1>2, <1>3, <2>1 DEF Ending
<1>5. (Coming' <=> Coming) /\ (srv.playing => ~Over')
  BY <1>4 DEF Coming, Over
<1>6. srv.playing => ~Has(chan, "RESET") /\ ~Has(d, "RESET")
  BY <1>0, <1>2 DEF ServerSync
<1>7. Orderly(chan', srv.n, srv.n \in srv.elections)
  <2>1. Orderly(chan, srv.n, srv.n \in srv.elections)
    BY <1>0 DEF ServerSync
  <2>2. srv.playing => Orderly(d, srv.n, srv.n \in srv.elections)
    BY <1>0, <1>1, <1>6, <2>1, AppendOrderly DEF Ending, d
  <2>3. srv.playing => Orderly(Append(d, w), srv.n, srv.n \in srv.elections)
    BY <1>2, <1>6, <2>2, AppendOrderly
  <2> QED
    BY <1>3, <2>1, <2>2, <2>3
<1>8. Elected(chan', Over')
  <2>1. Elected(chan, FALSE)
    BY <1>0, <1>1 DEF ServerSync, Elected
  <2>2. Elected(d, FALSE)
    BY <1>0, <2>1, AppendElected DEF d
  <2>3. Elected(Append(d, w), FALSE)
    BY <1>2, <2>2, AppendElected
  <2>4. Elected(chan', FALSE)
    BY <1>3, <2>1, <2>2, <2>3
  <2> QED
    BY <2>4 DEF Elected
<1>9. ServerSync'
  <2>1. Has(chan', "RESET") => ~srv.playing
    BY <1>0, <1>4 DEF ServerSync
  <2> QED
    BY <1>0, <1>7, <1>8, <2>1 DEF ServerSync
<1>10. CallSync' /\ PageSync'
  BY <1>0, <1>1 DEF CallSync, PageSync
<1>11. Phases'
  BY <1>0, <1>1, <1>4, <1>5 DEF Phases, Showing
<1>12. PlayingSync'
  <2> SUFFICES ASSUME srv.playing
               PROVE  /\ Tallied(chan', srv.voted[srv.n])
                      /\ \/ Has(chan', "PROGRESS")
                         \/ (IF Coming THEN 0 ELSE page.active.count) = srv.voted[srv.n]
    BY <1>4, <1>5 DEF PlayingSync
  <2>1. Tallied(chan, srv.voted[srv.n])
    BY <1>0, <1>1 DEF PlayingSync
  <2>2. Tallied(d, srv.voted[srv.n])
    BY <1>0, <2>1, AppendTallied DEF d
  <2>3. Tallied(Append(d, w), srv.voted[srv.n])
    BY <1>2, <2>2, AppendTallied
  <2> QED
    BY <1>0, <1>1, <1>3, <1>4, <2>2, <2>3 DEF PlayingSync
<1>13. Waiting'
  BY DEF Waiting
<1> QED
  BY <1>9, <1>10, <1>11, <1>12, <1>13 DEF Synced

\* The game is reset, and the page is told as the last.
LEMMA ResetSync ==
  ASSUME BasicInv, Synced, at' = "READY", srv.playing, ~srv'.playing,
         srv'.n = srv.n, srv'.open = srv.open, srv'.elections = srv.elections,
         srv'.voted = srv.voted, srv'.mine = srv.mine,
         NEW m \in Message, m.type = "RESET", chan' = Append(chan, m),
         UNCHANGED <<page, calls, clears>>
  PROVE  Synced'
<1>0. /\ chan \in Seq(Message) /\ Over \in BOOLEAN
      /\ ServerSync /\ CallSync /\ PageSync /\ Phases
  BY SyncTypes DEF Synced
<1>1. /\ \A t : t # "RESET" => (Has(chan', t) <=> Has(chan, t))
      /\ Has(chan', "RESET")
  BY <1>0, AppendHas
<1>2. (Open' <=> Open) /\ (Coming' <=> Coming) /\ (Ending' <=> Ending) /\ (Over' <=> Over)
  BY <1>1 DEF Open, Coming, Ending, Over
<1>3. ServerSync'
  <2>1. Orderly(chan', srv.n, srv.n \in srv.elections)
    BY <1>0, AppendOrderly DEF ServerSync
  <2>2. Elected(chan', Over)
    <3>1. Elected(chan, Over)
      BY <1>0 DEF ServerSync
    <3> HIDE DEF Over
    <3> QED
      BY <1>0, <3>1, AppendElected
  <2>3. Elected(chan', Over')
    BY <1>2, <2>2 DEF Elected
  <2> QED
    BY <1>0, <2>1, <2>3 DEF ServerSync
<1>4. CallSync' /\ PageSync' /\ Phases'
  BY <1>0, <1>1, <1>2 DEF CallSync, PageSync, Phases, Showing
<1>5. PlayingSync' /\ Waiting'
  BY DEF PlayingSync, Waiting
<1> QED
  BY <1>3, <1>4, <1>5 DEF Synced

\* The page handles the next message.
LEMMA ReceiveSync ==
  ASSUME BasicInv, Synced, Receive
  PROVE  Synced'
<1> DEFINE m == Head(chan)
           e == srv.n \in srv.elections
           p == Handled(page, m)
<1>0. /\ chan \in Seq(Message) /\ page \in Page /\ MountedOnVote /\ 0 \notin Votes
      /\ page.active \in Session
      /\ Open \in BOOLEAN /\ Over \in BOOLEAN
      /\ Waiting /\ ServerSync /\ CallSync /\ PageSync /\ Phases /\ PlayingSync
  BY SyncTypes DEF Synced
<1>1. /\ chan # <<>> /\ chan' = Tail(chan) /\ clears' = clears \cup ToClear(m)
      /\ at = "READY" /\ page' = Rendered(p, TRUE)
      /\ UNCHANGED <<srv, at, calls>>
  BY <1>0 DEF Receive, Render, Waiting
<1>2. /\ m \in Message
      /\ \A t : Has(chan, t) <=> m.type = t \/ Has(chan', t)
  BY <1>0, <1>1, Tailed, TailHas
<1>3. /\ Orderly(chan', srv.n, e)
      /\ m.type = "STARTED" => m.vote = srv.n /\ m.election = e
      /\ m.type = "COMPLETED" => m.vote = srv.n
      /\ m.type \in {"STARTED", "PROGRESS", "COMPLETED"} => ~Has(chan', "STARTED")
      /\ m.type = "COMPLETED" => ~Has(chan', "PROGRESS") /\ ~Has(chan', "COMPLETED")
      /\ m.type = "RESET" => \A t : ~Has(chan', t)
  <2>1. Orderly(chan, srv.n, e)
    BY <1>0 DEF ServerSync
  <2> HIDE DEF e
  <2> QED
    BY <1>0, <1>1, <2>1, TailOrderly
<1>4. /\ p \in Page /\ p.mount = page.mount /\ p.out = page.out /\ p.voting = page.voting
      /\ m.type = "STARTED" =>
           /\ p.view = "vote" /\ p.result = 0 /\ ~p.hasVoted
           /\ p.active = [vote |-> m.vote, election |-> m.election, count |-> 0]
      /\ m.type = "PROGRESS" =>
           /\ p.view = page.view /\ p.result = page.result /\ p.hasVoted = page.hasVoted
           /\ p.active = IF page.active.vote = 0 THEN page.active
                         ELSE [page.active EXCEPT !.count = m.count]
      /\ m.type = "COMPLETED" =>
           /\ p.view = page.view /\ p.active = page.active /\ p.hasVoted = page.hasVoted
           /\ p.result = m.vote
      /\ m.type = "ELECTED" =>
           p.view = "game" /\ p.active = NoSession /\ p.result = 0 /\ ~p.hasVoted
      /\ m.type = "RESET" =>
           /\ p.view = "lobby" /\ p.active = page.active /\ p.result = page.result
           /\ p.hasVoted = page.hasVoted
  <2> HIDE DEF m
  <2> QED
    BY <1>0, <1>2, HandledIs
<1> HIDE DEF p
<1>5. /\ page'.active = p.active /\ page'.result = p.result /\ page'.hasVoted = p.hasVoted
      /\ page'.mount = IF ~(p.view = "vote" /\ p.active.vote # 0) THEN 0
                       ELSE IF page.mount # 0 THEN page.mount ELSE p.active.vote
      /\ page'.view = IF p.view = "vote" /\ p.active.vote = 0 THEN "game" ELSE p.view
      /\ page'.out => p.view = "vote" /\ p.active.vote # 0 /\ page.mount # 0 /\ page.out
      /\ page'.voting => p.view = "vote" /\ p.active.vote # 0 /\ page.mount # 0 /\ page.voting
  <2> DEFINE q == Rendered(p, TRUE)
             shown == p.view = "vote" /\ p.active.vote # 0
  <2>1. /\ q.active = p.active /\ q.result = p.result /\ q.hasVoted = p.hasVoted
        /\ q.mount = IF ~shown THEN 0 ELSE IF p.mount # 0 THEN p.mount ELSE p.active.vote
        /\ q.view = IF p.view = "vote" /\ ~shown THEN "game" ELSE p.view
        /\ q.out => shown /\ p.mount # 0 /\ p.out
        /\ q.voting => shown /\ p.mount # 0 /\ p.voting
    BY <1>4, RenderedIs
  <2>2. /\ page' = q /\ p.mount = page.mount /\ p.out = page.out /\ p.voting = page.voting
    BY <1>1, <1>4
  <2> HIDE DEF q
  <2> QED
    BY <2>1, <2>2
<1>6. /\ m.type = "STARTED" \/ m.type = "PROGRESS" \/ m.type = "COMPLETED"
         \/ m.type = "ELECTED" \/ m.type = "RESET"
      /\ m.type \in {"STARTED", "COMPLETED"} => m.vote \in Votes
  BY <1>2, MessageKinds
<1> HIDE DEF m
<1>7. (Open' <=> Open) /\ (Over => Over')
  BY <1>1, <1>2 DEF Open, Over, Coming, Ending
<1>8. m.type = "COMPLETED" => ~Open /\ ~Coming /\ ~Coming' /\ ~Ending' /\ Over'
  BY <1>0, <1>2, <1>3, <1>7 DEF Phases, Coming, Ending, Over
<1>9. Elected(chan', Over') /\ (m.type = "ELECTED" => Over \/ Coming)
  <2>1. Elected(chan, Over) /\ Over' \in BOOLEAN
    BY <1>0 DEF ServerSync, Over
  <2>2. Over => Over'
    BY <1>7
  <2>3. m.type = "COMPLETED" => Over'
    BY <1>8
  <2> DEFINE o2 == Over'
  <2> HIDE DEF Over, o2
  <2>4. /\ Elected(Tail(chan), o2)
        /\ Head(chan).type = "ELECTED" => Over \/ Has(chan, "STARTED")
    BY <1>0, <1>1, <2>1, <2>2, <2>3, TailElected DEF m, o2
  <2> QED
    BY <1>1, <2>4 DEF m, o2, Coming
<1>10. ServerSync'
  BY <1>0, <1>1, <1>2, <1>3, <1>9 DEF ServerSync
<1>11. CallSync'
  <2>1. ToClear(m) \subseteq {srv.n}
    BY <1>3 DEF ToClear
  <2> QED
    BY <1>0, <1>1, <2>1 DEF CallSync
<1>12. m.type # "COMPLETED" => clears' = clears
  BY <1>1 DEF ToClear
<1>13. m.type = "COMPLETED" => clears' = {srv.n} /\ clears = {} /\ Showing
  BY <1>0, <1>1, <1>2, <1>3, <1>8 DEF ToClear, Phases, Ending
<1>14. Waiting'
  BY <1>1 DEF Waiting
<1>15. CASE m.type = "STARTED"
  <2>1. /\ Coming /\ ~Coming' /\ (Ending' <=> Ending)
        /\ (Has(chan', "PROGRESS") <=> Has(chan, "PROGRESS"))
        /\ (Has(chan', "RESET") <=> Has(chan, "RESET"))
    BY <1>2, <1>3, <1>15 DEF Coming, Ending
  <2>2. /\ page.active.vote = 0 /\ clears' = {} /\ calls' = {} /\ page.mount = 0
    BY <1>0, <1>1, <1>12, <1>15, <2>1 DEF Phases, MountedOnVote
  <2>3. /\ page'.active.vote = srv.n /\ page'.active.election = (srv.n \in srv.elections)
        /\ page'.active.count = 0 /\ srv.n # 0
        /\ page'.result = 0 /\ ~page'.hasVoted /\ page'.view = "vote"
        /\ page'.mount = srv.n /\ ~page'.out /\ ~page'.voting
    <3>1. page'.active = [vote |-> m.vote, election |-> m.election, count |-> 0]
      BY <1>4, <1>5, <1>15
    <3>2. m.vote = srv.n /\ m.election = (srv.n \in srv.elections) /\ srv.n # 0
      BY <1>0, <1>3, <1>6, <1>15
    <3>3. /\ page'.active.vote = srv.n /\ page'.active.count = 0
          /\ page'.active.election = (srv.n \in srv.elections)
      BY <3>1, <3>2
    <3>4. p.view = "vote" /\ p.active.vote = srv.n /\ ~p.hasVoted /\ p.result = 0
      BY <1>4, <1>5, <1>15, <3>3
    <3> QED
      BY <1>5, <2>2, <3>2, <3>3, <3>4
  <2>4. PageSync'
    BY <1>1, <2>2, <2>3 DEF PageSync
  <2>5. Phases'
    BY <1>0, <1>1, <1>7, <2>1, <2>2, <2>3 DEF Phases, Showing
  <2>6. PlayingSync'
    <3> SUFFICES ASSUME srv.playing
                 PROVE  /\ Open \/ Ending
                        /\ Tallied(chan', srv.voted[srv.n])
                        /\ Has(chan', "PROGRESS") \/ 0 = srv.voted[srv.n]
      BY <1>1, <1>7, <2>1, <2>3 DEF PlayingSync
    <3>1. Open \/ Ending
      BY <1>0, <2>1 DEF PlayingSync
    <3>2. /\ Tallied(chan, srv.voted[srv.n])
          /\ Has(chan', "PROGRESS") \/ 0 = srv.voted[srv.n]
      BY <1>0, <2>1, <3>1 DEF PlayingSync
    <3>3. Tallied(chan', srv.voted[srv.n])
      BY <1>0, <1>1, <3>2, TailTallied
    <3> QED
      BY <3>1, <3>2, <3>3
  <2> QED
    BY <1>10, <1>11, <1>14, <2>4, <2>5, <2>6 DEF Synced
<1>16. CASE m.type = "PROGRESS"
  <2>1. /\ ~Coming /\ ~Coming' /\ (Ending' <=> Ending) /\ Has(chan, "PROGRESS")
        /\ (Has(chan', "RESET") <=> Has(chan, "RESET")) /\ clears' = clears
    BY <1>2, <1>3, <1>12, <1>16 DEF Coming, Ending
  <2>2. /\ page'.active = IF page.active.vote = 0 THEN page.active
                          ELSE [page.active EXCEPT !.count = m.count]
        /\ page'.result = page.result /\ page'.hasVoted = page.hasVoted
    BY <1>4, <1>5, <1>16
  <2>3. /\ page'.active.vote = page.active.vote
        /\ page'.active.election = page.active.election
        /\ page.active.vote = 0 => page'.active = page.active
        /\ page.active.vote # 0 => page'.active.count = m.count
    BY <1>0, <2>2 DEF Session
  <2>4. /\ page'.mount = page.mount /\ page'.view = page.view
        /\ page'.out => page.out
        /\ page'.voting => page.voting
    BY <1>0, <1>4, <1>5, <1>16, <2>2, <2>3 DEF PageSync, MountedOnVote
  <2>5. PageSync'
    BY <1>0, <1>1, <1>7, <2>1, <2>2, <2>3, <2>4 DEF PageSync
  <2>6. Phases'
    BY <1>0, <1>1, <1>7, <2>1, <2>2, <2>3, <2>4 DEF Phases, Showing
  <2>7. PlayingSync'
    <3> SUFFICES ASSUME srv.playing
                 PROVE  /\ Open \/ Ending
                        /\ Tallied(chan', srv.voted[srv.n])
                        /\ Has(chan', "PROGRESS") \/ page'.active.count = srv.voted[srv.n]
      BY <1>1, <1>7, <2>1 DEF PlayingSync
    <3>1. Open \/ Ending
      BY <1>0, <2>1 DEF PlayingSync
    <3>2. Tallied(chan, srv.voted[srv.n]) /\ Showing
      BY <1>0, <2>1, <3>1 DEF PlayingSync, Phases
    <3>3. /\ Tallied(chan', srv.voted[srv.n])
          /\ Has(chan', "PROGRESS") \/ m.count = srv.voted[srv.n]
      BY <1>0, <1>1, <1>16, <3>2, TailTallied DEF m
    <3> QED
      BY <2>3, <3>1, <3>2, <3>3 DEF Showing
  <2> QED
    BY <1>10, <1>11, <1>14, <2>5, <2>6, <2>7 DEF Synced
<1>17. CASE m.type = "COMPLETED"
  <2>1. /\ ~Open /\ ~Open' /\ ~Coming /\ ~Coming' /\ ~Ending' /\ ~Has(chan', "PROGRESS")
        /\ (Has(chan', "RESET") <=> Has(chan, "RESET"))
        /\ clears' = {srv.n} /\ clears = {} /\ Showing
    BY <1>2, <1>3, <1>7, <1>8, <1>13, <1>17
  <2>2. /\ page'.active = page.active /\ page'.result = srv.n
        /\ page'.hasVoted = page.hasVoted
    BY <1>3, <1>4, <1>5, <1>17
  <2>3. /\ page'.mount = page.mount /\ page'.view = page.view
        /\ page'.out => page.out
        /\ page'.voting => page.voting
    BY <1>0, <1>4, <1>5, <1>17 DEF PageSync, MountedOnVote
  <2>4. PageSync'
    BY <1>0, <1>1, <2>1, <2>2, <2>3 DEF PageSync, Showing
  <2>5. Phases'
    BY <1>0, <1>1, <2>1, <2>2, <2>3 DEF Phases
  <2>6. PlayingSync'
    BY <2>1 DEF PlayingSync
  <2> QED
    BY <1>10, <1>11, <1>14, <2>4, <2>5, <2>6 DEF Synced
<1>18. CASE m.type = "ELECTED"
  <2>1. /\ (Coming' <=> Coming) /\ (Ending' <=> Ending)
        /\ (Has(chan', "PROGRESS") <=> Has(chan, "PROGRESS"))
        /\ (Has(chan', "RESET") <=> Has(chan, "RESET")) /\ clears' = clears
    BY <1>2, <1>12, <1>18 DEF Coming, Ending
  <2>2. Over \/ Coming
    BY <1>9, <1>18
  <2>3. /\ page'.active = NoSession /\ NoSession.vote = 0 /\ page'.result = 0
        /\ page'.view = "game" /\ page'.mount = 0 /\ ~page'.out /\ ~page'.voting
    BY <1>4, <1>5, <1>18, NoSessionType
  <2>4. PageSync'
    BY <2>3 DEF PageSync
  <2>5. Phases'
    BY <1>0, <1>1, <1>7, <2>1, <2>2, <2>3 DEF Phases, Over
  <2>6. PlayingSync'
    <3>1. CASE Over
      <4> SUFFICES ASSUME srv.playing PROVE ~Has(chan', "PROGRESS")
        BY <1>1, <1>7, <2>1, <2>3, <3>1 DEF PlayingSync, Over
      <4>1. page.active.vote = 0 \/ clears # {} \/ Open \/ Ending
        BY <1>0 DEF PlayingSync
      <4> QED
        BY <1>0, <2>1, <3>1 DEF PlayingSync, Over
    <3>2. CASE Coming
      <4> SUFFICES ASSUME srv.playing
                   PROVE  /\ Open \/ Ending
                          /\ Tallied(chan', srv.voted[srv.n])
                          /\ Has(chan', "PROGRESS") \/ 0 = srv.voted[srv.n]
        BY <1>1, <1>7, <2>1, <3>2 DEF PlayingSync
      <4>1. Open \/ Ending
        BY <1>0, <3>2 DEF PlayingSync
      <4>2. /\ Tallied(chan, srv.voted[srv.n])
            /\ Has(chan', "PROGRESS") \/ 0 = srv.voted[srv.n]
        BY <1>0, <2>1, <3>2, <4>1 DEF PlayingSync
      <4>3. Tallied(chan', srv.voted[srv.n])
        BY <1>0, <1>1, <4>2, TailTallied
      <4> QED
        BY <4>1, <4>2, <4>3
    <3> QED
      BY <2>2, <3>1, <3>2
  <2> QED
    BY <1>10, <1>11, <1>14, <2>4, <2>5, <2>6 DEF Synced
<1>19. CASE m.type = "RESET"
  <2>1. /\ Has(chan, "RESET") /\ ~srv.playing /\ ~Coming' /\ ~Coming
        /\ (Ending' <=> Ending) /\ clears' = clears
    BY <1>0, <1>2, <1>3, <1>12, <1>19 DEF Coming, Ending, ServerSync
  <2>2. /\ page'.active = page.active /\ page'.result = page.result
        /\ page'.hasVoted = page.hasVoted /\ page'.view = "lobby"
        /\ page'.mount = 0 /\ ~page'.out /\ ~page'.voting
    BY <1>4, <1>5, <1>19
  <2>3. PageSync'
    BY <1>0, <1>1, <2>1, <2>2 DEF PageSync
  <2>4. Phases'
    BY <1>0, <1>1, <1>7, <2>1, <2>2 DEF Phases, Showing
  <2>5. PlayingSync'
    BY <1>1, <2>1 DEF PlayingSync
  <2> QED
    BY <1>10, <1>11, <1>14, <2>3, <2>4, <2>5 DEF Synced
<1> QED
  BY <1>6, <1>15, <1>16, <1>17, <1>18, <1>19

\* A step that leaves the votes, the messages and the session of the page alone.
LEMMA SameVoteSync ==
  ASSUME BasicInv, Synced, UNCHANGED <<srv, chan, clears>>,
         page'.active = page.active, page'.result = page.result,
         page'.mount # 0 => page.mount # 0,
         Coming => calls' = {},
         Waiting', CallSync', PageSync'
  PROVE  Synced'
<1>0. ServerSync /\ Phases /\ PlayingSync
  BY DEF Synced
<1>1. /\ (Open' <=> Open) /\ (Coming' <=> Coming) /\ (Ending' <=> Ending)
      /\ (Over' <=> Over)
  BY DEF Open, Coming, Ending, Over
<1>2. ServerSync'
  <2>1. Elected(chan', Over')
    BY <1>0, <1>1 DEF ServerSync, Elected
  <2> QED
    BY <1>0, <2>1 DEF ServerSync
<1>3. Phases'
  BY <1>0, <1>1 DEF Phases, Showing
<1>4. PlayingSync'
  BY <1>0, <1>1 DEF PlayingSync
<1> QED
  BY <1>2, <1>3, <1>4 DEF Synced

\* The timeout of a result ends.
LEMMA ClearSync ==
  ASSUME BasicInv, Synced, NEW v \in Votes, Clear(v)
  PROVE  Synced'
<1>0. /\ page \in Page /\ 0 \notin Votes /\ clears \subseteq Votes
      /\ Waiting /\ ServerSync /\ CallSync /\ PageSync /\ Phases /\ PlayingSync
  BY SyncTypes DEF Synced
<1>1. clears = {srv.n} /\ at = "READY" /\ clears' = {}
  BY <1>0 DEF Clear, CallSync, Waiting
<1>2. ~Coming /\ ~Open /\ ~Ending
  BY <1>0, <1>1 DEF Phases
<1>3. /\ page'.active = NoSession /\ NoSession.vote = 0 /\ page'.result = 0
      /\ page'.view = "game" /\ page'.mount = 0 /\ ~page'.out /\ ~page'.voting
  <2> DEFINE p == WithoutVote(page)
             q == Rendered(p, TRUE)
  <2>1. /\ p \in Page /\ p.view = "game" /\ p.active = NoSession /\ p.result = 0
    BY <1>0, WithoutVoteIs
  <2> HIDE DEF p
  <2>2. /\ q.active = p.active /\ q.result = p.result /\ q.mount = 0 /\ q.view = "game"
        /\ ~q.out /\ ~q.voting
    BY <2>1, NoSessionType, RenderedIs
  <2>3. page' = q
    BY <1>1 DEF Clear, Render, p
  <2> HIDE DEF q
  <2> QED
    BY <2>1, <2>2, <2>3, NoSessionType
<1>4. UNCHANGED <<srv, chan, at, calls>>
  BY DEF Clear
<1>5. ~Coming' /\ ~Open' /\ ~Ending' /\ (Over' <=> Over)
  BY <1>2, <1>4 DEF Coming, Open, Ending, Over
<1>6. ServerSync'
  <2>1. Elected(chan', Over')
    BY <1>0, <1>4, <1>5 DEF ServerSync, Elected
  <2> QED
    BY <1>0, <1>4, <2>1 DEF ServerSync
<1>7. CallSync'
  BY <1>0, <1>1, <1>4 DEF CallSync
<1>8. PageSync'
  BY <1>3 DEF PageSync
<1>9. Phases'
  BY <1>0, <1>3, <1>4, <1>5, <1>2 DEF Phases
<1>10. PlayingSync'
  BY <1>0, <1>2, <1>3, <1>4, <1>5 DEF PlayingSync
<1>11. Waiting'
  BY <1>1, <1>4 DEF Waiting
<1> QED
  BY <1>6, <1>7, <1>8, <1>9, <1>10, <1>11 DEF Synced

\* The steps of initializeRoom find no vote.
LEMMA PlaceSync ==
  ASSUME BasicInv, Synced, Enter \/ Look \/ GetCurrentVote \/ LoadVote
  PROVE  Synced'
<1>0. /\ page \in Page /\ 0 \notin Votes /\ srv.open \subseteq Votes
      /\ Waiting /\ CallSync /\ PageSync
  BY SyncTypes DEF Synced
<1>1. /\ at # "READY" /\ UNCHANGED <<srv, chan, clears, calls>>
      /\ srv.n = 0 /\ srv.playing /\ srv.roomVote = 0 /\ chan = <<>>
      /\ answer.vote = 0 /\ page.view # "vote"
  BY <1>0 DEF Waiting, Enter, Look, GetCurrentVote, LoadVote
<1>2. /\ page'.active = page.active /\ page'.result = page.result
      /\ page'.hasVoted = page.hasVoted /\ page'.mount = 0 /\ page'.view # "vote"
      /\ ~page'.out /\ ~page'.voting
  <2>1. CASE Enter \/ GetCurrentVote
    BY <1>0, <1>1, <2>1 DEF Enter, GetCurrentVote, PageSync
  <2>2. CASE Look
    <3> DEFINE q == Rendered(page, FALSE)
    <3>1. /\ q.active = page.active /\ q.result = page.result
          /\ q.hasVoted = page.hasVoted /\ q.mount = 0 /\ q.view = page.view
          /\ ~q.out /\ ~q.voting
      BY <1>0, RenderedIs
    <3>2. page' = q
      BY <1>1, <2>2 DEF Look, Render
    <3> HIDE DEF q
    <3> QED
      BY <1>1, <3>1, <3>2
  <2>3. CASE LoadVote
    <3> DEFINE p == [page EXCEPT !.view = "game"]
               q == Rendered(p, TRUE)
    <3>1. /\ p \in Page /\ p.view = "game" /\ p.active = page.active
          /\ p.result = page.result /\ p.hasVoted = page.hasVoted
      BY <1>0 DEF Page
    <3>2. page' = q
      BY <1>1, <2>3 DEF LoadVote, Render
    <3> HIDE DEF p
    <3>3. /\ q.active = p.active /\ q.result = p.result /\ q.hasVoted = p.hasVoted
          /\ q.mount = 0 /\ q.view = "game" /\ ~q.out /\ ~q.voting
      BY <3>1, RenderedIs
    <3> HIDE DEF q
    <3> QED
      BY <3>1, <3>2, <3>3
  <2> QED
    BY <2>1, <2>2, <2>3
<1>3. Open' <=> Open
  BY <1>1 DEF Open
<1>4. answer'.vote = 0
  <2>1. srv.roomVote \notin srv.open /\ NoSession.vote = 0
    BY <1>0, <1>1, NoSessionType
  <2> QED
    BY <1>1, <2>1 DEF Enter, Look, GetCurrentVote, LoadVote
<1>5. Waiting' /\ CallSync' /\ PageSync'
  BY <1>0, <1>1, <1>2, <1>3, <1>4 DEF Waiting, CallSync, PageSync
<1>6. ~Coming
  BY <1>1 DEF Coming, Has
<1> QED
  BY <1>1, <1>2, <1>5, <1>6, SameVoteSync

\* The clock and the buttons of VotePage, and the answers to its ballots.
LEMMA VotePageSync ==
  ASSUME BasicInv, Synced,
         CountDown \/ ClickVote \/ Close \/ \E c \in calls : Answered(c)
  PROVE  Synced'
<1>0. /\ page \in Page /\ 0 \notin Votes
      /\ Waiting /\ CallSync /\ PageSync /\ Phases
  BY SyncTypes DEF Synced
<1>1. UNCHANGED <<srv, chan, clears, at, answer>>
  BY DEF CountDown, ClickVote, Close, Answered
<1>2. Open' <=> Open
  BY <1>1 DEF Open
<1>3. page.mount # 0 =>
        /\ page.view = "vote" /\ page.active.vote = srv.n /\ page.mount = srv.n
        /\ srv.n # 0 /\ at = "READY" /\ ~Coming
  BY <1>0 DEF PageSync, Waiting, Phases
<1>4. CASE CountDown
  <2>1. page' = [page EXCEPT !.out = TRUE] /\ page.mount # 0 /\ ~Open /\ calls' = calls
    BY <1>3, <1>4 DEF CountDown, Buttons, Open
  <2>2. /\ page'.active = page.active /\ page'.result = page.result
        /\ page'.hasVoted = page.hasVoted /\ page'.mount = page.mount
        /\ page'.view = page.view /\ page'.voting = page.voting
    BY <1>0, <2>1 DEF Page
  <2>3. Waiting' /\ CallSync' /\ PageSync'
    BY <1>0, <1>1, <1>2, <2>1, <2>2 DEF Waiting, CallSync, PageSync
  <2> QED
    BY <1>1, <1>3, <2>1, <2>2, <2>3, SameVoteSync
<1>5. CASE ClickVote
  <2> DEFINE c == [vote |-> page.active.vote, by |-> page.mount,
                   election |-> page.active.election, state |-> "SENT"]
  <2>1. page' = [page EXCEPT !.voting = TRUE] /\ page.mount # 0 /\ calls' = calls \cup {c}
    BY <1>5 DEF ClickVote, Votable, Buttons
  <2>2. /\ page'.active = page.active /\ page'.result = page.result
        /\ page'.hasVoted = page.hasVoted /\ page'.mount = page.mount
        /\ page'.view = page.view /\ page'.out = page.out
    BY <1>0, <2>1 DEF Page
  <2>3. c.vote = srv.n /\ c.by = srv.n /\ c.state # "OK"
    BY <1>3, <2>1
  <2> HIDE DEF c
  <2>4. CallSync' /\ calls' # {}
    BY <1>0, <1>1, <2>1, <2>3 DEF CallSync
  <2>5. Waiting' /\ PageSync'
    BY <1>0, <1>1, <1>2, <2>1, <2>2, <2>4 DEF Waiting, PageSync
  <2> QED
    BY <1>1, <1>3, <2>1, <2>2, <2>4, <2>5, SameVoteSync
<1>6. CASE Close
  <2> DEFINE p == [page EXCEPT !.view = "game"]
             q == Rendered(p, TRUE)
  <2>1. /\ p \in Page /\ p.view = "game" /\ p.active = page.active
        /\ p.result = page.result /\ p.hasVoted = page.hasVoted
    BY <1>0 DEF Page
  <2>2. page' = q /\ page.mount # 0 /\ calls' = calls
    BY <1>3, <1>6 DEF Close, Render
  <2> HIDE DEF p
  <2>3. /\ q.active = p.active /\ q.result = p.result /\ q.hasVoted = p.hasVoted
        /\ q.mount = 0 /\ q.view = "game" /\ ~q.out /\ ~q.voting
    BY <2>1, RenderedIs
  <2> HIDE DEF q
  <2>4. /\ page'.active = page.active /\ page'.result = page.result
        /\ page'.hasVoted = page.hasVoted /\ page'.mount = 0
        /\ page'.view = "game" /\ ~page'.out /\ ~page'.voting
    BY <2>1, <2>2, <2>3
  <2>5. Waiting' /\ CallSync' /\ PageSync'
    BY <1>0, <1>1, <1>2, <1>3, <2>2, <2>4 DEF Waiting, CallSync, PageSync
  <2> QED
    BY <1>1, <1>3, <2>2, <2>4, <2>5, SameVoteSync
<1>7. ASSUME NEW c \in calls, Answered(c) PROVE Synced'
  <2> DEFINE voted == page.hasVoted \/ c.state = "OK"
             voting == page.voting /\ c.by # page.mount
  <2>1. /\ page' = [page EXCEPT !.hasVoted = voted, !.voting = voting]
        /\ calls' = calls \ {c}
    BY <1>7 DEF Answered
  <2>2. /\ page'.active = page.active /\ page'.result = page.result
        /\ page'.mount = page.mount /\ page'.view = page.view /\ page'.out = page.out
        /\ page'.hasVoted = voted /\ page'.voting = voting
    BY <1>0, <2>1 DEF Page
  <2>3. /\ c.by = srv.n /\ (c.state = "OK" => srv.n \in srv.mine)
    BY <1>0, <1>7 DEF CallSync
  <2>4. page.active.vote # 0 /\ voted => srv.n \in srv.mine
    BY <1>0, <2>3 DEF PageSync
  <2>5. ~voting
    BY <1>0, <1>3, <2>3 DEF PageSync
  <2> HIDE DEF voted, voting
  <2>6. ~page'.voting /\ (page.active.vote # 0 /\ page'.hasVoted => srv.n \in srv.mine)
    BY <2>2, <2>4, <2>5
  <2>7. Waiting' /\ CallSync'
    BY <1>0, <1>1, <2>1, <2>2 DEF Waiting, CallSync
  <2>8. PageSync'
    BY <1>0, <1>1, <1>2, <2>2, <2>6 DEF PageSync
  <2>9. Coming => calls' = {}
    BY <1>0, <2>1 DEF Phases
  <2> QED
    BY <1>1, <2>2, <2>7, <2>8, <2>9, SameVoteSync
<1> QED
  BY <1>4, <1>5, <1>6, <1>7

-----------------------------------------------------------------------------
(* The steps of the room.                                                  *)

\* Nothing went wrong only if nothing had before; then what is sent reaches a
\* page that is ready, and a vote begins after the others.
LEMMA StillUndisturbed ==
  ASSUME BasicInv, [Next]_vars, Undisturbed'
  PROVE  /\ Undisturbed /\ ~Fault
         /\ \A ms : Send(ms) =>
              at = "READY" /\ chan' = IF srv.playing THEN chan \o ms ELSE chan
         /\ Begins => srv.open = {} /\ calls = {} /\ \A v \in Votes : PutAway(v)
<1>0. /\ faults \in Nat /\ missed \in BOOLEAN /\ overlap \in BOOLEAN
      /\ faults' = 0 /\ ~missed' /\ ~overlap'
  BY DEF BasicInv, TypeOK, Undisturbed, MissedNothing
<1>1. ~Fault
  BY <1>0 DEF Fault
<1>2. missed' = missed \/ \E ms : Send(ms)
  BY DEF Next, vars, StartVote, ResetGame, OtherVotes, CompleteVote, HandleVoteTimeout,
         StartElectionVote, SendStarted, SendProgress, Clear, Enter, Connect, Look,
         GetCurrentVote, LoadVote, Receive, CountDown, ClickVote, Close, CastVote, Answered,
         Overwrite, Disconnect, Reload
<1>3. ~missed /\ \A ms : Send(ms) => online /\ at = "READY"
  BY <1>0, <1>2 DEF Send
<1>4. faults' = faults \/ Fault
  BY DEF Next, vars, StartVote, ResetGame, OtherVotes, CompleteVote, HandleVoteTimeout,
         StartElectionVote, Clear, Enter, Connect, Look,
         GetCurrentVote, LoadVote, Receive, CountDown, ClickVote, Close, CastVote, Answered,
         Overwrite, Disconnect, Reload
<1>5. overlap' = overlap \/ Begins
  BY DEF Next, vars, StartVote, ResetGame, OtherVotes, CompleteVote, HandleVoteTimeout,
         StartElectionVote, Clear, Enter, Connect, Look,
         GetCurrentVote, LoadVote, Receive, CountDown, ClickVote, Close, CastVote, Answered,
         Overwrite, Disconnect, Reload
<1>6. ~overlap
  BY <1>0, <1>5 DEF Begins
<1>7. Begins => srv.open = {} /\ calls = {} /\ \A v \in Votes : PutAway(v)
  BY <1>0 DEF Begins
<1> QED
  BY <1>0, <1>1, <1>3, <1>4, <1>6, <1>7 DEF Undisturbed, MissedNothing, Send

LEMMA ConcatAppend ==
  ASSUME NEW c \in Seq(Message), NEW a \in Message
  PROVE  /\ c \o <<a>> = Append(c, a)
         /\ \A b \in Message : c \o (<<a>> \o <<b>>) = Append(Append(c, a), b)
         /\ c \o (<<a>> \o <<>>) = Append(c, a)
OBVIOUS

\* What the server does, told to a page that is ready.
LEMMA RoomSync ==
  ASSUME BasicInv, Synced,
         \A ms : Send(ms) =>
           at = "READY" /\ chan' = IF srv.playing THEN chan \o ms ELSE chan,
         Begins => srv.open = {} /\ calls = {} /\ \A v \in Votes : PutAway(v),
         \/ StartVote \/ ResetGame
         \/ \E v \in Votes :
              \/ OtherVotes(v) \/ CompleteVote(v) \/ HandleVoteTimeout(v)
              \/ StartElectionVote(v)
  PROVE  Synced'
<1>0. /\ SrvType /\ RoomForBallot /\ chan \in Seq(Message) /\ CallSync
  BY TypeParts, SyncTypes DEF BasicInv, Synced
<1>1. UNCHANGED <<page, calls, clears, at>>
  BY DEF StartVote, ResetGame, OtherVotes, CompleteVote, HandleVoteTimeout,
         StartElectionVote
<1>2. CASE StartVote
  <2> DEFINE m == [type |-> "STARTED", vote |-> srv.n + 1, election |-> FALSE]
  <2>1. /\ srv.n < MaxVotes /\ srv' = Started(srv, FALSE) /\ srv.playing
        /\ Send(<<m>>) /\ Begins
    BY <1>2 DEF StartVote, SendStarted
  <2>2. /\ srv.n + 1 \in Votes /\ srv'.n = srv.n + 1
        /\ srv'.open = srv.open \cup {srv.n + 1} /\ srv'.elections = srv.elections
        /\ srv'.playing = srv.playing /\ srv'.voted = srv.voted /\ srv'.mine = srv.mine
    BY <1>0, <2>1, StartedType
  <2>3. m \in Message
    BY <2>2, MessageTypes
  <2>4. at = "READY" /\ chan' = Append(chan, m)
    BY <1>0, <2>1, <2>3, ConcatAppend
  <2> QED
    BY <1>1, <2>1, <2>2, <2>4, StartSync
<1>3. ASSUME NEW v \in Votes, StartElectionVote(v) PROVE Synced'
  <2> DEFINE m == [type |-> "STARTED", vote |-> srv.n + 1, election |-> TRUE]
             s == Started(srv, TRUE)
  <2>1. /\ srv.n < MaxVotes /\ srv' = [s EXCEPT !.due = @ \ {v}] /\ srv.playing
        /\ Send(<<m>>) /\ Begins
    BY <1>3 DEF StartElectionVote, SendStarted
  <2>2. /\ srv.n + 1 \in Votes /\ s \in Server /\ s.n = srv.n + 1
        /\ s.open = srv.open \cup {srv.n + 1}
        /\ s.elections = srv.elections \cup {srv.n + 1}
        /\ s.playing = srv.playing /\ s.voted = srv.voted /\ s.mine = srv.mine
    BY <1>0, <2>1, StartedType
  <2> HIDE DEF s
  <2>3. /\ srv'.n = s.n /\ srv'.open = s.open /\ srv'.elections = s.elections
        /\ srv'.playing = s.playing /\ srv'.voted = s.voted /\ srv'.mine = s.mine
    BY <2>1, <2>2 DEF Server
  <2>4. m \in Message
    BY <2>2, MessageTypes
  <2>5. at = "READY" /\ chan' = Append(chan, m)
    BY <1>0, <2>1, <2>4, ConcatAppend
  <2> QED
    BY <1>1, <2>1, <2>2, <2>3, <2>5, StartSync
<1>4. CASE ResetGame
  <2> DEFINE m == [type |-> "RESET"]
  <2>1. /\ srv.playing /\ srv' = [srv EXCEPT !.playing = FALSE, !.due = {}]
        /\ Send(<<m>>)
    BY <1>4 DEF ResetGame
  <2>2. /\ ~srv'.playing /\ srv'.n = srv.n /\ srv'.open = srv.open
        /\ srv'.elections = srv.elections /\ srv'.voted = srv.voted
        /\ srv'.mine = srv.mine
    BY <1>0, <2>1 DEF SrvType, Server
  <2>3. m \in Message /\ m.type = "RESET"
    BY MessageTypes
  <2>4. at = "READY" /\ chan' = Append(chan, m)
    BY <1>0, <2>1, <2>3, ConcatAppend
  <2> HIDE DEF m
  <2> QED
    BY <1>1, <2>1, <2>2, <2>3, <2>4, ResetSync
<1>5. ASSUME NEW v \in Votes, OtherVotes(v) PROVE Synced'
  <2> DEFINE m == [type |-> "PROGRESS", count |-> srv.voted[v] + 1]
  <2>1. /\ v \in srv.open /\ srv' = Voted(srv, v) /\ Send(<<m>>) /\ srv.voted[v] < Total(v)
    BY <1>5 DEF OtherVotes, SendProgress
  <2>2. srv.voted[v] < Voters
    BY <1>0, <2>1, PageVoteAssumption DEF Total, SrvType, Server
  <2>3. /\ srv.voted[v] + 1 \in 0 .. Voters
        /\ srv'.voted = [srv.voted EXCEPT ![v] = srv.voted[v] + 1]
        /\ srv'.n = srv.n /\ srv'.open = srv.open /\ srv'.elections = srv.elections
        /\ srv'.playing = srv.playing /\ srv'.mine = srv.mine
    BY <1>0, <2>1, <2>2, VotedType
  <2>4. m \in Message
    BY <2>3, MessageTypes
  <2>5. at = "READY" /\ chan' = IF srv.playing THEN Append(chan, m) ELSE chan
    BY <1>0, <2>1, <2>4, ConcatAppend
  <2>6. CallSync'
    BY <1>0, <1>1, <2>3 DEF CallSync
  <2> QED
    BY <1>1, <2>1, <2>3, <2>5, <2>6, BallotSync
<1>6. ASSUME NEW v \in Votes, CompleteVote(v) \/ HandleVoteTimeout(v) PROVE Synced'
  <2> DEFINE m == [type |-> "COMPLETED", vote |-> v]
             w == [type |-> "ELECTED"]
  <2>1. /\ m \in Message /\ m.type = "COMPLETED" /\ m.vote = v
        /\ w \in Message /\ w.type = "ELECTED"
    BY MessageTypes
  <2>2. v \in srv.open
    BY <1>6 DEF CompleteVote, HandleVoteTimeout
  <2>3. \E passed, keep \in BOOLEAN : srv' = Decided(v, passed, keep)
    BY <1>6 DEF CompleteVote, HandleVoteTimeout
  <2>4. /\ srv'.n = srv.n /\ srv'.open = srv.open \ {v}
        /\ srv'.elections = srv.elections /\ srv'.playing = srv.playing
        /\ srv'.voted = srv.voted /\ srv'.mine = srv.mine
    BY <1>0, <2>3, DecidedType
  <2>5. \/ Send(<<m>>) \/ Send(<<m>> \o <<w>>) \/ Send(<<m>> \o <<>>)
    BY <1>6 DEF CompleteVote, HandleVoteTimeout
  <2> HIDE DEF m, w
  <2>6. /\ at = "READY"
        /\ chan' \in IF srv.playing THEN {Append(chan, m), Append(Append(chan, m), w)}
                     ELSE {chan}
    BY <1>0, <2>1, <2>5, ConcatAppend
  <2> QED
    BY <1>1, <2>1, <2>2, <2>4, <2>6, EndSync
<1> QED
  BY <1>2, <1>3, <1>4, <1>5, <1>6

\* A ballot of the player comes to the server.
LEMMA CastVoteSync ==
  ASSUME BasicInv, Synced, NEW c \in calls, CastVote(c),
         \A ms : Send(ms) =>
           at = "READY" /\ chan' = IF srv.playing THEN chan \o ms ELSE chan
  PROVE  Synced'
<1>0. /\ SrvType /\ RoomForBallot /\ chan \in Seq(Message) /\ c \in Call
      /\ Waiting /\ CallSync /\ PageSync /\ Phases
  BY TypeParts, SyncTypes DEF BasicInv, Synced
<1>1. /\ c.vote = srv.n /\ c.by = srv.n /\ c.vote \in Votes
      /\ UNCHANGED <<page, clears, at, answer>>
  BY <1>0 DEF CallSync, CastVote, Call
<1>2. CASE Accepts(c)
  <2> DEFINE m == [type |-> "PROGRESS", count |-> srv.voted[c.vote] + 1]
             s == Voted(srv, c.vote)
             ok == [c EXCEPT !.state = "OK"]
  <2>1. /\ c.vote \in srv.open /\ c.vote \notin srv.mine
        /\ srv' = [s EXCEPT !.mine = @ \cup {c.vote}] /\ Send(<<m>>)
        /\ calls' = (calls \ {c}) \cup {ok}
    BY <1>2 DEF CastVote, SendProgress, Accepts
  <2>2. srv.voted[c.vote] < Voters
    BY <1>0, <1>1, <2>1 DEF RoomForBallot
  <2>3. /\ srv.voted[c.vote] + 1 \in 0 .. Voters /\ s \in Server
        /\ s.voted = [srv.voted EXCEPT ![c.vote] = srv.voted[c.vote] + 1]
        /\ s.n = srv.n /\ s.open = srv.open /\ s.elections = srv.elections
        /\ s.playing = srv.playing /\ s.mine = srv.mine
    BY <1>0, <1>1, <2>2, VotedType
  <2> HIDE DEF s
  <2>4. /\ srv'.voted = s.voted /\ srv'.n = s.n /\ srv'.open = s.open
        /\ srv'.elections = s.elections /\ srv'.playing = s.playing
        /\ srv'.mine = s.mine \cup {c.vote}
    BY <2>1, <2>3 DEF Server
  <2>5. m \in Message
    BY <2>3, MessageTypes
  <2>6. at = "READY" /\ chan' = IF srv.playing THEN Append(chan, m) ELSE chan
    BY <1>0, <2>1, <2>5, ConcatAppend
  <2>7. ok.vote = srv.n /\ ok.by = srv.n
    BY <1>0, <1>1 DEF Call
  <2> HIDE DEF ok
  <2>8. CallSync' /\ (calls' = {} <=> calls = {})
    BY <1>0, <1>1, <2>1, <2>3, <2>4, <2>7 DEF CallSync
  <2> QED
    BY <1>1, <2>1, <2>3, <2>4, <2>6, <2>8, BallotSync
<1>3. CASE ~Accepts(c)
  <2> DEFINE no == [c EXCEPT !.state = "FAILED"]
  <2>1. calls' = (calls \ {c}) \cup {no} /\ UNCHANGED <<srv, chan>>
    BY <1>3 DEF CastVote
  <2>2. no.vote = srv.n /\ no.by = srv.n /\ no.state # "OK"
    BY <1>0, <1>1 DEF Call
  <2> HIDE DEF no
  <2>3. Waiting' /\ CallSync' /\ ~Coming /\ calls' # {}
    BY <1>0, <1>1, <2>1, <2>2 DEF Waiting, CallSync, Phases
  <2>4. PageSync'
    BY <1>0, <1>1, <2>1, <2>3 DEF PageSync, Open
  <2> QED
    BY <1>1, <2>1, <2>3, <2>4, SameVoteSync
<1> QED
  BY <1>2, <1>3

LEMMA SyncStep == SyncInv /\ [Next]_vars => SyncInv'
<1> SUFFICES ASSUME SyncInv, [Next]_vars, Undisturbed' PROVE Synced'
  BY BasicStep DEF SyncInv
<1>1. BasicInv
  BY DEF SyncInv
<1>2. /\ Undisturbed /\ ~Fault
      /\ \A ms : Send(ms) =>
           at = "READY" /\ chan' = IF srv.playing THEN chan \o ms ELSE chan
      /\ Begins => srv.open = {} /\ calls = {} /\ \A v \in Votes : PutAway(v)
  BY <1>1, StillUndisturbed
<1>3. Synced
  BY <1>2 DEF SyncInv
<1>4. CASE \/ StartVote \/ ResetGame
           \/ \E v \in Votes :
                \/ OtherVotes(v) \/ CompleteVote(v) \/ HandleVoteTimeout(v)
                \/ StartElectionVote(v)
  BY <1>1, <1>2, <1>3, <1>4, RoomSync
<1>5. CASE Enter \/ Look \/ GetCurrentVote \/ LoadVote
  BY <1>1, <1>3, <1>5, PlaceSync
<1>6. CASE CountDown \/ ClickVote \/ Close \/ \E c \in calls : Answered(c)
  BY <1>1, <1>3, <1>6, VotePageSync
<1>7. CASE Connect \/ UNCHANGED vars
  <2>1. UNCHANGED <<srv, chan, at, answer, page, calls, clears>>
    BY <1>7 DEF Connect, vars
  <2>2. Waiting' /\ CallSync' /\ PageSync' /\ (Coming => calls' = {})
    BY <1>3, <2>1 DEF Synced, Waiting, CallSync, PageSync, Phases, Open
  <2> QED
    BY <1>1, <1>3, <2>1, <2>2, SameVoteSync
<1>8. CASE Receive
  BY <1>1, <1>3, <1>8, ReceiveSync
<1>9. ASSUME NEW v \in Votes, Clear(v) PROVE Synced'
  BY <1>1, <1>3, <1>9, ClearSync
<1>10. ASSUME NEW c \in calls, CastVote(c) PROVE Synced'
  BY <1>1, <1>2, <1>3, <1>10, CastVoteSync
<1>11. CASE Overwrite \/ Disconnect \/ Reload
  BY <1>2, <1>11 DEF Overwrite, Disconnect, Reload
<1> QED
  BY <1>4, <1>5, <1>6, <1>7, <1>8, <1>9, <1>10, <1>11 DEF Next

-----------------------------------------------------------------------------
(* What follows for the player.                                            *)

\* VotePage and the messages about votes: on a page that was ready for every
\* message, as long as each vote begins after the page is done with the one before,
\* a vote is under way exactly when one is on the server, with its kind and its
\* number of ballots, when no message is on its way.
THEOREM PageAgreesHolds == Spec => []PageAgrees
<1>1. SyncInv => PageAgrees
  <2> SUFFICES ASSUME SyncInv, Undisturbed, srv.playing, at = "READY", chan = <<>>
               PROVE  /\ page.active.vote # 0 /\ page.result = 0 =>
                           page.active.vote \in srv.open
                      /\ \A v \in srv.open :
                           page.active = [vote |-> v, election |-> v \in srv.elections,
                                          count |-> srv.voted[v]]
    BY DEF PageAgrees
  <2>1. /\ ServerSync /\ PageSync /\ Phases /\ PlayingSync
        /\ srv.n \in Nat /\ page.active \in Session
    BY SyncTypes DEF SyncInv, Synced
  <2>2. \A t : ~Has(chan, t)
    <3>1. Len(<<>>) = 0
      OBVIOUS
    <3> QED
      BY <3>1 DEF Has
  <2>3. ~Coming /\ ~Ending
    BY <2>2 DEF Coming, Ending
  <2>4. page.active.vote # 0 /\ page.result = 0 => page.active.vote \in srv.open
    <3>1. page.active.vote # 0 /\ page.result = 0 => page.active.vote = srv.n /\ clears = {}
      BY <2>1 DEF PageSync
    <3> QED
      BY <2>1, <2>3, <3>1 DEF PlayingSync, Open
  <2>5. ASSUME NEW v \in srv.open
        PROVE  page.active = [vote |-> v, election |-> v \in srv.elections,
                              count |-> srv.voted[v]]
    <3>1. v = srv.n /\ Open
      BY <2>1 DEF ServerSync, Open
    <3>2. page.active.vote = v /\ page.active.election = (v \in srv.elections)
      BY <2>1, <2>3, <3>1 DEF Phases, Showing, PageSync
    <3>3. page.active.count = srv.voted[v]
      BY <2>1, <2>2, <2>3, <3>1 DEF PlayingSync
    <3>4. page.active = [vote |-> page.active.vote, election |-> page.active.election,
                         count |-> page.active.count]
      BY <2>1 DEF Session
    <3> QED
      BY <3>2, <3>3, <3>4
  <2> QED
    BY <2>4, <2>5
<1> QED
  BY <1>1, SyncInit, SyncStep, PTL DEF Spec

-----------------------------------------------------------------------------
(* Votes that overlap.                                                     *)

\* The queue c tells of the end of vote v, behind its first k messages.
Closes(c, v, k) ==
  \E j \in k + 1 .. Len(c) : c[j].type = "COMPLETED" /\ c[j].vote = v

\* Behind the start of a vote that is over, its end is on the way.
Announced(c, open) ==
  \A k \in 1 .. Len(c) :
    c[k].type = "STARTED" => c[k].vote \in open \/ Closes(c, c[k].vote, k)

\* Vote v, without a result, is open or its end is on the way.
Live(c, open, v, result) ==
  v # 0 /\ result = 0 => v \in open \/ Closes(c, v, 0)

GhostSync ==
  /\ at # "READY" => /\ srv.open = {} /\ chan = <<>>
                     /\ page.active.vote = 0 /\ answer.vote = 0
  /\ srv.playing => /\ Announced(chan, srv.open)
                    /\ Live(chan, srv.open, page.active.vote, page.result)

GhostInv == BasicInv /\ (MissedNothing => GhostSync)

\* One message more, about a start, an end or neither.
LEMMA AppendGhost ==
  ASSUME NEW c \in Seq(Message), NEW m \in Message, NEW open, NEW v, NEW result,
         NEW opened, Announced(c, open), Live(c, open, v, result),
         \/ open \subseteq opened /\ m.type # "STARTED"
         \/ open \subseteq opened /\ m.type = "STARTED" /\ m.vote \in opened
         \/ m.type = "COMPLETED" /\ opened = open \ {m.vote}
  PROVE  LET d == Append(c, m)
         IN Announced(d, opened) /\ Live(d, opened, v, result)
<1> DEFINE d == Append(c, m)
<1>1. /\ Len(c) \in Nat /\ Len(d) = Len(c) + 1 /\ d[Len(c) + 1] = m
      /\ \A k \in 1 .. Len(c) : d[k] = c[k]
  BY Appended
<1> HIDE DEF d
<1>2. ASSUME NEW w, NEW k \in 0 .. Len(c), w \in open \/ Closes(c, w, k)
      PROVE  w \in opened \/ Closes(d, w, k)
  <2>1. CASE Closes(c, w, k)
    <3>1. PICK j \in k + 1 .. Len(c) : c[j].type = "COMPLETED" /\ c[j].vote = w
      BY <2>1 DEF Closes
    <3>2. j \in k + 1 .. Len(d) /\ d[j] = c[j]
      BY <1>1, <3>1
    <3> QED
      BY <3>1, <3>2 DEF Closes
  <2>2. CASE w \in open /\ w \notin opened
    <3>1. d[Len(c) + 1].type = "COMPLETED" /\ d[Len(c) + 1].vote = w
      BY <1>1, <2>2
    <3>2. Len(c) + 1 \in k + 1 .. Len(d)
      BY <1>1
    <3> QED
      BY <3>1, <3>2 DEF Closes
  <2> QED
    BY <1>2, <2>1, <2>2
<1>3. ASSUME NEW k \in 1 .. Len(d), d[k].type = "STARTED"
      PROVE  d[k].vote \in opened \/ Closes(d, d[k].vote, k)
  <2>1. CASE k = Len(c) + 1
    BY <1>1, <1>3, <2>1
  <2>2. CASE k \in 1 .. Len(c)
    <3>1. c[k].vote \in open \/ Closes(c, c[k].vote, k)
      BY <1>1, <1>3, <2>2 DEF Announced
    <3>2. k \in 0 .. Len(c) /\ d[k] = c[k]
      BY <1>1, <2>2
    <3> QED
      BY <1>2, <3>1, <3>2
  <2> QED
    BY <1>1, <2>1, <2>2
<1>4. Live(d, opened, v, result)
  <2>1. 0 \in 0 .. Len(c)
    BY <1>1
  <2> QED
    BY <1>2, <2>1 DEF Live
<1> QED
  BY <1>3, <1>4 DEF Announced, d

\* A queue without its head m: it announces what it did, and what was live
\* stays so unless m was its end; what m starts is live.
LEMMA TailGhost ==
  ASSUME NEW c \in Seq(Message), c # <<>>, NEW open, Announced(c, open)
  PROVE  /\ Announced(Tail(c), open)
         /\ \A v : Live(c, open, v, 0) =>
              Live(Tail(c), open, v, 0) \/ Head(c).type = "COMPLETED"
         /\ Head(c).type = "STARTED" => Live(Tail(c), open, Head(c).vote, 0)
<1> DEFINE d == Tail(c)
<1>1. /\ Len(c) \in Nat /\ Len(c) > 0 /\ Len(d) = Len(c) - 1 /\ Head(c) = c[1]
      /\ \A k \in 1 .. Len(d) : k + 1 \in 2 .. Len(c) /\ d[k] = c[k + 1]
      /\ \A k \in 2 .. Len(c) : k - 1 \in 1 .. Len(d) /\ d[k - 1] = c[k]
  BY Tailed
<1> HIDE DEF d
<1>2. ASSUME NEW w, NEW k \in 1 .. Len(c), Closes(c, w, k)
      PROVE  Closes(d, w, k - 1)
  <2>1. PICK j \in k + 1 .. Len(c) : c[j].type = "COMPLETED" /\ c[j].vote = w
    BY <1>2 DEF Closes
  <2>2. j \in 2 .. Len(c)
    BY <1>1, <2>1
  <2>3. d[j - 1].type = "COMPLETED" /\ d[j - 1].vote = w
    BY <1>1, <2>1, <2>2
  <2>4. j - 1 \in (k - 1) + 1 .. Len(d)
    BY <1>1, <2>1, <2>2
  <2> QED
    BY <2>3, <2>4 DEF Closes
<1>3. ASSUME NEW k \in 1 .. Len(d), d[k].type = "STARTED"
      PROVE  d[k].vote \in open \/ Closes(d, d[k].vote, k)
  <2>1. k + 1 \in 1 .. Len(c) /\ d[k] = c[k + 1] /\ (k + 1) - 1 = k
    BY <1>1
  <2>2. d[k].vote \in open \/ Closes(c, d[k].vote, k + 1)
    BY <1>3, <2>1 DEF Announced
  <2>3. Closes(c, d[k].vote, k + 1) => Closes(d, d[k].vote, (k + 1) - 1)
    BY <1>2, <2>1
  <2> QED
    BY <2>1, <2>2, <2>3
<1>4. ASSUME NEW v, Closes(c, v, 0), Head(c).type # "COMPLETED"
      PROVE  Closes(d, v, 0)
  <2>1. PICK j \in 0 + 1 .. Len(c) : c[j].type = "COMPLETED" /\ c[j].vote = v
    BY <1>4 DEF Closes
  <2>2. j \in 1 + 1 .. Len(c)
    BY <1>1, <1>4, <2>1
  <2>3. Closes(c, v, 1)
    BY <2>1, <2>2 DEF Closes
  <2>4. 1 \in 1 .. Len(c) /\ 1 - 1 = 0
    BY <1>1
  <2> QED
    BY <1>2, <2>3, <2>4
<1>5. ASSUME NEW v, Live(c, open, v, 0), Head(c).type # "COMPLETED"
      PROVE  Live(d, open, v, 0)
  BY <1>4, <1>5 DEF Live
<1>6. ASSUME Head(c).type = "STARTED" PROVE Live(d, open, Head(c).vote, 0)
  <2>1. 1 \in 1 .. Len(c) /\ 1 - 1 = 0
    BY <1>1
  <2>2. Head(c).vote \in open \/ Closes(c, Head(c).vote, 1)
    BY <1>1, <1>6, <2>1 DEF Announced
  <2>3. Closes(c, Head(c).vote, 1) => Closes(d, Head(c).vote, 1 - 1)
    BY <1>2, <2>1
  <2> QED
    BY <2>1, <2>2, <2>3 DEF Live
<1>7. Announced(d, open)
  BY <1>3 DEF Announced
<1> QED
  BY <1>5, <1>6, <1>7 DEF d

LEMMA GhostInit == Init => GhostInv
<1> SUFFICES ASSUME Init PROVE GhostSync
  BY BasicInit DEF GhostInv
<1>1. Len(chan) = 0 /\ page.active.vote = 0 /\ answer.vote = 0 /\ srv.open = {}
  BY NoSessionType DEF Init, FreshPage
<1>2. Announced(chan, srv.open) /\ Live(chan, srv.open, page.active.vote, page.result)
  BY <1>1 DEF Announced, Live
<1> QED
  BY <1>1, <1>2 DEF Init, GhostSync

\* A step to a page that missed nothing is no fault, and what is sent goes to a
\* page that is ready.
LEMMA StillThere ==
  ASSUME BasicInv, [Next]_vars, MissedNothing'
  PROVE  /\ MissedNothing /\ ~Fault
         /\ \A ms : Send(ms) =>
              at = "READY" /\ chan' = IF srv.playing THEN chan \o ms ELSE chan
<1>0. /\ faults \in Nat /\ missed \in BOOLEAN /\ faults' = 0 /\ ~missed'
  BY DEF BasicInv, TypeOK, MissedNothing
<1>1. ~Fault
  BY <1>0 DEF Fault
<1>2. missed' = missed \/ \E ms : Send(ms)
  BY DEF Next, vars, StartVote, ResetGame, OtherVotes, CompleteVote, HandleVoteTimeout,
         StartElectionVote, SendStarted, SendProgress, Clear, Enter, Connect, Look,
         GetCurrentVote, LoadVote, Receive, CountDown, ClickVote, Close, CastVote, Answered,
         Overwrite, Disconnect, Reload
<1>3. ~missed /\ \A ms : Send(ms) => online /\ at = "READY"
  BY <1>0, <1>2 DEF Send
<1>4. faults' = faults \/ Fault
  BY DEF Next, vars, StartVote, ResetGame, OtherVotes, CompleteVote, HandleVoteTimeout,
         StartElectionVote, Clear, Enter, Connect, Look,
         GetCurrentVote, LoadVote, Receive, CountDown, ClickVote, Close, CastVote, Answered,
         Overwrite, Disconnect, Reload
<1> QED
  BY <1>0, <1>1, <1>3, <1>4 DEF MissedNothing, Send

\* What the server does, told to a page that is ready.
LEMMA RoomGhost ==
  ASSUME BasicInv, GhostSync,
         \A ms : Send(ms) =>
           at = "READY" /\ chan' = IF srv.playing THEN chan \o ms ELSE chan,
         \/ StartVote \/ ResetGame
         \/ \E v \in Votes :
              \/ OtherVotes(v) \/ CompleteVote(v) \/ HandleVoteTimeout(v)
              \/ StartElectionVote(v)
  PROVE  GhostSync'
<1>0. SrvType /\ RoomForBallot /\ chan \in Seq(Message)
  BY TypeParts DEF BasicInv, ChanType
<1>1. UNCHANGED <<page, at>>
  BY DEF StartVote, ResetGame, OtherVotes, CompleteVote, HandleVoteTimeout,
         StartElectionVote
<1>2. ASSUME NEW m \in Message, at = "READY", srv'.playing = srv.playing,
             srv.playing => chan' = Append(chan, m),
             \/ srv.open \subseteq srv'.open /\ m.type # "STARTED"
             \/ srv.open \subseteq srv'.open /\ m.type = "STARTED" /\ m.vote \in srv'.open
             \/ m.type = "COMPLETED" /\ srv'.open = srv.open \ {m.vote}
      PROVE  GhostSync'
  <2>1. CASE srv.playing
    <3>1. /\ Announced(Append(chan, m), srv'.open)
          /\ Live(Append(chan, m), srv'.open, page.active.vote, page.result)
      BY <1>0, <1>2, <2>1, AppendGhost DEF GhostSync
    <3> QED
      BY <1>1, <1>2, <2>1, <3>1 DEF GhostSync
  <2> QED
    BY <1>1, <1>2, <2>1 DEF GhostSync
<1>3. CASE StartVote
  <2> DEFINE m == [type |-> "STARTED", vote |-> srv.n + 1, election |-> FALSE]
  <2>1. srv.n < MaxVotes /\ srv' = Started(srv, FALSE) /\ Send(<<m>>)
    BY <1>3 DEF StartVote, SendStarted
  <2>2. /\ srv.n + 1 \in Votes /\ srv'.open = srv.open \cup {srv.n + 1}
        /\ srv'.playing = srv.playing
    BY <1>0, <2>1, StartedType
  <2>3. m \in Message /\ m.type = "STARTED" /\ m.vote = srv.n + 1
    BY <2>2, MessageTypes
  <2>4. at = "READY" /\ (srv.playing => chan' = Append(chan, m))
    BY <1>0, <2>1, <2>3, ConcatAppend
  <2> HIDE DEF m
  <2> QED
    BY <1>2, <2>2, <2>3, <2>4
<1>4. ASSUME NEW v \in Votes, StartElectionVote(v) PROVE GhostSync'
  <2> DEFINE m == [type |-> "STARTED", vote |-> srv.n + 1, election |-> TRUE]
             s == Started(srv, TRUE)
  <2>1. srv.n < MaxVotes /\ srv' = [s EXCEPT !.due = @ \ {v}] /\ Send(<<m>>)
    BY <1>4 DEF StartElectionVote, SendStarted
  <2>2. /\ srv.n + 1 \in Votes /\ s \in Server
        /\ s.open = srv.open \cup {srv.n + 1} /\ s.playing = srv.playing
    BY <1>0, <2>1, StartedType
  <2> HIDE DEF s
  <2>3. srv'.open = srv.open \cup {srv.n + 1} /\ srv'.playing = srv.playing
    BY <2>1, <2>2 DEF Server
  <2>4. m \in Message /\ m.type = "STARTED" /\ m.vote = srv.n + 1
    BY <2>2, MessageTypes
  <2>5. at = "READY" /\ (srv.playing => chan' = Append(chan, m))
    BY <1>0, <2>1, <2>4, ConcatAppend
  <2> HIDE DEF m
  <2> QED
    BY <1>2, <2>3, <2>4, <2>5
<1>5. CASE ResetGame
  <2> DEFINE m == [type |-> "RESET"]
  <2>1. srv' = [srv EXCEPT !.playing = FALSE, !.due = {}] /\ Send(<<m>>)
    BY <1>5 DEF ResetGame
  <2>2. ~srv'.playing /\ at = "READY"
    BY <1>0, <2>1 DEF SrvType, Server
  <2> QED
    BY <1>1, <2>2 DEF GhostSync
<1>6. ASSUME NEW v \in Votes, OtherVotes(v) PROVE GhostSync'
  <2> DEFINE m == [type |-> "PROGRESS", count |-> srv.voted[v] + 1]
             s == Voted(srv, v)
  <2>1. srv.voted[v] < Total(v) /\ srv' = s /\ Send(<<m>>)
    BY <1>6 DEF OtherVotes, SendProgress
  <2>2. srv.voted[v] < Voters
    <3>1. srv.voted[v] \in Nat /\ Voters \in Nat
      BY <1>0, PageVoteAssumption DEF SrvType, Server
    <3> QED
      BY <2>1, <3>1 DEF Total
  <2>3. /\ srv.voted[v] + 1 \in 0 .. Voters /\ s.open = srv.open
        /\ s.playing = srv.playing
    BY <1>0, <2>2, VotedType
  <2> HIDE DEF s
  <2>4. m \in Message /\ m.type = "PROGRESS"
    BY <2>3, MessageTypes
  <2>5. at = "READY" /\ (srv.playing => chan' = Append(chan, m))
    BY <1>0, <2>1, <2>4, ConcatAppend
  <2> HIDE DEF m
  <2> QED
    BY <1>2, <2>1, <2>3, <2>4, <2>5
<1>7. ASSUME NEW v \in Votes, CompleteVote(v) PROVE GhostSync'
  <2> DEFINE m == [type |-> "COMPLETED", vote |-> v]
             e == [type |-> "ELECTED"]
  <2>1. PICK passed \in BOOLEAN :
          /\ srv' = Decided(v, passed, passed /\ v \notin srv.elections)
          /\ Send(<<m>> \o IF passed /\ v \in srv.elections THEN <<e>> ELSE <<>>)
    BY <1>7 DEF CompleteVote
  <2>2. srv'.open = srv.open \ {v} /\ srv'.playing = srv.playing
    BY <1>0, <2>1, DecidedType
  <2>3. m \in Message /\ e \in Message /\ m.type = "COMPLETED" /\ m.vote = v
        /\ e.type = "ELECTED"
    BY MessageTypes
  <2>a. Send(<<m>> \o <<e>>) \/ Send(<<m>> \o <<>>)
    BY <2>1
  <2>b. /\ chan \o (<<m>> \o <<e>>) = Append(Append(chan, m), e)
        /\ chan \o (<<m>> \o <<>>) = Append(chan, m)
    BY <1>0, <2>3, ConcatAppend
  <2>4. /\ at = "READY"
        /\ srv.playing => chan' = Append(chan, m) \/ chan' = Append(Append(chan, m), e)
    BY <2>a, <2>b
  <2> HIDE DEF m, e
  <2>5. CASE srv.playing => chan' = Append(chan, m)
    BY <1>2, <2>2, <2>3, <2>4, <2>5
  <2>6. CASE srv.playing /\ chan' = Append(Append(chan, m), e)
    <3>1. /\ Announced(Append(chan, m), srv'.open)
          /\ Live(Append(chan, m), srv'.open, page.active.vote, page.result)
      BY <1>0, <2>2, <2>3, <2>6, AppendGhost DEF GhostSync
    <3>2. Append(chan, m) \in Seq(Message)
      BY <1>0, <2>3
    <3>3. /\ Announced(chan', srv'.open)
          /\ Live(chan', srv'.open, page.active.vote, page.result)
      BY <2>3, <2>6, <3>1, <3>2, AppendGhost
    <3> QED
      BY <1>1, <2>4, <3>3 DEF GhostSync
  <2> QED
    BY <2>4, <2>5, <2>6
<1>8. ASSUME NEW v \in Votes, HandleVoteTimeout(v) PROVE GhostSync'
  <2> DEFINE m == [type |-> "COMPLETED", vote |-> v]
  <2>1. PICK passed \in BOOLEAN : srv' = Decided(v, passed, FALSE) /\ Send(<<m>>)
    BY <1>8 DEF HandleVoteTimeout
  <2>2. srv'.open = srv.open \ {v} /\ srv'.playing = srv.playing
    BY <1>0, <2>1, DecidedType
  <2>3. m \in Message /\ m.type = "COMPLETED" /\ m.vote = v
    BY MessageTypes
  <2>4. at = "READY" /\ (srv.playing => chan' = Append(chan, m))
    BY <1>0, <2>1, <2>3, ConcatAppend
  <2> HIDE DEF m
  <2> QED
    BY <1>2, <2>2, <2>3, <2>4
<1> QED
  BY <1>3, <1>4, <1>5, <1>6, <1>7, <1>8

\* The page hears of the next message.
LEMMA ReceiveGhost ==
  ASSUME BasicInv, GhostSync, Receive
  PROVE  GhostSync'
<1> DEFINE m == Head(chan)
           p == Handled(page, m)
           q == Rendered(p, at = "READY")
<1>1. /\ chan \in Seq(Message) /\ chan # <<>> /\ page \in Page /\ m \in Message
      /\ chan' = Tail(chan) /\ page' = q /\ UNCHANGED <<srv, at, answer>>
  BY TypeParts DEF BasicInv, ChanType, PageType, Receive, Render
<1>2. at = "READY"
  BY <1>1 DEF GhostSync
<1>3. /\ p \in Page
      /\ m.type = "STARTED" => p.active.vote = m.vote /\ p.result = 0
      /\ m.type = "PROGRESS" => p.active.vote = page.active.vote /\ p.result = page.result
      /\ m.type = "COMPLETED" => p.result # 0
      /\ m.type = "ELECTED" => p.active.vote = 0
      /\ m.type = "RESET" => p.active.vote = page.active.vote /\ p.result = page.result
  <2>1. m.type = "COMPLETED" => m.vote # 0
    BY <1>1, MessageKinds DEF Votes
  <2>2. page.active \in Session
    BY <1>1 DEF Page
  <2> HIDE DEF m
  <2>3. [page.active EXCEPT !.count = m.count].vote = page.active.vote
    BY <2>2 DEF Session
  <2>4. /\ p \in Page
        /\ m.type = "STARTED" =>
             p.active = [vote |-> m.vote, election |-> m.election, count |-> 0]
             /\ p.result = 0
        /\ m.type = "PROGRESS" =>
             /\ p.active = IF page.active.vote = 0 THEN page.active
                           ELSE [page.active EXCEPT !.count = m.count]
             /\ p.result = page.result
        /\ m.type = "COMPLETED" => p.result = m.vote
        /\ m.type = "ELECTED" => p.active = NoSession
        /\ m.type = "RESET" => p.active = page.active /\ p.result = page.result
    BY <1>1, HandledIs
  <2> HIDE DEF p
  <2>5. m.type = "STARTED" => p.active.vote = m.vote
    BY <2>4
  <2>6. m.type = "PROGRESS" => p.active.vote = page.active.vote
    BY <2>3, <2>4
  <2>7. m.type = "ELECTED" => p.active.vote = 0
    BY <2>4, NoSessionType
  <2>8. m.type = "COMPLETED" => p.result # 0
    BY <2>1, <2>4
  <2>9. m.type = "RESET" => p.active.vote = page.active.vote
    BY <2>4
  <2> QED
    BY <2>4, <2>5, <2>6, <2>7, <2>8, <2>9
<1> HIDE DEF p
<1>4. q.active = p.active /\ q.result = p.result
  BY <1>3, RenderedIs
<1> HIDE DEF q
<1>5. ASSUME srv.playing
      PROVE  /\ Announced(Tail(chan), srv.open)
             /\ Live(Tail(chan), srv.open, p.active.vote, p.result)
  <2>1. /\ Announced(chan, srv.open)
        /\ Live(chan, srv.open, page.active.vote, page.result)
    BY <1>5 DEF GhostSync
  <2>2. /\ Announced(Tail(chan), srv.open)
        /\ \A v : Live(chan, srv.open, v, 0) =>
             Live(Tail(chan), srv.open, v, 0) \/ m.type = "COMPLETED"
        /\ m.type = "STARTED" => Live(Tail(chan), srv.open, m.vote, 0)
    BY <1>1, <2>1, TailGhost
  <2>3. CASE m.type = "STARTED"
    BY <1>3, <2>2, <2>3
  <2>4. CASE m.type \in {"PROGRESS", "RESET"}
    <3>1. p.active.vote = page.active.vote /\ p.result = page.result
      BY <1>3, <2>4
    <3>2. CASE page.result = 0
      BY <2>1, <2>2, <2>4, <3>1, <3>2
    <3>3. CASE page.result # 0
      BY <2>2, <3>1, <3>3 DEF Live
    <3> QED
      BY <3>2, <3>3
  <2>5. CASE m.type \in {"COMPLETED", "ELECTED"}
    BY <1>3, <2>2, <2>5 DEF Live
  <2> QED
    BY <1>1, <2>3, <2>4, <2>5, MessageKinds
<1> QED
  BY <1>1, <1>2, <1>4, <1>5 DEF GhostSync

LEMMA GhostStep == GhostInv /\ [Next]_vars => GhostInv'
<1> SUFFICES ASSUME GhostInv, [Next]_vars, MissedNothing' PROVE GhostSync'
  BY BasicStep DEF GhostInv
<1>1. BasicInv /\ page \in Page
  BY TypeParts DEF GhostInv, BasicInv, PageType
<1>2. /\ MissedNothing /\ ~Fault
      /\ \A ms : Send(ms) =>
           at = "READY" /\ chan' = IF srv.playing THEN chan \o ms ELSE chan
  BY <1>1, StillThere
<1>3. GhostSync
  BY <1>2 DEF GhostInv
<1>4. CASE \/ StartVote \/ ResetGame
           \/ \E v \in Votes :
                \/ OtherVotes(v) \/ CompleteVote(v) \/ HandleVoteTimeout(v)
                \/ StartElectionVote(v)
  BY <1>1, <1>2, <1>3, <1>4, RoomGhost
<1>5. CASE Receive
  BY <1>1, <1>3, <1>5, ReceiveGhost
<1>6. ASSUME UNCHANGED <<srv, chan>>, at' # "READY" => at # "READY" /\ answer'.vote = 0,
             \/ page'.active.vote = 0
             \/ /\ page'.active.vote = page.active.vote
                /\ page'.result = page.result
      PROVE  GhostSync'
  BY <1>3, <1>6 DEF GhostSync, Live
<1>7. CASE Enter \/ Connect \/ UNCHANGED vars
  BY <1>3, <1>6, <1>7 DEF Enter, Connect, vars, GhostSync
<1>8. CASE Look
  BY <1>1, <1>3, <1>6, <1>8, RenderedIs DEF Look, Render, GhostSync
<1>9. CASE GetCurrentVote
  <2>1. answer' = NoSession
    BY <1>3, <1>9 DEF GetCurrentVote, GhostSync
  <2> QED
    BY <1>3, <1>6, <1>9, <2>1, NoSessionType DEF GetCurrentVote, GhostSync
<1>10. CASE LoadVote
  <2> DEFINE p == [page EXCEPT !.view = "game"]
  <2>1. answer.vote = 0
    BY <1>3, <1>10 DEF LoadVote, GhostSync
  <2>2. page' = Rendered(p, TRUE) /\ UNCHANGED <<srv, chan>> /\ at' = "READY"
    BY <1>10, <2>1 DEF LoadVote, Render
  <2>3. p \in Page /\ p.active = page.active /\ p.result = page.result
    BY <1>1 DEF Page
  <2> HIDE DEF p
  <2>4. page'.active = p.active /\ page'.result = p.result
    BY <2>2, <2>3, RenderedIs
  <2> QED
    BY <1>6, <2>2, <2>3, <2>4
<1>11. CASE Close
  <2> DEFINE p == [page EXCEPT !.view = "game"]
             ready == at = "READY"
  <2>1. page' = Rendered(p, ready) /\ UNCHANGED <<srv, chan, at, answer>>
    BY <1>11 DEF Close, Render
  <2>2. p \in Page /\ p.active = page.active /\ p.result = page.result
    BY <1>1 DEF Page
  <2> HIDE DEF p
  <2>3. page'.active = p.active /\ page'.result = p.result
    BY <2>1, <2>2, RenderedIs
  <2> QED
    BY <1>3, <1>6, <2>1, <2>2, <2>3 DEF GhostSync
<1>12. CASE CountDown \/ ClickVote \/ \E c \in calls : Answered(c)
  <2>1. page'.active = page.active /\ page'.result = page.result
    BY <1>1, <1>12 DEF CountDown, ClickVote, Answered, Page
  <2> QED
    BY <1>3, <1>6, <1>12, <2>1 DEF CountDown, ClickVote, Answered, GhostSync
<1>13. ASSUME NEW v \in Votes, Clear(v) PROVE GhostSync'
  <2> DEFINE p == WithoutVote(page)
             ready == at = "READY"
  <2>1. page' = Rendered(p, ready) /\ UNCHANGED <<srv, chan, at, answer>>
    BY <1>13 DEF Clear, Render
  <2>2. p \in Page /\ p.active.vote = 0
    BY <1>1, WithoutVoteIs, NoSessionType
  <2> HIDE DEF p
  <2>3. page'.active.vote = 0
    BY <2>1, <2>2, RenderedIs
  <2>4. at' # "READY" => at # "READY" /\ answer'.vote = 0
    BY <1>3, <2>1 DEF GhostSync
  <2>5. UNCHANGED <<srv, chan>>
    BY <2>1
  <2> QED
    BY <1>6, <2>3, <2>4, <2>5
<1>14. ASSUME NEW c \in calls, CastVote(c) PROVE GhostSync'
  <2>1. CASE Accepts(c)
    <3> DEFINE s == Voted(srv, c.vote)
               m == [type |-> "PROGRESS", count |-> srv.voted[c.vote] + 1]
    <3>1. /\ srv' = [s EXCEPT !.mine = @ \cup {c.vote}] /\ Send(<<m>>)
          /\ UNCHANGED <<page, at, answer>> /\ c.vote \in Votes /\ c.vote \notin srv.mine
      BY <1>1, <1>14, <2>1, TypeParts
         DEF BasicInv, CallType, Call, CastVote, SendProgress, Accepts
    <3>2. SrvType /\ chan \in Seq(Message) /\ srv.voted[c.vote] < Voters
      BY <1>1, <3>1, TypeParts DEF BasicInv, ChanType, RoomForBallot
    <3>3. /\ s \in Server /\ s.open = srv.open /\ s.playing = srv.playing
          /\ srv.voted[c.vote] + 1 \in 0 .. Voters
      BY <3>1, <3>2, VotedType
    <3> HIDE DEF s
    <3>4. srv'.open = srv.open /\ srv'.playing = srv.playing
      BY <3>1, <3>3 DEF Server
    <3>5. m \in Message /\ m.type = "PROGRESS"
      BY <3>3, MessageTypes
    <3>6. at = "READY" /\ (srv.playing => chan' = Append(chan, m))
      BY <1>2, <3>1, <3>2, <3>5, ConcatAppend
    <3> HIDE DEF m
    <3>7. srv.playing => /\ Announced(chan', srv.open)
                         /\ Live(chan', srv.open, page.active.vote, page.result)
      <4> SUFFICES ASSUME srv.playing
                   PROVE  /\ Announced(chan', srv.open)
                          /\ Live(chan', srv.open, page.active.vote, page.result)
        OBVIOUS
      <4>1. /\ Announced(chan, srv.open)
            /\ Live(chan, srv.open, page.active.vote, page.result)
        BY <1>3 DEF GhostSync
      <4>2. m.type # "STARTED"
        BY <3>5
      <4>3. /\ Announced(Append(chan, m), srv.open)
            /\ Live(Append(chan, m), srv.open, page.active.vote, page.result)
        BY <3>2, <3>5, <4>1, <4>2, AppendGhost
      <4> QED
        BY <3>6, <4>3
    <3> QED
      BY <3>1, <3>4, <3>6, <3>7 DEF GhostSync
  <2>2. CASE ~Accepts(c)
    BY <1>3, <1>6, <1>14, <2>2 DEF CastVote, GhostSync
  <2> QED
    BY <2>1, <2>2
<1>15. CASE Overwrite \/ Disconnect \/ Reload
  BY <1>2, <1>15 DEF Overwrite, Disconnect, Reload
<1> QED
  BY <1>4, <1>5, <1>7, <1>8, <1>9, <1>10, <1>11, <1>12, <1>13, <1>14, <1>15 DEF Next

\* RoomPage.tsx:620-690: however votes overlap, a page that was ready for every
\* message shows no vote as under way that is over, when no message is on its way.
THEOREM NoGhostVoteHolds == Spec => []NoGhostVote
<1>1. GhostInv => NoGhostVote
  <2> SUFFICES ASSUME GhostInv, MissedNothing, srv.playing, at = "READY", chan = <<>>,
                      page.active.vote # 0, page.result = 0
               PROVE  page.active.vote \in srv.open
    BY DEF NoGhostVote
  <2>1. Live(chan, srv.open, page.active.vote, page.result)
    BY DEF GhostInv, GhostSync
  <2>2. Len(chan) = 0
    OBVIOUS
  <2> QED
    BY <2>1, <2>2 DEF Live, Closes
<1> QED
  BY <1>1, GhostInit, GhostStep, PTL DEF Spec

-----------------------------------------------------------------------------
(* The buttons of VotePage.                                                *)

VotingInv == BasicInv /\ VotingEnds

\* What is rendered waits for no more than the page did, and for the same.
LEMMA RenderVoting ==
  ASSUME VotingEnds, NEW p \in Page, p.mount = page.mount, p.voting = page.voting,
         NEW place, Render(p, place), calls' = calls
  PROVE  VotingEnds'
<1> DEFINE ready == place = "READY"
<1>1. page' = Rendered(p, ready) /\ ready \in BOOLEAN
  BY DEF Render
<1> HIDE DEF ready
<1>2. page'.voting => p.voting /\ page'.mount = p.mount
  BY <1>1, RenderedIs
<1> QED
  BY <1>2 DEF VotingEnds

LEMMA VotingStep == VotingInv /\ [Next]_vars => VotingInv'
<1> SUFFICES ASSUME VotingInv, [Next]_vars PROVE VotingEnds'
  BY BasicStep DEF VotingInv
<1>1. page \in Page /\ VotingEnds /\ calls \subseteq Call /\ answer \in Session
  BY TypeParts DEF VotingInv, BasicInv, PageType, CallType, RestType
<1>2. ASSUME UNCHANGED <<page, calls>> PROVE VotingEnds'
  BY <1>1, <1>2 DEF VotingEnds
<1>3. CASE \/ StartVote \/ ResetGame \/ Enter \/ Connect \/ GetCurrentVote
           \/ \E v \in Votes :
                \/ OtherVotes(v) \/ CompleteVote(v) \/ HandleVoteTimeout(v)
                \/ StartElectionVote(v)
           \/ Overwrite \/ Disconnect \/ UNCHANGED vars
  BY <1>2, <1>3 DEF StartVote, ResetGame, Enter, Connect, GetCurrentVote, OtherVotes,
         CompleteVote, HandleVoteTimeout, StartElectionVote, Overwrite, Disconnect, vars
<1>4. CASE Look
  BY <1>1, <1>4, RenderVoting DEF Look
<1>5. CASE LoadVote
  <2> DEFINE p == IF answer.vote # 0 THEN Opened(page, answer)
                  ELSE [page EXCEPT !.view = "game"]
  <2>1. 0 \in 0 .. MaxVotes
    BY PageVoteAssumption
  <2>2. p \in Page /\ p.mount = page.mount /\ p.voting = page.voting
    BY <1>1, <2>1 DEF Page, Opened
  <2>3. Render(p, "READY") /\ calls' = calls
    BY <1>5 DEF LoadVote
  <2> HIDE DEF p
  <2> QED
    BY <1>1, <2>2, <2>3, RenderVoting
<1>6. CASE Receive
  <2> DEFINE p == Handled(page, Head(chan))
  <2>1. Head(chan) \in Message
    BY <1>6, TypeParts DEF Receive, VotingInv, BasicInv, ChanType
  <2>2. p \in Page /\ p.mount = page.mount /\ p.voting = page.voting
    BY <1>1, <2>1, HandledIs
  <2>3. Render(p, at) /\ calls' = calls
    BY <1>6 DEF Receive
  <2> HIDE DEF p
  <2> QED
    BY <1>1, <2>2, <2>3, RenderVoting
<1>7. ASSUME NEW v \in Votes, Clear(v) PROVE VotingEnds'
  <2>1. /\ WithoutVote(page) \in Page /\ WithoutVote(page).mount = page.mount
        /\ WithoutVote(page).voting = page.voting
    BY <1>1, WithoutVoteIs
  <2> QED
    BY <1>1, <1>7, <2>1, RenderVoting DEF Clear
<1>8. CASE Close
  <2> DEFINE p == [page EXCEPT !.view = "game"]
  <2>1. p \in Page /\ p.mount = page.mount /\ p.voting = page.voting
    BY <1>1 DEF Page
  <2>2. Render(p, at) /\ calls' = calls
    BY <1>8 DEF Close
  <2> HIDE DEF p
  <2> QED
    BY <1>1, <2>1, <2>2, RenderVoting
<1>9. CASE CountDown
  <2>1. page'.voting = page.voting /\ page'.mount = page.mount /\ calls' = calls
    BY <1>1, <1>9 DEF CountDown, Page
  <2> QED
    BY <1>1, <2>1 DEF VotingEnds
<1>10. CASE ClickVote
  <2> DEFINE c == [vote |-> page.active.vote, by |-> page.mount,
                   election |-> page.active.election, state |-> "SENT"]
  <2>1. c \in calls' /\ c.by = page.mount /\ page'.mount = page.mount
    BY <1>1, <1>10 DEF ClickVote, Page
  <2> QED
    BY <2>1 DEF VotingEnds
<1>11. ASSUME NEW c \in calls, CastVote(c) PROVE VotingEnds'
  <2>1. PICK st \in {"OK", "FAILED"} :
          calls' = (calls \ {c}) \cup {[c EXCEPT !.state = st]}
    BY <1>11 DEF CastVote
  <2>2. [c EXCEPT !.state = st].by = c.by /\ page' = page
    BY <1>1, <1>11 DEF Call, CastVote
  <2> QED
    BY <1>1, <2>1, <2>2 DEF VotingEnds
<1>12. ASSUME NEW c \in calls, Answered(c) PROVE VotingEnds'
  <2>1. /\ page'.voting = (page.voting /\ c.by # page.mount) /\ page'.mount = page.mount
        /\ calls' = calls \ {c}
    BY <1>1, <1>12 DEF Answered, Page
  <2> QED
    BY <1>1, <2>1 DEF VotingEnds
<1>13. CASE Reload
  <2>1. ~page'.voting
    BY <1>13 DEF Reload, FreshPage
  <2> QED
    BY <2>1 DEF VotingEnds
<1> QED
  BY <1>3, <1>4, <1>5, <1>6, <1>7, <1>8, <1>9, <1>10, <1>11, <1>12, <1>13 DEF Next

\* VotePage.tsx: the buttons are held back for a request no longer than a ballot of
\* this VotePage is under way, over whichever votes, and whatever is lost.
THEOREM VotingEndsHolds == Spec => []VotingEnds
<1>1. Init => VotingInv
  <2>1. Init => ~page.voting
    BY DEF Init, FreshPage
  <2> QED
    BY <2>1, BasicInit DEF VotingInv, VotingEnds
<1>2. VotingInv => VotingEnds
  BY DEF VotingInv
<1> QED
  BY <1>1, <1>2, VotingStep, PTL DEF Spec
=============================================================================
