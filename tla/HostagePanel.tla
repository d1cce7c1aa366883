---------------------------- MODULE HostagePanel ----------------------------
(***************************************************************************)
(* The panel with which a leader conducts a round (RoundTimerPanel.tsx) on *)
(* the page of one player: it hands the lead over, chooses the hostages,   *)
(* and says that it is ready for the next round.                           *)
(*                                                                         *)
(* The panel shows the round as the last poll brought it.  Whether there   *)
(* is a panel at all follows the messages about leaders.  What the leader  *)
(* has picked lives in the panel as long as that stays mounted, which may  *)
(* be longer than a round.  The rules of a round are Exchange.tla; here it *)
(* is the little of it that one leader can tell.                           *)
(***************************************************************************)
EXTENDS Integers, Sequences, FiniteSets, FiniteSetsExt

CONSTANTS
  Me,        \* the player of the page
  Others,    \* the players besides it and the leader of the other room
  Home,      \* those of them in the player's room when the game starts
  Count,     \* hostages of a round
  MaxRounds, \* rounds of a game (3 in the code)
  MaxLeads,  \* bound: elections of a leader of the room
  MaxAsked,  \* bound: requests of the panel under way
  MaxQueue   \* bound: messages on their way to the page

ASSUME HostagePanelAssumption ==
  /\ Me \notin Others /\ Home \subseteq Others /\ IsFiniteSet(Others)
  /\ Count \in Nat \ {0} /\ MaxRounds \in Nat \ {0}
  /\ MaxLeads \in Nat /\ MaxAsked \in Nat \ {0} /\ MaxQueue \in Nat \ {0}

VARIABLES
  srv,    \* the round on the server
  news,   \* what the messages on their way say: whether the player leads
  page,   \* the page: whether the player leads, and its last poll
  panel,  \* the state of the panel
  calls,  \* the requests of the panel under way
  leads   \* history: elections so far

panelVars == <<srv, news, page, panel, calls, leads>>

-----------------------------------------------------------------------------
(* The values.                                                             *)

\* The round.  A leader that is not Me acts on its own, as does the other room.
Round ==
  [round: 1 .. MaxRounds, status: {"ACTIVE", "SELECTING", "COMPLETE", "REVEALING"},
   here: SUBSET Others,              \* the others in the player's room
   leader: Others \cup {Me},         \* of the player's room
   chosen: SUBSET Others, theirs: SUBSET Others,  \* the hostages of the two rooms
   ready: BOOLEAN, theirReady: BOOLEAN]

Call ==
  [type: {"SELECT"}, hostages: SUBSET Others]
  \cup [type: {"TRANSFER"}, to: Others]
  \cup [type: {"READY"}]

\* What the page has from its last poll, as far as the panel looks at it.
Copy ==
  [round: 1 .. MaxRounds, status: {"ACTIVE", "SELECTING", "COMPLETE", "REVEALING"},
   here: SUBSET Others, leader: Others \cup {Me}, chosen: SUBSET Others, ready: BOOLEAN]

CopyOf(s) ==
  [round |-> s.round, status |-> s.status, here |-> s.here, leader |-> s.leader,
   chosen |-> s.chosen, ready |-> s.ready]

Page == [lead: BOOLEAN, copy: Copy]

Panel ==
  [mounted: BOOLEAN,
   since: 0 .. MaxRounds,         \* history: the round it was mounted in, 0 once
                                  \* the server has refused what the page asked
   selected: SUBSET Others,       \* selectedHostages
   isReady: BOOLEAN]

PanelTypeOK ==
  /\ srv \in Round
  /\ news \in Seq(BOOLEAN) /\ Len(news) <= MaxQueue
  /\ page \in Page
  /\ panel \in Panel /\ panel.mounted = page.lead
  /\ ~panel.mounted => panel = [mounted |-> FALSE, since |-> 0, selected |-> {},
                                isReady |-> FALSE]
  /\ calls \subseteq Call /\ Cardinality(calls) <= MaxAsked
  /\ leads \in 0 .. MaxLeads

Unmounted ==
  [mounted |-> FALSE, since |-> 0, selected |-> {}, isReady |-> FALSE]

Fresh(copy) == [Unmounted EXCEPT !.mounted = TRUE, !.since = copy.round]

\* The first round has its leaders, and the page has heard of them.
PanelInit ==
  \E leader \in Home \cup {Me} :
    /\ srv = [round |-> 1, status |-> "ACTIVE", here |-> Home, leader |-> leader,
              chosen |-> {}, theirs |-> {}, ready |-> FALSE, theirReady |-> FALSE]
    /\ news = <<>>
    /\ page = [lead |-> leader = Me, copy |-> CopyOf(srv)]
    /\ panel = IF leader = Me THEN Fresh(page.copy) ELSE Unmounted
    /\ calls = {} /\ leads = 0

-----------------------------------------------------------------------------
(* The server.                                                             *)

\* The hub queues a message about the leader of the room, who is l.
Tell(l) == Len(news) < MaxQueue /\ news' = Append(news, l = Me)

\* The time of the round is over.
EndTimer ==
  /\ srv.status = "ACTIVE"
  /\ srv' = [srv EXCEPT !.status = "SELECTING"]
  /\ UNCHANGED <<news, page, panel, calls, leads>>

\* SelectHostages takes the hostages h from leader l, once in a round, whatever
\* its status.
Takes(l, h) ==
  /\ srv.leader = l /\ srv.chosen = {}
  /\ h \subseteq srv.here \ {l}
  /\ Cardinality(h) = Count

\* The other leaders choose: of this room, unless it is Me, and of the other.
OthersSelect ==
  /\ srv.status = "SELECTING"
  /\ \/ \E h \in kSubset(Count, srv.here) :
          srv.leader # Me /\ Takes(srv.leader, h) /\ srv' = [srv EXCEPT !.chosen = h]
     \/ \E h \in kSubset(Count, Others \ srv.here) :
          srv.theirs = {} /\ srv' = [srv EXCEPT !.theirs = h]
  /\ UNCHANGED <<news, page, panel, calls, leads>>

\* ExecuteExchange, once both rooms have chosen.
ExecuteExchange ==
  /\ srv.status = "SELECTING" /\ srv.chosen # {} /\ srv.theirs # {}
  /\ srv' = [srv EXCEPT !.status = "COMPLETE",
                        !.here = (@ \ srv.chosen) \cup srv.theirs]
  /\ UNCHANGED <<news, page, panel, calls, leads>>

\* The other leaders are ready, before the exchange too: LeaderReady asks for no
\* phase, and a click of one round may come in the next.
OthersReady ==
  /\ srv.status # "REVEALING"
  /\ \/ srv.leader # Me /\ ~srv.ready /\ srv' = [srv EXCEPT !.ready = TRUE]
     \/ ~srv.theirReady /\ srv' = [srv EXCEPT !.theirReady = TRUE]
  /\ UNCHANGED <<news, page, panel, calls, leads>>

\* With both rooms ready the next round starts, in whatever phase this one is,
\* under the leaders of the last, or the roles are revealed.
NextRound ==
  /\ srv.status # "REVEALING" /\ srv.ready /\ srv.theirReady
  /\ IF srv.round < MaxRounds
     THEN /\ srv' = [srv EXCEPT !.round = @ + 1, !.status = "ACTIVE", !.chosen = {},
                                !.theirs = {}, !.ready = FALSE, !.theirReady = FALSE]
          /\ Tell(srv.leader)
     ELSE srv' = [srv EXCEPT !.status = "REVEALING"] /\ UNCHANGED news
  /\ UNCHANGED <<page, panel, calls, leads>>

\* An election gives the room another leader.  One that ended by its timeout is
\* not told to anybody (voting_service.go:490).  (The election of a hostage, who
\* then leads from the other room, is in Exchange.tla.)
Elect ==
  /\ srv.status # "REVEALING"
  /\ leads < MaxLeads /\ leads' = leads + 1
  /\ \E l \in (srv.here \cup {Me}) \ ({srv.leader} \cup srv.chosen) :
       /\ srv' = [srv EXCEPT !.leader = l]
       /\ Tell(l) \/ UNCHANGED news
  /\ UNCHANGED <<page, panel, calls>>

\* What request c of the player makes of the round; refused, it changes nothing.
\* READY is accepted in every status.
Grant(c) ==
  CASE c.type = "SELECT"   -> IF Takes(Me, c.hostages)
                              THEN [srv EXCEPT !.chosen = c.hostages] ELSE srv
    [] c.type = "TRANSFER" -> IF srv.leader = Me /\ srv.status # "SELECTING" /\ c.to \in srv.here
                              THEN [srv EXCEPT !.leader = c.to] ELSE srv
    [] c.type = "READY"    -> IF srv.leader = Me THEN [srv EXCEPT !.ready = TRUE] ELSE srv

\* The server handles a request.  The page only reports a refusal.
Serve ==
  /\ \E c \in calls :
       /\ srv.status # "REVEALING"
       /\ calls' = calls \ {c}
       /\ srv' = Grant(c)
       /\ IF srv'.leader # srv.leader THEN Tell(srv'.leader) ELSE UNCHANGED news
       /\ panel' = [panel EXCEPT !.since = IF srv' = srv THEN 0 ELSE @]
  /\ UNCHANGED <<page, leads>>

-----------------------------------------------------------------------------
(* The page.                                                               *)

\* The panel is mounted on the page p of a leader.
Mounts(p) ==
  panel' = IF ~p.lead THEN Unmounted
           ELSE IF panel.mounted THEN panel
           ELSE Fresh(p.copy)

Render(p) == page' = p /\ Mounts(p)

\* LEADERSHIP_CHANGED and ROUND_STARTED name the leaders.
Receive ==
  /\ news # <<>> /\ news' = Tail(news)
  /\ Render([page EXCEPT !.lead = Head(news)])
  /\ UNCHANGED <<srv, calls, leads>>

\* The poll.  It may be late by as much as it likes, and the messages that only
\* announce a change of the round wait for it.
Poll ==
  /\ page.copy # CopyOf(srv)
  /\ Render([page EXCEPT !.copy = CopyOf(srv)])
  /\ UNCHANGED <<srv, news, calls, leads>>

\* The player looks at its role or at a vote, and comes back to a new panel.
LookAway ==
  /\ panel.mounted /\ panel # Fresh(page.copy)
  /\ panel' = Fresh(page.copy)
  /\ UNCHANGED <<srv, news, page, calls, leads>>

\* Mutant of Reload: the leaders are not asked for.
ReloadKeepsLead ==
  /\ page' = [page EXCEPT !.copy = CopyOf(srv)]
  /\ panel' = IF page.lead THEN Fresh(page'.copy) ELSE Unmounted
  /\ news' = <<>> /\ calls' = {}
  /\ UNCHANGED <<srv, leads>>

\* The player loads the page again, which asks for the round and its leaders.
Reload ==
  /\ page' = [lead |-> srv.leader = Me, copy |-> CopyOf(srv)]
  /\ panel' = IF srv.leader = Me THEN Fresh(page'.copy) ELSE Unmounted
  /\ news' = <<>> /\ calls' = {}
  /\ UNCHANGED <<srv, leads>>

-----------------------------------------------------------------------------
(* The panel: what it offers and what a click does.                        *)

Shows(status) == panel.mounted /\ page.copy.status = status

HostagesSelected == page.copy.chosen # {}

\* The form to hand the lead over, and the one to choose the hostages, which is
\* there until they are announced.
TransferOffered  == Shows("ACTIVE")
SelectionOffered == Shows("SELECTING") /\ ~HostagesSelected

\* In the selection the panel lists the players of the room, with a box for
\* each but a leader.
Listed == page.copy.here \ {page.copy.leader}

CanAnnounce == Cardinality(panel.selected) = Count /\ ~HostagesSelected

Ask(c) == Cardinality(calls \cup {c}) <= MaxAsked /\ calls' = calls \cup {c}

\* Mutant of HandleToggleHostage: everybody is listed.
ToggleAnybody(q) ==
  /\ SelectionOffered
  /\ q \in panel.selected \/ Cardinality(panel.selected) < Count
  /\ panel' = [panel EXCEPT !.selected = IF q \in @ THEN @ \ {q} ELSE @ \cup {q}]
  /\ UNCHANGED <<srv, news, page, calls, leads>>

\* A box is ticked, as long as there are not enough, or cleared.
HandleToggleHostage(q) ==
  /\ SelectionOffered
  /\ q \in Listed
  /\ q \in panel.selected \/ Cardinality(panel.selected) < Count
  /\ panel' = [panel EXCEPT !.selected = IF q \in @ THEN @ \ {q} ELSE @ \cup {q}]
  /\ UNCHANGED <<srv, news, page, calls, leads>>

\* The hostages are announced, and stay selected.
HandleAnnounceHostages ==
  /\ SelectionOffered
  /\ CanAnnounce
  /\ Ask([type |-> "SELECT", hostages |-> panel.selected])
  /\ UNCHANGED <<srv, news, page, panel, leads>>

\* The button of a leader who is not known to be ready yet.
ReadyOffered == Shows("COMPLETE") /\ ~page.copy.ready /\ ~panel.isReady

\* The panel is ready before it asks, whatever the answer.
HandleReady ==
  /\ ReadyOffered
  /\ Ask([type |-> "READY"])
  /\ panel' = [panel EXCEPT !.isReady = TRUE]
  /\ UNCHANGED <<srv, news, page, leads>>

\* In the ACTIVE phase an heir is picked from a list, and confirmed.  (What was
\* picked can be older than the list; the server refuses it then.)
HandleTransferLeadership(q) ==
  /\ TransferOffered /\ q \in page.copy.here
  /\ Ask([type |-> "TRANSFER", to |-> q])
  /\ UNCHANGED <<srv, news, page, panel, leads>>

-----------------------------------------------------------------------------
PanelNext ==
  \/ EndTimer \/ OthersSelect \/ ExecuteExchange \/ OthersReady \/ NextRound
  \/ Elect \/ Serve
  \/ Receive \/ Poll \/ LookAway \/ Reload
  \/ HandleAnnounceHostages \/ HandleReady
  \/ \E q \in Others : HandleToggleHostage(q) \/ HandleTransferLeadership(q)

PanelSpec == PanelInit /\ [][PanelNext]_panelVars

\* The server and the browser do their work, and everybody wants the game to go
\* on: the others act as leaders, ready at the latest after the exchange, the player
\* clicks what the panel offers, and when nothing does any good loads the page again.
PanelFairness ==
  /\ WF_panelVars(EndTimer) /\ WF_panelVars(ExecuteExchange) /\ WF_panelVars(NextRound)
  /\ WF_panelVars(OthersSelect) /\ WF_panelVars(OthersReady /\ srv.status = "COMPLETE")
  /\ SF_panelVars(Serve) /\ WF_panelVars(Reload)
  /\ SF_panelVars(\E q \in Others : HandleToggleHostage(q))
  /\ SF_panelVars(HandleAnnounceHostages) /\ SF_panelVars(HandleReady)

PanelFairSpec == PanelSpec /\ PanelFairness

-----------------------------------------------------------------------------
(* Properties.                                                             *)

\* A leader looks at the round as it is, and nothing it asked is under way.
UpToDate ==
  panel.mounted /\ srv.leader = Me /\ page.copy = CopyOf(srv) /\ news = <<>> /\ calls = {}

\* What the leader counts as selected can be seen and cleared in the list, and a
\* leader who is not ready can say so.
CanGoOn ==
  /\ SelectionOffered => panel.selected \subseteq Listed
  /\ Shows("COMPLETE") => srv.ready \/ ReadyOffered

\* RoundTimerPanel.tsx:34-38: in the round a panel was mounted in, as long as the
\* server has refused it nothing, no poll, election or transfer leaves anything in
\* it that stops the leader.
FreshPanelGoesOn == UpToDate /\ panel.since = srv.round => CanGoOn

\* Whoever leads, and whatever the panel has kept or the page has missed, a
\* player who clicks what is offered and loads the page again when that does no
\* good brings the game to its end.
GameEnds == <>(srv.status = "REVEALING")

\* RoundTimerPanel.tsx:20-21: the panel serves hostage selection during the
\* SELECTING phase and ready confirmation after the exchange.
PanelGoesOn == UpToDate => CanGoOn

=============================================================================
