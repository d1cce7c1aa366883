------------------------------- MODULE Socket -------------------------------
(***************************************************************************)
(* The hook useWebSocket of the web client: one page's connection to its   *)
(* room, with the retries.                                                 *)
(*                                                                         *)
(* reconnectAttempts is React state and a dependency of `connect`, so each *)
(* change of it makes the page render again, and the effect of the old     *)
(* render is then cleaned up (its socket closed, its timer cleared) before *)
(* the effect of the new one connects.  Every handler of a socket keeps    *)
(* the number of attempts of the render that made the socket.  Between a   *)
(* handler and the render it asks for, other events of the browser happen. *)
(***************************************************************************)
EXTENDS Integers, FiniteSets

CONSTANTS
  MAX_RECONNECT_ATTEMPTS,  \* 5 in the code
  MaxSockets,  \* bound: sockets that are not yet closed, at one time
  MaxOutages   \* bound: times the server stops being reachable

ASSUME SocketAssumption ==
  /\ MAX_RECONNECT_ATTEMPTS \in Nat \ {0}
  /\ MaxSockets \in Nat \ {0} /\ MaxOutages \in Nat

Sockets  == 1 .. MaxSockets
Attempts == 0 .. MAX_RECONNECT_ATTEMPTS
NoSocket == 0
NoTimer  == -1

VARIABLES
  mounted,      \* the page still shows the room
  player,       \* playerId is known
  attempts,     \* reconnectAttempts as last set
  used,         \* reconnectAttempts of the render whose effect is in place
  sock,         \* readyState of every socket the browser still knows
  made,         \* reconnectAttempts of the render that made the socket
  cur,          \* ws.current
  timer,        \* reconnectTimeout: the attempts of the `connect` it calls
  intentional,  \* intentionalClose
  connected,    \* isConnected and isConnectedRef
  error,        \* connectionError
  reachable,    \* the server accepts connections and keeps them
  outages       \* outages so far

effectVars == <<mounted, player, used, intentional>>
socketVars == <<sock, made, cur>>
netVars    == <<reachable, outages>>
vars == <<effectVars, socketVars, netVars, attempts, timer, connected, error>>

States == {"CONNECTING", "OPEN", "CLOSING", "CLOSED"}
Live   == {"CONNECTING", "OPEN"}
Errors == {"NONE", "RETRYING", "GAVE_UP"}

TypeOK ==
  /\ mounted \in BOOLEAN /\ player \in BOOLEAN
  /\ attempts \in Attempts /\ used \in Attempts
  /\ sock \in [Sockets -> States]
  /\ made \in [Sockets -> 0 .. MAX_RECONNECT_ATTEMPTS - 1]
  /\ cur \in Sockets \cup {NoSocket}
  /\ timer \in -1 .. MAX_RECONNECT_ATTEMPTS - 1
  /\ intentional \in BOOLEAN /\ connected \in BOOLEAN
  /\ error \in Errors
  /\ reachable \in BOOLEAN /\ outages \in 0 .. MaxOutages

\* The page before it knows its player: the effect ran and connected nothing.
Init ==
  /\ mounted = TRUE /\ player = FALSE
  /\ attempts = 0 /\ used = 0
  /\ sock = [s \in Sockets |-> "CLOSED"]
  /\ made = [s \in Sockets |-> 0]
  /\ cur = NoSocket
  /\ timer = NoTimer
  /\ intentional = FALSE /\ connected = FALSE /\ error = "NONE"
  /\ reachable = TRUE /\ outages = 0

-----------------------------------------------------------------------------
(* connect and the effect that calls it.                                   *)

\* A socket that may be made now: one that is closed, whose handlers are all
\* behind it.
FreeSocket(socks) == CHOOSE s \in Sockets : socks[s] = "CLOSED"

\* `connect` of a render with k attempts, when socks is what is left of the
\* sockets: it gives up, or makes a socket, and does nothing to an old one.
Connect(k, socks) ==
  \/ /\ k >= MAX_RECONNECT_ATTEMPTS
     /\ sock' = socks
     /\ error' = "GAVE_UP"
     /\ UNCHANGED <<made, cur>>
  \/ /\ k < MAX_RECONNECT_ATTEMPTS
     /\ \E t \in Sockets : socks[t] = "CLOSED"
     /\ sock' = [socks EXCEPT ![FreeSocket(socks)] = "CONNECTING"]
     /\ made' = [made EXCEPT ![FreeSocket(socks)] = k]
     /\ cur' = FreeSocket(socks)
     /\ UNCHANGED error

\* ws.current.close(): its close event comes later.
CloseCurrent ==
  [s \in Sockets |->
     IF s = cur /\ sock[s] \in Live THEN "CLOSING" ELSE sock[s]]

\* initializeRoom has found or joined a player; the effect runs again.
SetPlayer ==
  /\ mounted /\ ~player
  /\ player' = TRUE
  /\ Connect(attempts, CloseCurrent)
  /\ UNCHANGED <<mounted, used, intentional, netVars, attempts, timer,
                 connected>>

\* The clean-up of the old render's effect, then the effect of the new one.
Cleanup ==
  /\ timer' = NoTimer
  /\ Connect(attempts, CloseCurrent)

\* The page renders again after reconnectAttempts has changed.
Render ==
  /\ mounted /\ player
  /\ attempts # used
  /\ used' = attempts
  /\ intentional' = FALSE
  /\ Cleanup
  /\ UNCHANGED <<mounted, player, netVars, attempts, connected>>

\* Mutant of Unmount: the timer of the last close is left running.
UnmountKeepsTimer ==
  /\ mounted
  /\ mounted' = FALSE /\ intentional' = TRUE
  /\ sock' = CloseCurrent
  /\ UNCHANGED <<player, used, made, cur, netVars, attempts, timer, connected,
                 error>>

\* The user leaves the page: the clean-up alone.
Unmount ==
  /\ mounted
  /\ mounted' = FALSE /\ intentional' = TRUE
  /\ timer' = NoTimer
  /\ sock' = CloseCurrent
  /\ UNCHANGED <<player, used, made, cur, netVars, attempts, connected, error>>

-----------------------------------------------------------------------------
(* The handlers of a socket.                                               *)

\* onopen.
OnOpen(s) ==
  /\ sock[s] = "CONNECTING" /\ reachable
  /\ sock' = [sock EXCEPT ![s] = "OPEN"]
  /\ connected' = TRUE /\ error' = "NONE"
  /\ attempts' = 0
  /\ UNCHANGED <<effectVars, made, cur, netVars, timer>>

\* onmessage of a socket whose page holds itself for disconnected: the late
\* close of another socket has said so.  (What a message carries is RoomPage.)
OnMessage(s) ==
  /\ sock[s] = "OPEN" /\ reachable /\ ~connected
  /\ connected' = TRUE /\ error' = "NONE"
  /\ attempts' = 0
  /\ UNCHANGED <<effectVars, socketVars, netVars, timer>>

\* Mutant of Retry: the render that follows is trusted to connect.
RetryByRender(s) ==
  IF intentional
  THEN UNCHANGED <<attempts, error, timer>>
  ELSE /\ attempts' = made[s] + 1
       /\ error' = "RETRYING"
       /\ UNCHANGED timer

\* Mutant of Retry: the last attempt allowed is not made.
RetryOneLess(s) ==
  IF intentional \/ made[s] + 1 = MAX_RECONNECT_ATTEMPTS
  THEN UNCHANGED <<attempts, error, timer>>
  ELSE /\ attempts' = made[s] + 1
       /\ error' = "RETRYING"
       /\ timer' = made[s]

\* What onclose does to come back: nothing after an intentional close, else
\* one more attempt than when the socket was made, and a timer that connects.
Retry(s) ==
  IF intentional
  THEN UNCHANGED <<attempts, error, timer>>
  ELSE /\ attempts' = made[s] + 1
       /\ error' = "RETRYING"
       /\ timer' = made[s]

\* onclose: of a socket that was told to close, or that the network lost.
OnClose(s) ==
  /\ \/ sock[s] = "CLOSING"
     \/ sock[s] \in Live /\ ~reachable
  /\ sock' = [sock EXCEPT ![s] = "CLOSED"]
  /\ connected' = FALSE
  /\ Retry(s)
  /\ UNCHANGED <<effectVars, made, cur, netVars>>

\* RECONNECT_INTERVAL has passed since the close that set the timer.  The
\* render that close asked for took milliseconds, the interval takes seconds:
\* only a timer whose close changed nothing lives to fire.
TimerFires ==
  /\ timer # NoTimer
  /\ attempts = used \/ ~mounted
  /\ timer' = NoTimer
  /\ Connect(timer, sock)
  /\ UNCHANGED <<effectVars, netVars, attempts, connected>>

-----------------------------------------------------------------------------
(* The server and the network.                                             *)

Outage ==
  /\ reachable /\ outages < MaxOutages
  /\ reachable' = FALSE
  /\ outages' = outages + 1
  /\ UNCHANGED <<effectVars, socketVars, attempts, timer, connected, error>>

Recover ==
  /\ ~reachable
  /\ reachable' = TRUE
  /\ UNCHANGED <<effectVars, socketVars, outages, attempts, timer, connected,
                 error>>

-----------------------------------------------------------------------------
Next ==
  \/ SetPlayer \/ Render \/ Unmount \/ TimerFires
  \/ \E s \in Sockets : OnOpen(s) \/ OnMessage(s) \/ OnClose(s)
  \/ Outage \/ Recover

Spec == Init /\ [][Next]_vars

\* The browser delivers the events of a socket, runs the timer and renders;
\* neither the user nor the network owes anything.
Fairness ==
  /\ WF_vars(Render) /\ WF_vars(TimerFires)
  /\ \A s \in Sockets : WF_vars(OnOpen(s)) /\ WF_vars(OnClose(s))

FairSpec == Spec /\ Fairness

-----------------------------------------------------------------------------
(* Properties.                                                             *)

\* After the page is gone, nothing connects again: neither a timer nor a late
\* close of an old socket (the clean-up, useWebSocket.ts:149-157).
NoRetryAfterUnmount ==
  [][~mounted => \A s \in Sockets : sock'[s] = "CONNECTING" => sock[s] = "CONNECTING"]_vars

\* When nothing is under way any more, a page without a connection says why:
\* it is never left disconnected with an attempt still to come in its text.
Settled ==
  /\ mounted /\ player /\ timer = NoTimer /\ attempts = used
  /\ \A s \in Sockets : sock[s] \notin {"CONNECTING", "CLOSING"}

NeverStranded ==
  Settled => \/ cur # NoSocket /\ sock[cur] = "OPEN"
             \/ error = "GAVE_UP" /\ ~connected

\* Once the server stays reachable, the page is connected again and again or
\* has told its user that it gave up.  (It need not stay connected: a socket
\* that opens after a retry sets reconnectAttempts to 0, and the render that
\* follows closes it.)
ConnectsOrGivesUp ==
  <>[]reachable => []<>(player => connected \/ error = "GAVE_UP" \/ ~mounted)

=============================================================================
