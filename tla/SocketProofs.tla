---------------------------- MODULE SocketProofs ----------------------------
(***************************************************************************)
(* Proofs about Socket: type correctness, that nothing connects once the   *)
(* page is gone, and that a page is never left without a connection and    *)
(* without a word.  The second needs to know what the clean-up leaves      *)
(* behind: no timer, and the mark that makes a late close do nothing.  The *)
(* third needs to know who takes care of the page at every moment          *)
(* (Attended), and what attempts and error say of that (Traces).           *)
(*                                                                         *)
(* And about the page that the socket feeds (RoomPage): its types, and     *)
(* that late answers leave it in the game it was given a role of, for      *)
(* which every answer on its way has to be of a room with a game and a     *)
(* place for the player, or of none (InGame).                              *)
(***************************************************************************)
EXTENDS Socket, RoomPage, TLAPS

CleanedUp == ~mounted => timer = NoTimer /\ intentional

SocketInv == TypeOK /\ CleanedUp

LEMMA SocketInit == Init => SocketInv
<1> SUFFICES ASSUME Init PROVE TypeOK /\ CleanedUp
  BY DEF SocketInv
<1>1. 0 \in 0 .. MAX_RECONNECT_ATTEMPTS - 1 /\ -1 \in -1 .. MAX_RECONNECT_ATTEMPTS - 1
  BY SocketAssumption
<1>2. attempts \in Attempts /\ used \in Attempts
  BY SocketAssumption DEF Init, Attempts
<1>3. sock \in [Sockets -> States] /\ made \in [Sockets -> 0 .. MAX_RECONNECT_ATTEMPTS - 1]
  BY <1>1 DEF Init, States
<1>4. cur \in Sockets \cup {NoSocket} /\ timer \in -1 .. MAX_RECONNECT_ATTEMPTS - 1
  BY <1>1 DEF Init, NoTimer
<1>5. error \in Errors /\ outages \in 0 .. MaxOutages
  BY SocketAssumption DEF Init, Errors
<1>6. CleanedUp
  BY DEF Init, CleanedUp
<1> QED
  BY <1>2, <1>3, <1>4, <1>5, <1>6 DEF Init, TypeOK

\* Closing the current socket leaves a state for every socket.
LEMMA CloseCurrentType ==
  ASSUME TypeOK
  PROVE  CloseCurrent \in [Sockets -> States]
BY DEF TypeOK, CloseCurrent, States

\* `connect` makes at most one socket, out of a closed one, and keeps the types.
LEMMA ConnectType ==
  ASSUME TypeOK, NEW k \in Attempts, NEW socks \in [Sockets -> States],
         Connect(k, socks)
  PROVE  /\ sock' \in [Sockets -> States]
         /\ made' \in [Sockets -> 0 .. MAX_RECONNECT_ATTEMPTS - 1]
         /\ cur' \in Sockets \cup {NoSocket}
         /\ error' \in Errors
<1>1. CASE k >= MAX_RECONNECT_ATTEMPTS /\ UNCHANGED <<made, cur>>
           /\ sock' = socks /\ error' = "GAVE_UP"
  BY <1>1 DEF TypeOK, Errors
<1>2. CASE /\ k < MAX_RECONNECT_ATTEMPTS
           /\ \E t \in Sockets : socks[t] = "CLOSED"
           /\ sock' = [socks EXCEPT ![FreeSocket(socks)] = "CONNECTING"]
           /\ made' = [made EXCEPT ![FreeSocket(socks)] = k]
           /\ cur' = FreeSocket(socks)
           /\ UNCHANGED error
  <2>1. FreeSocket(socks) \in Sockets
    BY <1>2 DEF FreeSocket
  <2>2. k \in 0 .. MAX_RECONNECT_ATTEMPTS - 1
    BY <1>2, SocketAssumption DEF Attempts
  <2> QED
    BY <1>2, <2>1, <2>2 DEF TypeOK, States
<1> QED
  BY <1>1, <1>2 DEF Connect

\* Every step keeps the types and what the clean-up has left.
LEMMA SocketStep == SocketInv /\ [Next]_vars => SocketInv'
<1> SUFFICES ASSUME TypeOK, CleanedUp, [Next]_vars PROVE TypeOK' /\ CleanedUp'
  BY DEF SocketInv
<1>0. CloseCurrent \in [Sockets -> States]
  BY CloseCurrentType
<1>1. CASE SetPlayer
  <2>1. attempts \in Attempts BY DEF TypeOK
  <2>2. Connect(attempts, CloseCurrent) BY <1>1 DEF SetPlayer
  <2>3. /\ sock' \in [Sockets -> States]
        /\ made' \in [Sockets -> 0 .. MAX_RECONNECT_ATTEMPTS - 1]
        /\ cur' \in Sockets \cup {NoSocket}
        /\ error' \in Errors
    BY <1>0, <2>1, <2>2, ConnectType
  <2> QED BY <1>1, <2>3 DEF SetPlayer, TypeOK, CleanedUp, netVars
<1>2. CASE Render
  <2>1. attempts \in Attempts BY DEF TypeOK
  <2>2. Connect(attempts, CloseCurrent) BY <1>2 DEF Render, Cleanup
  <2>3. /\ sock' \in [Sockets -> States]
        /\ made' \in [Sockets -> 0 .. MAX_RECONNECT_ATTEMPTS - 1]
        /\ cur' \in Sockets \cup {NoSocket}
        /\ error' \in Errors
    BY <1>0, <2>1, <2>2, ConnectType
  <2>4. timer' \in -1 .. MAX_RECONNECT_ATTEMPTS - 1
    BY <1>2, SocketAssumption DEF Render, Cleanup, NoTimer
  <2> QED BY <1>2, <2>3, <2>4 DEF Render, TypeOK, CleanedUp, netVars
<1>3. CASE Unmount
  <2>1. timer' \in -1 .. MAX_RECONNECT_ATTEMPTS - 1
    BY <1>3, SocketAssumption DEF Unmount, NoTimer
  <2> QED BY <1>0, <1>3, <2>1 DEF Unmount, TypeOK, CleanedUp, netVars
<1>4. CASE TimerFires
  <2>1. timer \in Attempts /\ mounted
    BY <1>4, SocketAssumption DEF TimerFires, TypeOK, CleanedUp, Attempts, NoTimer
  <2>2. sock \in [Sockets -> States] /\ Connect(timer, sock)
    BY <1>4 DEF TimerFires, TypeOK
  <2>3. /\ sock' \in [Sockets -> States]
        /\ made' \in [Sockets -> 0 .. MAX_RECONNECT_ATTEMPTS - 1]
        /\ cur' \in Sockets \cup {NoSocket}
        /\ error' \in Errors
    BY <2>1, <2>2, ConnectType
  <2>4. timer' \in -1 .. MAX_RECONNECT_ATTEMPTS - 1
    BY <1>4, SocketAssumption DEF TimerFires, NoTimer
  <2> QED BY <1>4, <2>3, <2>4 DEF TimerFires, TypeOK, CleanedUp, netVars, effectVars
<1>5. ASSUME NEW s \in Sockets, OnOpen(s) PROVE TypeOK' /\ CleanedUp'
  <2>1. sock' \in [Sockets -> States] /\ attempts' \in Attempts
    BY <1>5, SocketAssumption DEF OnOpen, TypeOK, States, Attempts
  <2> QED
    BY <1>5, <2>1 DEF OnOpen, TypeOK, CleanedUp, netVars, effectVars, Errors
<1>6. ASSUME NEW s \in Sockets, OnMessage(s) PROVE TypeOK' /\ CleanedUp'
  <2>1. attempts' \in Attempts
    BY <1>6, SocketAssumption DEF OnMessage, Attempts
  <2> QED
    BY <1>6, <2>1 DEF OnMessage, TypeOK, CleanedUp, netVars, effectVars, socketVars, Errors
<1>7. ASSUME NEW s \in Sockets, OnClose(s) PROVE TypeOK' /\ CleanedUp'
  <2>1. sock' \in [Sockets -> States]
    BY <1>7 DEF OnClose, TypeOK, States
  <2>2. /\ attempts' \in Attempts /\ error' \in Errors
        /\ timer' \in -1 .. MAX_RECONNECT_ATTEMPTS - 1
    <3>1. CASE intentional
      BY <1>7, <3>1 DEF OnClose, Retry, TypeOK
    <3>2. CASE ~intentional
      <4>1. made[s] \in 0 .. MAX_RECONNECT_ATTEMPTS - 1
        BY DEF TypeOK
      <4> QED
        BY <1>7, <3>2, <4>1, SocketAssumption DEF OnClose, Retry, Attempts, Errors
    <3> QED BY <3>1, <3>2
  <2>3. CleanedUp'
    BY <1>7 DEF OnClose, Retry, CleanedUp, effectVars
  <2> QED
    BY <1>7, <2>1, <2>2, <2>3 DEF OnClose, TypeOK, netVars, effectVars
<1>8. CASE Outage
  <2>1. outages' \in 0 .. MaxOutages
    BY <1>8, SocketAssumption DEF Outage, TypeOK
  <2> QED
    BY <1>8, <2>1 DEF Outage, TypeOK, CleanedUp, effectVars, socketVars
<1>9. CASE Recover
  BY <1>9 DEF Recover, TypeOK, CleanedUp, effectVars, socketVars
<1>10. CASE UNCHANGED vars
  BY <1>10 DEF vars, TypeOK, CleanedUp, effectVars, socketVars, netVars
<1> QED
  BY <1>1, <1>2, <1>3, <1>4, <1>5, <1>6, <1>7, <1>8, <1>9, <1>10 DEF Next

\* useWebSocket.ts: the hook's state keeps its types through every order of the
\* browser's events.
THEOREM SocketTypeCorrect == Spec => []TypeOK
<1>1. SocketInv => TypeOK
  BY DEF SocketInv
<1> QED
  BY <1>1, SocketInit, SocketStep, PTL DEF Spec

\* useWebSocket.ts: once its clean-up has run, neither a timer nor the late close
\* of a socket makes the page connect again.
THEOREM UnmountedStaysSilent == Spec => NoRetryAfterUnmount
<1>1. ASSUME SocketInv, [Next]_vars, ~mounted, NEW s \in Sockets, sock'[s] = "CONNECTING"
      PROVE  sock[s] = "CONNECTING"
  <2>1. timer = NoTimer /\ sock \in [Sockets -> States]
    BY <1>1 DEF SocketInv, CleanedUp, TypeOK
  <2>2. ~SetPlayer /\ ~Render /\ ~Unmount /\ ~TimerFires
    BY <1>1, <2>1 DEF SetPlayer, Render, Unmount, TimerFires
  <2>3. ASSUME NEW t \in Sockets, OnOpen(t) \/ OnMessage(t) \/ OnClose(t)
        PROVE  sock[s] = "CONNECTING"
    BY <1>1, <2>1, <2>3 DEF OnOpen, OnMessage, OnClose, socketVars
  <2>4. CASE Outage \/ Recover \/ UNCHANGED vars
    BY <1>1, <2>4 DEF Outage, Recover, vars, socketVars
  <2> QED
    BY <1>1, <2>2, <2>3, <2>4 DEF Next
<1>2. SocketInv /\ [Next]_vars =>
        [~mounted => \A s \in Sockets : sock'[s] = "CONNECTING" => sock[s] = "CONNECTING"]_vars
  BY <1>1
<1> QED
  BY <1>2, SocketInit, SocketStep, PTL DEF Spec, NoRetryAfterUnmount

-----------------------------------------------------------------------------
(* Somebody takes care of a page that wants a connection.                  *)

\* What the state of the hook says of its past: attempts other than those of the
\* last render come from a close, which has set the timer, or from an opening,
\* which has set them to 0; only a render gives up.
Traces ==
  /\ mounted => ~intentional
  /\ ~player => /\ attempts = 0 /\ used = 0 /\ timer = NoTimer
                /\ \A s \in Sockets : sock[s] = "CLOSED"
  /\ connected => attempts = 0
  /\ error = "GAVE_UP" => attempts = MAX_RECONNECT_ATTEMPTS /\ used = attempts
  /\ mounted /\ attempts # used /\ attempts # 0 => timer # NoTimer

\* A render, the timer, the current socket or a close is to come, or the page
\* has given up.
Attended ==
  mounted /\ player =>
    \/ attempts # used
    \/ timer # NoTimer
    \/ cur # NoSocket /\ sock[cur] \in Live
    \/ \E s \in Sockets : sock[s] = "CLOSING"
    \/ error = "GAVE_UP" /\ ~connected

AttendedInv == SocketInv /\ Traces /\ Attended

\* `connect` gives up, or the current socket is one that connects.
LEMMA ConnectAttends ==
  ASSUME TypeOK, NEW k \in Attempts, NEW socks \in [Sockets -> States],
         Connect(k, socks)
  PROVE  \/ k = MAX_RECONNECT_ATTEMPTS /\ error' = "GAVE_UP"
         \/ /\ k # MAX_RECONNECT_ATTEMPTS /\ error' = error
            /\ cur' # NoSocket /\ sock'[cur'] = "CONNECTING"
<1>1. CASE k >= MAX_RECONNECT_ATTEMPTS /\ error' = "GAVE_UP"
  BY <1>1, SocketAssumption DEF Attempts
<1>2. CASE /\ k < MAX_RECONNECT_ATTEMPTS
           /\ \E t \in Sockets : socks[t] = "CLOSED"
           /\ sock' = [socks EXCEPT ![FreeSocket(socks)] = "CONNECTING"]
           /\ cur' = FreeSocket(socks)
           /\ UNCHANGED error
  <2>1. FreeSocket(socks) \in Sockets
    BY <1>2 DEF FreeSocket
  <2>2. cur' # NoSocket
    BY <1>2, <2>1, SocketAssumption DEF Sockets, NoSocket
  <2> QED
    BY <1>2, <2>1, <2>2, SocketAssumption DEF Attempts
<1> QED
  BY <1>1, <1>2 DEF Connect

LEMMA AttendedInit == Init => AttendedInv
<1>1. Init => Traces /\ Attended
  BY DEF Init, Traces, Attended
<1> QED
  BY <1>1, SocketInit DEF AttendedInv

LEMMA AttendedStep == AttendedInv /\ [Next]_vars => AttendedInv'
<1> SUFFICES ASSUME SocketInv, Traces, Attended, [Next]_vars, SocketInv'
             PROVE  Traces' /\ Attended'
  BY SocketStep DEF AttendedInv
<1>0. TypeOK /\ CleanedUp /\ MAX_RECONNECT_ATTEMPTS # 0
  BY SocketAssumption DEF SocketInv
<1>a. CloseCurrent \in [Sockets -> States] /\ attempts \in Attempts
  BY <1>0, CloseCurrentType DEF TypeOK
<1>1. CASE SetPlayer
  <2>1. error' = error /\ cur' # NoSocket /\ sock'[cur'] = "CONNECTING"
    BY <1>0, <1>1, <1>a, ConnectAttends DEF SetPlayer, Traces
  <2> QED
    BY <1>1, <2>1 DEF SetPlayer, Traces, Attended, Live
<1>2. CASE Render
  <2>1. \/ attempts = MAX_RECONNECT_ATTEMPTS /\ error' = "GAVE_UP"
        \/ attempts # MAX_RECONNECT_ATTEMPTS /\ error' = error
           /\ cur' # NoSocket /\ sock'[cur'] = "CONNECTING"
    BY <1>0, <1>2, <1>a, ConnectAttends DEF Render, Cleanup
  <2> QED
    BY <1>0, <1>2, <2>1 DEF Render, Cleanup, Traces, Attended, Live
<1>3. CASE Unmount
  <2>1. ~player => \A s \in Sockets : CloseCurrent[s] = "CLOSED"
    BY DEF CloseCurrent, Traces, Live
  <2> QED
    BY <1>3, <2>1 DEF Unmount, Traces, Attended
<1>4. CASE TimerFires
  <2>1. mounted
    BY <1>0, <1>4 DEF TimerFires, CleanedUp
  <2>2. timer \in Attempts /\ timer # MAX_RECONNECT_ATTEMPTS
    BY <1>0, <1>4, SocketAssumption DEF TimerFires, TypeOK, Attempts, NoTimer
  <2>3. error' = error /\ cur' # NoSocket /\ sock'[cur'] = "CONNECTING"
    BY <1>0, <1>4, <2>2, ConnectAttends DEF TimerFires, TypeOK
  <2>4. attempts' = attempts /\ used' = used /\ attempts = used
        /\ UNCHANGED <<mounted, player, connected, intentional>>
    BY <1>4, <2>1 DEF TimerFires, effectVars
  <2>5. player
    BY <1>4 DEF TimerFires, Traces
  <2> QED
    BY <2>3, <2>4, <2>5 DEF Traces, Attended, Live
<1>5. ASSUME NEW s \in Sockets, OnOpen(s) \/ OnMessage(s)
      PROVE  Traces' /\ Attended'
  <2>1. /\ attempts' = 0 /\ error' = "NONE" /\ timer' = timer /\ cur' = cur
        /\ UNCHANGED <<mounted, player, used, intentional>>
    BY <1>5 DEF OnOpen, OnMessage, effectVars, socketVars
  <2>2. player
    BY <1>5 DEF OnOpen, OnMessage, Traces
  <2>3. \A t \in Sockets : sock'[t] \in Live <=> sock[t] \in Live
    BY <1>0, <1>5 DEF OnOpen, OnMessage, socketVars, TypeOK, Live
  <2>4. \A t \in Sockets : sock'[t] = "CLOSING" <=> sock[t] = "CLOSING"
    BY <1>0, <1>5 DEF OnOpen, OnMessage, socketVars, TypeOK
  <2>5. Traces'
    BY <2>1, <2>2 DEF Traces
  <2>6. cur # NoSocket => cur \in Sockets
    BY <1>0 DEF TypeOK
  <2> QED
    BY <1>0, <2>1, <2>2, <2>3, <2>4, <2>5, <2>6 DEF Traces, Attended
<1>7. ASSUME NEW s \in Sockets, OnClose(s) PROVE Traces' /\ Attended'
  <2>1. player
    BY <1>7 DEF OnClose, Traces, Live
  <2>2. made[s] \in 0 .. MAX_RECONNECT_ATTEMPTS - 1
    BY <1>0 DEF TypeOK
  <2>3. CASE intentional
    BY <1>7, <2>1, <2>3 DEF OnClose, Retry, Traces, Attended, effectVars
  <2>4. CASE ~intentional
    <3>1. timer' # NoTimer /\ error' = "RETRYING" /\ connected' = FALSE
      BY <1>7, <2>2, <2>4, SocketAssumption DEF OnClose, Retry, NoTimer
    <3> QED
      BY <1>7, <2>1, <3>1 DEF OnClose, Traces, Attended, effectVars
  <2> QED
    BY <2>3, <2>4
<1>8. CASE Outage \/ Recover \/ UNCHANGED vars
  BY <1>8 DEF Outage, Recover, vars, effectVars, socketVars, Traces, Attended
<1> QED
  BY <1>1, <1>2, <1>3, <1>4, <1>5, <1>7, <1>8 DEF Next

\* useWebSocket.ts:111-135: in whatever order sockets open and close, timers fire
\* and renders come, a page without a connection is never left with nothing to
\* come but a text that promises a retry.
THEOREM NeverStrandedHolds == Spec => []NeverStranded
<1>1. AttendedInv => NeverStranded
  <2> SUFFICES ASSUME AttendedInv, Settled
               PROVE  \/ cur # NoSocket /\ sock[cur] = "OPEN"
                      \/ error = "GAVE_UP" /\ ~connected
    BY DEF NeverStranded
  <2>1. cur # NoSocket => cur \in Sockets
    BY DEF AttendedInv, SocketInv, TypeOK
  <2> QED
    BY <2>1 DEF AttendedInv, Attended, Settled, Live
<1> QED
  BY <1>1, AttendedInit, AttendedStep, PTL DEF Spec

-----------------------------------------------------------------------------
(* RoomPage.                                                               *)

\* The types, with the queue as a sequence of messages.
PageTypes == PageTypeOK /\ chan \in Seq(Message)

\* A room in a game has a game and a place for the player, on the server as in
\* every answer.
InGame(room) == room.status # "WAITING" => room.game # 0 /\ room.side # None

ServerInGame  == InGame(srv)
AnswersInGame == \A a \in answers : InGame(a.room)

PageInv == PageTypes /\ ServerInGame /\ AnswersInGame /\ AssignedIsInGame

\* What the server tells is a room, and one in a game tells so.
LEMMA ToldIs ==
  ASSUME srv \in Server, ServerInGame
  PROVE  Told \in Room /\ InGame(Told)
<1>1. srv.status \in {"WAITING", "IN_PROGRESS", "REVEALING"} /\ srv.game \in 0 .. MaxGames
      /\ srv.side \in Rooms \cup {None} /\ 0 \in 0 .. MaxGames
  BY RoomPageAssumption DEF Server
<1> QED
  BY <1>1 DEF Told, Room, ServerInGame, InGame

\* Sending leaves a queue of messages, empty where nobody listens.
LEMMA SendTypes ==
  ASSUME PageTypes, NEW ms \in Seq(Message), Send(ms), online' = online
  PROVE  /\ chan' \in Seq(Message) /\ Len(chan') <= MaxQueue
         /\ ~online' => chan' = <<>>
<1>1. /\ chan \in Seq(Message) /\ Len(chan) <= MaxQueue /\ (~online => chan = <<>>)
      /\ online \in BOOLEAN
  BY DEF PageTypes, PageTypeOK
<1>2. chan \o ms \in Seq(Message) /\ Len(chan \o ms) = Len(chan) + Len(ms)
  BY <1>1
<1> QED
  BY <1>1, <1>2 DEF Send

\* The messages the server sends.
LEMMA MessageKinds ==
  /\ \A t \in {"GAME_STARTED", "GAME_RESET", "GAME_REVEALING"} : [type |-> t] \in Message
  /\ \A r \in Games, s \in Rooms :
       [type |-> "ROLE_ASSIGNED", role |-> r, side |-> s] \in Message
BY DEF Message

\* A page that is loaded has nothing but its view.
LEMMA FreshPageIs ==
  ASSUME NEW v \in {"lobby", "game", "reveal"}
  PROVE  FreshPage(v) \in Page /\ FreshPage(v).roleDone = FALSE
<1>1. 0 \in 0 .. MaxGames
  BY RoomPageAssumption
<1> QED
  BY <1>1 DEF FreshPage, Page

\* In the game, or about to be led to it, as far as the page has been told.
Kept(p) ==
  p.roleDone =>
    /\ p.role # 0 /\ p.side # None
    /\ p.view # "lobby" \/ p.switches > 0

\* A page that takes over an answer stays in its game.
LEMMA FromRoomIs ==
  ASSUME NEW p \in Page, NEW room \in Room, InGame(room), Kept(p)
  PROVE  FromRoom(p, room) \in Page /\ Kept(FromRoom(p, room))
<1>1. /\ room.status \in {"WAITING", "IN_PROGRESS", "REVEALING"}
      /\ room.game \in 0 .. MaxGames /\ room.side \in Rooms \cup {None}
  BY DEF Room
<1>2. CASE room.status = "WAITING"
  <2>1. FromRoom(p, room) = [p EXCEPT !.status = room.status]
    BY <1>2 DEF FromRoom
  <2> QED
    BY <1>1, <2>1 DEF Page, Kept
<1>3. CASE room.status # "WAITING"
  <2>1. FromRoom(p, room) = [p EXCEPT !.status = room.status, !.role = room.game,
                                      !.side = room.side]
    BY <1>3 DEF FromRoom
  <2>2. room.game # 0 /\ room.side # None
    BY <1>3 DEF InGame
  <2> QED
    BY <1>1, <2>1, <2>2 DEF Page, Kept
<1> QED
  BY <1>2, <1>3

\* So does one that takes a message: it is led back by GAME_RESET alone.
LEMMA HandledIs ==
  ASSUME NEW p \in Page, NEW m \in Message, Kept(p)
  PROVE  Handled(p, m) \in Page /\ Kept(Handled(p, m))
<1>1. CASE m.type = "GAME_STARTED"
  <2>1. Handled(p, m) = [p EXCEPT !.starting = FALSE, !.view = "game"]
    BY <1>1 DEF Handled
  <2> QED
    BY <2>1 DEF Page, Kept
<1>2. CASE m.type = "ROLE_ASSIGNED"
  <2>1. Handled(p, m) = OnRole(p, m)
    BY <1>2 DEF Handled
  <2>2. m.role \in Games /\ m.side \in Rooms
    BY <1>2 DEF Message
  <2>3. m.role \in 0 .. MaxGames /\ m.role # 0 /\ m.side # None
    BY <2>2, RoomPageAssumption DEF Games, Rooms, None
  <2>4. CASE p.roleDone
    BY <2>1, <2>4 DEF OnRole
  <2>5. CASE ~p.roleDone
    <3>1. p.switches \in Nat /\ p.switches + 1 \in Nat /\ p.switches + 1 > 0
      BY DEF Page
    <3>2. OnRole(p, m) = [p EXCEPT !.roleDone = TRUE, !.starting = FALSE, !.role = m.role,
                                   !.side = m.side, !.switches = p.switches + 1]
      BY <2>5 DEF OnRole
    <3>3. OnRole(p, m) \in Page
      BY <2>2, <2>3, <3>1, <3>2 DEF Page
    <3>4. /\ OnRole(p, m).role = m.role /\ OnRole(p, m).side = m.side
          /\ OnRole(p, m).switches > 0
      BY <3>1, <3>2 DEF Page
    <3> QED
      BY <2>1, <2>3, <3>3, <3>4 DEF Kept
  <2> QED
    BY <2>4, <2>5
<1>3. CASE m.type = "GAME_RESET"
  <2>1. Handled(p, m) = OnReset(p)
    BY <1>3 DEF Handled
  <2>2. 0 \in 0 .. MaxGames
    BY RoomPageAssumption
  <2> QED
    BY <2>1, <2>2 DEF OnReset, Page, Kept
<1>4. CASE m.type = "GAME_REVEALING"
  <2>1. Handled(p, m) = p
    BY <1>4 DEF Handled
  <2> QED
    BY <2>1
<1> QED
  BY <1>1, <1>2, <1>3, <1>4 DEF Message

\* The page that nobody has loaded.
LEMMA PageInvInit == PageInit => PageInv
<1> SUFFICES ASSUME PageInit PROVE PageInv
  OBVIOUS
<1>1. srv \in Server /\ ServerInGame /\ faults \in 0 .. MaxFaults
  BY RoomPageAssumption DEF PageInit, Server, ServerInGame, InGame
<1>2. page \in Page /\ page.roleDone = FALSE
  BY FreshPageIs DEF PageInit
<1>3. chan \in Seq(Message) /\ Len(chan) <= MaxQueue
  BY RoomPageAssumption DEF PageInit
<1>4. AssignedIsInGame
  BY <1>2 DEF AssignedIsInGame
<1>5. AnswersInGame
  BY DEF PageInit, AnswersInGame
<1>6. PageTypeOK
  <2>1. \A i \in DOMAIN chan : chan[i] \in Message
    BY <1>3
  <2>2. answers \subseteq [kind : Kinds, room : Room]
    BY DEF PageInit
  <2>3. /\ online \in BOOLEAN /\ owner \in BOOLEAN /\ at \in Places
        /\ ~online => chan = <<>>
        /\ call \in {None, "START", "RESET"}
    BY DEF PageInit, Places
  <2> QED
    BY <1>1, <1>2, <1>3, <2>1, <2>2, <2>3 DEF PageTypeOK
<1> QED
  BY <1>1, <1>3, <1>4, <1>5, <1>6 DEF PageInv, PageTypes

\* Every step of the server and of the page.
LEMMA PageInvStep == PageInv /\ [PageNext]_pageVars => PageInv'
<1> SUFFICES ASSUME PageInv, [PageNext]_pageVars PROVE PageInv'
  OBVIOUS
<1>0. /\ srv \in Server /\ ServerInGame
      /\ chan \in Seq(Message) /\ Len(chan) <= MaxQueue
      /\ online \in BOOLEAN /\ owner \in BOOLEAN /\ (~online => chan = <<>>)
      /\ at \in Places
      /\ answers \subseteq [kind : Kinds, room : Room] /\ AnswersInGame
      /\ page \in Page /\ Kept(page)
      /\ call \in {None, "START", "RESET"}
      /\ faults \in 0 .. MaxFaults
      /\ PageTypes
  BY DEF PageInv, PageTypes, PageTypeOK, AssignedIsInGame, Kept
<1> DEFINE
      Srv == srv' \in Server /\ ServerInGame'
      Chan == chan' \in Seq(Message) /\ Len(chan') <= MaxQueue /\ (~online' => chan' = <<>>)
      Answers == answers' \subseteq [kind : Kinds, room : Room] /\ AnswersInGame'
      Pg == page' \in Page /\ Kept(page')
      Rest == /\ online' \in BOOLEAN /\ owner' \in BOOLEAN /\ at' \in Places
              /\ call' \in {None, "START", "RESET"} /\ faults' \in 0 .. MaxFaults
      Goal == Srv /\ Chan /\ Answers /\ Pg /\ Rest
<1> SUFFICES Goal
  BY DEF PageInv, PageTypes, PageTypeOK, AssignedIsInGame, Kept
<1>a. UNCHANGED answers => Answers
  BY <1>0 DEF AnswersInGame
<1>b. ASSUME NEW a \in answers, answers' = answers \ {a} PROVE Answers
  BY <1>0, <1>b DEF AnswersInGame
<1>p. UNCHANGED page => Pg
  BY <1>0
<1>s. UNCHANGED srv => Srv
  BY <1>0 DEF ServerInGame
<1>c. UNCHANGED <<chan, online>> => Chan
  BY <1>0
<1>f. Fault => faults' \in 0 .. MaxFaults
  BY <1>0, RoomPageAssumption DEF Fault
<1>v. page.view \in {"lobby", "game", "reveal"}
  BY <1>0 DEF Page
<1>1. CASE StartGame
  <2>1. PICK side \in Rooms :
          /\ srv' = [srv EXCEPT !.status = "IN_PROGRESS", !.game = @ + 1, !.side = side]
          /\ Send(<<[type |-> "GAME_STARTED"],
                    [type |-> "ROLE_ASSIGNED", role |-> srv.game + 1, side |-> side]>>)
    BY <1>1 DEF StartGame
  <2>2. srv.game + 1 \in Games /\ srv.game + 1 \in 0 .. MaxGames /\ side # None
    BY <1>0, <1>1, RoomPageAssumption DEF StartGame, Server, Games, Rooms, None
  <2>3. Srv
    <3>1. srv' \in Server /\ srv'.game = srv.game + 1 /\ srv'.side = side
      BY <1>0, <2>1, <2>2 DEF Server
    <3> QED
      BY <1>0, <2>2, <3>1 DEF Server, ServerInGame, InGame
  <2>4. <<[type |-> "GAME_STARTED"],
          [type |-> "ROLE_ASSIGNED", role |-> srv.game + 1, side |-> side]>> \in Seq(Message)
    BY <2>2, MessageKinds
  <2>5. Chan
    BY <1>0, <1>1, <2>1, <2>4, SendTypes DEF StartGame
  <2> QED
    BY <1>0, <1>1, <1>a, <1>p, <2>3, <2>5 DEF StartGame
<1>2. CASE Exchange
  <2>1. PICK side \in Rooms : srv' = [srv EXCEPT !.side = side, !.moves = @ + 1]
    BY <1>2 DEF Exchange
  <2>2. side # None /\ srv.moves + 1 \in 0 .. MaxMoves
    BY <1>0, <1>2, RoomPageAssumption DEF Exchange, Server, Rooms, None
  <2>3. srv' \in Server /\ srv'.side = side /\ srv'.game = srv.game
        /\ srv'.status = srv.status
    BY <1>0, <2>1, <2>2 DEF Server
  <2>4. Srv
    BY <1>0, <2>2, <2>3 DEF ServerInGame, InGame
  <2> QED
    BY <1>0, <1>2, <1>a, <1>c, <1>p, <2>4 DEF Exchange
<1>3. CASE Reveal
  <2>1. Srv
    BY <1>0, <1>3 DEF Reveal, Server, ServerInGame, InGame
  <2>2. <<[type |-> "GAME_REVEALING"]>> \in Seq(Message)
    BY MessageKinds
  <2>3. Chan
    BY <1>0, <1>3, <2>2, SendTypes DEF Reveal
  <2> QED
    BY <1>0, <1>3, <1>a, <1>p, <2>1, <2>3 DEF Reveal
<1>4. CASE ResetGame
  <2>1. Srv
    <3>0. 0 \in 0 .. MaxMoves
      BY RoomPageAssumption
    <3>1. srv' \in Server /\ srv'.status = "WAITING"
      BY <1>0, <1>4, <3>0 DEF ResetGame, Server
    <3> QED
      BY <3>1 DEF ServerInGame, InGame
  <2>2. <<[type |-> "GAME_RESET"]>> \in Seq(Message)
    BY MessageKinds
  <2>3. Chan
    BY <1>0, <1>4, <2>2, SendTypes DEF ResetGame
  <2> QED
    BY <1>0, <1>4, <1>a, <1>p, <2>1, <2>3 DEF ResetGame
<1>5. ASSUME NEW kind \in Kinds, GetRoom(kind) PROVE Goal
  <2>1. answers' = answers \cup {[kind |-> kind, room |-> Told]}
    BY <1>5 DEF GetRoom
  <2>2. Told \in Room /\ InGame(Told)
    BY <1>0, ToldIs
  <2>3. Answers
    BY <1>0, <2>1, <2>2 DEF AnswersInGame
  <2> QED
    BY <1>0, <1>5, <1>s, <1>c, <1>p, <2>3 DEF GetRoom, Places
<1>6. CASE Enter
  <2>1. Pg
    BY <1>0, <1>6 DEF Enter, Page, Kept
  <2> QED
    BY <1>0, <1>6, <1>s, <1>c, <1>a, <2>1 DEF Enter, Places
<1>7. CASE Register
  <2>1. Chan
    BY <1>0, <1>7 DEF Register
  <2> QED
    BY <1>0, <1>7, <1>s, <1>a, <1>p, <2>1 DEF Register
<1>8. ASSUME NEW a \in answers, LoadRoom(a) PROVE Goal
  <2>1. a.room \in Room /\ InGame(a.room)
    BY <1>0 DEF AnswersInGame
  <2>2. FromRoom(page, a.room) \in Page /\ Kept(FromRoom(page, a.room))
    BY <1>0, <2>1, FromRoomIs
  <2>3. Pg
    <3>1. CASE a.room.status = "IN_PROGRESS"
      BY <1>8, <2>2, <3>1 DEF LoadRoom, Page, Kept
    <3>2. CASE a.room.status # "IN_PROGRESS"
      BY <1>0, <1>8, <2>1, <3>2 DEF LoadRoom, Page, Kept, Room
    <3> QED
      BY <3>1, <3>2
  <2>4. Answers
    BY <1>8, <1>b DEF LoadRoom
  <2> QED
    BY <1>0, <1>8, <1>s, <1>c, <2>3, <2>4 DEF LoadRoom, Places
<1>9. ASSUME NEW a \in answers, FetchRoom(a) PROVE Goal
  <2>1. a.room \in Room /\ InGame(a.room)
    BY <1>0 DEF AnswersInGame
  <2>2. Pg
    BY <1>0, <1>9, <2>1, FromRoomIs DEF FetchRoom
  <2>3. Answers
    BY <1>9, <1>b DEF FetchRoom
  <2> QED
    BY <1>0, <1>9, <1>s, <1>c, <2>2, <2>3 DEF FetchRoom
<1>10. ASSUME NEW a \in answers, SetLists(a) PROVE Goal
  <2>1. a.room.side \in Rooms \cup {None}
    BY <1>0 DEF Room
  <2>2. Pg
    BY <1>0, <1>10, <2>1 DEF SetLists, Page, Kept
  <2>3. Answers
    BY <1>10, <1>b DEF SetLists
  <2> QED
    BY <1>0, <1>10, <1>s, <1>c, <2>2, <2>3 DEF SetLists
<1>11. CASE Receive
  <2>1. /\ Head(chan) \in Message /\ Tail(chan) \in Seq(Message)
        /\ Len(Tail(chan)) <= MaxQueue /\ online
    BY <1>0, <1>11, RoomPageAssumption DEF Receive
  <2>2. Pg
    BY <1>0, <1>11, <2>1, HandledIs DEF Receive
  <2> QED
    BY <1>0, <1>11, <1>s, <1>a, <2>1, <2>2 DEF Receive
<1>12. CASE ClickStart
  <2>1. Pg
    BY <1>0, <1>12 DEF ClickStart, Page, Kept
  <2> QED
    BY <1>0, <1>12, <1>s, <1>c, <1>a, <2>1 DEF ClickStart
<1>13. CASE ClickReset
  <2>1. Pg
    BY <1>0, <1>13 DEF ClickReset, Page, Kept
  <2> QED
    BY <1>0, <1>13, <1>s, <1>c, <1>a, <2>1 DEF ClickReset
<1>14. CASE CallFails
  <2>1. Pg
    BY <1>0, <1>14 DEF CallFails, Page, Kept
  <2> QED
    BY <1>0, <1>14, <1>s, <1>c, <1>a, <2>1 DEF CallFails
<1>15. CASE ShowRole
  <2>1. Pg
    BY <1>0, <1>15 DEF ShowRole, Page, Kept
  <2> QED
    BY <1>0, <1>15, <1>s, <1>c, <1>a, <2>1 DEF ShowRole
<1>16. CASE CloseRole
  <2>1. Pg
    BY <1>0, <1>16 DEF CloseRole, Page, Kept
  <2> QED
    BY <1>0, <1>16, <1>s, <1>c, <1>a, <2>1 DEF CloseRole
\* Only a card without a role leads away, so no page that was given one.
<1>17. CASE Redirect
  <2>1. page.role = 0
    BY <1>0, <1>17 DEF Redirect, RoleShown
  <2>2. page.roleDone = FALSE
    BY <1>0, <2>1 DEF Kept, Page
  <2>3. Pg
    BY <1>0, <1>17, <2>2 DEF Redirect, Page, Kept
  <2> QED
    BY <1>0, <1>17, <1>s, <1>c, <1>a, <2>3 DEF Redirect
<1>18. CASE Overwrite
  <2>1. Tail(chan) \in Seq(Message) /\ Len(Tail(chan)) <= MaxQueue /\ online
    BY <1>0, <1>18, RoomPageAssumption DEF Overwrite
  <2> QED
    BY <1>0, <1>18, <1>s, <1>a, <1>p, <1>f, <2>1 DEF Overwrite
<1>19. CASE Disconnect
  <2>1. Chan
    BY <1>19, RoomPageAssumption DEF Disconnect
  <2> QED
    BY <1>0, <1>19, <1>s, <1>a, <1>p, <1>f, <2>1 DEF Disconnect
<1>20. CASE Reload
  <2>1. Chan
    BY <1>20, RoomPageAssumption DEF Reload
  <2>2. Answers
    BY <1>20 DEF Reload, AnswersInGame
  <2>3. Pg
    BY <1>20, <1>v, FreshPageIs DEF Reload, Kept
  <2> QED
    BY <1>0, <1>20, <1>s, <1>f, <2>1, <2>2, <2>3 DEF Reload, Places
<1>21. CASE LoadRound
  <2>1. Pg
    BY <1>0, <1>21 DEF LoadRound, Page, Kept
  <2> QED
    BY <1>0, <1>21, <1>s, <1>c, <1>a, <2>1 DEF LoadRound, Places
<1>22. CASE SwitchView
  <2>1. Pg
    <3>1. page.switches \in Nat /\ page.switches - 1 \in Nat
      BY <1>0, <1>22 DEF SwitchView, Page
    <3>2. page' = [page EXCEPT !.switches = page.switches - 1, !.view = "game"]
      BY <1>22 DEF SwitchView
    <3> QED
      BY <1>0, <3>1, <3>2 DEF Page, Kept
  <2> QED
    BY <1>0, <1>22, <1>s, <1>c, <1>a, <2>1 DEF SwitchView
<1>23. CASE UNCHANGED pageVars
  BY <1>0, <1>23, <1>s, <1>a, <1>p, <1>c DEF pageVars
<1> QED
  BY <1>1, <1>2, <1>3, <1>4, <1>5, <1>6, <1>7, <1>8, <1>9, <1>10, <1>11, <1>12, <1>13,
     <1>14, <1>15, <1>16, <1>17, <1>18, <1>19, <1>20, <1>21, <1>22, <1>23 DEF PageNext

\* The page of a player keeps its types: no queue without a connection, no answer
\* and no state out of range, whatever is lost, late or loaded again.
THEOREM PageTypeCorrect == PageSpec => []PageTypeOK
<1>1. PageInv => PageTypeOK
  BY DEF PageInv, PageTypes
<1> QED
  BY <1>1, PageInvInit, PageInvStep, PTL DEF PageSpec

\* From ROLE_ASSIGNED to GAME_RESET a page has a role and a place, and it is out of
\* the lobby or a callback is about to lead it out, whatever answers and messages
\* are late and whichever messages were lost.
THEOREM AssignedIsInGameHolds == PageSpec => []AssignedIsInGame
<1>1. PageInv => AssignedIsInGame
  BY DEF PageInv
<1> QED
  BY <1>1, PageInvInit, PageInvStep, PTL DEF PageSpec

=============================================================================
