---------------------------- MODULE LobbyProofs -----------------------------
(***************************************************************************)
(* Proofs about Lobby: type correctness, that a room somebody is in has an *)
(* owner in it, that a page in the room shows a player of the room, and    *)
(* that it calls it what the room does (whose invariant is below).  With   *)
(* the types, the first two are preserved by every step: a join of         *)
(* an empty room makes owners of all who join, and only those who are no   *)
(* owners leave a room that goes on; a page takes a player from the room   *)
(* or joins as one, and a leaving that hits a page in the room is `raced`. *)
(***************************************************************************)
EXTENDS Lobby, FiniteSetTheorems, TLAPS

\* The types of the room, of the connection, and of the rest.
SrvType  == srv \in [status: {"WAITING", "IN_PROGRESS", "GONE"}, players: SUBSET Ids,
                     owners: SUBSET Ids, name: Names \cup {NoName}, joins: 0 .. MaxJoins]
ChanType == /\ chan \in Seq(Message) /\ Len(chan) <= MaxQueue
            /\ online \in BOOLEAN /\ (~online => chan = <<>>)
HomeType == home \in [offer: Offers, loading: BOOLEAN, error: BOOLEAN, visible: BOOLEAN,
                      answer: Offers \cup {"NO ANSWER"}]
PageType == page \in [at: {"HOME", "ENTERING", "LOADING", "LOBBY", "GAME", "ERROR"},
                      self: {Nobody} \cup Ids, name: Names \cup {NoName}, list: SUBSET Ids]
PollType   == polls \in {NoPoll} \cup SUBSET Ids
RenameType == rename \in [state: {"NO", "SENT", "DONE", "LATE", "UNTOLD"},
                          of: {Nobody} \cup Ids, name: Names \cup {NoName}]
PlainType  == /\ stored \in {Nobody} \cup Ids
              /\ leaving \subseteq Ids /\ raced \in BOOLEAN /\ faults \in 0 .. MaxFaults

RestType == HomeType /\ PageType /\ PollType /\ RenameType /\ PlainType

LEMMA TypeParts == TypeOK <=> SrvType /\ ChanType /\ RestType
BY DEF TypeOK, SrvType, ChanType, HomeType, PageType, RestType, PollType, RenameType, PlainType

LobbyInv == TypeOK /\ RoomHasOwner /\ StillMember

\* A message queued for the page keeps the type of the queue.
LEMMA SendType ==
  ASSUME ChanType, NEW m \in Message, Send(m)
  PROVE  /\ chan' \in Seq(Message) /\ Len(chan') <= MaxQueue
         /\ ~online => chan' = <<>>
BY LobbyAssumption DEF ChanType, Send

\* The queue of a page without a connection.
LEMMA EmptyQueue == <<>> \in Seq(Message) /\ Len(<<>>) <= MaxQueue
<1>1. Len(<<>>) = 0
  OBVIOUS
<1> QED
  BY <1>1, LobbyAssumption

\* The two messages about a player, and the one about a game.
LEMMA MessageTypes ==
  /\ \A i \in Ids : [type |-> "PLAYER_JOINED", id |-> i] \in Message
  /\ \A i \in Ids : [type |-> "PLAYER_LEFT", id |-> i] \in Message
  /\ \A n \in Names : [type |-> "NICKNAME_CHANGED", name |-> n] \in Message
  /\ [type |-> "GAME_STARTED"] \in Message
BY DEF Message

\* A room that players join keeps its types and has an owner among them.
LEMMA JoinsType ==
  ASSUME SrvType, RoomHasOwner, NEW new, NEW kept, NEW n \in Names \cup {NoName},
         Joins(new, kept, n)
  PROVE  /\ SrvType' /\ RoomHasOwner'
         /\ srv.status = "WAITING" /\ srv'.status = "WAITING"
         /\ srv'.players = srv.players \cup kept
<1>1. /\ new # {} /\ new \subseteq Ids /\ kept # {} /\ kept \subseteq new
      /\ new = (srv.joins + 1) .. (srv.joins + Cardinality(new))
      /\ srv.status = "WAITING"
  BY DEF Joins
<1>2. srv.joins \in 0 .. MaxJoins /\ MaxJoins \in Nat
  BY LobbyAssumption DEF SrvType
<1>3. IsFiniteSet(Ids)
  BY <1>2, FS_Interval DEF Ids
<1>4. Cardinality(new) \in Nat
  BY <1>1, <1>3, FS_Subset, FS_CardinalityType
<1>5. srv.joins + Cardinality(new) \in new
  BY <1>1, <1>2, <1>4
<1>6. srv.joins + Cardinality(new) \in 0 .. MaxJoins
  BY <1>1, <1>2, <1>4, <1>5 DEF Ids
<1>7. srv' = [srv EXCEPT
        !.joins   = srv.joins + Cardinality(new),
        !.players = srv.players \cup kept,
        !.name    = n,
        !.owners  = IF Present = {} THEN srv.owners \cup new ELSE srv.owners]
  BY DEF Joins
<1>8. SrvType'
  BY <1>1, <1>6, <1>7 DEF SrvType
<1>9. /\ srv'.status = "WAITING" /\ srv'.players = srv.players \cup kept
      /\ srv'.owners = IF Present = {} THEN srv.owners \cup new ELSE srv.owners
  BY <1>1, <1>7 DEF SrvType
<1>10. RoomHasOwner'
  BY <1>1, <1>9 DEF RoomHasOwner, Exists, Present
<1> QED
  BY <1>1, <1>8, <1>9, <1>10

\* A leaving keeps the types, takes nobody else out of a room that goes on, and
\* leaves an owner in it.
LEMMA LeavesType ==
  ASSUME SrvType, ChanType, RoomHasOwner, NEW i \in Ids, Leaves(i), Exists
  PROVE  /\ SrvType' /\ RoomHasOwner'
         /\ chan' \in Seq(Message) /\ Len(chan') <= MaxQueue
         /\ ~online => chan' = <<>>
         /\ Exists' => srv.players \ {i} \subseteq srv'.players
<1>1. CASE UNCHANGED srv /\ Send([type |-> "PLAYER_LEFT", id |-> i])
  <2>1. [type |-> "PLAYER_LEFT", id |-> i] \in Message
    BY MessageTypes
  <2> QED
    BY <1>1, <2>1, SendType DEF SrvType, RoomHasOwner, Present, Exists
<1>2. CASE srv' = [srv EXCEPT !.status = "GONE"] /\ UNCHANGED chan
  BY <1>2 DEF SrvType, ChanType, RoomHasOwner, Present, Exists
<1>3. CASE /\ i \notin srv.owners
           /\ srv' = [srv EXCEPT !.players = srv.players \ {i}]
           /\ Send([type |-> "PLAYER_LEFT", id |-> i])
  <2>1. [type |-> "PLAYER_LEFT", id |-> i] \in Message
    BY MessageTypes
  <2>2. SrvType'
    BY <1>3 DEF SrvType
  <2>3. /\ srv'.players = srv.players \ {i} /\ srv'.owners = srv.owners
        /\ srv'.status = srv.status
    BY <1>3 DEF SrvType
  <2>4. RoomHasOwner'
    BY <1>3, <2>3 DEF RoomHasOwner, Present, Exists
  <2> QED
    BY <1>3, <2>1, <2>2, <2>3, <2>4, SendType
<1> QED
  BY <1>1, <1>2, <1>3 DEF Leaves

LEMMA LobbyInit == Init => LobbyInv
<1> SUFFICES ASSUME Init PROVE TypeOK /\ RoomHasOwner /\ StillMember
  BY DEF LobbyInv
<1>1. SrvType
  <2>1. 0 \in 0 .. MaxJoins
    BY LobbyAssumption
  <2> QED
    BY <2>1 DEF Init, SrvType
<1>2. ChanType
  BY EmptyQueue DEF Init, ChanType
<1>3. HomeType
  BY DEF Init, HomeType, FreshHome, Offers
<1>4. PageType
  BY DEF Init, PageType, PageAt
<1>5. PollType /\ RenameType
  BY DEF Init, PollType, RenameType, NoRename
<1>8. 0 \in 0 .. MaxFaults
  BY LobbyAssumption
<1>9. PlainType
  BY <1>8 DEF Init, PlainType
<1>6. RoomHasOwner
  BY DEF Init, RoomHasOwner, Present
<1>7. StillMember
  BY DEF Init, StillMember, Inside, PageAt
<1> QED
  BY <1>1, <1>2, <1>3, <1>4, <1>5, <1>6, <1>7, <1>9, TypeParts DEF RestType

\* What a step leaves alone keeps its type.
LEMMA RestUnchanged ==
  ASSUME RestType
  PROVE  /\ UNCHANGED home => HomeType'
         /\ UNCHANGED page => PageType'
         /\ UNCHANGED polls => PollType'
         /\ UNCHANGED rename => RenameType'
         /\ UNCHANGED <<stored, leaving, raced, faults>> => PlainType'
<1>1. UNCHANGED home => HomeType'
  BY DEF RestType, HomeType
<1>2. UNCHANGED page => PageType'
  BY DEF RestType, PageType
<1>3. UNCHANGED polls => PollType'
  BY DEF RestType, PollType
<1>4. UNCHANGED rename => RenameType'
  BY DEF RestType, RenameType
<1>5. UNCHANGED <<stored, leaving, raced, faults>> => PlainType'
  BY DEF RestType, PlainType
<1> QED
  BY <1>1, <1>2, <1>3, <1>4, <1>5

\* A step that leaves the room, the pages' players and the history alone keeps
\* the two properties.
LEMMA Untouched ==
  ASSUME LobbyInv, UNCHANGED <<srv, raced>>,
         page'.at \in {"LOADING", "LOBBY"} => Inside /\ page'.self = page.self
  PROVE  RoomHasOwner' /\ StillMember'
BY DEF LobbyInv, RoomHasOwner, StillMember, Inside, Exists, Present

\* The steps of the server.
LEMMA ServerStep ==
  ASSUME LobbyInv,
         \/ OtherJoins \/ OtherLeaves \/ OtherDisconnects \/ PlayGame
         \/ LeavingIsLost \/ \E i \in Ids : LeaveRoom(i)
  PROVE  LobbyInv'
<1>0. SrvType /\ ChanType /\ RestType /\ RoomHasOwner /\ StillMember
  BY TypeParts DEF LobbyInv
<1> SUFFICES SrvType' /\ ChanType' /\ RestType' /\ RoomHasOwner' /\ StillMember'
  BY TypeParts DEF LobbyInv, TypeOK, SrvType, ChanType, RestType, HomeType, PageType,
                          PollType, RenameType, PlainType
<1>1. CASE OtherJoins
  <2>1. PICK i \in Ids : /\ Joins({i}, {i}, srv.name)
                         /\ Send([type |-> "PLAYER_JOINED", id |-> i])
    BY <1>1 DEF OtherJoins
  <2>2. srv.name \in Names \cup {NoName}
    BY <1>0 DEF SrvType
  <2>3. /\ SrvType' /\ RoomHasOwner' /\ srv.status = "WAITING"
        /\ srv'.players = srv.players \cup {i}
    BY <1>0, <2>1, <2>2, JoinsType
  <2>4. ChanType'
    BY <1>0, <1>1, <2>1, MessageTypes, SendType DEF OtherJoins, ChanType
  <2>5. RestType'
    BY <1>0, <1>1, RestUnchanged DEF OtherJoins, RestType
  <2>6. StillMember'
    BY <1>0, <1>1, <2>3 DEF OtherJoins, StillMember, Inside, Exists, Present
  <2> QED
    BY <2>3, <2>4, <2>5, <2>6
<1>2. CASE OtherLeaves
  <2>1. PICK i \in Present \ {page.self, stored} : Exists /\ Leaves(i)
    BY <1>2 DEF OtherLeaves
  <2>2. i \in Ids
    BY <1>0, <2>1 DEF SrvType, Present
  <2>3. /\ SrvType' /\ RoomHasOwner'
        /\ chan' \in Seq(Message) /\ Len(chan') <= MaxQueue
        /\ ~online => chan' = <<>>
        /\ Exists' => srv.players \ {i} \subseteq srv'.players
    BY <1>0, <2>1, <2>2, LeavesType
  <2>4. ChanType'
    BY <1>0, <1>2, <2>3 DEF OtherLeaves, ChanType
  <2>5. RestType'
    BY <1>0, <1>2, RestUnchanged DEF OtherLeaves, RestType
  <2>6. StillMember'
    BY <1>0, <1>2, <2>1, <2>3 DEF OtherLeaves, StillMember, Inside, Exists, Present
  <2> QED
    BY <2>3, <2>4, <2>5, <2>6
<1>3. CASE OtherDisconnects
  <2>1. PICK i \in Present \ {page.self} : Send([type |-> "PLAYER_LEFT", id |-> i])
    BY <1>3 DEF OtherDisconnects
  <2>2. i \in Ids
    BY <1>0, <2>1 DEF SrvType, Present
  <2>3. ChanType'
    BY <1>0, <1>3, <2>1, <2>2, MessageTypes, SendType DEF OtherDisconnects, ChanType
  <2>4. PlainType'
    BY <1>0, <1>3, LobbyAssumption DEF OtherDisconnects, RestType, PlainType
  <2>5. SrvType' /\ RoomHasOwner' /\ StillMember'
    BY <1>0, <1>3 DEF OtherDisconnects, SrvType, RoomHasOwner, StillMember, Inside, Exists, Present
  <2> QED
    BY <1>0, <1>3, <2>3, <2>4, <2>5, RestUnchanged DEF OtherDisconnects, RestType
<1>4. CASE PlayGame
  <2>1. SrvType' /\ srv'.players = srv.players /\ srv'.owners = srv.owners /\ Exists
    BY <1>0, <1>4 DEF PlayGame, SrvType, Exists
  <2>2. ChanType'
    BY <1>0, <1>4, MessageTypes, SendType DEF PlayGame, ChanType
  <2>3. RestType'
    BY <1>0, <1>4, RestUnchanged DEF PlayGame, RestType
  <2>4. RoomHasOwner' /\ StillMember'
    BY <1>0, <1>4, <2>1 DEF PlayGame, RoomHasOwner, StillMember, Inside, Exists, Present
  <2> QED
    BY <2>1, <2>2, <2>3, <2>4
<1>5. CASE LeavingIsLost
  <2>1. PlainType'
    BY <1>0, <1>5, LobbyAssumption DEF LeavingIsLost, RestType, PlainType
  <2>2. SrvType' /\ ChanType' /\ RoomHasOwner' /\ StillMember'
    BY <1>0, <1>5 DEF LeavingIsLost, SrvType, ChanType, RoomHasOwner, StillMember, Inside, Exists,
                      Present
  <2> QED
    BY <1>0, <1>5, <2>1, <2>2, RestUnchanged DEF LeavingIsLost, RestType
<1>6. ASSUME NEW i \in Ids, LeaveRoom(i)
      PROVE  SrvType' /\ ChanType' /\ RestType' /\ RoomHasOwner' /\ StillMember'
  <2>1. PlainType'
    BY <1>0, <1>6 DEF LeaveRoom, RestType, PlainType, Inside
  <2>2. RestType'
    BY <1>0, <1>6, <2>1, RestUnchanged DEF LeaveRoom, RestType
  <2>3. /\ SrvType' /\ RoomHasOwner' /\ ChanType'
        /\ Exists' => Exists /\ srv.players \ {i} \subseteq srv'.players
    <3>1. CASE Exists /\ i \in Present
      BY <1>0, <1>6, <3>1, LeavesType DEF LeaveRoom, ChanType
    <3>2. CASE ~(Exists /\ i \in Present)
      BY <1>0, <1>6, <3>2 DEF LeaveRoom, SrvType, ChanType, RoomHasOwner, Exists, Present
    <3> QED
      BY <3>1, <3>2
  <2>4. raced' = (raced \/ (Inside /\ page.self = i)) /\ UNCHANGED page
    BY <1>6 DEF LeaveRoom
  <2>5. StillMember'
    BY <1>0, <2>1, <2>3, <2>4 DEF StillMember, Inside, Present, RestType, PlainType
  <2> QED
    BY <2>2, <2>3, <2>5
<1> QED
  BY <1>1, <1>2, <1>3, <1>4, <1>5, <1>6

\* The steps of the list on the home page.
LEMMA HomeStep ==
  ASSUME LobbyInv,
         FetchRooms \/ ClickRefresh \/ SetRooms \/ FetchRoomsFails \/ ChangeVisibility
         \/ HandleJoinFromList \/ HandleJoinRoom
  PROVE  LobbyInv'
<1>0. SrvType /\ ChanType /\ RestType /\ RoomHasOwner /\ StillMember
  BY TypeParts DEF LobbyInv
<1> SUFFICES SrvType' /\ ChanType' /\ RestType' /\ RoomHasOwner' /\ StillMember'
  BY TypeParts DEF LobbyInv, TypeOK, SrvType, ChanType, RestType, HomeType, PageType,
                          PollType, RenameType, PlainType
<1>1. CASE FetchRooms
  <2>1. HomeType'
    BY <1>0, <1>1 DEF FetchRooms, RestType, HomeType, Offered, Offers
  <2> QED
    BY <1>0, <1>1, <2>1, RestUnchanged, Untouched DEF FetchRooms, RestType, SrvType, ChanType
<1>2. CASE ClickRefresh
  <2>1. HomeType'
    BY <1>0, <1>2 DEF ClickRefresh, RestType, HomeType, Offered, Offers
  <2> QED
    BY <1>0, <1>2, <2>1, RestUnchanged, Untouched DEF ClickRefresh, RestType, SrvType, ChanType
<1>3. CASE SetRooms
  <2>1. HomeType'
    BY <1>0, <1>3 DEF SetRooms, RestType, HomeType, Offered, Offers
  <2> QED
    BY <1>0, <1>3, <2>1, RestUnchanged, Untouched
       DEF SetRooms, RestType, SrvType, ChanType, Inside
<1>4. CASE FetchRoomsFails
  <2>1. HomeType'
    BY <1>0, <1>4 DEF FetchRoomsFails, RestType, HomeType, Offered, Offers
  <2>2. PlainType'
    <3>1. PlainType
      BY <1>0 DEF RestType
    <3>2. faults < MaxFaults /\ faults' = faults + 1 /\ UNCHANGED <<stored, leaving, raced>>
      BY <1>4 DEF FetchRoomsFails
    <3> QED
      BY <3>1, <3>2, LobbyAssumption DEF PlainType
  <2> QED
    BY <1>0, <1>4, <2>1, <2>2, RestUnchanged, Untouched
       DEF FetchRoomsFails, RestType, SrvType, ChanType, Inside
<1>5. CASE ChangeVisibility
  <2>1. HomeType'
    BY <1>0, <1>5 DEF ChangeVisibility, RestType, HomeType, Offered, Offers
  <2> QED
    BY <1>0, <1>5, <2>1, RestUnchanged, Untouched DEF ChangeVisibility, RestType, SrvType, ChanType
<1>6. CASE HandleJoinFromList \/ HandleJoinRoom
  <2>0. GoToRoom
    BY <1>6 DEF HandleJoinFromList, HandleJoinRoom
  <2>1. page'.at = "ENTERING" /\ PageType'
    BY <1>0, <2>0 DEF GoToRoom, PageAt, PageType
  <2>2. HomeType'
    BY <2>0 DEF GoToRoom, FreshHome, HomeType, Offers
  <2> QED
    BY <1>0, <2>0, <2>1, <2>2, RestUnchanged, Untouched DEF GoToRoom, RestType, SrvType, ChanType
<1> QED
  BY <1>1, <1>2, <1>3, <1>4, <1>5, <1>6

\* What is left of a page that is dropped.
LEMMA Dropped ==
  ASSUME RenameType, DropPage
  PROVE  /\ ChanType' /\ PollType' /\ RenameType'
         /\ chan' = <<>> /\ ~online' /\ rename'.state \in {"NO", "LATE"}
<1>1. ChanType' /\ PollType' /\ chan' = <<>> /\ ~online'
  BY EmptyQueue DEF DropPage, ChanType, PollType
<1>2. CASE rename.state \in {"SENT", "LATE"}
  BY <1>1, <1>2 DEF DropPage, RenameType
<1>3. CASE rename.state \notin {"SENT", "LATE"}
  BY <1>1, <1>3 DEF DropPage, NoRename, RenameType
<1> QED
  BY <1>2, <1>3

\* The steps that take the page into the room, and out of it.
LEMMA WayStep ==
  ASSUME LobbyInv,
         UseExistingPlayer \/ JoinRoom \/ EnterFails \/ LoadRoom \/ Reload \/ HandleBackToHome
  PROVE  LobbyInv'
<1>0. SrvType /\ ChanType /\ RestType /\ RoomHasOwner /\ StillMember
  BY TypeParts DEF LobbyInv
<1> SUFFICES SrvType' /\ ChanType' /\ RestType' /\ RoomHasOwner' /\ StillMember'
  BY TypeParts DEF LobbyInv, TypeOK, SrvType, ChanType, RestType, HomeType, PageType,
                          PollType, RenameType, PlainType
<1>1. CASE UseExistingPlayer
  <2>1. /\ PageType' /\ page'.self = stored
        /\ stored \in Present /\ raced' = FALSE
    BY <1>0, <1>1 DEF UseExistingPlayer, RestType, PageType, PlainType, SrvType
  <2>2. PlainType'
    BY <1>0, <1>1 DEF UseExistingPlayer, RestType, PlainType
  <2>3. StillMember' /\ RoomHasOwner'
    BY <1>0, <1>1, <2>1 DEF UseExistingPlayer, StillMember, RoomHasOwner, Present, Exists
  <2> QED
    BY <1>0, <1>1, <2>1, <2>2, <2>3, RestUnchanged DEF UseExistingPlayer, RestType, SrvType, ChanType
<1>2. CASE JoinRoom
  <2>1. PICK me \in Ids : \E new, kept \in SUBSET {me - 1, me, me + 1} :
          /\ Joins(new, kept, "ANONYMOUS")
          /\ page' = [page EXCEPT !.at = "LOADING", !.self = me, !.name = "ANONYMOUS"]
          /\ stored' = me
          /\ raced' = (me \notin kept)
    BY <1>2 DEF JoinRoom
  <2>2. PICK new, kept \in SUBSET {me - 1, me, me + 1} :
          /\ Joins(new, kept, "ANONYMOUS")
          /\ page' = [page EXCEPT !.at = "LOADING", !.self = me, !.name = "ANONYMOUS"]
          /\ stored' = me
          /\ raced' = (me \notin kept)
    BY <2>1
  <2>3. "ANONYMOUS" \in Names \cup {NoName}
    BY DEF Names
  <2>4. SrvType' /\ RoomHasOwner' /\ srv'.players = srv.players \cup kept
    BY <1>0, <2>2, <2>3, JoinsType
  <2>5. PageType' /\ page'.self = me
    BY <1>0, <2>2, <2>3 DEF RestType, PageType
  <2>6. PlainType'
    BY <1>0, <1>2, <2>2 DEF JoinRoom, RestType, PlainType
  <2>7. StillMember'
    BY <2>2, <2>4, <2>5 DEF StillMember, Present
  <2> QED
    BY <1>0, <1>2, <2>4, <2>5, <2>6, <2>7, RestUnchanged DEF JoinRoom, RestType, ChanType
<1>3. CASE EnterFails
  <2>1. PageType' /\ page'.at = "ERROR"
    BY <1>0, <1>3 DEF EnterFails, RestType, PageType
  <2> QED
    BY <1>0, <1>3, <2>1, RestUnchanged, Untouched DEF EnterFails, RestType, SrvType, ChanType
<1>4. CASE LoadRoom
  <2>1. PageType' /\ (page'.at \in {"LOADING", "LOBBY"} => Inside /\ page'.self = page.self)
    <3>1. PageType /\ Present \subseteq Ids
      BY <1>0 DEF RestType, SrvType, Present
    <3> QED
      <4>1. CASE srv.status = "WAITING"
        BY <1>4, <3>1, <4>1 DEF LoadRoom, PageType, Inside
      <4>2. CASE srv.status # "WAITING" /\ Exists
        BY <1>4, <4>2 DEF LoadRoom, PageAt, PageType
      <4>3. CASE srv.status # "WAITING" /\ ~Exists
        BY <1>4, <3>1, <4>3 DEF LoadRoom, PageType
      <4> QED
        BY <4>1, <4>2, <4>3
  <2>2. ChanType' /\ PollType' /\ RenameType'
    <3>1. CASE UNCHANGED <<chan, online, polls, rename>>
      BY <1>0, <3>1, RestUnchanged DEF ChanType
    <3>2. CASE DropPage
      BY <1>0, <3>2, Dropped DEF RestType
    <3> QED
      BY <1>4, <3>1, <3>2 DEF LoadRoom
  <2> QED
    BY <1>0, <1>4, <2>1, <2>2, RestUnchanged, Untouched DEF LoadRoom, RestType, SrvType
<1>5. CASE Reload
  <2>1. PageType' /\ page'.at = "ENTERING"
    BY <1>5 DEF Reload, PageAt, PageType
  <2>2. ChanType' /\ PollType' /\ RenameType'
    BY <1>0, <1>5, Dropped DEF Reload, RestType
  <2>3. PlainType'
    BY <1>0, <1>5, LobbyAssumption DEF Reload, RestType, PlainType
  <2> QED
    BY <1>0, <1>5, <2>1, <2>2, <2>3, RestUnchanged, Untouched DEF Reload, RestType, SrvType
<1>6. CASE HandleBackToHome
  <2>1. PageType' /\ page'.at = "HOME"
    BY <1>6 DEF HandleBackToHome, PageAt, PageType
  <2>2. ChanType' /\ PollType' /\ RenameType'
    BY <1>0, <1>6, Dropped DEF HandleBackToHome, RestType
  <2>3. PlainType'
    BY <1>0, <1>6 DEF HandleBackToHome, RestType, PlainType, PageType
  <2>4. HomeType'
    BY <1>6 DEF HandleBackToHome, FreshHome, HomeType, Offers
  <2> QED
    BY <1>0, <1>6, <2>1, <2>2, <2>3, <2>4, Untouched DEF HandleBackToHome, RestType, SrvType
<1> QED
  BY <1>1, <1>2, <1>3, <1>4, <1>5, <1>6

\* What a message does to the page keeps its type and its player.
LEMMA HandledType ==
  ASSUME PageType, NEW m \in Message, m.type # "GAME_STARTED"
  PROVE  /\ Handled(page, m) \in [at: {"HOME", "ENTERING", "LOADING", "LOBBY", "GAME", "ERROR"},
                                  self: {Nobody} \cup Ids, name: Names \cup {NoName},
                                  list: SUBSET Ids]
         /\ Handled(page, m).at = page.at /\ Handled(page, m).self = page.self
<1>1. CASE m.type = "PLAYER_JOINED"
  <2>1. m.id \in Ids /\ Handled(page, m) = [page EXCEPT !.list = page.list \cup {m.id}]
    BY <1>1 DEF Message, Handled
  <2> QED
    BY <2>1 DEF PageType
<1>2. CASE m.type = "PLAYER_LEFT"
  <2>1. Handled(page, m) = [page EXCEPT !.list = page.list \ {m.id}]
    BY <1>2 DEF Handled
  <2> QED
    BY <2>1 DEF PageType
<1>3. CASE m.type = "NICKNAME_CHANGED"
  <2>1. m.name \in Names /\ Handled(page, m) = [page EXCEPT !.name = m.name]
    BY <1>3 DEF Message, Handled
  <2> QED
    BY <2>1 DEF PageType
<1> QED
  BY <1>1, <1>2, <1>3 DEF Message

\* The rest of a queue that is not empty.
LEMMA TailType ==
  ASSUME ChanType, chan # <<>>
  PROVE  /\ Head(chan) \in Message
         /\ Tail(chan) \in Seq(Message) /\ Len(Tail(chan)) <= MaxQueue
         /\ online
BY LobbyAssumption DEF ChanType

\* The steps of the page in the room.
LEMMA PageStep ==
  ASSUME LobbyInv,
         \/ Connect \/ Disconnect \/ Poll \/ FetchRoom \/ Receive \/ LoseMessage
         \/ HandleSubmit \/ UpdateNickname \/ HandleNicknameUpdate \/ NicknameUpdateFails
  PROVE  LobbyInv'
<1>0. SrvType /\ ChanType /\ RestType /\ RoomHasOwner /\ StillMember
  BY TypeParts DEF LobbyInv
<1> SUFFICES SrvType' /\ ChanType' /\ RestType' /\ RoomHasOwner' /\ StillMember'
  BY TypeParts DEF LobbyInv, TypeOK, SrvType, ChanType, RestType, HomeType, PageType,
                          PollType, RenameType, PlainType
<1>p. HomeType /\ PageType /\ PollType /\ RenameType /\ PlainType
  BY <1>0 DEF RestType
<1>1. CASE Connect
  <2>1. ChanType'
    BY <1>0, <1>1 DEF Connect, ChanType
  <2> QED
    BY <1>0, <1>1, <2>1, RestUnchanged, Untouched DEF Connect, RestType, SrvType, Inside
<1>2. CASE Disconnect
  <2>1. ChanType'
    BY <1>2, EmptyQueue DEF Disconnect, ChanType
  <2>2. PlainType'
    BY <1>p, <1>2, LobbyAssumption DEF Disconnect, PlainType
  <2> QED
    BY <1>0, <1>2, <2>1, <2>2, RestUnchanged, Untouched DEF Disconnect, RestType, SrvType, Inside
<1>3. CASE Poll
  <2>1. PollType'
    BY <1>0, <1>3 DEF Poll, PollType, SrvType, Present
  <2> QED
    BY <1>0, <1>3, <2>1, RestUnchanged, Untouched DEF Poll, RestType, SrvType, ChanType, Inside
<1>4. CASE FetchRoom
  <2>1. polls \subseteq Ids
    BY <1>p, <1>4 DEF FetchRoom, PollType
  <2>2. PageType' /\ page'.at = page.at /\ page'.self = page.self
    BY <1>p, <1>4, <2>1 DEF FetchRoom, PageType
  <2>3. PollType'
    BY <1>4 DEF FetchRoom, PollType
  <2> QED
    BY <1>0, <1>4, <2>2, <2>3, RestUnchanged, Untouched
       DEF FetchRoom, RestType, SrvType, ChanType, Inside
<1>5. CASE Receive
  <2>1. /\ Head(chan) \in Message
        /\ Tail(chan) \in Seq(Message) /\ Len(Tail(chan)) <= MaxQueue
        /\ online
    BY <1>0, <1>5, TailType DEF Receive
  <2>2. CASE Head(chan).type = "GAME_STARTED"
    <3>1. PageType' /\ page'.at = "GAME"
      BY <1>5, <2>2 DEF Receive, PageAt, PageType
    <3>2. ChanType' /\ PollType' /\ RenameType'
      <4>1. DropPage
        BY <1>5, <2>2 DEF Receive
      <4> QED
        BY <1>p, <4>1, Dropped
    <3> QED
      BY <1>0, <1>5, <3>1, <3>2, RestUnchanged, Untouched DEF Receive, RestType, SrvType
  <2>3. CASE Head(chan).type # "GAME_STARTED"
    <3>1. /\ page' = Handled(page, Head(chan)) /\ chan' = Tail(chan)
          /\ UNCHANGED <<online, polls, rename>>
      BY <1>5, <2>3 DEF Receive
    <3>2. PageType' /\ page'.at = page.at /\ page'.self = page.self
      BY <1>p, <2>1, <2>3, <3>1, HandledType DEF PageType
    <3>3. ChanType'
      BY <2>1, <3>1 DEF ChanType
    <3> QED
      BY <1>0, <1>5, <3>1, <3>2, <3>3, RestUnchanged, Untouched DEF Receive, RestType, SrvType, Inside
  <2> QED
    BY <2>2, <2>3
<1>6. CASE LoseMessage
  <2>1. /\ Tail(chan) \in Seq(Message) /\ Len(Tail(chan)) <= MaxQueue
        /\ online
    BY <1>0, <1>6, TailType DEF LoseMessage
  <2>2. ChanType'
    BY <1>6, <2>1 DEF LoseMessage, ChanType
  <2>3. PlainType'
    BY <1>p, <1>6, LobbyAssumption DEF LoseMessage, PlainType
  <2> QED
    BY <1>0, <1>6, <2>2, <2>3, RestUnchanged, Untouched DEF LoseMessage, RestType, SrvType, Inside
<1>7. CASE HandleSubmit
  <2>1. RenameType'
    BY <1>p, <1>7 DEF HandleSubmit, PageType, RenameType
  <2> QED
    BY <1>0, <1>7, <2>1, RestUnchanged, Untouched DEF HandleSubmit, RestType, SrvType, ChanType, Inside
<1>8. CASE UpdateNickname
  <2>1. CASE /\ rename' = NoRename /\ UNCHANGED <<srv, chan>>
    <3>1. RenameType'
      BY <2>1 DEF NoRename, RenameType
    <3> QED
      BY <1>0, <1>8, <2>1, <3>1, RestUnchanged, Untouched
         DEF UpdateNickname, RestType, SrvType, ChanType, Inside
  <2>2. ASSUME NEW final \in {"CHOSEN", "CHOSEN (2)"},
               srv' = [srv EXCEPT !.name = final],
               Send([type |-> "NICKNAME_CHANGED", name |-> final]),
               rename' = Answer(final)
        PROVE  SrvType' /\ ChanType' /\ RestType' /\ RoomHasOwner' /\ StillMember'
    <3>1. final \in Names
      BY DEF Names
    <3>2. /\ SrvType' /\ srv'.players = srv.players /\ srv'.owners = srv.owners
          /\ srv'.status = srv.status
      BY <1>0, <2>2, <3>1 DEF SrvType
    <3>3. ChanType'
      BY <1>0, <1>8, <2>2, <3>1, MessageTypes, SendType DEF UpdateNickname, ChanType
    <3>4. RenameType'
      BY <1>p, <2>2, <3>1 DEF RenameType, Answer, NoRename
    <3>5. RoomHasOwner' /\ StillMember'
      BY <1>0, <1>8, <3>2 DEF UpdateNickname, RoomHasOwner, StillMember, Inside, Exists, Present
    <3> QED
      BY <1>0, <1>8, <3>2, <3>3, <3>4, <3>5, RestUnchanged DEF UpdateNickname, RestType
  <2> QED
    BY <1>8, <2>1, <2>2 DEF UpdateNickname
<1>9. CASE HandleNicknameUpdate
  <2>1. rename.name \in Names \cup {NoName}
    BY <1>p DEF RenameType
  <2>2. PageType' /\ page'.at = page.at /\ page'.self = page.self
    BY <1>p, <1>9, <2>1 DEF HandleNicknameUpdate, PageType
  <2>3. RenameType'
    BY <1>9 DEF HandleNicknameUpdate, NoRename, RenameType
  <2> QED
    BY <1>0, <1>9, <2>2, <2>3, RestUnchanged, Untouched
       DEF HandleNicknameUpdate, RestType, SrvType, ChanType, Inside
<1>10. CASE NicknameUpdateFails
  <2>1. RenameType'
    BY <1>10 DEF NicknameUpdateFails, NoRename, RenameType
  <2>2. PlainType'
    BY <1>p, <1>10, LobbyAssumption DEF NicknameUpdateFails, PlainType
  <2> QED
    BY <1>0, <1>10, <2>1, <2>2, RestUnchanged, Untouched
       DEF NicknameUpdateFails, RestType, SrvType, ChanType, Inside
<1> QED
  BY <1>1, <1>2, <1>3, <1>4, <1>5, <1>6, <1>7, <1>8, <1>9, <1>10

LEMMA LobbyStep == LobbyInv /\ [Next]_vars => LobbyInv'
<1> SUFFICES ASSUME LobbyInv, [Next]_vars PROVE LobbyInv'
  OBVIOUS
<1>1. CASE Next
  BY <1>1, ServerStep, HomeStep, WayStep, PageStep DEF Next
<1>2. CASE UNCHANGED vars
  <2>1. SrvType /\ ChanType /\ RestType
    BY TypeParts DEF LobbyInv
  <2>2. SrvType' /\ ChanType' /\ RoomHasOwner' /\ StillMember'
    BY <1>2, <2>1 DEF vars, LobbyInv, SrvType, ChanType, RoomHasOwner, StillMember, Inside, Exists,
                      Present
  <2>3. RestType'
    BY <1>2, <2>1, RestUnchanged DEF vars, RestType
  <2> QED
    BY <2>2, <2>3 DEF LobbyInv, TypeOK, SrvType, ChanType, RestType, HomeType, PageType, PollType,
                      RenameType, PlainType
<1> QED
  BY <1>1, <1>2

\* Lobby.tla: the room, the page and the messages between them keep their types.
THEOREM LobbyTypeCorrect == Spec => []TypeOK
<1>1. LobbyInv => TypeOK
  BY DEF LobbyInv
<1> QED
  BY <1>1, LobbyInit, LobbyStep, PTL DEF Spec

\* player_service.go, JoinRoom and LeaveRoom: for every size of the room and any
\* number of visitors, a room somebody is in keeps an owner.
THEOREM RoomHasOwnerHolds == Spec => []RoomHasOwner
<1>1. LobbyInv => RoomHasOwner
  BY DEF LobbyInv
<1> QED
  BY <1>1, LobbyInit, LobbyStep, PTL DEF Spec

\* RoomPage.tsx, initializeRoom: whatever player the browser has stored, the page
\* in a room shows one of its players; unless its own join was lost to another's,
\* or its own leaving, asked for before it came back, was handled after.
THEOREM StillMemberHolds == Spec => []StillMember
<1>1. LobbyInv => StillMember
  BY DEF LobbyInv
<1> QED
  BY <1>1, LobbyInit, LobbyStep, PTL DEF Spec

-----------------------------------------------------------------------------
(* The name of the page's player.                                          *)

\* A message of a queue says how the page's player is called; none does; the
\* last that does says n.
IsName(m) == m.type = "NICKNAME_CHANGED"
NoNews(q) == \A k \in DOMAIN q : ~IsName(q[k])
LastNews(q, n) ==
  \A k \in DOMAIN q :
    IsName(q[k]) /\ (\A j \in DOMAIN q : j > k => ~IsName(q[j])) => q[k].name = n

\* A change is asked for in the waiting room, of the page's player; elsewhere
\* none is under way but that of an earlier page, and a page that still loads has
\* not been told of it.  The answer to a change and the last message about one have
\* the name of the room; and when neither is under way the page has it.
NameInv ==
  /\ page.at # "LOBBY" => rename.state \in {"NO", "LATE", "UNTOLD"}
  /\ page.at = "LOADING" => rename.state = "UNTOLD" \/ NoNews(chan)
  /\ ~Inside => ~online /\ rename.state \in {"NO", "LATE"}
  /\ rename.state = "SENT" => rename.of = page.self
  /\ rename.state = "DONE" => rename.name = srv.name
  /\ LastNews(chan, srv.name)
  /\ /\ Inside /\ Exists /\ ~raced /\ faults = 0
     /\ rename.state \in {"NO", "LATE"} /\ NoNews(chan)
     => page.name = srv.name

OwnNameInv == LobbyInv /\ NameInv

LEMMA EmptyNews == NoNews(<<>>) /\ \A n : LastNews(<<>>, n)
BY DEF NoNews, LastNews

\* A message about something else changes nothing of this.
LEMMA SendOther ==
  ASSUME ChanType, NEW m \in Message, ~IsName(m), Send(m), NEW n
  PROVE  /\ NoNews(chan') <=> NoNews(chan)
         /\ LastNews(chan, n) => LastNews(chan', n)
<1>1. CASE ~online
  BY <1>1 DEF Send
<1>2. CASE online
  <2>1. chan \in Seq(Message) /\ chan' = Append(chan, m)
    BY <1>2 DEF ChanType, Send
  <2>2. /\ DOMAIN chan = 1 .. Len(chan) /\ DOMAIN chan' = 1 .. Len(chan) + 1
        /\ Len(chan) \in Nat /\ chan'[Len(chan) + 1] = m
        /\ \A k \in 1 .. Len(chan) : chan'[k] = chan[k]
    BY <2>1
  <2>3. NoNews(chan') <=> NoNews(chan)
    BY <2>2 DEF NoNews
  <2>4. LastNews(chan, n) => LastNews(chan', n)
    BY <2>2 DEF LastNews
  <2> QED
    BY <2>3, <2>4
<1> QED
  BY <1>1, <1>2

\* A message about the name is the last one.
LEMMA SendName ==
  ASSUME ChanType, NEW m \in Message, IsName(m), Send(m)
  PROVE  LastNews(chan', m.name)
<1>1. CASE ~online
  BY <1>1, EmptyNews DEF Send, ChanType
<1>2. CASE online
  <2>1. chan \in Seq(Message) /\ chan' = Append(chan, m)
    BY <1>2 DEF ChanType, Send
  <2>2. /\ DOMAIN chan' = 1 .. Len(chan) + 1
        /\ Len(chan) \in Nat /\ chan'[Len(chan) + 1] = m
    BY <2>1
  <2> QED
    BY <2>2 DEF LastNews
<1> QED
  BY <1>1, <1>2

\* What is left when the first message is taken: if it was the only one about
\* the name, it was the last.
LEMMA TailNews ==
  ASSUME ChanType, chan # <<>>, NEW n, LastNews(chan, n)
  PROVE  /\ LastNews(Tail(chan), n)
         /\ NoNews(chan) => NoNews(Tail(chan))
         /\ NoNews(Tail(chan)) => IF IsName(Head(chan)) THEN Head(chan).name = n ELSE NoNews(chan)
<1>1. /\ chan \in Seq(Message) /\ Len(chan) \in Nat \ {0} /\ DOMAIN chan = 1 .. Len(chan)
      /\ DOMAIN Tail(chan) = 1 .. Len(chan) - 1 /\ Head(chan) = chan[1]
  BY DEF ChanType
<1>2. \A k \in 1 .. Len(chan) - 1 : Tail(chan)[k] = chan[k + 1]
  BY <1>1
<1>3. LastNews(Tail(chan), n)
  <2> SUFFICES ASSUME NEW k \in 1 .. Len(chan) - 1, IsName(Tail(chan)[k]),
                      \A j \in 1 .. Len(chan) - 1 : j > k => ~IsName(Tail(chan)[j])
               PROVE  Tail(chan)[k].name = n
    BY <1>1 DEF LastNews
  <2>1. k + 1 \in DOMAIN chan /\ IsName(chan[k + 1]) /\ Tail(chan)[k] = chan[k + 1]
    BY <1>1, <1>2
  <2>2. ASSUME NEW j \in DOMAIN chan, j > k + 1 PROVE ~IsName(chan[j])
    <3>1. j - 1 \in 1 .. Len(chan) - 1 /\ j - 1 > k /\ chan[(j - 1) + 1] = Tail(chan)[j - 1]
      BY <1>1, <1>2, <2>2
    <3>2. (j - 1) + 1 = j
      BY <1>1
    <3> QED
      BY <3>1, <3>2
  <2> QED
    BY <2>1, <2>2 DEF LastNews
<1>4. NoNews(chan) => NoNews(Tail(chan))
  <2> SUFFICES ASSUME NoNews(chan), NEW k \in 1 .. Len(chan) - 1 PROVE ~IsName(Tail(chan)[k])
    BY <1>1 DEF NoNews
  <2> QED
    BY <1>1, <1>2 DEF NoNews
<1>5. ASSUME NoNews(Tail(chan)), NEW j \in DOMAIN chan, j > 1 PROVE ~IsName(chan[j])
  <2>1. j - 1 \in DOMAIN Tail(chan) /\ chan[(j - 1) + 1] = Tail(chan)[j - 1] /\ (j - 1) + 1 = j
    BY <1>1, <1>2, <1>5
  <2> QED
    BY <1>5, <2>1 DEF NoNews
<1>6. NoNews(Tail(chan)) => IF IsName(Head(chan)) THEN Head(chan).name = n ELSE NoNews(chan)
  <2> SUFFICES ASSUME NoNews(Tail(chan))
               PROVE  IF IsName(Head(chan)) THEN Head(chan).name = n ELSE NoNews(chan)
    OBVIOUS
  <2>1. 1 \in DOMAIN chan /\ \A j \in DOMAIN chan : j = 1 \/ j > 1
    BY <1>1
  <2> QED
    BY <1>1, <1>5, <2>1 DEF NoNews, LastNews
<1> QED
  BY <1>3, <1>4, <1>6

\* A room that is gone does not come back, and what went wrong with the page's
\* player is not mended while the page is in the room.
LEMMA GoneForGood ==
  ASSUME LobbyInv,
         \/ OtherJoins \/ OtherLeaves \/ OtherDisconnects \/ PlayGame
         \/ LeavingIsLost \/ \E i \in Ids : LeaveRoom(i)
         \/ FetchRooms \/ ClickRefresh \/ SetRooms \/ FetchRoomsFails \/ ChangeVisibility
         \/ HandleJoinFromList \/ HandleJoinRoom \/ EnterFails \/ LoadRoom
         \/ Connect \/ Disconnect \/ Poll \/ FetchRoom \/ Receive \/ LoseMessage
         \/ HandleSubmit \/ UpdateNickname \/ HandleNicknameUpdate \/ NicknameUpdateFails
  PROVE  (Exists' => Exists) /\ (~raced' => ~raced)
<1>0. SrvType /\ raced \in BOOLEAN
  BY TypeParts DEF LobbyInv, RestType, PlainType
<1>1. CASE OtherJoins \/ OtherLeaves \/ OtherDisconnects \/ PlayGame \/ LeavingIsLost
  <2>1. UNCHANGED raced
    BY <1>1 DEF OtherJoins, OtherLeaves, OtherDisconnects, PlayGame, LeavingIsLost
  <2>2. Exists \/ UNCHANGED srv
    BY <1>0, <1>1
       DEF OtherJoins, OtherLeaves, OtherDisconnects, PlayGame, LeavingIsLost, Joins, Exists
  <2> QED
    BY <2>1, <2>2 DEF Exists
<1>2. ASSUME NEW i \in Ids, LeaveRoom(i) PROVE (Exists' => Exists) /\ (~raced' => ~raced)
  BY <1>0, <1>2 DEF LeaveRoom, Exists, Inside
<1>3. CASE \/ FetchRooms \/ ClickRefresh \/ SetRooms \/ FetchRoomsFails \/ ChangeVisibility
           \/ HandleJoinFromList \/ HandleJoinRoom \/ EnterFails \/ LoadRoom
           \/ Connect \/ Disconnect \/ Poll \/ FetchRoom \/ Receive \/ LoseMessage
           \/ HandleSubmit \/ HandleNicknameUpdate \/ NicknameUpdateFails
  <2>1. UNCHANGED <<srv, raced>>
    BY <1>3 DEF FetchRooms, ClickRefresh, SetRooms, FetchRoomsFails, ChangeVisibility,
           HandleJoinFromList, HandleJoinRoom, GoToRoom, EnterFails, LoadRoom, Connect,
           Disconnect, Poll, FetchRoom, Receive, LoseMessage, HandleSubmit,
           HandleNicknameUpdate, NicknameUpdateFails
  <2> QED
    BY <2>1 DEF Exists
<1>4. CASE UpdateNickname
  BY <1>0, <1>4 DEF UpdateNickname, Exists
<1> QED
  BY <1>1, <1>2, <1>3, <1>4

\* A step that changes neither names nor the messages about them.
LEMMA NamesKept ==
  ASSUME NameInv, srv'.name = srv.name, Exists' => Exists, ~raced' => ~raced,
         UNCHANGED <<online, rename>>,
         page'.at = page.at, page'.name = page.name, page'.self = page.self,
         NoNews(chan') <=> NoNews(chan), LastNews(chan, srv.name) => LastNews(chan', srv.name),
         faults' = 0 => faults = 0
  PROVE  NameInv'
BY DEF NameInv, Inside

\* A step that leaves the page outside the room, without a connection.
LEMMA NamesOutside ==
  ASSUME page'.at \notin {"LOADING", "LOBBY"}, rename'.state \in {"NO", "LATE"},
         chan' = <<>>, ~online'
  PROVE  NameInv'
BY EmptyNews DEF NameInv, Inside

\* A page outside the room has no message on its way.
LEMMA OutsideIsQuiet ==
  ASSUME ChanType, NameInv, ~Inside
  PROVE  chan = <<>> /\ ~online /\ rename.state \in {"NO", "LATE"}
BY DEF ChanType, NameInv, Inside

LEMMA NameInit == Init => NameInv
BY EmptyNews DEF Init, NameInv, Inside, PageAt, NoRename

LEMMA ServerKeepsNames ==
  ASSUME LobbyInv, NameInv,
         \/ OtherJoins \/ OtherLeaves \/ OtherDisconnects \/ PlayGame
         \/ LeavingIsLost \/ \E i \in Ids : LeaveRoom(i)
  PROVE  NameInv'
<1>0. SrvType /\ ChanType /\ faults \in 0 .. MaxFaults /\ Present \subseteq Ids
  BY TypeParts DEF LobbyInv, RestType, PlainType, SrvType, Present
<1>m. /\ \A i \in Ids : LET m == [type |-> "PLAYER_JOINED", id |-> i] IN m \in Message /\ ~IsName(m)
      /\ \A i \in Ids : LET m == [type |-> "PLAYER_LEFT", id |-> i] IN m \in Message /\ ~IsName(m)
      /\ LET m == [type |-> "GAME_STARTED"] IN m \in Message /\ ~IsName(m)
  BY MessageTypes DEF IsName
<1>l. ASSUME NEW i \in Ids, Leaves(i)
      PROVE  /\ srv'.name = srv.name /\ (NoNews(chan') <=> NoNews(chan))
             /\ LastNews(chan, srv.name) => LastNews(chan', srv.name)
  <2>1. srv'.name = srv.name
    BY <1>0, <1>l DEF Leaves, SrvType
  <2>2. chan' = chan \/ Send([type |-> "PLAYER_LEFT", id |-> i])
    BY <1>l DEF Leaves
  <2> QED
    BY <1>0, <1>m, <2>1, <2>2, SendOther
<1>g. (Exists' => Exists) /\ (~raced' => ~raced)
  BY GoneForGood
<1>1. CASE OtherJoins
  <2>1. PICK i \in Ids : /\ Joins({i}, {i}, srv.name)
                         /\ Send([type |-> "PLAYER_JOINED", id |-> i])
    BY <1>1 DEF OtherJoins
  <2>2. srv'.name = srv.name
    BY <1>0, <2>1 DEF Joins, SrvType
  <2>3. UNCHANGED <<online, page, rename, faults>>
    BY <1>1 DEF OtherJoins
  <2> QED
    BY <1>g, <1>0, <1>m, <2>1, <2>2, <2>3, SendOther, NamesKept
<1>2. CASE OtherLeaves
  <2>1. PICK i \in Present : Leaves(i)
    BY <1>2 DEF OtherLeaves
  <2>2. UNCHANGED <<online, page, rename, faults>>
    BY <1>2 DEF OtherLeaves
  <2> QED
    BY <1>g, <1>0, <1>l, <2>1, <2>2, NamesKept
<1>3. CASE OtherDisconnects
  <2>1. PICK i \in Present : Send([type |-> "PLAYER_LEFT", id |-> i])
    BY <1>3 DEF OtherDisconnects
  <2>2. UNCHANGED <<srv, online, page, rename>> /\ faults' # 0
    BY <1>0, <1>3, LobbyAssumption DEF OtherDisconnects
  <2> QED
    BY <1>g, <1>0, <1>m, <2>1, <2>2, SendOther, NamesKept
<1>4. CASE PlayGame
  <2>1. UNCHANGED <<online, page, rename, faults>> /\ srv'.name = srv.name
    BY <1>0, <1>4 DEF PlayGame, SrvType
  <2>2. chan' = chan \/ Send([type |-> "GAME_STARTED"])
    BY <1>4 DEF PlayGame
  <2> QED
    BY <1>g, <1>0, <1>m, <2>1, <2>2, SendOther, NamesKept
<1>5. CASE LeavingIsLost
  <2>1. UNCHANGED <<srv, chan, online, page, rename>> /\ faults' # 0
    BY <1>0, <1>5, LobbyAssumption DEF LeavingIsLost
  <2> QED
    BY <1>g, <2>1, NamesKept
<1>6. ASSUME NEW i \in Ids, LeaveRoom(i) PROVE NameInv'
  <2>1. UNCHANGED <<srv, chan>> \/ Leaves(i)
    BY <1>6 DEF LeaveRoom
  <2>2. UNCHANGED <<online, page, rename, faults>>
    BY <1>6 DEF LeaveRoom
  <2> QED
    BY <1>g, <1>l, <2>1, <2>2, NamesKept
<1> QED
  BY <1>1, <1>2, <1>3, <1>4, <1>5, <1>6

LEMMA HomeKeepsNames ==
  ASSUME LobbyInv, NameInv,
         FetchRooms \/ ClickRefresh \/ SetRooms \/ FetchRoomsFails \/ ChangeVisibility
         \/ HandleJoinFromList \/ HandleJoinRoom
  PROVE  NameInv'
<1>0. ChanType /\ faults \in 0 .. MaxFaults
  BY TypeParts DEF LobbyInv, RestType, PlainType
<1>g. (Exists' => Exists) /\ (~raced' => ~raced)
  BY GoneForGood
<1>1. CASE FetchRooms \/ ClickRefresh \/ SetRooms \/ FetchRoomsFails \/ ChangeVisibility
  <2>1. UNCHANGED <<srv, chan, online, page, rename>>
    BY <1>1 DEF FetchRooms, ClickRefresh, SetRooms, FetchRoomsFails, ChangeVisibility
  <2>2. faults' = 0 => faults = 0
    <3>1. faults' = faults \/ faults' = faults + 1
      BY <1>1 DEF FetchRooms, ClickRefresh, SetRooms, FetchRoomsFails, ChangeVisibility
    <3> QED
      BY <1>0, <3>1, LobbyAssumption
  <2> QED
    BY <1>g, <2>1, <2>2, NamesKept
<1>2. CASE HandleJoinFromList \/ HandleJoinRoom
  <2>1. GoToRoom /\ ~Inside
    BY <1>2 DEF HandleJoinFromList, HandleJoinRoom, JoinOffered, Inside
  <2>2. page'.at = "ENTERING" /\ UNCHANGED <<chan, online, rename>>
    BY <2>1 DEF GoToRoom, PageAt
  <2> QED
    BY <1>0, <2>1, <2>2, OutsideIsQuiet, NamesOutside
<1> QED
  BY <1>1, <1>2

LEMMA WayKeepsNames ==
  ASSUME LobbyInv, NameInv,
         UseExistingPlayer \/ JoinRoom \/ EnterFails \/ LoadRoom \/ Reload \/ HandleBackToHome
  PROVE  NameInv'
<1>0. SrvType /\ ChanType /\ PageType /\ RenameType
  BY TypeParts DEF LobbyInv, RestType
<1>1. CASE UseExistingPlayer \/ JoinRoom
  <2>1. ~Inside /\ UNCHANGED <<chan, online, rename>>
    BY <1>1 DEF UseExistingPlayer, JoinRoom, Inside
  <2>2. page'.at = "LOADING" /\ page'.name = srv'.name
    <3>1. CASE UseExistingPlayer
      BY <1>0, <3>1 DEF UseExistingPlayer, PageType
    <3>2. CASE JoinRoom
      <4>1. PICK me \in Ids : \E new, kept \in SUBSET {me - 1, me, me + 1} :
              /\ Joins(new, kept, "ANONYMOUS")
              /\ page' = [page EXCEPT !.at = "LOADING", !.self = me, !.name = "ANONYMOUS"]
        BY <3>2 DEF JoinRoom
      <4>2. srv'.name = "ANONYMOUS"
        BY <1>0, <4>1 DEF Joins, SrvType
      <4> QED
        BY <1>0, <4>1, <4>2 DEF PageType
    <3> QED
      BY <1>1, <3>1, <3>2
  <2> QED
    BY <1>0, <2>1, <2>2, OutsideIsQuiet, EmptyNews DEF NameInv, Inside
<1>2. CASE EnterFails
  <2>1. ~Inside /\ page'.at = "ERROR" /\ UNCHANGED <<chan, online, rename>>
    BY <1>0, <1>2 DEF EnterFails, Inside, PageType
  <2> QED
    BY <1>0, <2>1, OutsideIsQuiet, NamesOutside
<1>3. CASE LoadRoom
  <2>1. CASE srv.status = "WAITING"
    <3>1. /\ page.at = "LOADING" /\ page'.at = "LOBBY" /\ page'.name = page.name
          /\ page'.self = page.self
          /\ UNCHANGED <<srv, chan, online, rename, raced, faults>>
      BY <1>0, <1>3, <2>1 DEF LoadRoom, PageType
    <3> QED
      BY <3>1 DEF NameInv, Inside, Exists
  <2>2. CASE srv.status # "WAITING"
    <3>1. DropPage /\ page'.at \in {"GAME", "ERROR"}
      BY <1>0, <1>3, <2>2 DEF LoadRoom, PageAt, PageType
    <3> QED
      BY <1>0, <3>1, Dropped, NamesOutside
  <2> QED
    BY <2>1, <2>2
<1>4. CASE Reload \/ HandleBackToHome
  <2>1. DropPage /\ page'.at \in {"ENTERING", "HOME"}
    BY <1>4 DEF Reload, HandleBackToHome, PageAt
  <2> QED
    BY <1>0, <2>1, Dropped, NamesOutside
<1> QED
  BY <1>1, <1>2, <1>3, <1>4

LEMMA PageKeepsNames ==
  ASSUME LobbyInv, NameInv,
         \/ Connect \/ Disconnect \/ Poll \/ FetchRoom \/ Receive \/ LoseMessage
         \/ HandleSubmit \/ UpdateNickname \/ HandleNicknameUpdate \/ NicknameUpdateFails
  PROVE  NameInv'
<1>0. SrvType /\ ChanType /\ PageType /\ RenameType /\ faults \in 0 .. MaxFaults
  BY TypeParts DEF LobbyInv, RestType, PlainType
<1>g. (Exists' => Exists) /\ (~raced' => ~raced)
  BY GoneForGood
<1>1. CASE Connect
  BY <1>1 DEF Connect, NameInv, Inside, Exists
<1>2. CASE Disconnect
  <2>1. UNCHANGED <<srv, page, rename>> /\ chan' = <<>> /\ online' = FALSE /\ faults' # 0
    BY <1>0, <1>2, LobbyAssumption DEF Disconnect
  <2> QED
    BY <2>1, EmptyNews DEF NameInv, Inside
<1>3. CASE Poll \/ FetchRoom
  <2>1. /\ UNCHANGED <<srv, chan, online, rename, faults>>
        /\ page'.at = page.at /\ page'.name = page.name /\ page'.self = page.self
    BY <1>0, <1>3 DEF Poll, FetchRoom, PageType
  <2> QED
    BY <1>g, <2>1, NamesKept
<1>4. CASE Receive
  <2>1. /\ chan # <<>> /\ page.at = "LOBBY" /\ Head(chan) \in Message
        /\ UNCHANGED <<srv, raced, faults>>
    BY <1>0, <1>4, TailType DEF Receive
  <2>2. CASE Head(chan).type = "GAME_STARTED"
    <3>1. DropPage /\ page'.at = "GAME"
      BY <1>4, <2>2 DEF Receive, PageAt
    <3> QED
      BY <1>0, <3>1, Dropped, NamesOutside
  <2>3. CASE Head(chan).type # "GAME_STARTED"
    <3>1. /\ page' = Handled(page, Head(chan)) /\ chan' = Tail(chan)
          /\ UNCHANGED <<online, rename>>
      BY <1>4, <2>3 DEF Receive
    <3>2. page'.at = "LOBBY" /\ page'.self = page.self
      BY <1>0, <2>1, <2>3, <3>1, HandledType
    <3>3. page'.name = IF IsName(Head(chan)) THEN Head(chan).name ELSE page.name
      <4>1. CASE Head(chan).type = "PLAYER_JOINED"
        BY <1>0, <3>1, <4>1 DEF Handled, IsName, PageType
      <4>2. CASE Head(chan).type = "PLAYER_LEFT"
        BY <1>0, <3>1, <4>2 DEF Handled, IsName, PageType
      <4>3. CASE Head(chan).type = "NICKNAME_CHANGED"
        BY <1>0, <3>1, <4>3 DEF Handled, IsName, PageType
      <4> QED
        BY <2>1, <2>3, <4>1, <4>2, <4>3 DEF Message
    <3>4. LastNews(chan, srv.name)
      BY DEF NameInv
    <3>5. /\ LastNews(Tail(chan), srv.name)
          /\ NoNews(Tail(chan)) =>
               IF IsName(Head(chan)) THEN Head(chan).name = srv.name ELSE NoNews(chan)
      BY <1>0, <2>1, <3>4, TailNews
    <3> QED
      BY <2>1, <3>1, <3>2, <3>3, <3>5 DEF NameInv, Inside, Exists
  <2> QED
    BY <2>2, <2>3
<1>5. CASE LoseMessage
  <2>1. /\ chan # <<>> /\ chan' = Tail(chan) /\ UNCHANGED <<srv, online, page, rename, raced>>
        /\ page.at = "LOADING" \/ faults' # 0
    BY <1>0, <1>5, LobbyAssumption DEF LoseMessage
  <2>2. faults' = 0 => faults = 0
    <3>1. faults' = faults \/ faults' = faults + 1
      BY <1>5 DEF LoseMessage
    <3> QED
      BY <1>0, <3>1, LobbyAssumption
  <2>3. LastNews(Tail(chan), srv.name) /\ (NoNews(chan) => NoNews(Tail(chan)))
    BY <1>0, <2>1, TailNews DEF NameInv
  <2> QED
    BY <2>1, <2>2, <2>3 DEF NameInv, Inside, Exists
<1>6. CASE HandleSubmit
  <2>1. /\ page.at = "LOBBY" /\ rename'.state = "SENT" /\ rename'.of = page.self
        /\ UNCHANGED <<srv, chan, online, page, faults>>
    BY <1>6 DEF HandleSubmit
  <2> QED
    BY <2>1 DEF NameInv, Inside
<1>7. CASE UpdateNickname
  <2>0. /\ rename.state \in {"SENT", "LATE"} /\ (rename.state = "SENT" => page.at = "LOBBY")
        /\ UNCHANGED <<online, page, raced, faults>>
    BY <1>7 DEF UpdateNickname, NameInv
  <2>1. CASE /\ ~(Exists /\ rename.of \in Present)
             /\ rename' = NoRename /\ UNCHANGED <<srv, chan>>
    <3>1. rename.state = "SENT" => ~(Inside /\ Exists /\ ~raced)
      BY <2>1 DEF LobbyInv, StillMember, NameInv
    <3>2. rename'.state = "NO"
      BY <2>1 DEF NoRename
    <3>3. page.at = "LOADING" => NoNews(chan)
      BY <2>0 DEF NameInv
    <3> QED
      BY <2>0, <2>1, <3>1, <3>2, <3>3 DEF NameInv, Inside, Exists
  <2>2. ASSUME NEW final \in {"CHOSEN", "CHOSEN (2)"},
               srv' = [srv EXCEPT !.name = final],
               Send([type |-> "NICKNAME_CHANGED", name |-> final]),
               rename' = Answer(final)
        PROVE  NameInv'
    <3>1. [type |-> "NICKNAME_CHANGED", name |-> final] \in Message
      BY MessageTypes DEF Names
    <3>2. LastNews(chan', final)
      BY <1>0, <2>2, <3>1, SendName DEF IsName
    <3>3. srv'.name = final
      BY <1>0, <2>2 DEF SrvType
    <3>4. CASE rename.state = "SENT"
      <4>1. rename'.state = "DONE" /\ rename'.name = final
        BY <1>0, <2>2, <3>4 DEF RenameType, Answer
      <4> QED
        BY <2>0, <3>2, <3>3, <3>4, <4>1 DEF NameInv, Inside
    <3>5. CASE rename.state = "LATE" /\ Inside
      <4>1. rename'.state = "UNTOLD"
        BY <1>0, <2>2, <3>5 DEF RenameType, Answer
      <4> QED
        BY <2>0, <3>2, <3>3, <3>5, <4>1 DEF NameInv, Inside
    <3>6. CASE rename.state = "LATE" /\ ~Inside
      <4>1. rename'.state = "NO"
        BY <2>2, <3>6 DEF Answer, NoRename
      <4> QED
        BY <2>0, <3>2, <3>3, <3>6, <4>1 DEF NameInv, Inside
    <3> QED
      BY <2>0, <3>4, <3>5, <3>6
  <2> QED
    BY <1>7, <2>1, <2>2 DEF UpdateNickname
<1>8. CASE HandleNicknameUpdate
  <2>1. /\ rename.state = "DONE" /\ rename'.state = "NO" /\ UNCHANGED <<srv, chan, online, faults>>
        /\ page'.at = page.at /\ page'.name = rename.name
    BY <1>0, <1>8 DEF HandleNicknameUpdate, NoRename, PageType
  <2> QED
    BY <2>1 DEF NameInv, Inside
<1>9. CASE NicknameUpdateFails
  <2>1. /\ rename.state = "DONE" /\ rename'.state = "NO" /\ UNCHANGED <<srv, chan, online, page>>
        /\ faults' # 0
    BY <1>0, <1>9, LobbyAssumption DEF NicknameUpdateFails, NoRename
  <2> QED
    BY <2>1 DEF NameInv, Inside
<1> QED
  BY <1>1, <1>2, <1>3, <1>4, <1>5, <1>6, <1>7, <1>8, <1>9

LEMMA OwnNameStep == OwnNameInv /\ [Next]_vars => OwnNameInv'
<1> SUFFICES ASSUME LobbyInv, NameInv, [Next]_vars PROVE NameInv'
  BY LobbyStep DEF OwnNameInv
<1>1. CASE Next
  BY <1>1, ServerKeepsNames, HomeKeepsNames, WayKeepsNames, PageKeepsNames DEF Next
<1>2. CASE UNCHANGED vars
  BY <1>2, NamesKept DEF vars, Exists
<1> QED
  BY <1>1, <1>2

\* RoomPage.tsx:747-754, 410-427: whichever of the answer to a change of nickname
\* and the message about it comes first, and however many messages are queued
\* behind, the page calls its player what the room does once both are through.
THEOREM OwnNameIsRightHolds == Spec => []OwnNameIsRight
<1>1. Init => OwnNameInv
  BY LobbyInit, NameInit DEF OwnNameInv
<1>2. OwnNameInv => OwnNameIsRight
  BY DEF OwnNameInv, NameInv, OwnNameIsRight, NoNews, IsName
<1> QED
  BY <1>1, <1>2, OwnNameStep, PTL DEF Spec

=============================================================================
