-------------------------- MODULE RoleConfigProofs --------------------------
(***************************************************************************)
(* Proofs about RoleConfig, whatever roles there are and whatever is       *)
(* clicked: a game has one President and one Bomber, each of its players   *)
(* has a role, and all variables keep their types.  The choice of the      *)
(* required roles is followed from the page to the request, from there to  *)
(* the room, and from the room to either way of dealing.  How many roles   *)
(* are dealt is the cardinality of a set of places, one for each player of *)
(* a role, which is taken apart role by role.                              *)
(***************************************************************************)
EXTENDS RoleConfig, FiniteSetTheorems, TLAPS

\* Each required role is chosen once.
Once(c) == \A r \in Required : c[r] = 1

PageType == page \in [at: {"LOADING", "READY", "NO ROLES", "LEFT"}, selected: Selections,
                      creating: BOOLEAN, asked: 0 .. MaxRooms]
RequestType == request \in [state: {"NONE", "SENT", "CREATED", "REFUSED"}, chosen: Selections]
RoomShape == /\ room = [status |-> room.status, chosen |-> room.chosen, max |-> room.max,
                        players |-> room.players, games |-> room.games]
             /\ room.status \in {"NONE", "WAITING", "IN_PROGRESS", "REVEALING", "GONE"}

\* The required roles, where they are chosen.
Carried == /\ page.at = "READY" => Once(page.selected)
           /\ request.state # "NONE" => Once(request.chosen)
           /\ room.status \notin {"NONE", "GONE"} => Once(room.chosen)

DealInv == PageType /\ RequestType /\ RoomShape /\ Carried /\ OnePresidentOneBomber

LEMMA RequiredRoles == Required \subseteq Roles /\ "BLUE_TEAM" \notin Required
BY RoleConfigAssumption DEF Required, Roles

\* Both ways of dealing give the required roles to one player each.
LEMMA ConfigDealsOnce ==
  ASSUME NEW c, NEW n, Once(c)
  PROVE  Once(ConfigDeal(c, n))
<1> SUFFICES ASSUME NEW r \in Required PROVE ConfigDeal(c, n)[r] = 1
  BY DEF Once
<1>1. r \in Roles /\ r \in Dealable /\ r # "BLUE_TEAM" /\ c[r] = 1
  BY RequiredRoles DEF Dealable, Once
<1>2. ConfigDeal(c, n)[r] = c[r] + 0
  BY <1>1 DEF ConfigDeal
<1> QED
  BY <1>1, <1>2

LEMMA HardcodedDealsOnce ==
  ASSUME NEW n
  PROVE  Once(HardcodedDeal(n))
<1> SUFFICES ASSUME NEW r \in Required PROVE HardcodedDeal(n)[r] = 1
  BY DEF Once
<1>1. r \in Dealable
  BY RequiredRoles DEF Dealable
<1> QED
  BY <1>1 DEF HardcodedDeal, Required

LEMMA DealInit == Init => DealInv
<1> SUFFICES ASSUME Init PROVE DealInv
  OBVIOUS
<1>1. Nothing \in Selections /\ 0 \in 0 .. MaxRooms
  BY RoleConfigAssumption DEF Nothing, Selections
<1> QED
  BY <1>1 DEF Init, NoRequest, NoRoom, DealInv, PageType, RequestType, RoomShape, Carried,
              OnePresidentOneBomber, Playing

\* The steps of the page.
LEMMA PageStep ==
  ASSUME DealInv,
         \/ LoadRoles \/ HandleCreateRoom \/ HandleAnswer \/ LoseAnswer \/ BackToHome
         \/ \E r \in Roles :
              ToggleRole(r) \/ \E count \in 0 .. MaxCount : UpdateRoleCount(r, count)
  PROVE  DealInv'
<1>0. PageType /\ RequestType /\ RoomShape /\ Carried /\ OnePresidentOneBomber
  BY DEF DealInv
<1>n. Nothing \in Selections /\ 0 \in 0 .. MaxCount /\ 1 \in 0 .. MaxCount
  BY RoleConfigAssumption DEF Nothing, Selections
<1>1. CASE LoadRoles
  <2>1. CASE page' = [page EXCEPT !.at = "READY",
                        !.selected = [r \in Roles |-> IF r \in Required THEN 1 ELSE 0]]
    <3>1. [r \in Roles |-> IF r \in Required THEN 1 ELSE 0] \in Selections
      BY <1>n DEF Selections
    <3>2. PageType' /\ page'.selected = [r \in Roles |-> IF r \in Required THEN 1 ELSE 0]
      BY <1>0, <2>1, <3>1 DEF PageType
    <3>3. Once(page'.selected)
      BY <3>2, RequiredRoles DEF Once
    <3> QED
      BY <1>0, <1>1, <3>2, <3>3
         DEF LoadRoles, DealInv, RequestType, RoomShape, Carried, OnePresidentOneBomber, Playing
  <2>2. CASE page' = [page EXCEPT !.at = "NO ROLES"]
    <3>1. PageType' /\ page'.at # "READY"
      BY <1>0, <2>2 DEF PageType
    <3> QED
      BY <1>0, <1>1, <3>1
         DEF LoadRoles, DealInv, RequestType, RoomShape, Carried, OnePresidentOneBomber, Playing
  <2> QED
    BY <1>1, <2>1, <2>2 DEF LoadRoles
<1>2. CASE HandleCreateRoom
  <2>1. page.at = "READY" /\ page.asked + 1 \in 0 .. MaxRooms
    <3>1. page.asked \in 0 .. MaxRooms
      BY <1>0 DEF PageType
    <3> QED
      BY <1>2, <3>1, RoleConfigAssumption DEF HandleCreateRoom, CreateOffered
  <2>2. PageType' /\ page'.at = "READY" /\ page'.selected = page.selected
    <3>1. page' = [page EXCEPT !.creating = TRUE, !.asked = page.asked + 1]
      BY <1>2 DEF HandleCreateRoom
    <3> QED
      BY <1>0, <2>1, <3>1 DEF PageType
  <2>3. RequestType' /\ request'.chosen = page.selected
    BY <1>0, <1>2 DEF HandleCreateRoom, PageType, RequestType
  <2> QED
    BY <1>0, <1>2, <2>1, <2>2, <2>3
       DEF HandleCreateRoom, DealInv, RoomShape, Carried, OnePresidentOneBomber, Playing
<1>3. CASE HandleAnswer
  <2>1. PageType' /\ (page'.at = "READY" => page.at = "READY" /\ page'.selected = page.selected)
    BY <1>0, <1>3, <1>n DEF HandleAnswer, PageType
  <2>2. RequestType' /\ request'.state = "NONE"
    BY <1>3, <1>n DEF HandleAnswer, NoRequest, RequestType
  <2> QED
    BY <1>0, <1>3, <2>1, <2>2
       DEF HandleAnswer, DealInv, RoomShape, Carried, OnePresidentOneBomber, Playing
<1>4. CASE LoseAnswer
  <2>1. PageType' /\ page'.at = page.at /\ page'.selected = page.selected
    BY <1>0, <1>4 DEF LoseAnswer, PageType
  <2>2. RequestType' /\ request'.state = "NONE"
    BY <1>4, <1>n DEF LoseAnswer, NoRequest, RequestType
  <2>3. RoomShape' /\ room'.status = "NONE"
    BY <1>4 DEF LoseAnswer, NoRoom, RoomShape
  <2> QED
    BY <1>0, <2>1, <2>2, <2>3 DEF DealInv, Carried, OnePresidentOneBomber, Playing
<1>5. ASSUME NEW r \in Roles \ Required, NEW k \in 0 .. MaxCount,
             page.at = "READY", page' = [page EXCEPT !.selected[r] = k],
             UNCHANGED <<request, room, joining, dealt>>
      PROVE  DealInv'
  <2>1. page.selected \in Selections
    BY <1>0 DEF PageType
  <2>2. page' = [page EXCEPT !.selected = [page.selected EXCEPT ![r] = k]]
    BY <1>0, <1>5 DEF PageType
  <2>3. [page.selected EXCEPT ![r] = k] \in Selections
    BY <1>5, <2>1 DEF Selections
  <2>4. PageType' /\ page'.selected = [page.selected EXCEPT ![r] = k]
    BY <1>0, <2>2, <2>3 DEF PageType
  <2>5. Once(page'.selected)
    BY <1>0, <1>5, <2>1, <2>4, RequiredRoles DEF Carried, Once, Selections
  <2> QED
    BY <1>0, <1>5, <2>4, <2>5
       DEF DealInv, RequestType, RoomShape, Carried, OnePresidentOneBomber, Playing
<1>6. ASSUME NEW r \in Roles, ToggleRole(r) PROVE DealInv'
  BY <1>5, <1>6, <1>n DEF ToggleRole, Clickable
<1>7. ASSUME NEW r \in Roles, NEW count \in 0 .. MaxCount, UpdateRoleCount(r, count) PROVE DealInv'
  BY <1>5, <1>7 DEF UpdateRoleCount, Counts, Clickable
<1>8. CASE BackToHome
  <2>1. PageType' /\ page'.at # "READY"
    BY <1>0, <1>8, <1>n DEF BackToHome, PageType
  <2> QED
    BY <1>0, <1>8, <2>1
       DEF BackToHome, DealInv, RequestType, RoomShape, Carried, OnePresidentOneBomber, Playing
<1> QED
  BY <1>1, <1>2, <1>3, <1>4, <1>6, <1>7, <1>8

\* The steps of the room.
LEMMA RoomStep ==
  ASSUME DealInv,
         CreateRoom \/ FindSeat \/ TakeSeat \/ LeaveRoom \/ StartGame \/ Reveal \/ ResetGame
  PROVE  DealInv'
<1>0. PageType /\ RequestType /\ RoomShape /\ Carried /\ OnePresidentOneBomber
  BY DEF DealInv
<1>1. CASE CreateRoom
  <2>1. RequestType' /\ request'.chosen = request.chosen /\ Once(request.chosen)
    BY <1>0, <1>1 DEF CreateRoom, RequestType, Carried
  <2>2. RoomShape' /\ (\/ UNCHANGED room
                       \/ room'.status = "WAITING" /\ room'.chosen = request.chosen)
    BY <1>0, <1>1 DEF CreateRoom, NoRoom, RoomShape
  <2> QED
    BY <1>0, <1>1, <2>1, <2>2 DEF CreateRoom, DealInv, PageType, Carried, OnePresidentOneBomber, Playing
<1>2. CASE FindSeat
  BY <1>0, <1>2 DEF FindSeat, DealInv, PageType, RequestType, RoomShape, Carried,
                    OnePresidentOneBomber, Playing
<1>3. CASE TakeSeat
  <2>1. RoomShape' /\ room'.status = room.status /\ room'.chosen = room.chosen
    BY <1>0, <1>3 DEF TakeSeat, RoomShape
  <2> QED
    BY <1>0, <1>3, <2>1 DEF TakeSeat, DealInv, PageType, RequestType, Carried,
                            OnePresidentOneBomber, Playing
<1>4. CASE LeaveRoom
  <2>1. RoomShape' /\ (\/ room'.status = "GONE"
                       \/ room'.status = room.status /\ room'.chosen = room.chosen)
    BY <1>0, <1>4 DEF LeaveRoom, NoRoom, RoomShape
  <2>2. room.status # "IN_PROGRESS"
    BY <1>4 DEF LeaveRoom
  <2> QED
    BY <1>0, <1>4, <2>1, <2>2 DEF LeaveRoom, DealInv, PageType, RequestType, Carried,
                                  OnePresidentOneBomber, Playing
<1>5. CASE StartGame
  <2>1. RoomShape' /\ room'.chosen = room.chosen /\ Once(room.chosen)
    BY <1>0, <1>5 DEF StartGame, RoomShape, Carried
  <2>2. Once(dealt')
    BY <1>5, <2>1, ConfigDealsOnce, HardcodedDealsOnce DEF StartGame
  <2> QED
    BY <1>0, <1>5, <2>1, <2>2 DEF StartGame, DealInv, PageType, RequestType, Carried, Once,
                                  OnePresidentOneBomber
<1>6. CASE Reveal
  <2>1. RoomShape' /\ room'.chosen = room.chosen /\ room'.status = "REVEALING"
    BY <1>0, <1>6 DEF Reveal, RoomShape
  <2> QED
    BY <1>0, <1>6, <2>1 DEF Reveal, DealInv, PageType, RequestType, Carried,
                            OnePresidentOneBomber, Playing
<1>7. CASE ResetGame
  <2>1. RoomShape' /\ room'.chosen = room.chosen /\ room'.status = "WAITING"
    BY <1>0, <1>7 DEF ResetGame, RoomShape
  <2> QED
    BY <1>0, <1>7, <2>1 DEF ResetGame, DealInv, PageType, RequestType, Carried,
                            OnePresidentOneBomber, Playing
<1> QED
  BY <1>1, <1>2, <1>3, <1>4, <1>5, <1>6, <1>7

LEMMA DealStep == DealInv /\ [Next]_vars => DealInv'
<1> SUFFICES ASSUME DealInv, [Next]_vars PROVE DealInv'
  OBVIOUS
<1>1. CASE Next
  BY <1>1, PageStep, RoomStep DEF Next
<1>2. CASE UNCHANGED vars
  BY <1>2 DEF vars, DealInv, PageType, RequestType, RoomShape, Carried, OnePresidentOneBomber,
              Playing
<1> QED
  BY <1>1, <1>2

\* RoleConfigPage.tsx and game_service.go: for every set of roles and every size
\* of the room, a game has one President and one Bomber.
THEOREM OnePresidentOneBomberHolds == Spec => []OnePresidentOneBomber
<1>1. DealInv => OnePresidentOneBomber
  BY DEF DealInv
<1> QED
  BY <1>1, DealInit, DealStep, PTL DEF Spec

-----------------------------------------------------------------------------
(* Counting the places of the roles.                                       *)

LEMMA PlacesAre ==
  ASSUME NEW f, NEW S
  PROVE  \A x : x \in Places(f, S) <=> \E r \in S : \E i \in 1 .. f[r] : x = <<r, i>>
BY DEF Places

LEMMA PlacesFinite ==
  ASSUME NEW S, IsFiniteSet(S), NEW N \in Nat, NEW f, \A r \in S : f[r] \in 0 .. N
  PROVE  IsFiniteSet(Places(f, S)) /\ Cardinality(Places(f, S)) \in Nat
<1>1. Places(f, S) \in SUBSET (S \X (1 .. N))
  <2> SUFFICES ASSUME NEW r \in S, NEW i \in 1 .. f[r] PROVE i \in 1 .. N
    BY PlacesAre
  <2> QED
    OBVIOUS
<1>2. IsFiniteSet(1 .. N)
  BY FS_Interval
<1>3. IsFiniteSet(S \X (1 .. N))
  BY <1>2, FS_Product
<1> QED
  BY <1>1, <1>3, FS_Subset, FS_CardinalityType

\* Disjoint sets of roles have disjoint places.
LEMMA PlacesSplit ==
  ASSUME NEW S, NEW T, S \cap T = {}, IsFiniteSet(S), IsFiniteSet(T),
         NEW N \in Nat, NEW f, \A r \in S \cup T : f[r] \in 0 .. N
  PROVE  Cardinality(Places(f, S \cup T)) =
           Cardinality(Places(f, S)) + Cardinality(Places(f, T))
<1> DEFINE A == Places(f, S)
           B == Places(f, T)
           C == Places(f, S \cup T)
<1>1. C = A \cup B
  BY DEF Places
<1>2. A \cap B = {}
  BY PlacesAre
<1>3. /\ IsFiniteSet(A) /\ IsFiniteSet(B)
      /\ Cardinality(A) \in Nat /\ Cardinality(B) \in Nat
  BY PlacesFinite
<1>4. Cardinality({}) = 0
  BY FS_EmptySet
<1> HIDE DEF A, B, C
<1>5. Cardinality(A \cup B) = Cardinality(A) + Cardinality(B) - Cardinality(A \cap B)
  BY <1>3, FS_Union
<1>6. Cardinality(C) = Cardinality(A \cup B) /\ Cardinality(A \cap B) = 0
  BY <1>1, <1>2, <1>4, Zenon
<1>7. Cardinality(C) = Cardinality(A) + Cardinality(B)
  BY <1>3, <1>5, <1>6
<1> QED
  BY <1>7 DEF A, B, C

LEMMA PlacesAdd ==
  ASSUME NEW S, NEW r, r \notin S, IsFiniteSet(S),
         NEW N \in Nat, NEW f, \A q \in S \cup {r} : f[q] \in 0 .. N
  PROVE  Cardinality(Places(f, S \cup {r})) = Cardinality(Places(f, S)) + f[r]
<1>1. IsFiniteSet({r}) /\ S \cap {r} = {}
  BY FS_Singleton
<1>2. Cardinality(Places(f, S \cup {r})) =
        Cardinality(Places(f, S)) + Cardinality(Places(f, {r}))
  BY <1>1, PlacesSplit
<1>3. Cardinality(Places(f, {r})) = f[r]
  <2> DEFINE k == f[r]
             row == 1 .. k
  <2>1. k \in Nat
    OBVIOUS
  <2>2. Places(f, {r}) = {r} \X row
    BY DEF Places
  <2>3. IsFiniteSet({r}) /\ Cardinality({r}) = 1
    BY FS_Singleton
  <2> HIDE DEF k
  <2>4. IsFiniteSet(row) /\ Cardinality(row) = k
    BY <2>1, FS_Interval
  <2> HIDE DEF row
  <2>5. Cardinality({r} \X row) = Cardinality({r}) * Cardinality(row)
    BY <2>3, <2>4, FS_Product
  <2>6. Cardinality({r} \X row) = k
    BY <2>1, <2>3, <2>4, <2>5
  <2>7. Cardinality(Places(f, {r})) = k
    BY <2>2, <2>6, Zenon
  <2> QED
    BY <2>7 DEF k
<1> QED
  BY <1>2, <1>3

\* No role has more places than all of them.
LEMMA PlacesOfOne ==
  ASSUME NEW S, IsFiniteSet(S), NEW N \in Nat, NEW f, \A r \in S : f[r] \in 0 .. N,
         NEW q \in S
  PROVE  f[q] <= Cardinality(Places(f, S))
<1> DEFINE R == S \ {q}
<1>1. IsFiniteSet(R) /\ q \notin R /\ R \cup {q} = S
  BY FS_Difference
<1> HIDE DEF R
<1>2. \A r \in R \cup {q} : f[r] \in 0 .. N
  BY <1>1
<1>3. Cardinality(Places(f, R \cup {q})) = Cardinality(Places(f, R)) + f[q]
  BY <1>1, <1>2, PlacesAdd
<1>4. Cardinality(Places(f, R)) \in Nat /\ f[q] \in Nat
  BY <1>1, <1>2, PlacesFinite
<1>5. Cardinality(Places(f, R \cup {q})) = Cardinality(Places(f, S))
  BY <1>1, Zenon
<1> QED
  BY <1>3, <1>4, <1>5

LEMMA FiniteRoles ==
  /\ IsFiniteSet(BlueRoles) /\ IsFiniteSet(RedRoles) /\ IsFiniteSet(GreyRoles)
  /\ IsFiniteSet(Roles) /\ IsFiniteSet(Hardcoded) /\ IsFiniteSet(Dealable)
<1>1. /\ IsFiniteSet(Roles) /\ BlueRoles \in SUBSET Roles /\ RedRoles \in SUBSET Roles
      /\ GreyRoles \in SUBSET Roles
  BY RoleConfigAssumption DEF Roles
<1>2. IsFiniteSet(BlueRoles) /\ IsFiniteSet(RedRoles) /\ IsFiniteSet(GreyRoles)
  BY <1>1, FS_Subset
<1>3. IsFiniteSet(Hardcoded)
  <2>1. Hardcoded = ((((({} \cup {"PRESIDENT"}) \cup {"BLUE_SPY"}) \cup {"BLUE_OPERATIVE"})
                     \cup {"BOMBER"}) \cup {"RED_SPY"}) \cup {"RED_OPERATIVE"}
    BY DEF Hardcoded
  <2> QED
    BY <2>1, FS_EmptySet, FS_AddElement
<1>4. IsFiniteSet(Dealable)
  BY <1>1, <1>3, FS_Union DEF Dealable
<1> QED
  BY <1>1, <1>2, <1>3, <1>4

\* The roles of the teams are all roles, and no more.
LEMMA TotalOfTeams ==
  ASSUME NEW c \in Selections
  PROVE  /\ Total(c) = TeamCount(c, BlueRoles) + TeamCount(c, RedRoles)
                         + TeamCount(c, GreyRoles)
         /\ TeamCount(c, BlueRoles) \in Nat /\ TeamCount(c, RedRoles) \in Nat
         /\ TeamCount(c, GreyRoles) \in Nat /\ Total(c) \in Nat
<1>1. /\ MaxCount \in Nat /\ BlueRoles \cap RedRoles = {}
      /\ GreyRoles \cap (BlueRoles \cup RedRoles) = {}
      /\ Roles = (BlueRoles \cup RedRoles) \cup GreyRoles
      /\ \A r \in Roles : c[r] \in 0 .. MaxCount
  BY RoleConfigAssumption DEF Roles, Selections
<1>2. IsFiniteSet(BlueRoles \cup RedRoles)
  BY FiniteRoles, FS_Union
<1>3. Cardinality(Places(c, BlueRoles \cup RedRoles)) =
        TeamCount(c, BlueRoles) + TeamCount(c, RedRoles)
  BY <1>1, FiniteRoles, PlacesSplit DEF TeamCount
<1>4. Total(c) = Cardinality(Places(c, BlueRoles \cup RedRoles)) + TeamCount(c, GreyRoles)
  BY <1>1, <1>2, FiniteRoles, PlacesSplit DEF Total, TeamCount
<1>5. /\ TeamCount(c, BlueRoles) \in Nat /\ TeamCount(c, RedRoles) \in Nat
      /\ TeamCount(c, GreyRoles) \in Nat
  BY <1>1, FiniteRoles, PlacesFinite DEF TeamCount
<1> QED
  BY <1>3, <1>4, <1>5

\* The chosen roles are dealt to as many players as there are, when they do not
\* take more: the last ones are the operatives of the blue team.
LEMMA ConfigDealsToAll ==
  ASSUME NEW c \in Selections, NEW n \in Nat, ~ConfigFails(c, n)
  PROVE  /\ Cardinality(Places(ConfigDeal(c, n), Dealable)) = n
         /\ ConfigDeal(c, n) \in [Dealable -> 0 .. n]
<1> DEFINE d == ConfigDeal(c, n)
           rest == n - Total(c)
           R == Roles \ {"BLUE_TEAM"}
           X == Dealable \ Roles
<1>1. /\ Total(c) \in Nat /\ rest \in Nat /\ MaxCount + rest \in Nat
      /\ (n - TeamCount(c, GreyRoles) - TeamCount(c, RedRoles)) - TeamCount(c, BlueRoles) = rest
  BY TotalOfTeams, RoleConfigAssumption DEF ConfigFails
<1>2. /\ R \cup {"BLUE_TEAM"} = Roles /\ Roles \cup X = Dealable
      /\ Roles \cap X = {} /\ "BLUE_TEAM" \notin R
      /\ MaxCount \in Nat /\ \A r \in Roles : c[r] \in 0 .. MaxCount
  BY RoleConfigAssumption DEF Roles, Selections, Dealable
<1>3. IsFiniteSet(R) /\ IsFiniteSet(X) /\ IsFiniteSet(Roles) /\ IsFiniteSet(Dealable)
  BY FiniteRoles, FS_Difference
<1>4. d = [r \in Dealable |-> (IF r \in Roles THEN c[r] ELSE 0)
                              + (IF r = "BLUE_TEAM" THEN rest ELSE 0)]
  BY <1>1 DEF ConfigDeal
<1> HIDE DEF d, rest
<1>5. /\ \A r \in R : d[r] = c[r]
      /\ d["BLUE_TEAM"] = c["BLUE_TEAM"] + rest
      /\ \A r \in X : d[r] = 0
  <2>1. \A r \in R : d[r] = c[r] + 0 /\ c[r] + 0 = c[r]
    BY <1>2, <1>4
  <2>2. d["BLUE_TEAM"] = c["BLUE_TEAM"] + rest
    BY <1>2, <1>4
  <2>3. \A r \in X : d[r] = 0 + 0
    BY <1>2, <1>4
  <2> QED
    BY <2>1, <2>2, <2>3
<1>6. \A r \in Dealable : d[r] \in 0 .. MaxCount + rest
  <2>1. \A r \in Dealable : r \in R \/ r = "BLUE_TEAM" \/ r \in X
    BY <1>2
  <2>2. \A r \in R : c[r] \in 0 .. MaxCount + rest
    BY <1>1, <1>2
  <2>3. c["BLUE_TEAM"] + rest \in 0 .. MaxCount + rest
    BY <1>1, <1>2
  <2> QED
    BY <1>1, <1>5, <2>1, <2>2, <2>3
<1> HIDE DEF R, X
<1>7. Cardinality(Places(d, R)) + c["BLUE_TEAM"] = Total(c)
  <2>1. Cardinality(Places(c, R \cup {"BLUE_TEAM"})) = Cardinality(Places(c, R)) + c["BLUE_TEAM"]
    BY <1>2, <1>3, PlacesAdd
  <2>2. Places(c, R) = Places(d, R)
    BY <1>5 DEF Places
  <2>3. /\ Cardinality(Places(c, R)) = Cardinality(Places(d, R))
        /\ Cardinality(Places(c, R \cup {"BLUE_TEAM"})) = Total(c)
    BY <1>2, <2>2, Zenon DEF Total
  <2> QED
    BY <2>1, <2>3
<1>8. Cardinality(Places(d, Roles)) = Cardinality(Places(d, R)) + d["BLUE_TEAM"]
  <2>1. \A r \in R \cup {"BLUE_TEAM"} : d[r] \in 0 .. MaxCount + rest
    BY <1>2, <1>6
  <2>2. Cardinality(Places(d, R \cup {"BLUE_TEAM"})) = Cardinality(Places(d, R)) + d["BLUE_TEAM"]
    BY <1>1, <1>2, <1>3, <2>1, PlacesAdd
  <2> QED
    BY <1>2, <2>2, Zenon
<1>9. Cardinality(Places(d, Dealable)) = Cardinality(Places(d, Roles))
  <2>1. \A x : x \notin Places(d, X)
    <3>1. \A r \in X : 1 .. d[r] = {}
      BY <1>5
    <3> QED
      BY <3>1, PlacesAre
  <2>2. Places(d, Roles \cup X) = Places(d, Roles)
    BY <2>1 DEF Places
  <2> QED
    BY <1>2, <2>2, Zenon
<1>10. Cardinality(Places(d, Dealable)) = n
  <2>1. Cardinality(Places(d, R)) \in Nat /\ c["BLUE_TEAM"] \in Nat
    <3>1. \A r \in R : d[r] \in 0 .. MaxCount + rest
      BY <1>2, <1>6
    <3> QED
      BY <1>1, <1>2, <1>3, <3>1, PlacesFinite
  <2> QED
    BY <1>1, <1>5, <1>7, <1>8, <1>9, <2>1 DEF rest
<1>11. \A r \in Dealable : d[r] \in 0 .. n
  <2>1. \A r \in Dealable : d[r] <= n
    BY <1>1, <1>3, <1>6, <1>10, PlacesOfOne
  <2> QED
    BY <1>1, <1>6, <2>1
<1>12. d \in [Dealable -> 0 .. n]
  BY <1>4, <1>11
<1> QED
  BY <1>10, <1>12 DEF d

\* AssignRoles deals its six roles to all players, of a room with two or more.
LEMMA HardcodedDealsToAll ==
  ASSUME NEW n \in Nat, n >= 2
  PROVE  /\ Cardinality(Places(HardcodedDeal(n), Dealable)) = n
         /\ HardcodedDeal(n) \in [Dealable -> 0 .. n]
<1> DEFINE blue == n \div 2
           red  == n - blue
           spies(team) == IF n >= ManyPlayers THEN IF team - 1 < 2 THEN team - 1 ELSE 2
                          ELSE IF team - 1 < 1 THEN team - 1 ELSE 1
           blues == spies(blue)
           reds == spies(red)
           d == HardcodedDeal(n)
           X == Dealable \ Hardcoded
<1>1. blue \in Nat /\ red \in Nat /\ blue >= 1 /\ red >= 1 /\ blue + red = n
  OBVIOUS
<1>2. blues \in 0 .. blue - 1 /\ reds \in 0 .. red - 1
  <2> HIDE DEF blue, red
  <2> QED
    BY <1>1
<1>3. d = [r \in Dealable |->
             CASE r \in Required       -> 1
               [] r = "BLUE_SPY"       -> blues
               [] r = "RED_SPY"        -> reds
               [] r = "BLUE_OPERATIVE" -> blue - 1 - blues
               [] r = "RED_OPERATIVE"  -> red - 1 - reds
               [] OTHER                -> 0]
  BY DEF HardcodedDeal
<1> HIDE DEF blue, red, spies, blues, reds, d
<1>4. /\ d["PRESIDENT"] = 1 /\ d["BOMBER"] = 1 /\ d["BLUE_SPY"] = blues /\ d["RED_SPY"] = reds
      /\ d["BLUE_OPERATIVE"] = blue - 1 - blues /\ d["RED_OPERATIVE"] = red - 1 - reds
      /\ \A r \in X : d[r] = 0
  BY <1>3 DEF Dealable, Hardcoded, Required
<1>5. \A r \in Dealable : d[r] \in 0 .. n
  <2>1. \A r \in Dealable : r \in Hardcoded \/ r \in X
    OBVIOUS
  <2>2. /\ 0 \in 0 .. n /\ 1 \in 0 .. n /\ blues \in 0 .. n /\ reds \in 0 .. n
        /\ blue - 1 - blues \in 0 .. n /\ red - 1 - reds \in 0 .. n
    BY <1>1, <1>2
  <2> HIDE DEF X
  <2> QED
    BY <1>4, <2>1, <2>2 DEF Hardcoded
<1> DEFINE S1 == {} \cup {"PRESIDENT"}
           S2 == S1 \cup {"BLUE_SPY"}
           S3 == S2 \cup {"BLUE_OPERATIVE"}
           S4 == S3 \cup {"BOMBER"}
           S5 == S4 \cup {"RED_SPY"}
           S6 == S5 \cup {"RED_OPERATIVE"}
<1>6. /\ IsFiniteSet({}) /\ IsFiniteSet(S1) /\ IsFiniteSet(S2) /\ IsFiniteSet(S3)
      /\ IsFiniteSet(S4) /\ IsFiniteSet(S5)
  BY FS_EmptySet, FS_AddElement
<1>7. /\ "PRESIDENT" \notin {} /\ "BLUE_SPY" \notin S1 /\ "BLUE_OPERATIVE" \notin S2
      /\ "BOMBER" \notin S3 /\ "RED_SPY" \notin S4 /\ "RED_OPERATIVE" \notin S5
  OBVIOUS
<1>8. S6 = Hardcoded /\ S6 \cup X = Dealable
  BY DEF Hardcoded, Dealable
<1>9. /\ \A r \in S1 : d[r] \in 0 .. n
      /\ \A r \in S2 : d[r] \in 0 .. n
      /\ \A r \in S3 : d[r] \in 0 .. n
      /\ \A r \in S4 : d[r] \in 0 .. n
      /\ \A r \in S5 : d[r] \in 0 .. n
      /\ \A r \in S6 : d[r] \in 0 .. n
  BY <1>5, <1>8
<1>10. Cardinality(Places(d, {})) = 0
  <2>1. Places(d, {}) = {}
    BY DEF Places
  <2> QED
    BY <2>1, FS_EmptySet, Zenon
<1>11. Cardinality(Places(d, S1)) = Cardinality(Places(d, {})) + d["PRESIDENT"]
  BY <1>6, <1>7, <1>9, PlacesAdd
<1> HIDE DEF S1
<1>12. Cardinality(Places(d, S2)) = Cardinality(Places(d, S1)) + d["BLUE_SPY"]
  BY <1>6, <1>7, <1>9, PlacesAdd
<1> HIDE DEF S2
<1>13. Cardinality(Places(d, S3)) = Cardinality(Places(d, S2)) + d["BLUE_OPERATIVE"]
  BY <1>6, <1>7, <1>9, PlacesAdd
<1> HIDE DEF S3
<1>14. Cardinality(Places(d, S4)) = Cardinality(Places(d, S3)) + d["BOMBER"]
  BY <1>6, <1>7, <1>9, PlacesAdd
<1> HIDE DEF S4
<1>15. Cardinality(Places(d, S5)) = Cardinality(Places(d, S4)) + d["RED_SPY"]
  BY <1>6, <1>7, <1>9, PlacesAdd
<1> HIDE DEF S5
<1>16. Cardinality(Places(d, S6)) = Cardinality(Places(d, S5)) + d["RED_OPERATIVE"]
  BY <1>6, <1>7, <1>9, PlacesAdd
<1> HIDE DEF S6
<1>17. Cardinality(Places(d, S6)) = n
  BY <1>1, <1>2, <1>4, <1>10, <1>11, <1>12, <1>13, <1>14, <1>15, <1>16
<1>18. Cardinality(Places(d, Dealable)) = Cardinality(Places(d, S6))
  <2>1. \A x : x \notin Places(d, X)
    <3>1. \A r \in X : 1 .. d[r] = {}
      BY <1>4
    <3> QED
      BY <3>1, PlacesAre
  <2> HIDE DEF X
  <2>2. Places(d, S6 \cup X) = Places(d, S6)
    BY <2>1 DEF Places
  <2> QED
    BY <1>8, <2>2, Zenon
<1>19. d \in [Dealable -> 0 .. n]
  BY <1>3, <1>5
<1> QED
  BY <1>17, <1>18, <1>19 DEF d

\* Either way of dealing, a game that starts has a role for each player.
LEMMA StartDealsToAll ==
  ASSUME room.chosen \in Selections, room.players \in Nat, StartGame
  PROVE  DealtTo' = room.players /\ dealt' \in [Dealable -> 0 .. room.players]
<1>1. room.players >= 2
  <2>1. MinPlayers >= 2
    BY RoleConfigAssumption
  <2>2. room.players >= MinPlayers /\ MinPlayers \in Nat
    BY RoleConfigAssumption DEF StartGame
  <2> QED
    BY <2>1, <2>2
<1>2. CASE ConfigFails(room.chosen, room.players)
  <2>1. dealt' = HardcodedDeal(room.players)
    BY <1>2 DEF StartGame
  <2> QED
    BY <1>1, <2>1, HardcodedDealsToAll DEF DealtTo
<1>3. CASE ~ConfigFails(room.chosen, room.players)
  <2>1. dealt' = ConfigDeal(room.chosen, room.players)
    BY <1>3 DEF StartGame
  <2> QED
    BY <1>3, <2>1, ConfigDealsToAll DEF DealtTo
<1> QED
  BY <1>2, <1>3

-----------------------------------------------------------------------------
(* Types.                                                                  *)

RoomType  == room \in [status: {"NONE", "WAITING", "IN_PROGRESS", "REVEALING", "GONE"},
                       chosen: Selections, max: 0 .. MaxPlayers,
                       players: 0 .. MostPlayers, games: 0 .. MaxGames]
DealtType == dealt \in [Dealable -> 0 .. MostPlayers]

\* One request is under way at a time, and the page waits for its answer.
Asked == /\ page.creating <=> request.state # "NONE"
         /\ page.creating => page.at = "READY"

\* As long as the visitor may still make a room there is none.
BeforeRoom == page.at \in {"LOADING", "READY"} /\ request.state # "CREATED" =>
                room = NoRoom /\ joining = 0

\* Joins that overlap may all have found the same last seat.
Seats == /\ joining \in 0 .. MaxJoins
         /\ room.status # "GONE" => room.players + joining <= room.max + MaxJoins - 1

TypeInv == DealInv /\ RoomType /\ DealtType /\ Asked /\ BeforeRoom /\ Seats

LEMMA NoRoomType ==
  /\ NoRoom \in [status: {"NONE"}, chosen: Selections, max: {0}, players: {0}, games: {0}]
  /\ 0 \in 0 .. MaxPlayers /\ 0 \in 0 .. MostPlayers /\ 0 \in 0 .. MaxGames
  /\ NoDeal \in [Dealable -> 0 .. MostPlayers]
  /\ MaxPlayers \in Nat /\ MaxGames \in Nat /\ MaxJoins \in Nat \ {0}
  /\ MostPlayers = MaxPlayers + MaxJoins - 1
<1>1. /\ MaxPlayers \in Nat /\ MaxGames \in Nat /\ MaxJoins \in Nat \ {0}
      /\ MostPlayers = MaxPlayers + MaxJoins - 1
      /\ 0 \in 0 .. MaxPlayers /\ 0 \in 0 .. MostPlayers /\ 0 \in 0 .. MaxGames
  BY RoleConfigAssumption DEF MostPlayers
<1>2. Nothing \in Selections
  BY RoleConfigAssumption DEF Nothing, Selections
<1> QED
  BY <1>1, <1>2 DEF NoRoom, NoDeal

LEMMA TypeInit == Init => TypeInv
<1> SUFFICES ASSUME Init PROVE TypeInv
  OBVIOUS
<1>1. RoomType
  BY NoRoomType DEF Init, RoomType
<1>2. DealtType
  BY NoRoomType DEF Init, DealtType
<1>3. Asked /\ BeforeRoom
  BY DEF Init, NoRequest, Asked, BeforeRoom
<1>4. Seats
  BY NoRoomType DEF Init, NoRoom, Seats
<1> QED
  BY <1>1, <1>2, <1>3, <1>4, DealInit DEF TypeInv

\* The steps of the page leave the room alone, or give it up.
LEMMA PageTypeStep ==
  ASSUME TypeInv,
         \/ LoadRoles \/ HandleCreateRoom \/ HandleAnswer \/ LoseAnswer \/ BackToHome
         \/ \E r \in Roles :
              ToggleRole(r) \/ \E count \in 0 .. MaxCount : UpdateRoleCount(r, count)
  PROVE  RoomType' /\ DealtType' /\ Asked' /\ BeforeRoom' /\ Seats'
<1>0. /\ RoomType /\ DealtType /\ Asked /\ BeforeRoom /\ Seats
      /\ PageType /\ RequestType
  BY DEF TypeInv, DealInv
<1>1. UNCHANGED <<room, joining, dealt>> => RoomType' /\ DealtType' /\ Seats'
  BY <1>0 DEF RoomType, DealtType, Seats
<1>2. CASE LoadRoles
  <2>1. /\ page.at = "LOADING" /\ page'.at # "LOADING" /\ page'.creating = page.creating
        /\ UNCHANGED <<request, room, joining, dealt>>
    BY <1>0, <1>2 DEF LoadRoles, PageType
  <2> QED
    BY <1>0, <1>1, <2>1 DEF Asked, BeforeRoom
<1>3. CASE HandleCreateRoom
  <2>1. /\ page.at = "READY" /\ page'.at = "READY" /\ page'.creating /\ ~page.creating
        /\ request'.state = "SENT" /\ UNCHANGED <<room, joining, dealt>>
    BY <1>0, <1>3 DEF HandleCreateRoom, CreateOffered, PageType
  <2> QED
    BY <1>0, <1>1, <2>1 DEF Asked, BeforeRoom
<1>4. CASE HandleAnswer
  <2>1. /\ ~page'.creating /\ request'.state = "NONE"
        /\ page'.at # "LEFT" => page'.at = page.at /\ request.state # "CREATED"
        /\ UNCHANGED <<room, joining, dealt>>
    BY <1>0, <1>4 DEF HandleAnswer, NoRequest, PageType
  <2> QED
    BY <1>0, <1>1, <2>1 DEF Asked, BeforeRoom
<1>5. CASE LoseAnswer
  <2>1. /\ ~page'.creating /\ page'.at = page.at /\ request'.state = "NONE"
        /\ room' = NoRoom /\ joining' = 0 /\ dealt' = NoDeal
    BY <1>0, <1>5 DEF LoseAnswer, NoRequest, PageType
  <2>2. RoomType' /\ DealtType' /\ Seats'
    BY <2>1, NoRoomType DEF RoomType, DealtType, Seats, NoRoom
  <2> QED
    BY <2>1, <2>2 DEF Asked, BeforeRoom
<1>6. CASE BackToHome
  <2>1. /\ ~page.creating /\ page'.creating = page.creating /\ page'.at = "LEFT"
        /\ UNCHANGED <<request, room, joining, dealt>>
    BY <1>0, <1>6 DEF BackToHome, PageType
  <2> QED
    BY <1>0, <1>1, <2>1 DEF Asked, BeforeRoom
<1>7. ASSUME NEW r \in Roles,
             ToggleRole(r) \/ \E count \in 0 .. MaxCount : UpdateRoleCount(r, count)
      PROVE  RoomType' /\ DealtType' /\ Asked' /\ BeforeRoom' /\ Seats'
  <2>1. /\ page'.creating = page.creating /\ page'.at = page.at
        /\ UNCHANGED <<request, room, joining, dealt>>
    BY <1>0, <1>7 DEF ToggleRole, UpdateRoleCount, PageType
  <2> QED
    BY <1>0, <1>1, <2>1 DEF Asked, BeforeRoom
<1> QED
  BY <1>2, <1>3, <1>4, <1>5, <1>6, <1>7

\* A room that was just made, with the roles c and n seats.
EmptyRoom(c, n) ==
  [status |-> "WAITING", chosen |-> c, max |-> n, players |-> 0, games |-> 0]

\* CreateRoom makes such a room, or none.
LEMMA CreateRoomMakes ==
  ASSUME CreateRoom
  PROVE  room' = room \/ room' = EmptyRoom(request.chosen, Total(request.chosen))
<1> DEFINE seats == Total(request.chosen)
<1>1. CASE UNCHANGED room
  BY <1>1
<1>2. CASE room' = [NoRoom EXCEPT !.status = "WAITING", !.chosen = request.chosen,
                                  !.max = seats]
  <2> HIDE DEF seats
  <2>1. room' = EmptyRoom(request.chosen, seats)
    BY <1>2 DEF NoRoom, EmptyRoom
  <2> QED
    BY <2>1 DEF seats
<1> QED
  BY <1>1, <1>2 DEF CreateRoom

\* The steps of the room.
LEMMA RoomTypeStep ==
  ASSUME TypeInv,
         CreateRoom \/ FindSeat \/ TakeSeat \/ LeaveRoom \/ StartGame \/ Reveal \/ ResetGame
  PROVE  RoomType' /\ DealtType' /\ Asked' /\ BeforeRoom' /\ Seats'
<1>0. /\ RoomType /\ DealtType /\ Asked /\ BeforeRoom /\ Seats /\ RequestType
      /\ NoRoom.status = "NONE"
  BY DEF TypeInv, DealInv, NoRoom
<1>1. /\ room.players \in 0 .. MostPlayers /\ room.max \in 0 .. MaxPlayers
      /\ room.games \in 0 .. MaxGames /\ room.chosen \in Selections /\ joining \in 0 .. MaxJoins
      /\ MaxPlayers \in Nat /\ MaxGames \in Nat /\ MaxJoins \in Nat \ {0}
      /\ MostPlayers = MaxPlayers + MaxJoins - 1
  BY <1>0, NoRoomType DEF RoomType, Seats
<1>2. UNCHANGED <<page, request>> => Asked'
  BY <1>0 DEF Asked
<1>3. UNCHANGED <<page, request>> /\ (room # NoRoom \/ joining # 0) => BeforeRoom'
  BY <1>0 DEF BeforeRoom
<1>4. CASE CreateRoom
  <2>1. /\ request.state = "SENT" /\ request'.state \in {"CREATED", "REFUSED"}
        /\ UNCHANGED <<page, joining, dealt>>
    BY <1>0, <1>4 DEF CreateRoom, RequestType
  <2>2. page.at = "READY" /\ room = NoRoom /\ joining = 0
    BY <1>0, <2>1 DEF Asked, BeforeRoom
  <2>3. Asked' /\ DealtType'
    BY <1>0, <2>1 DEF Asked, DealtType
  <2>4. CASE UNCHANGED room
    BY <1>0, <2>1, <2>2, <2>3, <2>4 DEF RoomType, BeforeRoom, Seats
  <2>5. CASE room' # room
    <3>1. /\ room' = EmptyRoom(request.chosen, Total(request.chosen))
          /\ Total(request.chosen) \in MinPlayers .. MaxPlayers
          /\ request'.state = "CREATED"
      BY <1>0, <1>4, <2>5, CreateRoomMakes DEF CreateRoom, RequestType
    <3>2. Total(request.chosen) \in 0 .. MaxPlayers /\ request.chosen \in Selections
      BY <1>0, <3>1, RoleConfigAssumption DEF RequestType
    <3>3. RoomType' /\ room'.players = 0 /\ room'.max \in Nat
      <4> DEFINE seats == Total(request.chosen)
      <4> HIDE DEF seats
      <4>1. room' = EmptyRoom(request.chosen, seats) /\ seats \in 0 .. MaxPlayers
        BY <3>1, <3>2 DEF seats
      <4> QED
        BY <1>1, <4>1, <3>2 DEF EmptyRoom, RoomType
    <3>4. Seats'
      BY <1>1, <2>1, <2>2, <3>3 DEF Seats
    <3> QED
      BY <2>3, <3>1, <3>3, <3>4 DEF BeforeRoom
  <2> QED
    BY <2>4, <2>5
<1>5. CASE FindSeat
  <2>1. /\ joining' = joining + 1 /\ joining < MaxJoins /\ room.players < room.max
        /\ room.status \in {"WAITING", "REVEALING"}
        /\ UNCHANGED <<page, request, room, dealt>>
    BY <1>5 DEF FindSeat
  <2>2. Seats'
    BY <1>1, <2>1 DEF Seats
  <2> QED
    BY <1>0, <1>2, <1>3, <2>1, <2>2 DEF RoomType, DealtType
<1>6. CASE TakeSeat
  <2>1. /\ room.status # "GONE" /\ joining > 0 /\ joining' \in Nat /\ joining' < joining
        /\ room' = [room EXCEPT !.players = room.players + 1]
        /\ UNCHANGED <<page, request, dealt>>
    BY <1>1, <1>6 DEF TakeSeat
  <2>2. room.players + joining <= room.max + MaxJoins - 1
    BY <1>0, <2>1 DEF Seats
  <2>3. room.players + 1 \in 0 .. MostPlayers
    BY <1>1, <2>1, <2>2
  <2>4. RoomType' /\ room'.players = room.players + 1 /\ room'.max = room.max
    BY <1>0, <2>1, <2>3 DEF RoomType
  <2>5. Seats'
    BY <1>1, <2>1, <2>2, <2>4 DEF Seats
  <2>6. BeforeRoom'
    BY <1>3, <2>1
  <2> QED
    BY <1>0, <1>2, <2>1, <2>4, <2>5, <2>6 DEF DealtType
<1>7. CASE LeaveRoom
  <2>1. /\ room.status \in {"WAITING", "REVEALING"} /\ room.players > 0
        /\ UNCHANGED <<page, request, joining>>
        /\ \/ room.players > 1 /\ room' = [room EXCEPT !.players = room.players - 1]
              /\ UNCHANGED dealt
           \/ room' = [NoRoom EXCEPT !.status = "GONE"] /\ dealt' = NoDeal
    BY <1>7 DEF LeaveRoom
  <2>2. Asked' /\ BeforeRoom'
    BY <1>0, <1>2, <1>3, <2>1
  <2>3. CASE room.players > 1 /\ room' = [room EXCEPT !.players = room.players - 1]
             /\ UNCHANGED dealt
    <3>1. room.players - 1 \in 0 .. MostPlayers
      BY <1>1, <2>3
    <3>2. /\ RoomType' /\ room'.players = room.players - 1 /\ room'.max = room.max
          /\ room'.status = room.status
      BY <1>0, <2>3, <3>1 DEF RoomType
    <3>3. Seats'
      BY <1>0, <1>1, <2>1, <3>2 DEF Seats
    <3> QED
      BY <1>0, <2>2, <2>3, <3>2, <3>3 DEF DealtType
  <2>4. CASE room' = [NoRoom EXCEPT !.status = "GONE"] /\ dealt' = NoDeal
    <3>1. RoomType' /\ DealtType' /\ room'.status = "GONE"
      BY <2>4, NoRoomType DEF RoomType, DealtType
    <3>2. Seats'
      BY <1>1, <2>1, <3>1 DEF Seats
    <3> QED
      BY <2>2, <3>1, <3>2
  <2> QED
    BY <2>1, <2>3, <2>4
<1>8. CASE StartGame \/ Reveal \/ ResetGame
  <2>1. /\ room.status \notin {"NONE", "GONE"} /\ UNCHANGED <<page, request, joining>>
    BY <1>8 DEF StartGame, Reveal, ResetGame
  <2>2. Asked' /\ BeforeRoom'
    BY <1>0, <1>2, <1>3, <2>1
  <2>3. /\ RoomType' /\ room'.players = room.players /\ room'.max = room.max
    <3>1. CASE StartGame
      <4>1. /\ room' = [room EXCEPT !.status = "IN_PROGRESS", !.games = room.games + 1]
            /\ room.games + 1 \in 0 .. MaxGames
        BY <1>1, <3>1 DEF StartGame
      <4> QED
        BY <1>0, <4>1 DEF RoomType
    <3>2. CASE Reveal \/ ResetGame
      BY <1>0, <3>2 DEF RoomType, Reveal, ResetGame
    <3> QED
      BY <1>8, <3>1, <3>2
  <2>4. Seats'
    BY <1>0, <2>1, <2>3 DEF Seats
  <2>5. DealtType'
    <3>1. CASE StartGame
      <4>1. dealt' \in [Dealable -> 0 .. room.players]
        BY <1>1, <3>1, StartDealsToAll
      <4>2. 0 .. room.players \subseteq 0 .. MostPlayers
        BY <1>1
      <4> QED
        BY <4>1, <4>2 DEF DealtType
    <3>2. CASE Reveal \/ ResetGame
      BY <1>0, <3>2, NoRoomType DEF DealtType, Reveal, ResetGame
    <3> QED
      BY <1>8, <3>1, <3>2
  <2> QED
    BY <2>2, <2>3, <2>4, <2>5
<1> QED
  BY <1>4, <1>5, <1>6, <1>7, <1>8

LEMMA TypeStep == TypeInv /\ [Next]_vars => TypeInv'
<1> SUFFICES ASSUME TypeInv, [Next]_vars PROVE TypeInv'
  OBVIOUS
<1>1. DealInv'
  BY DealStep DEF TypeInv
<1>2. CASE Next
  BY <1>1, <1>2, PageTypeStep, RoomTypeStep DEF Next, TypeInv
<1>3. CASE UNCHANGED vars
  BY <1>1, <1>3 DEF vars, TypeInv, RoomType, DealtType, Asked, BeforeRoom, Seats
<1> QED
  BY <1>2, <1>3

\* The page, its request, the room and the deal hold what they are made for: of
\* joins that overlap all but one may be too many for the room, and no more, and
\* no deal takes a role away from anybody.
THEOREM RoleConfigTypeCorrect == Spec => []TypeOK
<1>1. TypeInv => TypeOK
  BY DEF TypeInv, DealInv, PageType, RequestType, RoomType, DealtType, Seats, TypeOK
<1> QED
  BY <1>1, TypeInit, TypeStep, PTL DEF Spec

\* game_service.go:288-389: for every set of roles, choice and number of players,
\* and whichever way the roles are assigned, a game starts with as many roles dealt
\* as the room has players.
THEOREM EverybodyHasARoleHolds == Spec => EverybodyHasARole
<1>1. TypeInv /\ [Next]_vars => [~Playing /\ Playing' => DealtTo' = room.players]_vars
  <2> SUFFICES ASSUME TypeInv, Next, ~Playing, Playing' PROVE DealtTo' = room.players
    OBVIOUS
  <2>1. /\ room.chosen \in Selections /\ room.players \in Nat /\ RoomType
    BY NoRoomType DEF TypeInv, RoomType
  <2>2. StartGame
    <3>1. /\ room.status # "IN_PROGRESS" /\ room'.status = "IN_PROGRESS"
      BY DEF Playing
    <3>2. /\ ~LoadRoles /\ ~HandleCreateRoom /\ ~HandleAnswer /\ ~BackToHome
          /\ \A r \in Roles : ~ToggleRole(r) /\ \A k : ~UpdateRoleCount(r, k)
          /\ ~FindSeat
      BY <3>1 DEF LoadRoles, HandleCreateRoom, HandleAnswer, BackToHome, ToggleRole,
                  UpdateRoleCount, FindSeat
    <3>3. ~LoseAnswer /\ ~CreateRoom
      <4>1. LoseAnswer => room'.status = "NONE"
        BY DEF LoseAnswer, NoRoom
      <4>2. CreateRoom => room' = room \/ room'.status = "WAITING"
        BY CreateRoomMakes DEF EmptyRoom
      <4> QED
        BY <3>1, <4>1, <4>2
    <3>4. ~TakeSeat /\ ~LeaveRoom /\ ~Reveal /\ ~ResetGame
      BY <2>1, <3>1 DEF TakeSeat, LeaveRoom, Reveal, ResetGame, NoRoom, RoomType
    <3> QED
      BY <3>2, <3>3, <3>4 DEF Next
  <2> QED
    BY <2>1, <2>2, StartDealsToAll
<1> QED
  BY <1>1, TypeInit, TypeStep, PTL DEF Spec, EverybodyHasARole

=============================================================================
