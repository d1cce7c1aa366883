--------------------------- MODULE ExchangeProofs ---------------------------
(***************************************************************************)
(* Theorems about a round on the server (Exchange) and about the panel its *)
(* leaders conduct it with (HostagePanel), for every set of players and    *)
(* every bound.  The two have no variable in common: what one says of the  *)
(* other's part is in their comments.                                      *)
(***************************************************************************)
EXTENDS Exchange, HostagePanel, FiniteSetTheorems, TLAPS

\* The fresh room has the right types.
LEMMA TypeInit == Init => TypeOK
  BY DEF Init, TypeOK, NoLeaders, NoHostages, Rounds, LastRound, Colors

\* Every handler and goroutine step keeps the types.
LEMMA TypeStep == TypeOK /\ [Next]_vars => TypeOK'
<1> SUFFICES ASSUME TypeOK, [Next]_vars PROVE TypeOK'
  OBVIOUS
<1> USE DEF TypeOK, Rounds, LastRound
<1>1. CASE StartGameCheck
  BY <1>1 DEF StartGameCheck, gameVars, roundVars, swapVars
<1>2. CASE StartGame
  BY <1>2 DEF StartGame, AssignRooms, DropRound, OutdateGame, NoLeaders,
              NoHostages, Colors
<1>3. CASE ResetGame
  BY <1>3 DEF ResetGame, DropRound, OutdateGame, NoLeaders, NoHostages, callVars
<1>4. CASE \E n \in Rounds : StartRound(n)
  BY <1>4 DEF StartRound, NewRound, OutdateRound, NoHostages, After, gameVars
<1>5. CASE \E n \in Rounds : StartRoundFails(n)
  BY <1>5 DEF StartRoundFails, gameVars, roundVars, swapVars
<1>6. CASE \E n \in Rounds : RequestStartRound(n)
  BY <1>6 DEF RequestStartRound, NewRound, OutdateRound, NoHostages, gameVars
<1>7. CASE TimerExpires
  BY <1>7 DEF TimerExpires, gameVars, swapVars, callVars
<1>8. CASE \E p \in Players : LeaderReady(p)
  <2> PICK p \in Players : LeaderReady(p)
    BY <1>8
  <2>1. starts' \in [Rounds -> Nat] /\ reveals' \in Nat
    <3>1. CASE UNCHANGED <<starts, reveals>>
      BY <3>1
    <3>2. CASE \E k \in {1, 2} : AdvanceGame(k)
      BY <3>2 DEF AdvanceGame
    <3> QED
      BY <3>1, <3>2 DEF LeaderReady
  <2> QED
    BY <2>1 DEF LeaderReady, ReadyFor, Colors, gameVars, swapVars
<1>9. CASE TransitionToRevealing
  BY <1>9 DEF TransitionToRevealing, roundVars, swapVars
<1>10. CASE AssignLeaders
  BY <1>10 DEF AssignLeaders, In, gameVars, swapVars
<1>11. CASE AssignLeadersFails
  BY <1>11 DEF AssignLeadersFails, gameVars, roundVars, swapVars
<1>12. CASE PreserveLeaders
  BY <1>12 DEF PreserveLeaders, gameVars, swapVars
<1>13. CASE \E p, q \in Players : TransferLeadership(p, q)
  BY <1>13 DEF TransferLeadership, Colors, gameVars, swapVars, callVars
<1>14. CASE \E c \in Colors, p \in Players : SetLeader(c, p)
  BY <1>14 DEF SetLeader, gameVars, swapVars, callVars
<1>15. CASE \E p \in Players, chosen \in SUBSET Players : SelectHostages(p, chosen)
  BY <1>15 DEF SelectHostages, SpawnExchange, SideOf, Colors, gameVars, swapVars
<1>16. CASE BeginExchange
  BY <1>16 DEF BeginExchange, gameVars, roundVars
<1>17. CASE BeginExchangeFails
  BY <1>17 DEF BeginExchangeFails, gameVars, roundVars, swapVars
<1>18. CASE FinishExchange
  BY <1>18 DEF FinishExchange, MovedTo, NoHostages, Colors, callVars
<1>19. CASE UNCHANGED vars
  BY <1>19 DEF vars, gameVars, roundVars, swapVars, callVars
<1> QED
  BY <1>1, <1>2, <1>3, <1>4, <1>5, <1>6, <1>7, <1>8, <1>9, <1>10, <1>11, <1>12,
     <1>13, <1>14, <1>15, <1>16, <1>17, <1>18, <1>19 DEF Next

\* Type correctness: the fields of the room and the pending calls keep their
\* types in every behaviour of the handlers and goroutines.
THEOREM TypeCorrect == Spec => []TypeOK
  BY TypeInit, TypeStep, PTL DEF Spec
-----------------------------------------------------------------------------
(***************************************************************************)
(* The room and its session stand together, and a round is active only     *)
(* with leaders.  Both are inductive on top of the types.                  *)
(***************************************************************************)
RoomInv == TypeOK /\ NoGhostGame /\ ActiveRoundHasLeaders

\* RoomInv holds of the fresh room.
LEMMA RoomInit == Init => RoomInv
  BY TypeInit DEF Init, RoomInv, NoGhostGame, ActiveRoundHasLeaders

\* Leaders are only ever replaced by players while a round lasts.
LEMMA RoomStep == RoomInv /\ [Next]_vars => RoomInv'
<1> SUFFICES ASSUME RoomInv, [Next]_vars PROVE RoomInv'
  OBVIOUS
<1>0. TypeOK /\ TypeOK'
  BY TypeStep DEF RoomInv
<1> USE <1>0, PlayersAssumption DEF RoomInv, NoGhostGame, ActiveRoundHasLeaders, Leaders
<1>1. CASE StartGameCheck
  BY <1>1 DEF StartGameCheck, gameVars, roundVars
<1>2. CASE StartGame
  BY <1>2 DEF StartGame, AssignRooms, DropRound, Colors
<1>3. CASE ResetGame
  BY <1>3 DEF ResetGame, DropRound
<1>4. CASE \E n \in Rounds : StartRound(n)
  BY <1>4 DEF StartRound, NewRound, gameVars
<1>5. CASE \E n \in Rounds : StartRoundFails(n)
  BY <1>5 DEF StartRoundFails, gameVars, roundVars
<1>6. CASE \E n \in Rounds : RequestStartRound(n)
  BY <1>6 DEF RequestStartRound, NewRound, gameVars
<1>7. CASE TimerExpires
  BY <1>7 DEF TimerExpires, gameVars
<1>8. CASE \E p \in Players : LeaderReady(p)
  BY <1>8 DEF LeaderReady, gameVars
<1>9. CASE TransitionToRevealing
  BY <1>9 DEF TransitionToRevealing, roundVars
<1>10. CASE AssignLeaders
  BY <1>10 DEF AssignLeaders, In, gameVars, Colors, RED, BLUE
<1>11. CASE AssignLeadersFails
  BY <1>11 DEF AssignLeadersFails, gameVars, roundVars
<1>12. CASE PreserveLeaders
  BY <1>12 DEF PreserveLeaders, gameVars
<1>13. CASE \E p, q \in Players : TransferLeadership(p, q)
  BY <1>13 DEF TransferLeadership, TypeOK, Colors, gameVars
<1>14. CASE \E c \in Colors, p \in Players : SetLeader(c, p)
  BY <1>14 DEF SetLeader, TypeOK, Colors, gameVars
<1>15. CASE \E p \in Players, chosen \in SUBSET Players : SelectHostages(p, chosen)
  BY <1>15 DEF SelectHostages, gameVars
<1>16. CASE BeginExchange
  BY <1>16 DEF BeginExchange, gameVars, roundVars
<1>17. CASE BeginExchangeFails
  BY <1>17 DEF BeginExchangeFails, gameVars, roundVars
<1>18. CASE FinishExchange
  BY <1>18 DEF FinishExchange, MovedTo, Colors
<1>19. CASE UNCHANGED vars
  BY <1>19 DEF vars, gameVars, roundVars
<1> QED
  BY <1>1, <1>2, <1>3, <1>4, <1>5, <1>6, <1>7, <1>8, <1>9, <1>10, <1>11, <1>12,
     <1>13, <1>14, <1>15, <1>16, <1>17, <1>18, <1>19 DEF Next

\* RoomInv is an invariant.
LEMMA RoomCorrect == Spec => []RoomInv
  BY RoomInit, RoomStep, PTL DEF Spec

\* Calls and goroutines that outlive a game never bring a reset room back, and
\* during a game nobody is outside the two rooms.
THEOREM NoGhostGameHolds == Spec => []NoGhostGame
  BY RoomCorrect, PTL DEF RoomInv

\* A round that is announced ACTIVE has a leader in both offices.
THEOREM ActiveRoundHasLeadersHolds == Spec => []ActiveRoundHasLeaders
  BY RoomCorrect, PTL DEF RoomInv

-----------------------------------------------------------------------------
(***************************************************************************)
(* The exchange.  HostagesTogether alone is not inductive: the goroutine   *)
(* that holds es.mu works on what it captured, so the invariant also says  *)
(* what it captured, and that no hostage is named in a newer round while   *)
(* it holds the lock.                                                      *)
(***************************************************************************)
Whole(out) ==
  /\ AllHome(out) \/ AllMoved(out)
  /\ \A c \in Colors : out[c] # {}
  /\ Cardinality(out[RED]) = Cardinality(out[BLUE])

SwapInv ==
  /\ swap = "CURRENT" => moving = hostages
  /\ swap \in {"OLD_ROUND", "OLD_GAME"} => hostages = NoHostages
  /\ swap \in {"CURRENT", "OLD_ROUND"} => Whole(moving)

ExchangeInv == RoomInv /\ HostagesTogether /\ SwapInv

\* The exchange invariant holds of the fresh room.
LEMMA ExchangeInit == Init => ExchangeInv
  BY RoomInit DEF Init, ExchangeInv, HostagesTogether, SwapInv, AllHome,
                  NoHostages, Colors

\* Steps that touch neither rooms nor hostages nor the exchange under way.
LEMMA ExchangeFrame ==
  ASSUME ExchangeInv, RoomInv', UNCHANGED <<place, hostages, swap, moving>>
  PROVE  ExchangeInv'
  BY DEF ExchangeInv, HostagesTogether, SwapInv, Whole, AllHome, AllMoved, In, RED, BLUE

\* Replacing the round keeps the captured exchange whole and starts empty.
LEMMA NewRoundKeeps ==
  ASSUME ExchangeInv, RoomInv', UNCHANGED place, NEW n, NewRound(n)
  PROVE  ExchangeInv'
<1>1. HostagesTogether'
  BY DEF NewRound, HostagesTogether, AllHome, NoHostages
<1>2. SwapInv'
  BY DEF NewRound, OutdateRound, ExchangeInv, RoomInv, TypeOK, SwapInv, Whole,
         AllHome, AllMoved, In, RED, BLUE
<1> QED
  BY <1>1, <1>2 DEF ExchangeInv

\* Ending the session leaves only exchanges that no longer belong to it.
LEMMA DropRoundKeeps ==
  ASSUME ExchangeInv, RoomInv', DropRound
  PROVE  ExchangeInv'
<1>1. HostagesTogether'
  BY DEF DropRound, HostagesTogether, AllHome, NoHostages
<1>2. SwapInv'
  BY DEF DropRound, OutdateGame, ExchangeInv, RoomInv, TypeOK, SwapInv
<1> QED
  BY <1>1, <1>2 DEF ExchangeInv

\* A leader can only name players of the room he stands in, before the round's
\* exchange.
LEMMA SelectHostagesKeeps ==
  ASSUME ExchangeInv, RoomInv', NEW p \in Players, NEW chosen \in SUBSET Players,
         SelectHostages(p, chosen)
  PROVE  ExchangeInv'
<1>1. place[p] \in Colors /\ SideOf(p) = place[p]
  BY DEF SelectHostages, ExchangeInv, RoomInv, TypeOK, NoGhostGame, SideOf, Colors
<1>2. AllHome(hostages)
  BY <1>1 DEF ExchangeInv, HostagesTogether, SelectHostages, AllMoved
<1>3. chosen \subseteq In(place[p])
  BY DEF SelectHostages, ValidSelection, In
<1>4. AllHome(hostages)'
  BY <1>1, <1>2, <1>3 DEF SelectHostages, AllHome, In, ExchangeInv, RoomInv,
                          TypeOK, gameVars
<1>5. SwapInv'
  BY DEF SelectHostages, SwapInv, swapVars
<1> QED
  BY <1>4, <1>5 DEF ExchangeInv, HostagesTogether

\* ExecuteExchange moves a whole captured selection across, or leaves it there
\* when it had been moved before.
LEMMA FinishMoves ==
  ASSUME TypeOK, FinishExchange, Whole(moving)
  PROVE  \A c \in Colors : \A p \in moving[c] : p \in Players /\ place'[p] = Other(c)
  BY DEF TypeOK, FinishExchange, Whole, MovedTo, AllHome, AllMoved, In, Colors,
         Other, RED, BLUE

\* The writes of ExecuteExchange keep the exchange invariant.
LEMMA FinishExchangeKeeps ==
  ASSUME ExchangeInv, RoomInv', FinishExchange
  PROVE  ExchangeInv'
<1>1. SwapInv'
  BY DEF FinishExchange, SwapInv
<1>2. HostagesTogether'
  <2>1. CASE swap = "CURRENT"
    <3>1. moving = hostages /\ Whole(moving)
      BY <2>1 DEF ExchangeInv, SwapInv
    <3>2. AllMoved(hostages)'
      BY <3>1, FinishMoves DEF ExchangeInv, RoomInv, FinishExchange, AllMoved, In,
                               Whole
    <3> QED
      BY <3>2 DEF HostagesTogether
  <2>2. CASE swap # "CURRENT"
    BY <2>2 DEF FinishExchange, ExchangeInv, RoomInv, TypeOK, SwapInv,
                HostagesTogether, AllHome, NoHostages
  <2> QED
    BY <2>1, <2>2
<1> QED
  BY <1>1, <1>2 DEF ExchangeInv

\* Every step keeps the exchange invariant.
LEMMA ExchangeStep == ExchangeInv /\ [Next]_vars => ExchangeInv'
<1> SUFFICES ASSUME ExchangeInv, [Next]_vars PROVE ExchangeInv'
  OBVIOUS
<1>0. RoomInv'
  BY RoomStep DEF ExchangeInv
<1>1. CASE StartGame \/ ResetGame
  BY <1>0, <1>1, DropRoundKeeps DEF StartGame, ResetGame
<1>2. CASE \E n \in Rounds : StartRound(n) \/ RequestStartRound(n)
  BY <1>0, <1>2, NewRoundKeeps DEF StartRound, RequestStartRound, gameVars
<1>3. CASE \E p \in Players, chosen \in SUBSET Players : SelectHostages(p, chosen)
  BY <1>0, <1>3, SelectHostagesKeeps
<1>4. CASE BeginExchange
  BY <1>0, <1>4 DEF BeginExchange, ExchangeReady, ExchangeInv, SwapInv, Whole,
                    HostagesTogether, AllHome, AllMoved, In, gameVars, roundVars,
                    RED, BLUE
<1>5. CASE FinishExchange
  BY <1>0, <1>5, FinishExchangeKeeps
<1>6. CASE UNCHANGED <<place, hostages, swap, moving>>
  BY <1>0, <1>6, ExchangeFrame
<1>7. CASE StartGameCheck \/ TimerExpires \/ TransitionToRevealing
  BY <1>6, <1>7 DEF StartGameCheck, TimerExpires, TransitionToRevealing, gameVars,
                    roundVars, swapVars
<1>8. CASE (\E n \in Rounds : StartRoundFails(n)) \/ \E p \in Players : LeaderReady(p)
  BY <1>6, <1>8 DEF StartRoundFails, LeaderReady, gameVars, roundVars, swapVars
<1>9. CASE AssignLeaders \/ AssignLeadersFails \/ PreserveLeaders \/ BeginExchangeFails
  BY <1>6, <1>9 DEF AssignLeaders, AssignLeadersFails, PreserveLeaders,
                    BeginExchangeFails, gameVars, roundVars, swapVars
<1>10. CASE \/ \E p, q \in Players : TransferLeadership(p, q)
            \/ \E c \in Colors, p \in Players : SetLeader(c, p)
  BY <1>6, <1>10 DEF TransferLeadership, SetLeader, gameVars, swapVars
<1>11. CASE UNCHANGED vars
  BY <1>6, <1>11 DEF vars, gameVars, roundVars, swapVars
<1> QED
  BY <1>1, <1>2, <1>3, <1>4, <1>5, <1>7, <1>8, <1>9, <1>10, <1>11 DEF Next

\* The exchange invariant is an invariant.
LEMMA ExchangeCorrect == Spec => []ExchangeInv
  BY ExchangeInit, ExchangeStep, PTL DEF Spec

\* No exchange is ever half done: the hostages of the current round stand all
\* in the rooms they were chosen in or all in the other ones.
THEOREM HostagesTogetherHolds == Spec => []HostagesTogether
  BY ExchangeCorrect, PTL DEF ExchangeInv

-----------------------------------------------------------------------------
(***************************************************************************)
(* Room sizes.                                                             *)
(***************************************************************************)

\* Trading a part of a finite set for as many newcomers keeps its cardinality.
LEMMA TradeCardinality ==
  ASSUME NEW S, IsFiniteSet(S), NEW A \in SUBSET S, NEW B, IsFiniteSet(B),
         B \cap S = {}, Cardinality(A) = Cardinality(B)
  PROVE  Cardinality((S \ A) \cup B) = Cardinality(S)
<1>1. IsFiniteSet(S \ A) /\ Cardinality(S \ A) = Cardinality(S) - Cardinality(S \cap A)
  BY FS_Difference
<1>2. S \cap A = A /\ (S \ A) \cap B = {}
  OBVIOUS
<1>3. Cardinality((S \ A) \cup B)
        = Cardinality(S \ A) + Cardinality(B) - Cardinality((S \ A) \cap B)
  BY <1>1, FS_Union
<1>4. Cardinality(S) \in Nat /\ Cardinality(B) \in Nat /\ Cardinality({}) = 0
  BY FS_CardinalityType, FS_EmptySet
<1>5. Cardinality(S \cap A) = Cardinality(B) /\ Cardinality((S \ A) \cap B) = 0
  BY <1>2, <1>4
<1> QED
  BY <1>1, <1>3, <1>4, <1>5

\* An exchange that still belongs to the game trades equal numbers.
LEMMA FinishKeepsSizes ==
  ASSUME TypeOK, FinishExchange, Whole(moving), NEW c \in Colors
  PROVE  Cardinality(In(c)') = Cardinality(In(c))
<1> DEFINE d == Other(c)
<1>0. d \in Colors /\ Other(d) = c /\ c # d /\ Colors = {c, d}
  BY DEF Colors, Other, RED, BLUE
<1>1. \A e \in Colors : moving[e] \subseteq Players /\ IsFiniteSet(moving[e])
  BY PlayersAssumption, FS_Subset DEF TypeOK
<1>2. IsFiniteSet(In(c))
  <2>1. In(c) \in SUBSET Players
    BY DEF In
  <2> QED
    BY <2>1, PlayersAssumption, FS_Subset
<1>3. Cardinality(moving[c]) = Cardinality(moving[d])
  BY <1>0 DEF Whole, Colors
<1>4. \A p \in Players : p \notin moving[c] \cup moving[d] => place'[p] = place[p]
  BY <1>0 DEF FinishExchange, MovedTo, Colors
<1>5. /\ \A p \in moving[c] : place'[p] = d
      /\ \A p \in moving[d] : place'[p] = c
  BY <1>0, FinishMoves
<1>6. In(c)' = (In(c) \ moving[c]) \cup moving[d]
  BY <1>0, <1>1, <1>4, <1>5 DEF In
<1>7. CASE AllHome(moving)
  <2>1. moving[c] \in SUBSET In(c) /\ moving[d] \cap In(c) = {}
    BY <1>0, <1>7 DEF AllHome, In
  <2> QED
    BY <1>0, <1>1, <1>2, <1>3, <1>6, <2>1, TradeCardinality
<1>8. CASE AllMoved(moving)
  <2>1. moving[d] \subseteq In(c) /\ moving[c] \cap In(c) = {}
    BY <1>0, <1>8 DEF AllMoved, In
  <2>2. In(c)' = In(c)
    BY <1>6, <2>1
  <2> QED
    BY <2>2
<1> QED
  BY <1>7, <1>8 DEF Whole

\* In(c) depends on the rooms of the players alone.
LEMMA InFrame ==
  ASSUME UNCHANGED place, NEW c \in Colors
  PROVE  Cardinality(In(c)') = Cardinality(In(c))
  BY DEF In

SizesKept ==
  (roundNo # 0 /\ roundNo' # 0 /\ ~ForeignSwap)
    => \A c \in Colors : Cardinality(In(c)') = Cardinality(In(c))

\* One step keeps the sizes of the rooms.
LEMMA SizesStep == ExchangeInv /\ [Next]_vars => SizesKept
<1> SUFFICES ASSUME ExchangeInv, [Next]_vars PROVE SizesKept
  OBVIOUS
<1>1. CASE StartGame \/ ResetGame
  BY <1>1 DEF StartGame, ResetGame, DropRound, SizesKept
<1>2. CASE FinishExchange
  BY <1>2, FinishKeepsSizes DEF SizesKept, ForeignSwap, ExchangeInv, RoomInv,
                                TypeOK, SwapInv, FinishExchange
<1>3. CASE UNCHANGED place
  BY <1>3, InFrame DEF SizesKept
<1>4. CASE StartGameCheck \/ TimerExpires \/ TransitionToRevealing
  BY <1>3, <1>4 DEF StartGameCheck, TimerExpires, TransitionToRevealing, gameVars
<1>5. CASE \E n \in Rounds : StartRound(n) \/ StartRoundFails(n) \/ RequestStartRound(n)
  BY <1>3, <1>5 DEF StartRound, StartRoundFails, RequestStartRound, gameVars
<1>6. CASE \E p \in Players : LeaderReady(p)
  BY <1>3, <1>6 DEF LeaderReady, gameVars
<1>7. CASE AssignLeaders \/ AssignLeadersFails \/ PreserveLeaders
  BY <1>3, <1>7 DEF AssignLeaders, AssignLeadersFails, PreserveLeaders, gameVars
<1>8. CASE \/ \E p, q \in Players : TransferLeadership(p, q)
           \/ \E c \in Colors, p \in Players : SetLeader(c, p)
  BY <1>3, <1>8 DEF TransferLeadership, SetLeader, gameVars
<1>9. CASE \E p \in Players, chosen \in SUBSET Players : SelectHostages(p, chosen)
  BY <1>3, <1>9 DEF SelectHostages, gameVars
<1>10. CASE BeginExchange \/ BeginExchangeFails
  BY <1>3, <1>10 DEF BeginExchange, BeginExchangeFails, gameVars
<1>11. CASE UNCHANGED vars
  BY <1>3, <1>11 DEF vars, gameVars
<1> QED
  BY <1>1, <1>2, <1>4, <1>5, <1>6, <1>7, <1>8, <1>9, <1>10, <1>11 DEF Next

\* The exchange moves as many players one way as the other: while a game lasts
\* and no exchange of an earlier game is under way, the rooms keep their sizes.
THEOREM ExchangePreservesSizesHolds == Spec => ExchangePreservesSizes
<1>1. ExchangeInv /\ [Next]_vars => [SizesKept]_vars
  BY SizesStep
<1>2. Spec => [][SizesKept]_vars
  BY <1>1, ExchangeCorrect, PTL DEF Spec
<1> QED
  BY <1>2 DEF ExchangePreservesSizes, SizesKept

-----------------------------------------------------------------------------
(***************************************************************************)
(* Each of the two rooms is a ColouredRoom: what Voting takes for granted  *)
(* of the services around it is what they do.  An exchange that outlived   *)
(* its game no longer is Whole, but what it moves is still two selections  *)
(* of one size without a common player.                                    *)
(***************************************************************************)
Apart(out) ==
  /\ out[RED] \cap out[BLUE] = {}
  /\ Cardinality(out[RED]) = Cardinality(out[BLUE])
ApartInv == ExchangeInv /\ (swap # "NO" => Apart(moving))

\* What an exchange moves is fixed when it takes es.mu.
LEMMA ApartStep == ApartInv /\ [Next]_vars => ApartInv'
<1> SUFFICES ASSUME ApartInv, [Next]_vars PROVE ApartInv'
  OBVIOUS
<1>1. ExchangeInv'
  BY ExchangeStep DEF ApartInv
<1>2. CASE swap = "NO" /\ swap' # "NO"
  <2>1. swap' = "CURRENT"
    BY <1>2 DEF Next, vars, swapVars, roundVars, StartGameCheck, StartGame, ResetGame,
       StartRound, StartRoundFails, RequestStartRound, TimerExpires, LeaderReady,
       TransitionToRevealing, AssignLeaders, AssignLeadersFails, PreserveLeaders,
       TransferLeadership, SetLeader, SelectHostages, BeginExchange,
       BeginExchangeFails, FinishExchange, NewRound, DropRound, OutdateRound, OutdateGame
  <2>2. Whole(moving)'
    BY <1>1, <2>1 DEF ExchangeInv, SwapInv
  <2>3. Apart(moving)'
    BY <2>2 DEF Whole, Apart, AllHome, AllMoved, In, Colors, Other, RED, BLUE
  <2> QED
    BY <1>1, <2>3 DEF ApartInv
<1>3. CASE swap # "NO" /\ swap' # "NO"
  <2>1. UNCHANGED moving
    BY <1>3 DEF Next, vars, swapVars, roundVars, StartGameCheck, StartGame, ResetGame,
       StartRound, StartRoundFails, RequestStartRound, TimerExpires, LeaderReady,
       TransitionToRevealing, AssignLeaders, AssignLeadersFails, PreserveLeaders,
       TransferLeadership, SetLeader, SelectHostages, BeginExchange,
       BeginExchangeFails, FinishExchange, NewRound, DropRound, OutdateRound, OutdateGame
  <2> QED
    BY <1>1, <1>3, <2>1 DEF ApartInv, Apart
<1> QED
  BY <1>1, <1>2, <1>3 DEF ApartInv

\* AssignRooms leaves each room its size.
LEMMA AssignedSizes ==
  ASSUME TypeOK, NEW red \in SUBSET Players, AssignRooms(red), NEW c \in Colors
  PROVE  Cardinality(In(c)') = SizeOf(c)
<1>1. CASE c = RED
  <2>1. In(c)' = red
    BY <1>1 DEF AssignRooms, In, RED, BLUE
  <2> QED
    BY <1>1, <2>1 DEF AssignRooms, SizeOf
<1>2. CASE c = BLUE
  <2>1. In(c)' = Players \ red
    BY <1>2 DEF AssignRooms, In, RED, BLUE
  <2>2. Cardinality(Players \ red) = Cardinality(Players) - Cardinality(Players \cap red)
    BY PlayersAssumption, FS_Difference
  <2>3. Players \cap red = red
    OBVIOUS
  <2> QED
    BY <1>2, <2>1, <2>2, <2>3 DEF AssignRooms, SizeOf, RED, BLUE
<1> QED
  BY <1>1, <1>2 DEF Colors

\* The two modules count alike.
LEMMA SameCount == ASSUME NEW c, NEW S PROVE Room(c)!Cardinality(S) = Cardinality(S)
  BY DEF Cardinality, Room!Cardinality

\* Every step of the game is one of each room, or none.
LEMMA ColouredStep ==
  ASSUME ApartInv, [Next]_vars, NEW c \in Colors
  PROVE  [Room(c)!RoomNext]_(Room(c)!roomVars)
<1> DEFINE d == Other(c)
<1>0. /\ c \in {RED, BLUE} /\ d \in Colors /\ Other(d) = c /\ c # d /\ Colors = {c, d}
      /\ TypeOK /\ NoGhostGame
  BY DEF Colors, Other, RED, BLUE, ApartInv, ExchangeInv, RoomInv
<1>s. roundNo # 0 => session # "NIL"
  BY <1>0 DEF NoGhostGame
<1>1. CASE UNCHANGED <<place, leader, session, roundNo, rstatus>>
  BY <1>1 DEF Room!roomVars, In, Phase
<1>2. CASE StartGame
  <2>1. Cardinality(In(c)') = SizeOf(c) /\ In(c)' \subseteq Players
    BY <1>0, <1>2, AssignedSizes DEF StartGame, In
  <2>2. Phase' = "NONE" /\ leader'[c] = Nobody /\ leader'[d] = Nobody
    BY <1>0, <1>2 DEF StartGame, DropRound, NoLeaders, Phase
  <2>3. Room(c)!StartGame
    BY <2>1, <2>2, SameCount DEF Room!StartGame, Room!NoLeader
  <2> QED
    BY <2>3 DEF Room!RoomNext, Room!GameStep
<1>3. CASE ResetGame
  <2>1. In(c)' = {}
    BY <1>0, <1>3 DEF ResetGame, In, RED, BLUE, NONE
  <2>2. Phase # "LOBBY" /\ Phase' = "LOBBY"
    BY <1>0, <1>3 DEF ResetGame, NoGhostGame, Phase
  <2>3. leader'[c] = Nobody /\ leader'[d] = Nobody
    BY <1>0, <1>3 DEF ResetGame, DropRound, NoLeaders
  <2>4. Room(c)!ResetGame
    BY <2>1, <2>2, <2>3 DEF Room!ResetGame, Room!NoLeader
  <2> QED
    BY <2>4 DEF Room!RoomNext, Room!GameStep
<1>4. CASE \E n \in Rounds : StartRound(n) \/ RequestStartRound(n)
  <2>1. Phase # "LOBBY" /\ Phase' = "OPEN"
    BY <1>4 DEF StartRound, RequestStartRound, NewRound, gameVars, Phase, Rounds
  <2>2. UNCHANGED <<In(c), leader>>
    BY <1>4 DEF StartRound, RequestStartRound, NewRound, gameVars, In
  <2>3. Room(c)!StartRound
    BY <2>1, <2>2 DEF Room!StartRound
  <2> QED
    BY <2>3 DEF Room!RoomNext, Room!GameStep
<1>5. ASSUME roundNo # 0, UNCHANGED <<place, leader, session, roundNo>>
      PROVE  Room(c)!RoomNext
  <2>1. Phase \in {"OPEN", "SELECTING"} /\ Phase' \in {"OPEN", "SELECTING"}
    BY <1>s, <1>5 DEF Phase
  <2>2. Room(c)!PhaseChange
    BY <1>5, <2>1 DEF Room!PhaseChange, Room!InRound, In
  <2> QED
    BY <2>2 DEF Room!RoomNext, Room!GameStep
<1>6. CASE AssignLeaders
  <2>1. Phase \in {"OPEN", "SELECTING"} /\ Phase' = "OPEN"
    BY <1>s, <1>6 DEF AssignLeaders, gameVars, Phase
  <2>2. leader'[c] \in In(c) /\ leader'[d] \in In(d)
    BY <1>0, <1>6 DEF AssignLeaders, Colors, RED, BLUE
  <2>3. leader'[d] \in Players \ In(c)
    BY <1>0, <2>2 DEF In
  <2>4. UNCHANGED In(c)
    BY <1>6 DEF AssignLeaders, gameVars, In
  <2>5. Room(c)!AssignLeaders
    BY <2>1, <2>2, <2>3, <2>4 DEF Room!AssignLeaders, Room!InRound
  <2> QED
    BY <2>5 DEF Room!RoomNext, Room!GameStep
<1>7. CASE PreserveLeaders
  <2>1. UNCHANGED <<place, leader, session, roundNo>> /\ (roundNo = 0 => UNCHANGED rstatus)
    BY <1>7 DEF PreserveLeaders, gameVars
  <2> QED
    BY <1>1, <1>5, <2>1
<1>8. CASE \E p, q \in Players : TransferLeadership(p, q)
  <2> PICK p \in Players, q \in Players : TransferLeadership(p, q)
    BY <1>8
  <2>1. Phase = "OPEN" /\ Phase' = "OPEN" /\ UNCHANGED In(c)
    BY <1>s DEF TransferLeadership, gameVars, Phase, In
  <2>2. place[p] \in Colors /\ place[q] = place[p]
    BY <1>s, <1>0 DEF TransferLeadership, NoGhostGame
  <2>3. /\ p \in {leader[c], leader[d]} /\ q \notin {leader[c], leader[d]}
    BY <1>0 DEF TransferLeadership, Leaders, Colors
  <2>4. leader' = [leader EXCEPT ![place[p]] = q] /\ leader \in [Colors -> Players \cup {Nobody}]
    BY <1>0, <2>2 DEF TransferLeadership, TypeOK, Colors
  <2>5. (p \in In(c) <=> place[p] = c) /\ (q \in In(c) <=> place[p] = c)
    BY <2>2 DEF In
  <2>6. /\ leader'[c] = IF p \in In(c) THEN q ELSE leader[c]
        /\ leader'[d] = IF p \in In(c) THEN leader[d] ELSE q
    BY <1>0, <2>2, <2>4, <2>5
  <2>7. Room(c)!TransferLeadership(p, q)
    BY <2>1, <2>3, <2>5, <2>6 DEF Room!TransferLeadership, Room!Leaders
  <2> QED
    BY <2>7 DEF Room!RoomNext, Room!GameStep
<1>9. CASE \E e \in Colors, p \in Players : SetLeader(e, p)
  <2> PICK e \in Colors, p \in Players : SetLeader(e, p)
    BY <1>9
  <2>1. Phase \in {"OPEN", "SELECTING"} /\ UNCHANGED <<Phase, In(c)>>
    BY <1>s DEF SetLeader, gameVars, Phase, In
  <2>2. leader' = [leader EXCEPT ![e] = p] /\ leader \in [Colors -> Players \cup {Nobody}]
    BY <1>0 DEF SetLeader, TypeOK
  <2>3. CASE e = c
    <3>1. p \in In(c) /\ leader'[c] = p /\ leader'[d] = leader[d]
      BY <1>0, <2>2, <2>3 DEF SetLeader, In
    <3>2. Room(c)!SetLeader(p)
      BY <2>1, <3>1 DEF Room!SetLeader, Room!InRound
    <3> QED
      BY <3>2 DEF Room!RoomNext
  <2>4. CASE e = d
    <3>1. p \in Players \ In(c) /\ leader'[d] = p /\ leader'[c] = leader[c]
      BY <1>0, <2>2, <2>4 DEF SetLeader, In
    <3>2. Room(c)!SetOtherLeader(p)
      BY <2>1, <3>1 DEF Room!SetOtherLeader, Room!InRound
    <3> QED
      BY <3>2 DEF Room!RoomNext, Room!GameStep
  <2> QED
    BY <1>0, <2>3, <2>4
<1>10. CASE FinishExchange
  <2>1. /\ moving[c] \in SUBSET Players /\ moving[d] \in SUBSET Players
        /\ moving[c] \cap moving[d] = {}
        /\ Cardinality(moving[c]) = Cardinality(moving[d])
    <3>1. Apart(moving) /\ moving \in [Colors -> SUBSET Players]
      BY <1>0, <1>10 DEF FinishExchange, ApartInv, TypeOK
    <3>2. {c, d} = {RED, BLUE}
      BY <1>0 DEF Colors
    <3> QED
      BY <1>0, <3>1, <3>2 DEF Apart
  <2>2. \A p \in Players :
          place'[p] = IF p \in moving[c] THEN d ELSE IF p \in moving[d] THEN c ELSE place[p]
    BY <1>0, <1>10, <2>1 DEF FinishExchange, MovedTo, Other, RED, BLUE
  <2>3. In(c)' = (In(c) \ moving[c]) \cup moving[d]
    BY <1>0, <2>1, <2>2 DEF In
  <2>4. UNCHANGED leader /\ (Phase' = Phase \/ (Phase \in {"OPEN", "SELECTING"} /\ Phase' = "OPEN"))
    BY <1>10 DEF FinishExchange, Phase
  <2>5. Room(c)!ExchangePlayers
    BY <2>1, <2>3, <2>4, SameCount DEF Room!ExchangePlayers, Room!InRound
  <2> QED
    BY <2>1, <2>5 DEF Room!RoomNext, Room!GameStep
<1>11. CASE TimerExpires
  BY <1>5, <1>11 DEF TimerExpires, gameVars
<1>12. CASE \/ StartGameCheck \/ TransitionToRevealing \/ AssignLeadersFails
            \/ BeginExchange \/ BeginExchangeFails \/ UNCHANGED vars
  BY <1>1, <1>12 DEF StartGameCheck, TransitionToRevealing, AssignLeadersFails,
                     BeginExchange, BeginExchangeFails, vars, gameVars, roundVars
<1>13. CASE \/ \E n \in Rounds : StartRoundFails(n)
            \/ \E p \in Players : LeaderReady(p)
            \/ \E p \in Players, chosen \in SUBSET Players : SelectHostages(p, chosen)
  BY <1>1, <1>13 DEF StartRoundFails, LeaderReady, SelectHostages, gameVars, roundVars
<1> QED
  BY <1>2, <1>3, <1>4, <1>6, <1>7, <1>8, <1>9, <1>10, <1>11, <1>12, <1>13 DEF Next

\* Whatever handlers and goroutines of the game race, each coloured room is the
\* one Voting is written against.
THEOREM RoomsAreColouredHolds == Spec => RoomsAreColoured
<1>1. Init => ApartInv
  BY ExchangeInit DEF Init, ApartInv
<1>2. Init => \A c \in Colors : Room(c)!RoomInit
  BY DEF Init, Room!RoomInit, In, Phase, NoLeaders, Colors, Other, RED, BLUE, NONE
<1>3. ApartInv /\ [Next]_vars => \A c \in Colors : [Room(c)!RoomNext]_(Room(c)!roomVars)
  BY ColouredStep
<1>4. Spec => [][\A c \in Colors : [Room(c)!RoomNext]_(Room(c)!roomVars)]_vars
  BY <1>1, <1>3, ApartStep, PTL DEF Spec
<1> QED
  BY <1>2, <1>4, PTL DEF Spec, RoomsAreColoured

-----------------------------------------------------------------------------
(* HostagePanel: the types.                                                *)

\* The types and that the requests under way are finitely many.
PanelTypes == PanelTypeOK /\ IsFiniteSet(calls)

\* A copy of the round has the type of one.
LEMMA CopyOfType == ASSUME srv \in Round PROVE CopyOf(srv) \in Copy
BY DEF Round, Copy, CopyOf

\* No panel, and a new one.
LEMMA UnmountedIs ==
  /\ Unmounted \in Panel
  /\ Unmounted.mounted = FALSE /\ Unmounted.since = 0
  /\ Unmounted.selected = {} /\ Unmounted.isReady = FALSE
<1>1. 0 \in 0 .. MaxRounds
  BY HostagePanelAssumption
<1> QED
  BY <1>1 DEF Unmounted, Panel

LEMMA FreshIs ==
  ASSUME NEW copy \in Copy
  PROVE  /\ Fresh(copy) \in Panel
         /\ Fresh(copy).mounted = TRUE /\ Fresh(copy).since = copy.round
         /\ Fresh(copy).selected = {} /\ Fresh(copy).isReady = FALSE
<1>1. copy.round \in 0 .. MaxRounds
  BY HostagePanelAssumption DEF Copy
<1> QED
  BY <1>1, UnmountedIs DEF Fresh, Panel

\* The four parts of a panel make it.
LEMMA SamePanel ==
  ASSUME NEW p \in Panel, NEW q \in Panel, p.mounted = q.mounted, p.since = q.since,
         p.selected = q.selected, p.isReady = q.isReady
  PROVE  p = q
BY DEF Panel

\* A render leaves a panel exactly on the page of a leader.
LEMMA RenderTypes ==
  ASSUME PanelTypeOK, NEW p \in Page, Render(p)
  PROVE  /\ page' \in Page /\ panel' \in Panel /\ panel'.mounted = page'.lead
         /\ ~panel'.mounted => panel' = Unmounted
<1>1. p.copy \in Copy /\ p.lead \in BOOLEAN
  BY DEF Page
<1>2. Fresh(p.copy) \in Panel /\ Fresh(p.copy).mounted = TRUE
  BY <1>1, FreshIs
<1>3. Unmounted \in Panel /\ Unmounted.mounted = FALSE
  BY UnmountedIs
<1>4. panel \in Panel /\ panel.mounted \in BOOLEAN
  BY DEF PanelTypeOK, Panel
<1>5. page' = p /\ Mounts(p)
  BY DEF Render
<1>6. CASE ~p.lead
  BY <1>1, <1>3, <1>5, <1>6 DEF Mounts
<1>7. CASE p.lead /\ panel.mounted
  BY <1>1, <1>4, <1>5, <1>7 DEF Mounts
<1>8. CASE p.lead /\ ~panel.mounted
  BY <1>1, <1>2, <1>5, <1>8 DEF Mounts
<1> QED
  BY <1>6, <1>7, <1>8

\* A message about the leader fits the queue.
LEMMA TellType ==
  ASSUME PanelTypeOK, NEW l, Tell(l)
  PROVE  news' \in Seq(BOOLEAN) /\ Len(news') <= MaxQueue
<1>1. news \in Seq(BOOLEAN) /\ Len(news) \in Nat /\ (l = Me) \in BOOLEAN
  BY DEF PanelTypeOK
<1>2. Append(news, l = Me) \in Seq(BOOLEAN)
  BY <1>1
<1>3. Len(Append(news, l = Me)) = Len(news) + 1
  BY <1>1
<1> QED
  BY <1>1, <1>2, <1>3, HostagePanelAssumption DEF Tell

\* What a grant makes of the round is a round of the same number and phase.
LEMMA GrantIs ==
  ASSUME PanelTypeOK, NEW c \in Call
  PROVE  /\ Grant(c) \in Round
         /\ Grant(c).round = srv.round /\ Grant(c).status = srv.status
         /\ Grant(c).here = srv.here
         /\ srv.ready => Grant(c).ready
         /\ c.type = "READY" /\ Grant(c) # srv => Grant(c).ready
<1>0. srv \in Round
  BY DEF PanelTypeOK
<1>1. CASE c \in [type : {"SELECT"}, hostages : SUBSET Others]
  <2>1. Grant(c) = IF Takes(Me, c.hostages) THEN [srv EXCEPT !.chosen = c.hostages] ELSE srv
    BY <1>1 DEF Grant
  <2> QED
    BY <1>0, <1>1, <2>1 DEF Round
<1>2. CASE c \in [type : {"TRANSFER"}, to : Others]
  <2>1. Grant(c) = IF srv.leader = Me /\ srv.status # "SELECTING" /\ c.to \in srv.here
                   THEN [srv EXCEPT !.leader = c.to] ELSE srv
    BY <1>2 DEF Grant
  <2> QED
    BY <1>0, <1>2, <2>1 DEF Round
<1>3. CASE c \in [type : {"READY"}]
  <2>1. Grant(c) = IF srv.leader = Me THEN [srv EXCEPT !.ready = TRUE] ELSE srv
    BY <1>3 DEF Grant
  <2> QED
    BY <1>0, <1>3, <2>1 DEF Round
<1> QED
  BY <1>1, <1>2, <1>3 DEF Call

\* Requests come and go within their bound.
LEMMA AskTypes ==
  ASSUME PanelTypes, NEW c \in Call, Ask(c)
  PROVE  calls' \subseteq Call /\ IsFiniteSet(calls') /\ Cardinality(calls') <= MaxAsked
BY FS_AddElement DEF PanelTypes, PanelTypeOK, Ask

LEMMA AnswerTypes ==
  ASSUME PanelTypes, NEW c \in calls, calls' = calls \ {c}
  PROVE  calls' \subseteq Call /\ IsFiniteSet(calls') /\ Cardinality(calls') <= MaxAsked
<1>1. /\ calls \subseteq Call /\ IsFiniteSet(calls) /\ Cardinality(calls) <= MaxAsked
      /\ Cardinality(calls) \in Nat /\ MaxAsked \in Nat
  BY HostagePanelAssumption, FS_CardinalityType DEF PanelTypes, PanelTypeOK
<1>2. IsFiniteSet(calls \ {c}) /\ Cardinality(calls \ {c}) = Cardinality(calls) - 1
  BY <1>1, FS_RemoveElement
<1> QED
  BY <1>1, <1>2

\* The first round has the right types.
LEMMA PanelTypesInit == PanelInit => PanelTypes
<1> SUFFICES ASSUME PanelInit PROVE PanelTypes
  OBVIOUS
<1>1. PICK first \in Home \cup {Me} :
        /\ srv = [round |-> 1, status |-> "ACTIVE", here |-> Home, leader |-> first,
                  chosen |-> {}, theirs |-> {}, ready |-> FALSE, theirReady |-> FALSE]
        /\ news = <<>>
        /\ page = [lead |-> first = Me, copy |-> CopyOf(srv)]
        /\ panel = IF first = Me THEN Fresh(page.copy) ELSE Unmounted
        /\ calls = {} /\ leads = 0
  BY DEF PanelInit
<1>2. srv \in Round
  BY <1>1, HostagePanelAssumption DEF Round
<1>3. page \in Page /\ page.copy \in Copy /\ page.lead = (first = Me)
  BY <1>1, <1>2, CopyOfType DEF Page
<1>4. Fresh(page.copy) \in Panel /\ Fresh(page.copy).mounted = TRUE
  BY <1>3, FreshIs
<1>5. panel \in Panel /\ panel.mounted = page.lead /\ (~panel.mounted => panel = Unmounted)
  BY <1>1, <1>3, <1>4, UnmountedIs
<1>6. IsFiniteSet(calls) /\ Cardinality(calls) <= MaxAsked /\ calls \subseteq Call
  BY <1>1, FS_EmptySet, HostagePanelAssumption
<1>7. news \in Seq(BOOLEAN) /\ Len(news) <= MaxQueue /\ leads \in 0 .. MaxLeads
  BY <1>1, HostagePanelAssumption
<1> QED
  BY <1>2, <1>3, <1>5, <1>6, <1>7 DEF PanelTypes, PanelTypeOK, Unmounted

\* Every step of the server, the page and the panel keeps them.
LEMMA PanelTypesStep == PanelTypes /\ [PanelNext]_panelVars => PanelTypes'
<1> SUFFICES ASSUME PanelTypes, [PanelNext]_panelVars PROVE PanelTypes'
  OBVIOUS
<1>0. /\ srv \in Round
      /\ news \in Seq(BOOLEAN) /\ Len(news) <= MaxQueue
      /\ page \in Page /\ page.copy \in Copy
      /\ panel \in Panel /\ panel.mounted = page.lead
      /\ ~panel.mounted => panel = Unmounted
      /\ calls \subseteq Call /\ Cardinality(calls) <= MaxAsked /\ IsFiniteSet(calls)
      /\ leads \in 0 .. MaxLeads
  BY DEF PanelTypes, PanelTypeOK, Page, Unmounted
<1> DEFINE PanelOf(pg) == /\ pg \in Page /\ panel' \in Panel /\ panel'.mounted = pg.lead
                          /\ ~panel'.mounted => panel' = Unmounted
           Calling == /\ calls' \subseteq Call /\ Cardinality(calls') <= MaxAsked
                      /\ IsFiniteSet(calls')
           Telling == news' \in Seq(BOOLEAN) /\ Len(news') <= MaxQueue
           Goal == /\ srv' \in Round /\ Telling /\ PanelOf(page') /\ Calling
                   /\ leads' \in 0 .. MaxLeads
<1> SUFFICES Goal
  BY DEF PanelTypes, PanelTypeOK, Unmounted
<1>1. CASE EndTimer
  BY <1>0, <1>1 DEF EndTimer, Round
<1>2. CASE OthersSelect
  <2>1. srv' \in Round
    <3>1. CASE \E h \in kSubset(Count, srv.here) : srv' = [srv EXCEPT !.chosen = h]
      BY <1>0, <3>1 DEF kSubset, Round
    <3>2. CASE \E h \in kSubset(Count, Others \ srv.here) : srv' = [srv EXCEPT !.theirs = h]
      BY <1>0, <3>2 DEF kSubset, Round
    <3> QED
      BY <1>2, <3>1, <3>2 DEF OthersSelect
  <2> QED
    BY <1>0, <1>2, <2>1 DEF OthersSelect
<1>3. CASE ExecuteExchange
  BY <1>0, <1>3 DEF ExecuteExchange, Round
<1>4. CASE OthersReady
  BY <1>0, <1>4 DEF OthersReady, Round
<1>5. CASE NextRound
  <2>1. CASE srv.round < MaxRounds
    <3>1. srv' = [srv EXCEPT !.round = @ + 1, !.status = "ACTIVE", !.chosen = {},
                             !.theirs = {}, !.ready = FALSE, !.theirReady = FALSE]
          /\ Tell(srv.leader)
      BY <1>5, <2>1 DEF NextRound
    <3>2. srv.round + 1 \in 1 .. MaxRounds
      BY <1>0, <2>1, HostagePanelAssumption DEF Round
    <3>3. srv' \in Round
      BY <1>0, <3>1, <3>2 DEF Round
    <3>4. Telling
      BY <3>1, TellType DEF PanelTypes
    <3> QED
      BY <1>0, <1>5, <3>3, <3>4 DEF NextRound
  <2>2. CASE ~(srv.round < MaxRounds)
    BY <1>0, <1>5, <2>2 DEF NextRound, Round
  <2> QED
    BY <2>1, <2>2
<1>6. CASE Elect
  <2>1. PICK l \in (srv.here \cup {Me}) \ ({srv.leader} \cup srv.chosen) :
          srv' = [srv EXCEPT !.leader = l] /\ (Tell(l) \/ UNCHANGED news)
    BY <1>6 DEF Elect
  <2>2. srv' \in Round
    BY <1>0, <2>1 DEF Round
  <2>3. Telling
    BY <1>0, <2>1, TellType DEF PanelTypes
  <2>4. leads' \in 0 .. MaxLeads
    BY <1>0, <1>6, HostagePanelAssumption DEF Elect
  <2> QED
    BY <1>0, <1>6, <2>2, <2>3, <2>4 DEF Elect
<1>7. CASE Serve
  <2>1. PICK c \in calls : /\ calls' = calls \ {c} /\ srv' = Grant(c)
                           /\ IF srv'.leader # srv.leader THEN Tell(srv'.leader)
                              ELSE UNCHANGED news
                           /\ panel' = [panel EXCEPT !.since = IF srv' = srv THEN 0 ELSE @]
    BY <1>7 DEF Serve
  <2>2. srv' \in Round
    BY <1>0, <2>1, GrantIs DEF PanelTypes
  <2>3. Calling
    BY <2>1, AnswerTypes
  <2>4. Telling
    BY <1>0, <2>1, TellType DEF PanelTypes
  <2>5. /\ panel' \in Panel /\ panel'.mounted = panel.mounted
        /\ panel'.since \in {0, panel.since}
        /\ panel'.selected = panel.selected /\ panel'.isReady = panel.isReady
    BY <1>0, <2>1, HostagePanelAssumption DEF Panel
  <2>6. panel = Unmounted => panel' = Unmounted
    BY <2>5, SamePanel, UnmountedIs
  <2>7. PanelOf(page)
    BY <1>0, <2>5, <2>6
  <2> QED
    BY <1>0, <1>7, <2>2, <2>3, <2>4, <2>7 DEF Serve
<1>8. CASE Receive
  <2>1. Head(news) \in BOOLEAN /\ Tail(news) \in Seq(BOOLEAN) /\ Len(Tail(news)) = Len(news) - 1
        /\ Len(news) \in Nat
    BY <1>0, <1>8 DEF Receive
  <2>2. [page EXCEPT !.lead = Head(news)] \in Page
    BY <1>0, <2>1 DEF Page
  <2>3. PanelOf(page')
    BY <1>8, <2>2, RenderTypes DEF Receive, PanelTypes
  <2>4. Telling
    BY <1>0, <1>8, <2>1, HostagePanelAssumption DEF Receive
  <2> QED
    BY <1>0, <1>8, <2>3, <2>4 DEF Receive
<1>9. CASE Poll
  <2>1. [page EXCEPT !.copy = CopyOf(srv)] \in Page
    BY <1>0, CopyOfType DEF Page
  <2>2. PanelOf(page')
    BY <1>9, <2>1, RenderTypes DEF Poll, PanelTypes
  <2> QED
    BY <1>0, <1>9, <2>2 DEF Poll
<1>10. CASE LookAway
  <2>1. panel' = Fresh(page.copy) /\ Fresh(page.copy) \in Panel /\ Fresh(page.copy).mounted = TRUE
    BY <1>0, <1>10, FreshIs DEF LookAway
  <2> QED
    BY <1>0, <1>10, <2>1 DEF LookAway, Panel, Page
<1>11. CASE Reload
  <2>1. CopyOf(srv) \in Copy /\ page' = [lead |-> srv.leader = Me, copy |-> CopyOf(srv)]
    BY <1>0, <1>11, CopyOfType DEF Reload
  <2>2. page' \in Page /\ page'.copy = CopyOf(srv) /\ page'.lead = (srv.leader = Me)
    BY <2>1 DEF Page
  <2>3. Fresh(page'.copy) \in Panel /\ Fresh(page'.copy).mounted = TRUE
    BY <2>1, <2>2, FreshIs
  <2>4. PanelOf(page')
    BY <1>11, <2>2, <2>3, UnmountedIs DEF Reload
  <2>5. Calling /\ Telling
    BY <1>11, FS_EmptySet, HostagePanelAssumption DEF Reload
  <2> QED
    BY <1>0, <1>11, <2>4, <2>5 DEF Reload
<1>12. CASE HandleAnnounceHostages
  <2>1. [type |-> "SELECT", hostages |-> panel.selected] \in Call
    BY <1>0 DEF Call, Panel
  <2>2. Calling
    BY <1>12, <2>1, AskTypes DEF HandleAnnounceHostages
  <2> QED
    BY <1>0, <1>12, <2>2 DEF HandleAnnounceHostages
<1>13. CASE HandleReady
  <2>1. [type |-> "READY"] \in Call
    BY DEF Call
  <2>2. Calling
    BY <1>13, <2>1, AskTypes DEF HandleReady
  <2>3. panel.mounted
    BY <1>13 DEF HandleReady, ReadyOffered, Shows
  <2>4. PanelOf(page)
    BY <1>0, <1>13, <2>3 DEF HandleReady, Panel
  <2> QED
    BY <1>0, <1>13, <2>2, <2>4 DEF HandleReady
<1>14. ASSUME NEW q \in Others, HandleToggleHostage(q) PROVE Goal
  <2>1. panel.mounted
    BY <1>14 DEF HandleToggleHostage, SelectionOffered, Shows
  <2>2. PanelOf(page)
    BY <1>0, <1>14, <2>1 DEF HandleToggleHostage, Panel
  <2> QED
    BY <1>0, <1>14, <2>2 DEF HandleToggleHostage
<1>15. ASSUME NEW q \in Others, HandleTransferLeadership(q) PROVE Goal
  <2>1. [type |-> "TRANSFER", to |-> q] \in Call
    BY DEF Call
  <2>2. Calling
    BY <1>15, <2>1, AskTypes DEF HandleTransferLeadership
  <2> QED
    BY <1>0, <1>15, <2>2 DEF HandleTransferLeadership
<1>16. CASE UNCHANGED panelVars
  BY <1>0, <1>16 DEF panelVars
<1> QED
  BY <1>1, <1>2, <1>3, <1>4, <1>5, <1>6, <1>7, <1>8, <1>9, <1>10, <1>11, <1>12, <1>13,
     <1>14, <1>15, <1>16 DEF PanelNext

-----------------------------------------------------------------------------
(* What the panel has to do with its round.                                *)

\* The panel is no younger than the page's copy, and that no younger than the round.
CopyIsOlder == panel.since <= page.copy.round /\ page.copy.round <= srv.round

\* Until the exchange a copy of this round knows who is in the room.
Choosing == srv.status \in {"ACTIVE", "SELECTING"}
CopyKnowsWhoIsHere ==
  page.copy.round = srv.round /\ Choosing => page.copy.here = srv.here

\* Until then whoever a panel of this round has selected is in the room.
PicksAreHere ==
  panel.since = srv.round /\ Choosing => panel.selected \subseteq srv.here

\* A panel of this round that says it is ready has told the server, or is about to.
ReadyIsTold ==
  panel.since = srv.round /\ panel.isReady
    => srv.ready \/ [type |-> "READY"] \in calls

PanelInv ==
  PanelTypes /\ CopyIsOlder /\ CopyKnowsWhoIsHere /\ PicksAreHere /\ ReadyIsTold

\* The invariant holds in the first round.
LEMMA PanelInvInit == PanelInit => PanelInv
<1> SUFFICES ASSUME PanelInit PROVE PanelInv
  OBVIOUS
<1>1. PanelTypes
  BY PanelTypesInit
<1>2. /\ srv.round = 1 /\ srv.here = Home
      /\ page.copy = CopyOf(srv) /\ page.copy \in Copy
      /\ panel \in {Fresh(page.copy), Unmounted}
  BY <1>1 DEF PanelInit, PanelTypes, PanelTypeOK, Page
<1>3. page.copy.round = 1 /\ page.copy.here = srv.here
  BY <1>2 DEF CopyOf
<1>4. panel.since \in {0, 1} /\ panel.selected = {} /\ panel.isReady = FALSE
  BY <1>2, <1>3, FreshIs, UnmountedIs
<1> QED
  BY <1>1, <1>2, <1>3, <1>4
  DEF PanelInv, CopyIsOlder, CopyKnowsWhoIsHere, PicksAreHere, ReadyIsTold

\* A new copy is of the round as it is.
LEMMA CopyOfIs ==
  /\ CopyOf(srv).round = srv.round /\ CopyOf(srv).here = srv.here
  /\ CopyOf(srv).status = srv.status /\ CopyOf(srv).leader = srv.leader
  /\ CopyOf(srv).ready = srv.ready
BY DEF CopyOf

\* A panel that is not the old one is empty: it stops nobody.
Emptied(s) == panel'.since \in {0, s} /\ panel'.selected = {} /\ panel'.isReady = FALSE

LEMMA RenderPanel ==
  ASSUME PanelTypeOK, NEW p \in Page, Render(p)
  PROVE  panel' = panel \/ Emptied(p.copy.round)
<1>1. p.copy \in Copy
  BY DEF Page
<1> QED
  BY <1>1, FreshIs, UnmountedIs DEF Render, Mounts, Emptied

\* Every step keeps it.  What empties the panel restores it; a refusal takes the
\* panel out of its round; and only a new round takes back what has been told.
LEMMA PanelInvStep == PanelInv /\ [PanelNext]_panelVars => PanelInv'
<1> SUFFICES ASSUME PanelInv, [PanelNext]_panelVars PROVE PanelInv'
  OBVIOUS
<1>0. /\ srv \in Round /\ srv.round \in 1 .. MaxRounds /\ srv' \in Round
      /\ page \in Page /\ page.copy \in Copy /\ page.copy.round \in 1 .. MaxRounds
      /\ panel \in Panel /\ panel.since \in 0 .. MaxRounds
      /\ PanelTypes /\ PanelTypes' /\ MaxRounds \in Nat
      /\ CopyIsOlder /\ CopyKnowsWhoIsHere /\ PicksAreHere /\ ReadyIsTold
  BY PanelTypesStep, HostagePanelAssumption
  DEF PanelInv, PanelTypes, PanelTypeOK, Page, Round, Copy, Panel
<1> DEFINE Rest == /\ CopyIsOlder' /\ CopyKnowsWhoIsHere' /\ PicksAreHere' /\ ReadyIsTold'
<1> SUFFICES Rest
  BY <1>0 DEF PanelInv
<1> USE DEF CopyIsOlder, CopyKnowsWhoIsHere, PicksAreHere, ReadyIsTold, Choosing
<1>1. CASE EndTimer
  BY <1>0, <1>1 DEF EndTimer, Round
<1>2. CASE OthersSelect
  <2>1. /\ srv'.round = srv.round /\ srv'.status = srv.status /\ srv'.here = srv.here
        /\ srv'.ready = srv.ready /\ UNCHANGED <<page, panel, calls>>
    BY <1>0, <1>2 DEF OthersSelect, Round
  <2> QED
    BY <1>0, <2>1
<1>3. CASE ExecuteExchange
  <2>1. /\ srv'.round = srv.round /\ srv'.status = "COMPLETE"
        /\ srv'.ready = srv.ready /\ UNCHANGED <<page, panel, calls>>
    BY <1>0, <1>3 DEF ExecuteExchange, Round
  <2> QED
    BY <1>0, <2>1
<1>4. CASE OthersReady
  <2>1. /\ srv'.round = srv.round /\ srv'.status = srv.status /\ srv'.here = srv.here
        /\ srv.ready => srv'.ready
        /\ UNCHANGED <<page, panel, calls>>
    BY <1>0, <1>4 DEF OthersReady, Round
  <2> QED
    BY <1>0, <2>1
<1>5. CASE NextRound
  <2>1. \/ srv'.round = srv.round + 1
        \/ /\ srv'.round = srv.round /\ srv'.status = "REVEALING"
           /\ srv'.ready = srv.ready
    BY <1>0, <1>5 DEF NextRound, Round
  <2>2. UNCHANGED <<page, panel, calls>>
    BY <1>5 DEF NextRound
  <2> QED
    BY <1>0, <2>1, <2>2
<1>6. CASE Elect
  <2>1. /\ srv'.round = srv.round /\ srv'.status = srv.status /\ srv'.here = srv.here
        /\ srv'.ready = srv.ready /\ UNCHANGED <<page, panel, calls>>
    BY <1>0, <1>6 DEF Elect, Round
  <2> QED
    BY <1>0, <2>1
<1>7. CASE Serve
  <2>1. PICK c \in calls : /\ calls' = calls \ {c} /\ srv' = Grant(c)
                           /\ panel' = [panel EXCEPT !.since = IF srv' = srv THEN 0 ELSE @]
    BY <1>7 DEF Serve
  <2>2. /\ srv'.round = srv.round /\ srv'.status = srv.status /\ srv'.here = srv.here
        /\ srv.ready => srv'.ready
        /\ c.type = "READY" /\ srv' # srv => srv'.ready
    BY <1>0, <2>1, GrantIs DEF PanelTypes, PanelTypeOK
  <2>3. /\ panel'.since = IF srv' = srv THEN 0 ELSE panel.since
        /\ panel'.selected = panel.selected /\ panel'.isReady = panel.isReady
    BY <1>0, <2>1 DEF Panel
  <2>4. page' = page
    BY <1>7 DEF Serve
  <2>5. CopyIsOlder' /\ CopyKnowsWhoIsHere' /\ PicksAreHere'
    BY <1>0, <2>2, <2>3, <2>4
  <2>6. ASSUME panel'.since = srv'.round, panel'.isReady
        PROVE  srv'.ready \/ [type |-> "READY"] \in calls'
    <3>1. srv' # srv /\ panel.since = srv.round /\ panel.isReady
      BY <1>0, <2>2, <2>3, <2>6
    <3>2. CASE srv.ready
      BY <2>2, <3>2
    <3>3. CASE [type |-> "READY"] \in calls /\ c # [type |-> "READY"]
      BY <2>1, <3>3
    <3>4. CASE c = [type |-> "READY"]
      BY <2>2, <3>1, <3>4
    <3> QED
      BY <1>0, <3>1, <3>2, <3>3, <3>4
  <2> QED
    BY <2>5, <2>6
<1>8. CASE Receive
  <2>0. Head(news) \in BOOLEAN
    BY <1>0, <1>8 DEF Receive, PanelTypes, PanelTypeOK
  <2>1. [page EXCEPT !.lead = Head(news)] \in Page
        /\ [page EXCEPT !.lead = Head(news)].copy = page.copy
    BY <1>0, <2>0 DEF Page
  <2>2. page'.copy = page.copy /\ (panel' = panel \/ Emptied(page.copy.round))
    BY <1>0, <1>8, <2>1, RenderPanel DEF Receive, Render, PanelTypes
  <2> QED
    BY <1>0, <1>8, <2>2 DEF Receive, Emptied
<1>9. CASE Poll
  <2>1. [page EXCEPT !.copy = CopyOf(srv)] \in Page
        /\ [page EXCEPT !.copy = CopyOf(srv)].copy = CopyOf(srv)
    BY <1>0, CopyOfType DEF Page
  <2>2. page'.copy = CopyOf(srv) /\ (panel' = panel \/ Emptied(srv.round))
    BY <1>0, <1>9, <2>1, RenderPanel, CopyOfIs DEF Poll, Render, PanelTypes
  <2>3. page'.copy.round = srv.round /\ page'.copy.here = srv.here
    BY <2>2, CopyOfIs
  <2> QED
    BY <1>0, <1>9, <2>2, <2>3 DEF Poll, Emptied
<1>10. CASE LookAway
  <2>1. Emptied(page.copy.round)
    BY <1>0, <1>10, FreshIs DEF LookAway, Emptied
  <2> QED
    BY <1>0, <1>10, <2>1 DEF LookAway, Emptied
<1>11. CASE Reload
  <2>1. page'.copy = CopyOf(srv) /\ CopyOf(srv) \in Copy
    BY <1>0, <1>11, CopyOfType DEF Reload
  <2>2. page'.copy.round = srv.round /\ page'.copy.here = srv.here
    BY <2>1, CopyOfIs
  <2>3. Emptied(srv.round)
    BY <1>11, <2>1, <2>2, FreshIs, UnmountedIs DEF Reload, Emptied
  <2> QED
    BY <1>0, <1>11, <2>2, <2>3 DEF Reload, Emptied
<1>12. CASE HandleAnnounceHostages
  BY <1>0, <1>12 DEF HandleAnnounceHostages, Ask
<1>13. CASE HandleReady
  <2>1. /\ panel'.since = panel.since /\ panel'.selected = panel.selected
        /\ [type |-> "READY"] \in calls' /\ UNCHANGED <<srv, page>>
    BY <1>0, <1>13 DEF HandleReady, Ask, Panel
  <2> QED
    BY <1>0, <2>1
<1>14. ASSUME NEW q \in Others, HandleToggleHostage(q) PROVE Rest
  <2>1. /\ panel'.since = panel.since /\ panel'.isReady = panel.isReady
        /\ panel'.selected \subseteq panel.selected \cup {q}
        /\ UNCHANGED <<srv, page, calls>>
    BY <1>0, <1>14 DEF HandleToggleHostage, Panel
  <2>2. q \in page.copy.here
    BY <1>14 DEF HandleToggleHostage, Listed
  <2> QED
    BY <1>0, <2>1, <2>2
<1>15. ASSUME NEW q \in Others, HandleTransferLeadership(q) PROVE Rest
  BY <1>0, <1>15 DEF HandleTransferLeadership, Ask
<1>16. CASE UNCHANGED panelVars
  BY <1>0, <1>16 DEF panelVars
<1> QED
  BY <1>1, <1>2, <1>3, <1>4, <1>5, <1>6, <1>7, <1>8, <1>9, <1>10, <1>11, <1>12, <1>13,
     <1>14, <1>15, <1>16 DEF PanelNext

\* The panel, its page and the requests under way keep their types: a panel is
\* there exactly on the page of a leader, and without one nothing of it is left.
THEOREM PanelTypeCorrect == PanelSpec => []PanelTypeOK
<1>1. PanelTypes => PanelTypeOK
  BY DEF PanelTypes
<1> QED
  BY <1>1, PanelTypesInit, PanelTypesStep, PTL DEF PanelSpec

\* In the round it was mounted in, a panel that was refused nothing never stops
\* its leader: what it has selected can be seen and cleared, and who is not ready
\* can say so (RoundTimerPanel.tsx:34-38).
THEOREM FreshPanelGoesOnHolds == PanelSpec => []FreshPanelGoesOn
<1>1. PanelInv => FreshPanelGoesOn
  <2> SUFFICES ASSUME PanelInv, UpToDate, panel.since = srv.round PROVE CanGoOn
    BY DEF FreshPanelGoesOn
  <2>1. /\ panel.mounted /\ srv.leader = Me /\ page.copy = CopyOf(srv) /\ calls = {}
        /\ srv.here \subseteq Others
    BY DEF UpToDate, PanelInv, PanelTypes, PanelTypeOK, Round
  <2>2. /\ page.copy.here = srv.here /\ page.copy.leader = Me
        /\ page.copy.status = srv.status /\ page.copy.ready = srv.ready
    BY <2>1, CopyOfIs
  <2>3. SelectionOffered => panel.selected \subseteq Listed
    BY <2>1, <2>2, HostagePanelAssumption
    DEF SelectionOffered, Shows, Listed, PanelInv, PicksAreHere, Choosing
  <2>4. Shows("COMPLETE") => srv.ready \/ ReadyOffered
    BY <2>1, <2>2 DEF Shows, ReadyOffered, PanelInv, ReadyIsTold
  <2> QED
    BY <2>3, <2>4 DEF CanGoOn
<1> QED
  BY <1>1, PanelInvInit, PanelInvStep, PTL DEF PanelSpec

=============================================================================
