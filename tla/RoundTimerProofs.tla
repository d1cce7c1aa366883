-------------------------- MODULE RoundTimerProofs --------------------------
(***************************************************************************)
(* Proofs about RoundTimer.  The two safety properties need one book-      *)
(* keeping fact more: a call that has not registered its ticker yet is     *)
(* neither in rm.timers nor closed, so that nobody can stop a ticker       *)
(* before it runs.                                                         *)
(***************************************************************************)
EXTENDS RoundTimer, TLAPS

Launched == Ticking \cup {"GONE"}

Books ==
  \A r \in Rounds :
    /\ at[r] = "NONE" <=> r > started
    /\ at[r] # "NONE" => game[r] \in Games
    /\ at[r] \in {"COUNT", "EXPIRE"} => counts[r] \in Rounds
    /\ r \in closed => at[r] \in Launched
    /\ \A g \in Games : timers[g] = r => at[r] \in Launched

TimerInv == TypeOK /\ Books /\ RegisteredIsOpen /\ RoundHasTicker

\* The invariant holds when the server starts.
LEMMA TimerInit == Init => TimerInv
BY TimerAssumption
   DEF Init, TimerInv, TypeOK, Books, RegisteredIsOpen, RoundHasTicker, Launched,
       Starting, Ticking, Places, Games, Rounds

\* The places a call and its ticker go through.
LEMMA PlaceFacts ==
  /\ \A x \in {"STOP", "REGISTER", "WAIT", "COUNT", "EXPIRE", "NONE", "GONE"} : x \in Places
  /\ Launched = {"WAIT", "COUNT", "EXPIRE", "GONE"}
BY DEF Places, Launched, Starting, Ticking

\* Games and rounds are numbered from 1 up to their bounds.
LEMMA RangeFacts ==
  /\ \A n : n \in Rounds <=> n \in 0 .. MaxRounds /\ n # 0
  /\ \A n : n \in Games <=> n \in 0 .. MaxGames /\ n # 0
BY TimerAssumption DEF Rounds, Games

\* Every step keeps the types.
LEMMA TimerTypeStep == TypeOK /\ Books /\ [Next]_vars => TypeOK'
<1> SUFFICES ASSUME TypeOK, Books, [Next]_vars PROVE TypeOK'
  OBVIOUS
<1> USE TimerAssumption, PlaceFacts DEF TypeOK
<1>1. CASE StartGame BY <1>1 DEF StartGame, tickVars
<1>2. CASE ResetGame BY <1>2 DEF ResetGame, tickVars
<1>3. CASE StartRound BY <1>3, RangeFacts DEF StartRound
<1>4. ASSUME NEW r \in Rounds, TickerStep(r) PROVE TypeOK'
  <2>1. CASE StartTimerStops(r)
    <3>1. timers' = [timers EXCEPT ![game[r]] = 0]
      BY <2>1 DEF StartTimerStops, StopTimer
    <3>2. timers' \in [Games -> 0 .. MaxRounds]
      <4>1. 0 \in 0 .. MaxRounds OBVIOUS
      <4> QED BY <3>1, <4>1
    <3>3. closed' \subseteq Rounds
      BY <2>1, RangeFacts DEF StartTimerStops, StopTimer, Books
    <3>4. at' \in [Rounds -> Places]
      BY <2>1 DEF StartTimerStops
    <3> QED BY <2>1, <3>2, <3>3, <3>4 DEF StartTimerStops, roomVars, tickVars
  <2>2. CASE StartTimerRegisters(r)
    <3>1. r \in 0 .. MaxRounds
      BY RangeFacts
    <3>2. /\ timers' \in [Games -> 0 .. MaxRounds]
          /\ at' \in [Rounds -> Places]
      BY <2>2, <3>1 DEF StartTimerRegisters
    <3> QED BY <2>2, <3>2 DEF StartTimerRegisters, roomVars, tickVars
  <2>3. CASE TickerStops(r) BY <2>3 DEF TickerStops, roomVars, tickVars
  <2>4. CASE TickFails(r) BY <2>4 DEF TickFails, roomVars, tickVars
  <2>5. CASE TickChecks(r)
    <3>1. round \in 0 .. MaxRounds /\ round \in Rounds
      BY <2>5, RangeFacts DEF TickChecks
    <3>2. remaining[round] \in Int
      BY <3>1
    <3>3. /\ counts' \in [Rounds -> 0 .. MaxRounds]
          /\ seen' \in [Rounds -> Int]
          /\ at' \in [Rounds -> Places]
      BY <2>5, <3>1, <3>2 DEF TickChecks
    <3> QED BY <2>5, <3>3 DEF TickChecks, roomVars
  <2>6. CASE TickCounts(r)
    <3>1. counts[r] \in Rounds
      BY <2>6 DEF TickCounts, Books
    <3>2. PICK left \in {seen[r] - 1, remaining[counts[r]] - 1} :
            remaining' = [remaining EXCEPT ![counts[r]] = left]
      BY <2>6 DEF TickCounts
    <3>3. left \in Int
      BY <3>1, <3>2
    <3> QED BY <2>6, <3>2, <3>3 DEF TickCounts, roomVars
  <2>7. CASE TickExpires(r) BY <2>7 DEF TickExpires, roomVars
  <2> QED BY <1>4, <2>1, <2>2, <2>3, <2>4, <2>5, <2>6, <2>7 DEF TickerStep
<1>5. CASE Shutdown BY <1>5 DEF Shutdown, roomVars, tickVars
<1>6. CASE CleanupReturns BY <1>6 DEF CleanupReturns, roomVars, tickVars
<1>7. CASE UNCHANGED vars BY <1>7 DEF vars, roomVars, tickVars
<1> QED BY <1>1, <1>2, <1>3, <1>4, <1>5, <1>6, <1>7 DEF Next

\* Every step keeps the books and the registered tickers open.
LEMMA TimerBooksStep ==
  TypeOK /\ Books /\ RegisteredIsOpen /\ [Next]_vars => Books' /\ RegisteredIsOpen'
<1> SUFFICES ASSUME TypeOK, Books, RegisteredIsOpen, [Next]_vars
             PROVE  Books' /\ RegisteredIsOpen'
  OBVIOUS
<1> USE TimerAssumption, PlaceFacts, RangeFacts DEF TypeOK, Books, RegisteredIsOpen
<1>1. CASE StartGame BY <1>1 DEF StartGame, tickVars
<1>2. CASE ResetGame BY <1>2 DEF ResetGame, tickVars
<1>3. CASE StartRound
  <2> DEFINE n == started + 1
  <2>1. /\ n \in Rounds /\ at[n] = "NONE" /\ session \in Games
        /\ started' = n /\ at' = [at EXCEPT ![n] = "STOP"]
        /\ game' = [game EXCEPT ![n] = session]
        /\ UNCHANGED <<timers, closed, counts>>
    BY <1>3 DEF StartRound
  <2>2. \A g \in Games : timers[g] # n
    BY <2>1
  <2>3. Books'
    <3>1. \A r \in Rounds : r # n => at'[r] = at[r] /\ game'[r] = game[r]
      BY <2>1
    <3>2. at'[n] = "STOP" /\ game'[n] = session /\ n \notin closed
      BY <2>1
    <3>3. \A r \in Rounds : r # n => (r > n <=> r > started)
      BY DEF Rounds
    <3> HIDE DEF n
    <3>4. \A r \in Rounds : at'[r] = "NONE" <=> r > n
      <4>1. ~(n > n) /\ n \in Rounds
        BY <2>1 DEF Rounds
      <4> QED BY <3>1, <3>2, <3>3, <4>1
    <3> QED BY <2>1, <2>2, <3>1, <3>2, <3>4
  <2>4. RegisteredIsOpen'
    BY <2>1, <2>2
  <2> QED BY <2>3, <2>4
<1>4. ASSUME NEW r \in Rounds, TickerStep(r) PROVE Books' /\ RegisteredIsOpen'
  <2>1. CASE StartTimerStops(r)
    <3>1. /\ game[r] \in Games /\ at[r] = "STOP"
          /\ timers' = [timers EXCEPT ![game[r]] = 0]
          /\ closed' = IF timers[game[r]] = 0 THEN closed ELSE closed \cup {timers[game[r]]}
          /\ at' = [at EXCEPT ![r] = "REGISTER"]
          /\ UNCHANGED <<started, game, counts>>
      BY <2>1 DEF StartTimerStops, StopTimer, roomVars, tickVars
    <3>2. ASSUME NEW g \in Games, timers'[g] # 0
          PROVE  g # game[r] /\ timers'[g] = timers[g] /\ timers[g] \in Rounds
      BY <3>1, <3>2
    <3>3. RegisteredIsOpen'
      BY <3>1, <3>2
    <3>4. Books'
      BY <3>1
    <3> QED BY <3>3, <3>4
  <2>2. CASE StartTimerRegisters(r)
    <3>1. /\ game[r] \in Games /\ at[r] = "REGISTER" /\ r \notin closed
          /\ timers' = [timers EXCEPT ![game[r]] = r]
          /\ at' = [at EXCEPT ![r] = "WAIT"]
          /\ UNCHANGED <<started, game, counts, closed>>
      BY <2>2 DEF StartTimerRegisters, roomVars, tickVars
    <3> QED BY <3>1
  <2>3. CASE TickerStops(r) BY <2>3 DEF TickerStops, roomVars, tickVars
  <2>4. CASE TickFails(r) BY <2>4 DEF TickFails, roomVars, tickVars
  <2>5. CASE TickChecks(r) BY <2>5 DEF TickChecks, roomVars
  <2>6. CASE TickCounts(r) BY <2>6 DEF TickCounts, roomVars
  <2>7. CASE TickExpires(r) BY <2>7 DEF TickExpires, roomVars
  <2> QED BY <1>4, <2>1, <2>2, <2>3, <2>4, <2>5, <2>6, <2>7 DEF TickerStep
<1>5. CASE Shutdown BY <1>5 DEF Shutdown, roomVars, tickVars
<1>6. CASE CleanupReturns BY <1>6 DEF CleanupReturns, roomVars, tickVars
<1>7. CASE UNCHANGED vars BY <1>7 DEF vars, roomVars, tickVars
<1> QED BY <1>1, <1>2, <1>3, <1>4, <1>5, <1>6, <1>7 DEF Next

\* Every step leaves a round with a ticker: whoever stops the ticker of a game
\* is a call of that game that is about to register its own.
LEMMA TickerStaysStep ==
  TimerInv /\ [Next]_vars => RoundHasTicker'
<1> SUFFICES ASSUME TimerInv, [Next]_vars, round' # 0 PROVE RoundHasTicker'
  BY DEF RoundHasTicker
<1> USE TimerAssumption, PlaceFacts, RangeFacts
    DEF TimerInv, TypeOK, Books, Starting, Ticking
<1>1. CASE StartRound
  <2>1. /\ started + 1 \in Rounds /\ at'[started + 1] = "STOP"
        /\ game'[started + 1] = session' /\ session' = session
    BY <1>1 DEF StartRound
  <2> QED BY <2>1 DEF RoundHasTicker
<1>2. ASSUME ~StartRound PROVE RoundHasTicker'
  <2>1. /\ round # 0
        /\ UNCHANGED <<session, round, game>>
    BY <1>2 DEF Next, StartGame, ResetGame, TickerStep, StartTimerStops,
       StartTimerRegisters, TickerStops, TickFails, TickChecks, TickCounts,
       TickExpires, Shutdown, CleanupReturns, vars, roomVars
  <2>2. PICK w \in Rounds : game[w] = session /\ (at[w] \in Starting \/ w \in Running)
    BY <2>1 DEF RoundHasTicker
  <2>3. ASSUME NEW r \in Rounds, TickerStep(r) PROVE RoundHasTicker'
    <3>1. CASE StartTimerStops(r)
      <4>1. /\ at[r] = "STOP" /\ at' = [at EXCEPT ![r] = "REGISTER"]
            /\ closed' = IF timers[game[r]] = 0 THEN closed
                         ELSE closed \cup {timers[game[r]]}
        BY <3>1 DEF StartTimerStops, StopTimer
      <4>2. CASE w \in closed' /\ w \notin closed
        <5>1. game[r] = session /\ at'[r] = "REGISTER"
          BY <2>2, <4>1, <4>2 DEF RegisteredIsOpen
        <5> QED BY <2>1, <5>1 DEF RoundHasTicker
      <4>3. CASE ~(w \in closed' /\ w \notin closed)
        <5>1. at'[w] \in Starting \/ w \in Running'
          BY <2>2, <4>1, <4>3 DEF Running
        <5> QED BY <2>1, <2>2, <5>1 DEF RoundHasTicker
      <4> QED BY <4>2, <4>3
    <3>2. CASE StartTimerRegisters(r)
      <4>1. at'[w] \in Starting \/ w \in Running'
        BY <2>2, <3>2 DEF StartTimerRegisters, Running
      <4> QED BY <2>1, <2>2, <4>1 DEF RoundHasTicker
    <3>3. CASE TickerStops(r)
      <4>1. at'[w] \in Starting \/ w \in Running'
        BY <2>2, <3>3 DEF TickerStops, Running
      <4> QED BY <2>1, <2>2, <4>1 DEF RoundHasTicker
    <3>4. CASE TickFails(r) BY <2>1, <3>4 DEF TickFails
    <3>5. CASE TickChecks(r) \/ TickCounts(r) \/ TickExpires(r)
      <4>1. at'[w] \in Starting \/ w \in Running'
        BY <2>2, <3>5 DEF TickChecks, TickCounts, TickExpires, Running
      <4> QED BY <2>1, <2>2, <4>1 DEF RoundHasTicker
    <3> QED BY <2>3, <3>1, <3>2, <3>3, <3>4, <3>5 DEF TickerStep
  <2>4. CASE UNCHANGED <<at, closed>>
    BY <2>1, <2>2, <2>4 DEF RoundHasTicker, Running
  <2>5. (\E r \in Rounds : TickerStep(r)) \/ UNCHANGED <<at, closed>>
    BY <1>2 DEF Next, StartGame, ResetGame, Shutdown, CleanupReturns, vars
  <2> QED BY <2>3, <2>4, <2>5
<1> QED BY <1>1, <1>2

\* The invariant holds throughout.
LEMMA TimerCorrect == Spec => []TimerInv
<1>1. TimerInv /\ [Next]_vars => TimerInv'
  BY TimerTypeStep, TimerBooksStep, TickerStaysStep DEF TimerInv
<1> QED BY TimerInit, <1>1, PTL DEF Spec

\* RoundManager's tickers, sessions and rounds keep their types, for any number
\* of games and rounds of any length.
THEOREM TimerTypeCorrect == Spec => []TypeOK
BY TimerCorrect, PTL DEF TimerInv

\* stopTimer never closes a stopChan twice: what rm.timers names is open.
THEOREM RegisteredIsOpenHolds == Spec => []RegisteredIsOpen
BY TimerCorrect, PTL DEF TimerInv

\* No interleaving of startTimer calls, ticks, resets and new games leaves a
\* round without a ticker or a call about to start one.
THEOREM RoundHasTickerHolds == Spec => []RoundHasTicker
BY TimerCorrect, PTL DEF TimerInv
=============================================================================
