----------------------------- MODULE RoundTimer -----------------------------
(***************************************************************************)
(* The countdown of one room: the tickers RoundManager starts, the map     *)
(* rm.timers through which it stops them, and Cleanup at shutdown.         *)
(*                                                                         *)
(* Each StartRound makes one RoundState and starts one ticker, so both are *)
(* named by the number of that call.  A ticker is registered under the     *)
(* game session of its call, but what it counts down is whatever round the *)
(* room is in when it ticks.  rm.mu guards the map; nothing guards         *)
(* TimeRemaining, so a tick is three steps: check, count, expire.          *)
(***************************************************************************)
EXTENDS Integers, FiniteSets

CONSTANTS
  Duration,   \* seconds of a round (180, 120, 60 in the code)
  MaxGames,   \* bound: games started in one behaviour
  MaxRounds   \* bound: StartRound calls in one behaviour

ASSUME TimerAssumption ==
  /\ Duration \in Nat \ {0}
  /\ MaxGames \in Nat \ {0} /\ MaxRounds \in Nat \ {0}

Games  == 1 .. MaxGames
Rounds == 1 .. MaxRounds

VARIABLES
  session,    \* room.GameSession: the number of the game, 0 when nil
  games,      \* games started so far
  round,      \* room.GameSession.RoundState, 0 when nil
  started,    \* StartRound calls so far
  remaining,  \* TimeRemaining of each RoundState
  phase,      \* its Status: "SELECTING" once the time was found to be up
  timers,     \* rm.timers: the ticker registered for each game, 0 for none
  game,       \* the session ID each StartRound call read
  at,         \* where a StartRound call and then its ticker have got to
  closed,     \* the tickers whose stopChan is closed
  counts,     \* the RoundState a tick under way works on
  seen,       \* the TimeRemaining it read
  main        \* "SERVING", "CLEANUP" while Cleanup holds rm.mu, "EXITED"

roomVars == <<session, games, round, started, game>>
tickVars == <<remaining, phase, counts, seen>>
vars == <<roomVars, tickVars, timers, at, closed, main>>

\* Places of a StartRound call (it still has to stop the old ticker, or to
\* register its own) and of a ticker (waiting, or in a tick).
Starting == {"STOP", "REGISTER"}
Ticking  == {"WAIT", "COUNT", "EXPIRE"}

Places   == Starting \cup Ticking \cup {"NONE", "GONE"}

\* The tickers that run and were not told to stop.
Running == {r \in Rounds : at[r] \in Ticking /\ r \notin closed}

Init ==
  /\ session = 0 /\ games = 0 /\ round = 0 /\ started = 0
  /\ remaining = [r \in Rounds |-> 0]
  /\ phase = [r \in Rounds |-> "ACTIVE"]
  /\ timers = [g \in Games |-> 0]
  /\ game = [r \in Rounds |-> 0]
  /\ at = [r \in Rounds |-> "NONE"]
  /\ closed = {}
  /\ counts = [r \in Rounds |-> 0]
  /\ seen = [r \in Rounds |-> 0]
  /\ main = "SERVING"

-----------------------------------------------------------------------------
(* GameService.                                                            *)

\* StartGame replaces the session by one without a RoundState.  Its check of
\* the room's status lies far before, so a session may be there already.
StartGame ==
  /\ games < MaxGames
  /\ games' = games + 1
  /\ session' = games + 1
  /\ round' = 0
  /\ UNCHANGED <<started, game, tickVars, timers, at, closed, main>>

\* ResetGame drops the session.  No ticker is stopped.
ResetGame ==
  /\ session # 0
  /\ session' = 0 /\ round' = 0
  /\ UNCHANGED <<games, started, game, tickVars, timers, at, closed, main>>

-----------------------------------------------------------------------------
(* StartRound and startTimer.                                              *)

\* StartRound up to the call of startTimer: a new RoundState with all its time.
StartRound ==
  LET r == started + 1 IN
  /\ session # 0
  /\ started < MaxRounds
  /\ started' = r
  /\ round' = r
  /\ remaining' = [remaining EXCEPT ![r] = Duration]
  /\ game' = [game EXCEPT ![r] = session]
  /\ at' = [at EXCEPT ![r] = "STOP"]
  /\ UNCHANGED <<session, games, phase, counts, seen, timers, closed, main>>

\* Mutant of StopTimer: the entry of the stopped ticker is kept.
StopTimerKeepsEntry(g) ==
  /\ closed' = IF timers[g] = 0 THEN closed ELSE closed \cup {timers[g]}
  /\ UNCHANGED timers

\* stopTimer: the ticker registered for game g is told to stop and forgotten.
StopTimer(g) ==
  /\ closed' = IF timers[g] = 0 THEN closed ELSE closed \cup {timers[g]}
  /\ timers' = [timers EXCEPT ![g] = 0]

\* startTimer of call r stops the ticker of its game, under rm.mu.
StartTimerStops(r) ==
  /\ at[r] = "STOP" /\ main # "CLEANUP"
  /\ StopTimer(game[r])
  /\ at' = [at EXCEPT ![r] = "REGISTER"]
  /\ UNCHANGED <<roomVars, tickVars, main>>

\* startTimer takes rm.mu again, registers its ticker and starts it.  A ticker
\* registered meanwhile is overwritten.
StartTimerRegisters(r) ==
  /\ at[r] = "REGISTER" /\ main # "CLEANUP"
  /\ timers' = [timers EXCEPT ![game[r]] = r]
  /\ at' = [at EXCEPT ![r] = "WAIT"]
  /\ UNCHANGED <<roomVars, tickVars, closed, main>>

-----------------------------------------------------------------------------
(* The ticker.                                                             *)

\* Mutant of TickerStops: stopChan is only looked at before the first tick.
TickerStopsAtFirst(r) ==
  /\ at[r] = "WAIT" /\ r \in closed /\ counts[r] = 0
  /\ at' = [at EXCEPT ![r] = "GONE"]
  /\ UNCHANGED <<roomVars, tickVars, timers, closed, main>>

\* The ticker receives from stopChan and returns.
TickerStops(r) ==
  /\ at[r] = "WAIT" /\ r \in closed
  /\ at' = [at EXCEPT ![r] = "GONE"]
  /\ UNCHANGED <<roomVars, tickVars, timers, closed, main>>

\* Mutant of TickFails: a ticker also ends once its own round was replaced.
TickFailsReplaced(r) ==
  /\ at[r] = "WAIT" /\ round # r
  /\ at' = [at EXCEPT ![r] = "GONE"]
  /\ UNCHANGED <<roomVars, tickVars, timers, closed, main>>

\* tickTimer of a room without a round: the error ends the ticker.
TickFails(r) ==
  /\ at[r] = "WAIT" /\ round = 0
  /\ at' = [at EXCEPT ![r] = "GONE"]
  /\ UNCHANGED <<roomVars, tickVars, timers, closed, main>>

\* tickTimer finds time left in the round the room is in.  (A round without
\* time left is left alone.)
TickChecks(r) ==
  /\ at[r] = "WAIT" /\ round # 0
  /\ remaining[round] > 0
  /\ counts' = [counts EXCEPT ![r] = round]
  /\ seen' = [seen EXCEPT ![r] = remaining[round]]
  /\ at' = [at EXCEPT ![r] = "COUNT"]
  /\ UNCHANGED <<roomVars, remaining, phase, timers, closed, main>>

\* tickTimer takes a second off.  The field is shared without a lock: the
\* write may use the value just read or the one there is now.
TickCounts(r) ==
  /\ at[r] = "COUNT"
  /\ \E left \in {seen[r] - 1, remaining[counts[r]] - 1} :
       remaining' = [remaining EXCEPT ![counts[r]] = left]
  /\ at' = [at EXCEPT ![r] = "EXPIRE"]
  /\ UNCHANGED <<roomVars, phase, counts, seen, timers, closed, main>>

\* Mutant of TickExpires: the end of the round is looked for a second late.
TickExpiresLate(r) ==
  /\ at[r] = "EXPIRE"
  /\ phase' = IF remaining[counts[r]] = -1
              THEN [phase EXCEPT ![counts[r]] = "SELECTING"] ELSE phase
  /\ at' = [at EXCEPT ![r] = "WAIT"]
  /\ UNCHANGED <<roomVars, remaining, counts, seen, timers, closed, main>>

\* tickTimer, after the TIMER_TICK broadcast, reads the time once more: at 0
\* the round goes to SELECTING.
TickExpires(r) ==
  /\ at[r] = "EXPIRE"
  /\ phase' = IF remaining[counts[r]] = 0
              THEN [phase EXCEPT ![counts[r]] = "SELECTING"] ELSE phase
  /\ at' = [at EXCEPT ![r] = "WAIT"]
  /\ UNCHANGED <<roomVars, remaining, counts, seen, timers, closed, main>>

-----------------------------------------------------------------------------
(* Shutdown.                                                               *)

\* A signal arrives and Cleanup takes rm.mu.
Shutdown ==
  /\ main = "SERVING"
  /\ main' = "CLEANUP"
  /\ UNCHANGED <<roomVars, tickVars, timers, at, closed>>

\* Cleanup calls stopTimer for each entry, which waits for the lock Cleanup
\* holds: only with an empty map does it return.  The server then exits within
\* five seconds, in which requests and tickers may go on.
CleanupReturns ==
  /\ main = "CLEANUP"
  /\ \A g \in Games : timers[g] = 0
  /\ main' = "EXITED"
  /\ UNCHANGED <<roomVars, tickVars, timers, at, closed>>

-----------------------------------------------------------------------------
TickerStep(r) ==
  \/ StartTimerStops(r)
  \/ StartTimerRegisters(r)
  \/ TickerStops(r)
  \/ TickFails(r)
  \/ TickChecks(r)
  \/ TickCounts(r)
  \/ TickExpires(r)

Next ==
  \/ StartGame
  \/ ResetGame
  \/ StartRound
  \/ \E r \in Rounds : TickerStep(r)
  \/ Shutdown
  \/ CleanupReturns

Spec == Init /\ [][Next]_vars

\* Calls under way are scheduled, tickers fire, Cleanup runs on; when a
\* ticker is told to stop while it ticks, select takes that branch in the end.
Fairness ==
  /\ \A r \in Rounds :
       /\ WF_vars(StartTimerStops(r)) /\ WF_vars(StartTimerRegisters(r))
       /\ SF_vars(TickerStops(r))
       /\ WF_vars(TickFails(r) \/ TickChecks(r))
       /\ WF_vars(TickCounts(r)) /\ WF_vars(TickExpires(r))
  /\ WF_vars(CleanupReturns)

FairSpec == Spec /\ Fairness

-----------------------------------------------------------------------------
(* Properties.                                                             *)

\* Every variable keeps to the values of the code; names of rounds, games and
\* tickers refer to ones that were made.
TypeOK ==
  /\ session \in 0 .. games /\ games \in 0 .. MaxGames
  /\ round \in 0 .. started /\ started \in 0 .. MaxRounds
  /\ remaining \in [Rounds -> Int]
  /\ phase \in [Rounds -> {"ACTIVE", "SELECTING"}]
  /\ timers \in [Games -> 0 .. MaxRounds]
  /\ game \in [Rounds -> 0 .. MaxGames]
  /\ at \in [Rounds -> Places]
  /\ closed \subseteq Rounds
  /\ counts \in [Rounds -> 0 .. MaxRounds]
  /\ seen \in [Rounds -> Int]
  /\ main \in {"SERVING", "CLEANUP", "EXITED"}

\* A ticker registered in rm.timers belongs to that game and its stopChan is
\* still open, so stopTimer never closes a channel twice, whichever startTimer
\* calls overwrite each other's entries.
RegisteredIsOpen ==
  \A g \in Games : timers[g] # 0 => game[timers[g]] = g /\ timers[g] \notin closed

\* A room in a round always has a ticker of its own game, or a StartRound call
\* about to start one: concurrent calls that stop each other's tickers, and
\* tickers that die in a reset room, never leave a round without a countdown.
RoundHasTicker ==
  round # 0 =>
    \E r \in Rounds : game[r] = session /\ (at[r] \in Starting \/ r \in Running)

\* Two tickers are in the middle of a tick of the same round.
TicksCollide(n) ==
  \E r, s \in Rounds :
    /\ r # s /\ counts[r] = n /\ counts[s] = n
    /\ at[r] \in {"COUNT", "EXPIRE"} /\ at[s] \in {"COUNT", "EXPIRE"}

\* While the server serves, a round with time left that is not replaced reaches
\* SELECTING, however many tickers count it down, unless two ticks collide.
TimeRunsOut ==
  \A r \in Rounds :
    (round = r /\ remaining[r] > 0)
             ~> (\/ round # r \/ phase[r] = "SELECTING"
                 \/ main # "SERVING" \/ TicksCollide(r))

\* A ticker that was told to stop stops, even if it was in the middle of a tick.
StoppedTickerEnds ==
  \A r \in Rounds : r \in closed ~> (at[r] = "GONE" \/ main = "EXITED")

=============================================================================
