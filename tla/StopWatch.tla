---- MODULE StopWatch ----
(* vu::ScopeStopWatchX around its vu::StopWatch: measured from the constructor to *)
(* the destructor, with laps, log lines and resets between. std::clock() may be 0 *)
(* when a program starts, and a message takes time of its own.                    *)
EXTENDS Integers, Sequences

CONSTANTS MaxClock,  \* bound on the clock
          MaxLaps    \* bound on the periods kept

ASSUME StopWatchAssumption == MaxClock \in Nat /\ MaxLaps \in Nat

VARIABLES clock,     \* std::clock()
          watch,     \* m_count, m_delta, m_delta_history
          scope,     \* "none", "running", "logging" or "ended"; m_activated
          reported,  \* the duration last given to m_fn_logging
          elapsed,   \* ticks since the last reset, those of log lines left out
          unseen     \* the ticks of them while m_count was 0

stopWatchVars == <<clock, watch, scope, reported, elapsed, unseen>>

Watch == [count |-> 0, delta |-> 0, history |-> <<>>]

StopWatchInit ==
  /\ clock = 0
  /\ watch = Watch
  /\ scope = [at |-> "none", activated |-> TRUE]
  /\ reported = 0 /\ elapsed = 0 /\ unseen = 0

\* StopWatch::start(reset)
Start(w, reset) == [w EXCEPT !.count = clock, !.history = IF reset THEN <<>> ELSE @]

StopWithoutDelta(w) == IF w.count = 0 THEN w ELSE [w EXCEPT !.history = Append(@, w.delta)]

\* StopWatch::stop: a count of 0 is taken for a watch that was never started.
Stop(w) ==
  IF w.count = 0 THEN w
  ELSE [w EXCEPT !.delta = clock - w.count, !.history = Append(@, clock - w.count)]

Accumulated(s) ==
  LET sum[n \in 0..Len(s)] == IF n = 0 THEN 0 ELSE sum[n - 1] + s[n] IN sum[Len(s)]

\* StopWatch::total
Total(w) == Accumulated(w.history)

\* The clock moves on; a period is measured unless a line is being logged.
Tick ==
  /\ clock < MaxClock
  /\ clock' = clock + 1
  /\ elapsed' = elapsed + (IF scope.at = "running" THEN 1 ELSE 0)
  /\ unseen' = unseen + (IF scope.at = "running" /\ watch.count = 0 THEN 1 ELSE 0)
  /\ UNCHANGED <<watch, scope, reported>>

\* The constructor starts the watch.
EnterScope ==
  /\ scope.at = "none"
  /\ watch' = Start(watch, TRUE)
  /\ scope' = [scope EXCEPT !.at = "running"]
  /\ UNCHANGED <<clock, reported, elapsed, unseen>>

\* active(state)
Activate(state) ==
  /\ scope.at = "running"
  /\ scope' = [scope EXCEPT !.activated = state]
  /\ UNCHANGED <<clock, watch, reported, elapsed, unseen>>

RoomForLap == Len(watch.history) < MaxLaps

\* reset(): the period that ends goes with the history.
ResetWatch ==
  /\ scope.at = "running"
  /\ watch' = Start(Stop(watch), TRUE)
  /\ elapsed' = 0 /\ unseen' = 0
  /\ UNCHANGED <<clock, scope, reported>>

\* lap(): a period ends and the next begins at once.
Lap ==
  /\ scope.at = "running" /\ RoomForLap
  /\ watch' = Start(Stop(watch), FALSE)
  /\ UNCHANGED <<clock, scope, reported, elapsed, unseen>>

\* log(), as far as m_fn_logging: the period ends, and its duration is reported.
LogLine ==
  /\ scope.at = "running" /\ RoomForLap
  /\ watch' = Stop(watch)
  /\ scope' = [scope EXCEPT !.at = "logging"]
  /\ reported' = IF scope.activated THEN Stop(watch).delta ELSE reported
  /\ UNCHANGED <<clock, elapsed, unseen>>

\* log() after m_fn_logging has returned.
LogReturns ==
  /\ scope.at = "logging"
  /\ watch' = Start(watch, FALSE)
  /\ scope' = [scope EXCEPT !.at = "running"]
  /\ UNCHANGED <<clock, reported, elapsed, unseen>>

\* The destructor: the last period ends and the total is reported.
LeaveScope ==
  /\ scope.at = "running"
  /\ watch' = Stop(watch)
  /\ scope' = [scope EXCEPT !.at = "ended"]
  /\ reported' = IF scope.activated THEN Total(Stop(watch)) ELSE reported
  /\ UNCHANGED <<clock, elapsed, unseen>>

StopWatchNext ==
  \/ Tick \/ EnterScope \/ ResetWatch \/ Lap \/ LogLine \/ LogReturns \/ LeaveScope
  \/ \E state \in BOOLEAN : Activate(state)

StopWatchSpec == StopWatchInit /\ [][StopWatchNext]_stopWatchVars

StopWatchTypeOK ==
  /\ clock \in 0..MaxClock
  /\ watch \in [count : 0..MaxClock, delta : 0..MaxClock, history : Seq(0..MaxClock)]
  /\ scope \in [at : {"none", "running", "logging", "ended"}, activated : BOOLEAN]
  /\ reported \in 0..MaxClock
  /\ elapsed \in 0..MaxClock /\ unseen \in 0..elapsed

\* The total a scope reports is the time since its last reset, however many laps and
\* log lines cut it: no period is counted twice or lost, the time a log line takes is
\* left out, and only a watch started at clock 0 misses what it should measure.
TotalIsElapsed ==
  /\ scope.at = "ended" => Total(watch) = elapsed - unseen
  /\ scope.at = "ended" /\ scope.activated => reported = elapsed - unseen
====
