---------------------------- MODULE ValueProofs ----------------------------
(***************************************************************************)
(* Proofs about the wrappers that keep or carry data - a stop watch, a     *)
(* variant, a buffer, the bytes of a connection and of a file - and about  *)
(* the signal: for any number of them and data of any size.                *)
(***************************************************************************)
EXTENDS StopWatch, Variant, SocketStream, FileObject, ThreadSignal, MemoryBuffer, Maths,
        InductionLemmas, SequenceTheorems, TLAPS

-----------------------------------------------------------------------------
(* Folds of sequences *)

\* The sum of a sequence grows by the number that is appended.
LEMMA AccumulatedAppend ==
  ASSUME NEW s \in Seq(Int), NEW x \in Int
  PROVE  /\ Accumulated(<<>>) = 0
         /\ Accumulated(s) \in Int
         /\ Accumulated(Append(s, x)) = Accumulated(s) + x
<1> DEFINE step(t) == [c \in (1 .. Len(t)) \X Int |-> c[2] + t[c[1]]]
           sum(t) == CHOOSE f : f = [n \in 0 .. Len(t) |-> IF n = 0 THEN 0 ELSE f[n - 1] + t[n]]
<1>1. ASSUME NEW t \in Seq(Int), NEW g \in Recursion(Len(t), Int, 0, step(t))
      PROVE  Accumulated(t) = g[Len(t)]
  <2>1. /\ Len(t) \in Nat /\ g \in [0 .. Len(t) -> Int] /\ g[0] = 0
        /\ \A i \in 1 .. Len(t) : g[i] = g[i - 1] + t[i]
    <3>1. ASSUME NEW i \in 1 .. Len(t) PROVE g[i] = g[i - 1] + t[i]
      <4>1. i - 1 \in 0 .. Len(t) /\ g \in [0 .. Len(t) -> Int]
        BY <1>1 DEF Recursion
      <4>2. <<i, g[i - 1]>> \in (1 .. Len(t)) \X Int
        BY <4>1
      <4> QED
        BY <1>1, <4>2 DEF Recursion
    <3> QED
      BY <1>1, <3>1 DEF Recursion
  <2>2. g = [n \in 0 .. Len(t) |-> IF n = 0 THEN 0 ELSE g[n - 1] + t[n]]
    BY <2>1
  <2>3. sum(t) = [n \in 0 .. Len(t) |-> IF n = 0 THEN 0 ELSE sum(t)[n - 1] + t[n]]
    BY <2>2
  <2>4. Accumulated(t) = sum(t)[Len(t)]
    BY DEF Accumulated
  <2> HIDE DEF sum
  <2> DEFINE T == {i \in 0 .. Len(t) : sum(t)[i] = g[i]}
  <2>5. 0 \in T
    BY <2>1, <2>3
  <2>6. ASSUME NEW i \in 0 .. (Len(t) - 1), i \in T PROVE i + 1 \in T
    <3>1. i + 1 \in 1 .. Len(t) /\ i + 1 \in 0 .. Len(t) /\ i + 1 # 0 /\ (i + 1) - 1 = i
      BY <2>1
    <3>2. sum(t)[i + 1] = sum(t)[i] + t[i + 1]
      BY <2>3, <3>1
    <3>3. g[i + 1] = g[i] + t[i + 1]
      BY <2>1, <3>1
    <3> QED
      BY <2>6, <3>1, <3>2, <3>3
  <2>7. Len(t) \in T
    <3> HIDE DEF T
    <3>1. \A i \in 0 .. (Len(t) - 1) : i \in T => i + 1 \in T
      BY <2>6
    <3>2. \A i \in 0 .. Len(t) : i \in T
      BY <2>1, <2>5, <3>1, IntervalInduction
    <3> QED
      BY <2>1, <3>2
  <2> QED
    BY <2>4, <2>7
<1>2. ASSUME NEW t \in Seq(Int) PROVE \E g : g \in Recursion(Len(t), Int, 0, step(t))
  <2>1. Len(t) \in Nat /\ 0 \in Int /\ step(t) \in [(1 .. Len(t)) \X Int -> Int]
    OBVIOUS
  <2> HIDE DEF step
  <2> QED
    BY <2>1, IntervalRecursion, Zenon
<1> DEFINE u == Append(s, x)
<1>3. /\ u \in Seq(Int) /\ Len(u) = Len(s) + 1 /\ Len(s) \in Nat
      /\ u[Len(s) + 1] = x /\ \A i \in 1 .. Len(s) : u[i] = s[i]
  OBVIOUS
<1>4. PICK g : g \in Recursion(Len(u), Int, 0, step(u))
  BY <1>2, <1>3
<1> DEFINE h == [i \in 0 .. Len(s) |-> g[i]]
<1>5. g \in [0 .. Len(u) -> Int] /\ g[0] = 0 /\ \A i \in 1 .. Len(u) : g[i] = step(u)[<<i, g[i - 1]>>]
  BY <1>4 DEF Recursion
<1>6. \A i \in 1 .. Len(u) : g[i] = g[i - 1] + u[i]
  <2> TAKE i \in 1 .. Len(u)
  <2>1. i - 1 \in 0 .. Len(u)
    BY <1>3
  <2>2. <<i, g[i - 1]>> \in (1 .. Len(u)) \X Int
    BY <1>5, <2>1
  <2> QED
    BY <1>5, <2>2
<1>7. h \in Recursion(Len(s), Int, 0, step(s))
  <2>1. h \in [0 .. Len(s) -> Int] /\ h[0] = 0
    BY <1>3, <1>5
  <2>2. ASSUME NEW i \in 1 .. Len(s) PROVE h[i] = step(s)[<<i, h[i - 1]>>]
    <3>1. /\ i \in 0 .. Len(s) /\ i - 1 \in 0 .. Len(s) /\ i \in 1 .. Len(u)
      BY <1>3
    <3>2. h[i] = g[i] /\ h[i - 1] = g[i - 1] /\ g[i - 1] \in Int
      BY <1>3, <1>5, <3>1
    <3>3. step(s)[<<i, h[i - 1]>>] = h[i - 1] + s[i]
      BY <3>1, <3>2
    <3> QED
      BY <1>3, <1>6, <3>1, <3>2, <3>3
  <2> HIDE DEF h, step
  <2> QED
    BY <2>1, <2>2 DEF Recursion
<1>8. Accumulated(s) = g[Len(s)] /\ Accumulated(u) = g[Len(u)]
  <2>1. h[Len(s)] = g[Len(s)]
    BY <1>3
  <2> HIDE DEF h, step
  <2> QED
    BY <1>1, <1>3, <1>4, <1>7, <2>1
<1>9. Accumulated(<<>>) = 0
  <2>1. <<>> \in Seq(Int) /\ Len(<<>>) = 0
    OBVIOUS
  <2>2. PICK e : e \in Recursion(0, Int, 0, step(<<>>))
    BY <1>2, <2>1
  <2>3. e[0] = 0
    BY <2>2 DEF Recursion
  <2> HIDE DEF step
  <2> QED
    BY <1>1, <2>1, <2>2, <2>3
<1> QED
  <2>1. Len(s) \in 0 .. Len(u) /\ Len(u) \in 1 .. Len(u) /\ Len(u) - 1 = Len(s)
    BY <1>3
  <2> HIDE DEF u
  <2>2. g[Len(u)] = g[Len(s)] + x /\ g[Len(s)] \in Int
    BY <1>3, <1>5, <1>6, <2>1
  <2> QED
    BY <1>8, <1>9, <2>2 DEF u

-----------------------------------------------------------------------------
(* StopWatch *)

\* What the period under way has measured so far: nothing when the watch started at 0.
UnderWay == IF watch.count = 0 THEN 0 ELSE clock - watch.count

\* The history and the period under way measure what elapsed, whatever the scope does.
WatchMeasures ==
  /\ scope.at = "none" => elapsed - unseen = 0
  /\ scope.at = "running" => elapsed - unseen = Total(watch) + UnderWay
  /\ scope.at \in {"logging", "ended"} => elapsed - unseen = Total(watch)

StopWatchInv ==
  /\ StopWatchTypeOK
  /\ watch.count <= clock /\ elapsed <= clock
  /\ WatchMeasures
  /\ TotalIsElapsed

Watches == [count : 0 .. MaxClock, delta : 0 .. MaxClock, history : Seq(0 .. MaxClock)]

\* A stop puts the period under way into the history.
LEMMA StopKeepsTotal ==
  ASSUME watch \in Watches, clock \in 0 .. MaxClock, watch.count <= clock
  PROVE  /\ Stop(watch) \in Watches
         /\ Stop(watch).count = watch.count
         /\ Total(Stop(watch)) = Total(watch) + UnderWay
         /\ Total(watch) \in Int
<1>1. watch.history \in Seq(Int) /\ clock - watch.count \in 0 .. MaxClock /\ clock - watch.count \in Int
  <2>1. watch.history \in Seq(0 .. MaxClock) /\ 0 .. MaxClock \subseteq Int
    BY DEF Watches
  <2> QED
    BY <2>1, SeqMonotonic, StopWatchAssumption DEF Watches
<1>2. Total(watch) \in Int
  BY <1>1, AccumulatedAppend DEF Total
<1>3. CASE watch.count = 0
  BY <1>2, <1>3 DEF Stop, UnderWay
<1>4. CASE watch.count # 0
  <2> DEFINE longer == Append(watch.history, clock - watch.count)
  <2>1. Stop(watch) = [watch EXCEPT !.delta = clock - watch.count, !.history = longer]
    BY <1>4 DEF Stop
  <2>2. longer \in Seq(0 .. MaxClock)
    BY <1>1 DEF Watches
  <2> HIDE DEF longer
  <2>3. Stop(watch) \in Watches /\ Stop(watch).count = watch.count /\ Stop(watch).history = longer
    BY <2>1, <2>2, <1>1 DEF Watches
  <2>4. Accumulated(longer) = Accumulated(watch.history) + (clock - watch.count)
    BY <1>1, AccumulatedAppend DEF longer
  <2> QED
    BY <1>2, <1>4, <2>3, <2>4 DEF Total, UnderWay
<1> QED
  BY <1>3, <1>4

\* start with and without its reset.
Restarted(w) == [w EXCEPT !.count = clock, !.history = <<>>]
Continued(w) == [w EXCEPT !.count = clock, !.history = w.history]

\* A start begins a period that has measured nothing, and keeps the history or drops it.
LEMMA StartKeepsTotal ==
  ASSUME NEW w \in Watches, clock \in 0 .. MaxClock
  PROVE  /\ Restarted(w) \in Watches /\ Continued(w) \in Watches
         /\ Restarted(w).count = clock /\ Continued(w).count = clock
         /\ Total(Restarted(w)) = 0
         /\ Total(Continued(w)) = Total(w)
<1>1. <<>> \in Seq(0 .. MaxClock)
  OBVIOUS
<1>2. /\ Restarted(w) \in Watches /\ Continued(w) \in Watches
      /\ Restarted(w).count = clock /\ Continued(w).count = clock
      /\ Restarted(w).history = <<>> /\ Continued(w).history = w.history
  BY <1>1 DEF Restarted, Continued, Watches
<1>3. Accumulated(<<>>) = 0
  <2>1. <<>> \in Seq(Int) /\ 0 \in Int
    OBVIOUS
  <2> QED
    BY <2>1, AccumulatedAppend, Zenon
<1> QED
  BY <1>2, <1>3 DEF Total

\* A scope that has not begun has measured nothing.
LEMMA InitStopWatchInv == StopWatchInit => StopWatchInv
<1>1. <<>> \in Seq(0 .. MaxClock)
  OBVIOUS
<1> QED
  BY <1>1, StopWatchAssumption
  DEF StopWatchInit, StopWatchInv, StopWatchTypeOK, WatchMeasures, TotalIsElapsed, Watch

\* Ticks, laps, log lines and resets keep the sum.
LEMMA NextStopWatchInv == StopWatchInv /\ [StopWatchNext]_stopWatchVars => StopWatchInv'
<1> SUFFICES ASSUME StopWatchInv, [StopWatchNext]_stopWatchVars PROVE StopWatchInv'
  OBVIOUS
<1> DEFINE Scopes == [at : {"none", "running", "logging", "ended"}, activated : BOOLEAN]
<1>0. /\ watch \in Watches /\ clock \in 0 .. MaxClock /\ watch.count \in 0 .. clock
      /\ elapsed \in 0 .. clock /\ unseen \in 0 .. elapsed /\ reported \in 0 .. MaxClock
      /\ scope \in Scopes /\ MaxClock \in Nat
  BY StopWatchAssumption DEF StopWatchInv, StopWatchTypeOK, Watches
<1>a. /\ Stop(watch) \in Watches /\ Stop(watch).count = watch.count
      /\ Total(Stop(watch)) = Total(watch) + UnderWay /\ Total(watch) \in Int
  BY <1>0, StopKeepsTotal
<1>b. WatchMeasures /\ TotalIsElapsed
  BY DEF StopWatchInv
<1> HIDE DEF Scopes
\* The invariant after a step, from the parts of it that the step decides.
<1>c. ASSUME watch' \in Watches, clock' \in 0 .. MaxClock, watch'.count \in 0 .. clock',
             elapsed' \in 0 .. clock', unseen' \in 0 .. elapsed', reported' \in 0 .. MaxClock,
             scope' \in Scopes, WatchMeasures', TotalIsElapsed'
      PROVE  StopWatchInv'
  BY <1>c, <1>0 DEF StopWatchInv, StopWatchTypeOK, Watches, Scopes
<1>d. ASSUME clock' = clock, watch'.count = clock PROVE UnderWay' = 0
  <2>1. clock \in Int
    BY <1>0
  <2>2. clock' - watch'.count = 0
    BY <1>d, <2>1
  <2> QED
    BY <2>2 DEF UnderWay
<1>e. UnderWay \in Int
  BY <1>0 DEF UnderWay
<1>1. CASE Tick
  <2>1. clock < MaxClock /\ clock' = clock + 1 /\ watch' = watch /\ scope' = scope /\ reported' = reported
    BY <1>1 DEF Tick
  <2>2. CASE scope.at = "running"
    <3>1. elapsed' = elapsed + 1
      BY <1>1, <2>2 DEF Tick
    <3>2. CASE watch.count = 0
      <4>1. unseen' = unseen + 1
        BY <1>1, <2>2, <3>2 DEF Tick
      <4>2. elapsed' - unseen' = Total(watch) /\ Total(watch') = Total(watch) /\ UnderWay' = 0
        BY <1>0, <1>a, <1>b, <2>1, <2>2, <3>1, <3>2, <4>1 DEF WatchMeasures, UnderWay
      <4>3. WatchMeasures' /\ TotalIsElapsed'
        BY <1>a, <2>1, <2>2, <4>2 DEF WatchMeasures, TotalIsElapsed
      <4> QED
        BY <1>0, <1>c, <2>1, <3>1, <4>1, <4>3
    <3>3. CASE watch.count # 0
      <4>1. unseen' = unseen
        BY <1>0, <1>1, <2>2, <3>3 DEF Tick
      <4>2. UnderWay' = UnderWay + 1 /\ UnderWay \in Int
        BY <1>0, <2>1, <3>3 DEF UnderWay
      <4>3. elapsed - unseen = Total(watch) + UnderWay
        BY <1>b, <2>2 DEF WatchMeasures
      <4>4. elapsed' - unseen' = Total(watch) + UnderWay' /\ Total(watch') = Total(watch)
        BY <1>0, <1>a, <2>1, <3>1, <4>1, <4>2, <4>3
      <4>5. WatchMeasures' /\ TotalIsElapsed'
        BY <2>1, <2>2, <4>4 DEF WatchMeasures, TotalIsElapsed
      <4> QED
        BY <1>0, <1>c, <2>1, <3>1, <4>1, <4>5
    <3> QED
      BY <3>2, <3>3
  <2>3. CASE scope.at # "running"
    <3>1. elapsed' = elapsed /\ unseen' = unseen
      BY <1>0, <1>1, <2>3 DEF Tick
    <3>2. Total(watch') = Total(watch)
      BY <2>1
    <3>3. WatchMeasures' /\ TotalIsElapsed'
      BY <1>b, <2>1, <2>3, <3>1, <3>2 DEF WatchMeasures, TotalIsElapsed
    <3> QED
      BY <1>0, <1>c, <2>1, <3>1, <3>3
  <2> QED
    BY <2>2, <2>3
<1>2. CASE EnterScope
  <2>1. /\ scope.at = "none" /\ watch' = Restarted(watch)
        /\ scope' = [scope EXCEPT !.at = "running"]
        /\ clock' = clock /\ reported' = reported /\ elapsed' = elapsed /\ unseen' = unseen
    BY <1>2 DEF EnterScope, Start, Restarted
  <2>2. watch' \in Watches /\ watch'.count = clock /\ Total(watch') = 0
    BY <1>0, <2>1, StartKeepsTotal
  <2>3. scope' \in Scopes /\ scope'.at = "running"
    BY <1>0, <2>1 DEF Scopes
  <2>4. UnderWay' = 0
    BY <1>d, <2>1, <2>2
  <2>5. WatchMeasures' /\ TotalIsElapsed'
    BY <1>b, <2>1, <2>2, <2>3, <2>4 DEF WatchMeasures, TotalIsElapsed
  <2> QED
    BY <1>0, <1>c, <2>1, <2>2, <2>3, <2>5
<1>3. CASE ResetWatch
  <2>1. /\ scope.at = "running" /\ watch' = Restarted(Stop(watch))
        /\ scope' = scope /\ clock' = clock /\ reported' = reported /\ elapsed' = 0 /\ unseen' = 0
    BY <1>3 DEF ResetWatch, Start, Restarted
  <2>2. watch' \in Watches /\ watch'.count = clock /\ Total(watch') = 0
    <3> DEFINE stopped == Stop(watch)
    <3>1. stopped \in Watches /\ watch' = Restarted(stopped)
      BY <1>a, <2>1
    <3> HIDE DEF stopped
    <3> QED
      BY <1>0, <3>1, StartKeepsTotal
  <2>3. UnderWay' = 0
    BY <1>d, <2>1, <2>2
  <2>4. WatchMeasures' /\ TotalIsElapsed'
    BY <2>1, <2>2, <2>3 DEF WatchMeasures, TotalIsElapsed
  <2> QED
    BY <1>0, <1>c, <2>1, <2>2, <2>4
<1>4. CASE Lap
  <2>1. /\ scope.at = "running" /\ watch' = Continued(Stop(watch))
        /\ scope' = scope /\ clock' = clock /\ reported' = reported /\ elapsed' = elapsed /\ unseen' = unseen
    BY <1>4 DEF Lap, Start, Continued
  <2>2. watch' \in Watches /\ watch'.count = clock /\ Total(watch') = Total(watch) + UnderWay
    <3> DEFINE stopped == Stop(watch)
    <3>1. stopped \in Watches /\ watch' = Continued(stopped) /\ Total(stopped) = Total(watch) + UnderWay
      BY <1>a, <2>1
    <3> HIDE DEF stopped
    <3> QED
      BY <1>0, <3>1, StartKeepsTotal
  <2>3. UnderWay' = 0
    BY <1>d, <2>1, <2>2
  <2>4. WatchMeasures' /\ TotalIsElapsed'
    BY <1>a, <1>b, <1>e, <2>1, <2>2, <2>3 DEF WatchMeasures, TotalIsElapsed
  <2> QED
    BY <1>0, <1>c, <2>1, <2>2, <2>4
<1>5. CASE LogLine
  <2>1. /\ scope.at = "running" /\ watch' = Stop(watch)
        /\ scope' = [scope EXCEPT !.at = "logging"]
        /\ clock' = clock /\ elapsed' = elapsed /\ unseen' = unseen
        /\ reported' = IF scope.activated THEN Stop(watch).delta ELSE reported
    BY <1>5 DEF LogLine
  <2>2. scope' \in Scopes /\ scope'.at = "logging"
    BY <1>0, <2>1 DEF Scopes
  <2>3. reported' \in 0 .. MaxClock
    BY <1>0, <1>a, <2>1 DEF Watches
  <2>4. WatchMeasures' /\ TotalIsElapsed'
    <3>1. elapsed' - unseen' = Total(watch')
      BY <1>a, <1>b, <2>1 DEF WatchMeasures
    <3> QED
      BY <2>2, <3>1 DEF WatchMeasures, TotalIsElapsed
  <2> QED
    BY <1>0, <1>a, <1>c, <2>1, <2>2, <2>3, <2>4
<1>6. CASE LogReturns
  <2>1. /\ scope.at = "logging" /\ watch' = Continued(watch)
        /\ scope' = [scope EXCEPT !.at = "running"]
        /\ clock' = clock /\ reported' = reported /\ elapsed' = elapsed /\ unseen' = unseen
    BY <1>6 DEF LogReturns, Start, Continued
  <2>2. watch' \in Watches /\ watch'.count = clock /\ Total(watch') = Total(watch)
    BY <1>0, <2>1, StartKeepsTotal
  <2>3. scope' \in Scopes /\ scope'.at = "running"
    BY <1>0, <2>1 DEF Scopes
  <2>4. UnderWay' = 0
    BY <1>d, <2>1, <2>2
  <2>5. WatchMeasures' /\ TotalIsElapsed'
    BY <1>a, <1>b, <2>1, <2>2, <2>3, <2>4 DEF WatchMeasures, TotalIsElapsed
  <2> QED
    BY <1>0, <1>c, <2>1, <2>2, <2>3, <2>5
<1>7. CASE LeaveScope
  <2>1. /\ scope.at = "running" /\ watch' = Stop(watch)
        /\ scope' = [scope EXCEPT !.at = "ended"]
        /\ clock' = clock /\ elapsed' = elapsed /\ unseen' = unseen
        /\ reported' = IF scope.activated THEN Total(Stop(watch)) ELSE reported
    BY <1>7 DEF LeaveScope
  <2>2. scope' \in Scopes /\ scope'.at = "ended" /\ scope'.activated = scope.activated
    BY <1>0, <2>1 DEF Scopes
  <2>3. elapsed' - unseen' = Total(watch')
    BY <1>a, <1>b, <2>1 DEF WatchMeasures
  <2>4. reported' \in 0 .. MaxClock
    <3>1. Total(Stop(watch)) \in 0 .. MaxClock
      BY <1>0, <2>1, <2>3
    <3> QED
      BY <1>0, <2>1, <3>1
  <2>5. WatchMeasures'
    BY <2>2, <2>3 DEF WatchMeasures
  <2>6. TotalIsElapsed'
    <3>1. scope.activated => reported' = Total(watch')
      BY <2>1
    <3> QED
      BY <2>2, <2>3, <3>1 DEF TotalIsElapsed
  <2> QED
    BY <1>0, <1>a, <1>c, <2>1, <2>2, <2>4, <2>5, <2>6
<1>8. ASSUME NEW state \in BOOLEAN, Activate(state) PROVE StopWatchInv'
  <2>1. /\ scope.at = "running" /\ scope' = [scope EXCEPT !.activated = state]
        /\ clock' = clock /\ watch' = watch /\ reported' = reported
        /\ elapsed' = elapsed /\ unseen' = unseen
    BY <1>8 DEF Activate
  <2>2. scope' \in Scopes /\ scope'.at = "running"
    BY <1>0, <2>1 DEF Scopes
  <2>3. Total(watch') = Total(watch) /\ UnderWay' = UnderWay
    BY <2>1 DEF UnderWay
  <2>4. WatchMeasures' /\ TotalIsElapsed'
    BY <1>b, <2>1, <2>2, <2>3 DEF WatchMeasures, TotalIsElapsed
  <2> QED
    BY <1>0, <1>c, <2>1, <2>2, <2>4
<1>9. CASE UNCHANGED stopWatchVars
  <2>1. /\ scope' = scope /\ clock' = clock /\ watch' = watch /\ reported' = reported
        /\ elapsed' = elapsed /\ unseen' = unseen
    BY <1>9 DEF stopWatchVars
  <2>2. WatchMeasures' /\ TotalIsElapsed'
    BY <1>b, <2>1 DEF WatchMeasures, TotalIsElapsed, UnderWay, Total
  <2> QED
    BY <1>0, <1>c, <2>1, <2>2
<1> QED
  BY <1>1, <1>2, <1>3, <1>4, <1>5, <1>6, <1>7, <1>8, <1>9 DEF StopWatchNext

\* However many laps and log lines cut a scope, the total it reports is the time since its
\* last reset, for any length of the scope and any number of periods.
THEOREM TotalMeasured == StopWatchSpec => []TotalIsElapsed
<1>1. StopWatchInv => TotalIsElapsed
  BY DEF StopWatchInv
<1> QED
  BY <1>1, InitStopWatchInv, NextStopWatchInv, PTL DEF StopWatchSpec

\* The stop watch and its scope keep their types.
THEOREM StopWatchTyped == StopWatchSpec => []StopWatchTypeOK
<1>1. StopWatchInv => StopWatchTypeOK
  BY DEF StopWatchInv
<1> QED
  BY <1>1, InitStopWatchInv, NextStopWatchInv, PTL DEF StopWatchSpec

-----------------------------------------------------------------------------
(* ThreadSignal *)

\* The threads inside wait() of a signal are those the signal keeps for it.
WaitersListed ==
  \A u \in SignalThreads, s \in Signals :
    u \in signalWaits[s] <=> signalThread[u].doing = "wait" /\ signalThread[u].of = s

\* Nobody waits for an event that is up: wait() answers at once, and set() releases all.
UpHasNoWaiters == \A s \in Signals : signalUp[s] => signalWaits[s] = {}

SignalInv == SignalTypeOK /\ WaitersListed /\ UpHasNoWaiters

SignalRecords == [doing : {"rest", "wait", "answered", "assign"}, value : BOOLEAN, of : Signals]

\* The step the property is about: it holds of a step that leaves the invariant true and
\* answers TRUE only for a signal that is up.
AnswersConsumeNothing ==
  \A t \in SignalThreads :
       LET new == signalThread'[t] IN
       signalThread[t].doing # "answered" /\ new.doing = "answered" /\ new.value
         => signalUp'[new.of] /\ \A u \in SignalThreads : ~(signalThread'[u].doing = "wait"
                                                            /\ signalThread'[u].of = new.of)

LEMMA InitSignalInv == SignalInit => SignalInv
<1> SUFFICES ASSUME SignalInit PROVE SignalInv
  OBVIOUS
<1>1. (CHOOSE s \in Signals : TRUE) \in Signals
  BY SignalAssumption
<1>2. Resting \in SignalRecords /\ Resting.doing = "rest"
  BY <1>1 DEF Resting, SignalRecords
<1>3. /\ signalUp \in [Signals -> BOOLEAN]
      /\ signalWaits = [s \in Signals |-> {}]
      /\ signalThread = [t \in SignalThreads |-> Resting]
  BY DEF SignalInit
<1>4. SignalTypeOK
  BY <1>2, <1>3 DEF SignalTypeOK, SignalRecords
<1>5. WaitersListed
  <2>1. ASSUME NEW u \in SignalThreads, NEW s \in Signals
        PROVE  u \notin signalWaits[s] /\ signalThread[u].doing # "wait"
    BY <1>2, <1>3
  <2> QED
    BY <2>1 DEF WaitersListed
<1>6. UpHasNoWaiters
  BY <1>3 DEF UpHasNoWaiters
<1> QED
  BY <1>4, <1>5, <1>6 DEF SignalInv

\* set(), and the second half of an assignment by t: a signal goes up and releases its
\* waiters, or goes down; t, if it is not one of them, rests.
LEMMA SettingKeeps ==
  ASSUME SignalInv, NEW s \in Signals, NEW value \in BOOLEAN, NEW resting \in SUBSET SignalThreads,
         \A t \in resting : signalThread[t].doing # "wait",
         signalUp' = [signalUp EXCEPT ![s] = value],
         signalWaits' = [signalWaits EXCEPT ![s] = IF value THEN {} ELSE @],
         signalThread' = [u \in SignalThreads |->
           IF u \in resting THEN Resting
           ELSE IF value /\ u \in signalWaits[s] THEN Answered(TRUE, s) ELSE signalThread[u]]
  PROVE  SignalInv' /\ AnswersConsumeNothing
<1>0. /\ signalUp \in [Signals -> BOOLEAN]
      /\ signalWaits \in [Signals -> SUBSET SignalThreads]
      /\ signalThread \in [SignalThreads -> SignalRecords]
  BY DEF SignalInv, SignalTypeOK, SignalRecords
<1>1. Resting \in SignalRecords /\ Resting.doing = "rest"
  BY SignalAssumption DEF Resting, SignalRecords
<1> DEFINE released == [doing |-> "answered", value |-> TRUE, of |-> s]
<1>2. released \in SignalRecords /\ released.doing = "answered" /\ released.of = s
  BY DEF SignalRecords
<1>3. \A u \in SignalThreads :
        /\ u \in resting => signalThread'[u] = Resting
        /\ u \notin resting /\ value /\ u \in signalWaits[s] => signalThread'[u] = released
        /\ u \notin resting /\ ~(value /\ u \in signalWaits[s]) => signalThread'[u] = signalThread[u]
  BY DEF Answered
<1> HIDE DEF released
<1>4. signalThread' \in [SignalThreads -> SignalRecords]
  <2>1. \A u \in SignalThreads : signalThread'[u] \in SignalRecords
    BY <1>0, <1>1, <1>2, <1>3
  <2>2. DOMAIN signalThread' = SignalThreads /\ signalThread' = [u \in SignalThreads |-> signalThread'[u]]
    OBVIOUS
  <2> QED
    BY <2>1, <2>2
<1>5. signalWaits' \in [Signals -> SUBSET SignalThreads] /\ signalUp' \in [Signals -> BOOLEAN]
  BY <1>0
<1>6. WaitersListed'
  <2> SUFFICES ASSUME NEW u \in SignalThreads, NEW r \in Signals
               PROVE  u \in signalWaits'[r] <=> signalThread'[u].doing = "wait" /\ signalThread'[u].of = r
    BY DEF WaitersListed
  <2>1. u \in signalWaits[r] <=> signalThread[u].doing = "wait" /\ signalThread[u].of = r
    BY DEF SignalInv, WaitersListed
  <2>2. u \in signalWaits[s] <=> signalThread[u].doing = "wait" /\ signalThread[u].of = s
    BY DEF SignalInv, WaitersListed
  <2>3. signalWaits'[r] = IF r = s /\ value THEN {} ELSE signalWaits[r]
    BY <1>0
  <2>0. signalWaits'[r] \subseteq signalWaits[r]
    BY <2>3
  <2>4. CASE u \in resting
    <3>1. signalThread'[u].doing # "wait"
      BY <1>1, <1>3, <2>4
    <3>2. u \notin signalWaits[r]
      BY <2>1, <2>4
    <3> QED
      BY <2>0, <3>1, <3>2
  <2>5. CASE u \notin resting /\ value /\ u \in signalWaits[s]
    <3>1. signalThread'[u].doing # "wait"
      BY <1>2, <1>3, <2>5
    <3>2. u \notin signalWaits'[r]
      <4>1. CASE r = s
        BY <2>3, <2>5, <4>1
      <4>2. CASE r # s
        BY <2>0, <2>1, <2>2, <2>5, <4>2
      <4> QED
        BY <4>1, <4>2
    <3> QED
      BY <3>1, <3>2
  <2>6. CASE u \notin resting /\ ~(value /\ u \in signalWaits[s])
    <3>1. signalThread'[u] = signalThread[u]
      BY <1>3, <2>6
    <3>2. u \in signalWaits'[r] <=> u \in signalWaits[r]
      <4>1. CASE r = s /\ value
        <5>1. u \notin signalWaits[r]
          BY <2>6, <4>1
        <5> QED
          BY <2>0, <5>1
      <4>2. CASE ~(r = s /\ value)
        <5>1. signalWaits'[r] = signalWaits[r]
          BY <2>3, <4>2
        <5> QED
          BY <5>1
      <4> QED
        BY <4>1, <4>2
    <3> QED
      BY <2>1, <3>1, <3>2
  <2> QED
    BY <2>4, <2>5, <2>6
<1>7. UpHasNoWaiters'
  <2> SUFFICES ASSUME NEW r \in Signals, signalUp'[r] PROVE signalWaits'[r] = {}
    BY DEF UpHasNoWaiters
  <2>1. CASE r = s
    BY <1>0, <2>1
  <2>2. CASE r # s
    BY <1>0, <2>2 DEF SignalInv, UpHasNoWaiters
  <2> QED
    BY <2>1, <2>2
<1>8. SignalInv'
  BY <1>4, <1>5, <1>6, <1>7 DEF SignalInv, SignalTypeOK, SignalRecords
<1>9. AnswersConsumeNothing
  <2> SUFFICES ASSUME NEW t \in SignalThreads, signalThread[t].doing # "answered",
                      signalThread'[t].doing = "answered"
               PROVE  /\ signalUp'[signalThread'[t].of]
                      /\ \A u \in SignalThreads : ~(signalThread'[u].doing = "wait"
                                                    /\ signalThread'[u].of = signalThread'[t].of)
    BY DEF AnswersConsumeNothing
  <2>1. value /\ signalThread'[t].of = s
    BY <1>1, <1>2, <1>3
  <2>2. signalUp'[s]
    <3>1. signalUp'[s] = value
      BY <1>0
    <3> QED
      BY <2>1, <3>1, Zenon
  <2>3. signalWaits'[s] = {}
    BY <1>0, <2>1
  <2>4. ASSUME NEW u \in SignalThreads PROVE ~(signalThread'[u].doing = "wait" /\ signalThread'[u].of = s)
    BY <1>6, <2>3 DEF WaitersListed
  <2> QED
    BY <2>1, <2>2, <2>4, Zenon
<1> QED
  BY <1>8, <1>9

\* Every other step answers FALSE, or TRUE for a signal that is up.
LEMMA NextSignalInv ==
  SignalInv /\ [SignalNext]_signalVars => SignalInv' /\ (AnswersConsumeNothing \/ UNCHANGED signalVars)
<1> SUFFICES ASSUME SignalInv, [SignalNext]_signalVars
             PROVE  SignalInv' /\ (AnswersConsumeNothing \/ UNCHANGED signalVars)
  OBVIOUS
<1>0. /\ signalUp \in [Signals -> BOOLEAN]
      /\ signalWaits \in [Signals -> SUBSET SignalThreads]
      /\ signalThread \in [SignalThreads -> SignalRecords]
  BY DEF SignalInv, SignalTypeOK, SignalRecords
<1>1. Resting \in SignalRecords /\ Resting.doing = "rest"
  BY SignalAssumption DEF Resting, SignalRecords
<1>2. ASSUME NEW t \in SignalThreads, NEW s \in Signals, NEW value \in BOOLEAN, Set(t, s, value)
      PROVE  SignalInv' /\ AnswersConsumeNothing
  <2>1. signalThread' = [u \in SignalThreads |->
           IF u \in {} THEN Resting
           ELSE IF value /\ u \in signalWaits[s] THEN Answered(TRUE, s) ELSE signalThread[u]]
    BY <1>2 DEF Set, SetState
  <2>2. /\ signalUp' = [signalUp EXCEPT ![s] = value]
        /\ signalWaits' = [signalWaits EXCEPT ![s] = IF value THEN {} ELSE @]
    BY <1>2 DEF Set, SetState
  <2>3. {} \in SUBSET SignalThreads /\ \A u \in {} : signalThread[u].doing # "wait"
    OBVIOUS
  <2> QED
    BY <2>1, <2>2, <2>3, SettingKeeps, Zenon
<1>3. ASSUME NEW t \in SignalThreads, NEW s \in Signals, AssignRead(t, s)
      PROVE  SignalInv' /\ AnswersConsumeNothing
  <2> DEFINE value == signalThread[t].value
  <2>1. signalThread' = [u \in SignalThreads |->
           IF u \in {t} THEN Resting
           ELSE IF value /\ u \in signalWaits[s] THEN Answered(TRUE, s) ELSE signalThread[u]]
    BY <1>3 DEF AssignRead
  <2>2. /\ signalUp' = [signalUp EXCEPT ![s] = value]
        /\ signalWaits' = [signalWaits EXCEPT ![s] = IF value THEN {} ELSE @]
    BY <1>3 DEF AssignRead
  <2>3. {t} \in SUBSET SignalThreads /\ (\A u \in {t} : signalThread[u].doing # "wait") /\ value \in BOOLEAN
    BY <1>0, <1>3 DEF AssignRead, SignalRecords
  <2> HIDE DEF value
  <2> QED
    BY <2>1, <2>2, <2>3, SettingKeeps, Zenon
\* A step of one thread that leaves the signals as they are.
<1>4. ASSUME NEW t \in SignalThreads, NEW record \in SignalRecords,
             signalUp' = signalUp,
             signalThread' = [signalThread EXCEPT ![t] = record],
             signalWaits' \in [Signals -> SUBSET SignalThreads],
             \A s \in Signals : /\ signalWaits'[s] \ {t} = signalWaits[s] \ {t}
                                /\ t \in signalWaits'[s] <=> record.doing = "wait" /\ record.of = s,
             record.doing = "wait" => ~signalUp[record.of],
             record.doing = "answered" /\ record.value => signalUp[record.of]
      PROVE  SignalInv' /\ AnswersConsumeNothing
  <2>1. /\ signalThread' \in [SignalThreads -> SignalRecords]
        /\ signalThread'[t] = record
        /\ \A u \in SignalThreads \ {t} : signalThread'[u] = signalThread[u]
    BY <1>0, <1>4
  <2>2. SignalTypeOK'
    BY <1>0, <1>4, <2>1 DEF SignalTypeOK, SignalRecords
  <2>3. WaitersListed'
    <3> SUFFICES ASSUME NEW u \in SignalThreads, NEW r \in Signals
                 PROVE  u \in signalWaits'[r] <=> signalThread'[u].doing = "wait" /\ signalThread'[u].of = r
      BY DEF WaitersListed
    <3>1. CASE u = t
      BY <1>4, <2>1, <3>1
    <3>2. CASE u # t
      <4>1. u \in signalWaits'[r] <=> u \in signalWaits[r]
        BY <1>4, <3>2
      <4>2. signalThread'[u] = signalThread[u]
        BY <2>1, <3>2
      <4>3. u \in signalWaits[r] <=> signalThread[u].doing = "wait" /\ signalThread[u].of = r
        BY DEF SignalInv, WaitersListed
      <4> QED
        BY <4>1, <4>2, <4>3
    <3> QED
      BY <3>1, <3>2
  <2>4. UpHasNoWaiters'
    <3> SUFFICES ASSUME NEW r \in Signals, signalUp[r], NEW u \in signalWaits'[r] PROVE FALSE
      BY <1>4 DEF UpHasNoWaiters
    <3>1. signalWaits[r] = {}
      BY DEF SignalInv, UpHasNoWaiters
    <3>2. u = t
      BY <1>4, <3>1
    <3>3. record.doing = "wait" /\ record.of = r
      BY <1>4, <3>2
    <3> QED
      BY <1>4, <3>3
  <2>5. AnswersConsumeNothing
    <3> SUFFICES ASSUME NEW v \in SignalThreads, signalThread[v].doing # "answered",
                        signalThread'[v].doing = "answered", signalThread'[v].value
                 PROVE  /\ signalUp'[signalThread'[v].of]
                        /\ \A u \in SignalThreads : ~(signalThread'[u].doing = "wait"
                                                      /\ signalThread'[u].of = signalThread'[v].of)
      BY DEF AnswersConsumeNothing
    <3>1. v = t
      BY <2>1
    <3>2. signalThread'[v] = record /\ record.of \in Signals
      BY <2>1, <3>1 DEF SignalRecords
    <3>3. signalUp[record.of]
      BY <1>4, <3>2
    <3>4. signalWaits'[record.of] = {}
      BY <1>4, <2>4, <3>2, <3>3 DEF UpHasNoWaiters
    <3> QED
      BY <1>4, <2>3, <3>2, <3>3, <3>4 DEF WaitersListed
  <2> QED
    BY <2>2, <2>3, <2>4, <2>5 DEF SignalInv
<1>w. \A u \in SignalThreads, r \in Signals :
        u \in signalWaits[r] <=> signalThread[u].doing = "wait" /\ signalThread[u].of = r
  BY DEF SignalInv, WaitersListed
\* Each of them gives a thread a record and puts it among the waiters or takes it away.
<1>5. ASSUME NEW t \in SignalThreads, NEW s \in Signals, Wait(t, s)
      PROVE  SignalInv' /\ AnswersConsumeNothing
  <2>0. signalThread[t].doing = "rest" /\ signalUp' = signalUp /\ \A r \in Signals : t \notin signalWaits[r]
    BY <1>5, <1>w DEF Wait
  <2>1. CASE signalUp[s]
    <3> DEFINE record == [doing |-> "answered", value |-> TRUE, of |-> s]
    <3>1. /\ record \in SignalRecords /\ record.doing = "answered" /\ record.of = s
      BY DEF SignalRecords
    <3>2. signalThread' = [signalThread EXCEPT ![t] = record] /\ signalWaits' = signalWaits
      BY <1>5, <2>1 DEF Wait, Answered
    <3> HIDE DEF record
    <3> QED
      BY <1>0, <1>4, <2>0, <2>1, <3>1, <3>2
  <2>2. CASE ~signalUp[s]
    <3> DEFINE record == [Resting EXCEPT !.doing = "wait", !.of = s]
    <3>1. /\ record \in SignalRecords /\ record.doing = "wait" /\ record.of = s
      BY <1>1 DEF SignalRecords
    <3>2. /\ signalThread' = [signalThread EXCEPT ![t] = record]
          /\ signalWaits' = [signalWaits EXCEPT ![s] = @ \union {t}]
      BY <1>5, <2>2 DEF Wait
    <3> HIDE DEF record
    <3>3. signalWaits' \in [Signals -> SUBSET SignalThreads]
      BY <1>0, <3>2
    <3>4. \A r \in Signals : /\ signalWaits'[r] \ {t} = signalWaits[r] \ {t}
                             /\ t \in signalWaits'[r] <=> record.doing = "wait" /\ record.of = r
      BY <1>0, <2>0, <3>1, <3>2
    <3> QED
      BY <1>4, <2>0, <2>2, <3>1, <3>2, <3>3, <3>4, ZenonT(40)
  <2> QED
    BY <2>1, <2>2
<1>6. ASSUME NEW t \in SignalThreads, NEW s \in Signals, ReadOther(t, s)
      PROVE  SignalInv' /\ AnswersConsumeNothing
  <2>0. signalThread[t].doing = "rest" /\ \A r \in Signals : t \notin signalWaits[r]
    BY <1>6, <1>w DEF ReadOther
  <2> DEFINE record == [doing |-> "assign", value |-> signalUp[s], of |-> s]
  <2>1. record \in SignalRecords /\ record.doing = "assign"
    BY <1>0 DEF SignalRecords
  <2>2. signalThread' = [signalThread EXCEPT ![t] = record] /\ signalWaits' = signalWaits /\ signalUp' = signalUp
    BY <1>6 DEF ReadOther
  <2> HIDE DEF record
  <2> QED
    BY <1>0, <1>4, <2>0, <2>1, <2>2
<1>7. ASSUME NEW t \in SignalThreads, WaitTimesOut(t)
      PROVE  SignalInv' /\ AnswersConsumeNothing
  <2> DEFINE s == signalThread[t].of
             record == [doing |-> "answered", value |-> FALSE, of |-> s]
  <2>1. s \in Signals /\ signalThread[t].doing = "wait"
    BY <1>0, <1>7 DEF WaitTimesOut, SignalRecords
  <2>2. record \in SignalRecords /\ record.doing = "answered" /\ ~record.value
    BY <2>1 DEF SignalRecords
  <2>3. /\ signalThread' = [signalThread EXCEPT ![t] = record]
        /\ signalWaits' = [signalWaits EXCEPT ![s] = @ \ {t}] /\ signalUp' = signalUp
    BY <1>7 DEF WaitTimesOut, Answered
  <2>4. \A r \in Signals : t \in signalWaits[r] => r = s
    BY <1>w
  <2> HIDE DEF record, s
  <2>5. signalWaits' \in [Signals -> SUBSET SignalThreads]
    BY <1>0, <2>1, <2>3
  <2>6. \A r \in Signals : /\ signalWaits'[r] \ {t} = signalWaits[r] \ {t}
                           /\ t \notin signalWaits'[r]
    BY <1>0, <2>1, <2>3, <2>4
  <2> QED
    BY <1>4, <2>2, <2>3, <2>5, <2>6
<1>8. ASSUME NEW t \in SignalThreads, Continue(t)
      PROVE  SignalInv' /\ AnswersConsumeNothing
  <2>1. /\ \A r \in Signals : t \notin signalWaits[r]
        /\ signalThread' = [signalThread EXCEPT ![t] = Resting]
        /\ signalWaits' = signalWaits /\ signalUp' = signalUp
    BY <1>8, <1>w DEF Continue
  <2> QED
    BY <1>0, <1>1, <1>4, <2>1
<1>9. CASE UNCHANGED signalVars
  <2>1. signalUp' = signalUp /\ signalWaits' = signalWaits /\ signalThread' = signalThread
    BY <1>9 DEF signalVars
  <2>2. SignalTypeOK' /\ WaitersListed' /\ UpHasNoWaiters'
    BY <2>1, Zenon DEF SignalInv, SignalTypeOK, WaitersListed, UpHasNoWaiters
  <2> QED
    BY <1>9, <2>2 DEF SignalInv
<1> QED
  BY <1>2, <1>3, <1>5, <1>6, <1>7, <1>8, <1>9 DEF SignalNext

\* A wait that succeeds consumes nothing, by a notification or an assignment, for any
\* number of signals and threads.
THEOREM SignalStaysUp == SignalSpec => AnswerConsumesNothing
<1>1. SignalInv /\ [SignalNext]_signalVars => SignalInv' /\ [AnswersConsumeNothing]_signalVars
  BY NextSignalInv
<1> QED
  BY <1>1, InitSignalInv, PTL DEF SignalSpec, AnswerConsumesNothing, AnswersConsumeNothing

LEMMA SignalTyped == SignalSpec => []SignalTypeOK
<1>1. SignalInv => SignalTypeOK
  BY DEF SignalInv
<1> QED
  BY <1>1, InitSignalInv, NextSignalInv, PTL DEF SignalSpec

-----------------------------------------------------------------------------
(* Variant *)

\* A stream that is good has all that was written to it, however often it was read.
VariantInv ==
  /\ variants \in [Variants -> [text : Seq(Digits \union Letters), next : Nat \ {0}, good : BOOLEAN]]
  /\ \A v \in Variants : variants[v].next <= Len(variants[v].text) + 1
  /\ everWritten \in [Variants -> Seq(Digits \union Letters)]
  /\ lastRead \in [Variants -> Seq(Digits)]
  /\ \A v \in Variants : variants[v].good => everWritten[v] = variants[v].text

\* The step VariantReadsOnce is about.
ReadsOnce ==
  \A v \in Variants :
       /\ variants'[v].good => everWritten'[v] = variants'[v].text
       /\ ReadNumber(v) /\ variants[v].next = 1 /\ variants[v].good =>
            lastRead'[v] = NumberFrom(variants[v].text, 1)
       /\ \A right \in Variants \ {v} : CopyVariant(v, right) =>
            NumberFrom(variants'[v].text, variants'[v].next) = NumberFrom(variants[right].text, 1)

\* The number that comes next is digits only, and no longer than what is left of the text.
LEMMA NumberIsDigits ==
  ASSUME NEW text \in Seq(Digits \union Letters), NEW from \in Nat \ {0}, from <= Len(text) + 1
  PROVE  /\ NumberFrom(text, from) \in Seq(Digits)
         /\ Len(NumberFrom(text, from)) <= Len(text) - from + 1
<1> DEFINE rest == SubSeq(text, from, Len(text))
           others == {i \in DOMAIN rest : rest[i] \notin Digits}
           first == CHOOSE i \in others : \A j \in others : i <= j
           length == IF others = {} THEN Len(rest) ELSE first - 1
<1>1. \A i \in from .. Len(text) : text[i] \in Digits \union Letters
  BY ElementOfSeq, LenProperties
<1>2. Len(text) \in Nat
  BY LenProperties
<1>3. rest \in Seq(Digits \union Letters) /\ Len(rest) = Len(text) - from + 1
  <2>1. /\ rest \in Seq(Digits \union Letters)
        /\ Len(rest) = IF from <= Len(text) THEN Len(text) - from + 1 ELSE 0
    BY <1>1, <1>2, SubSeqProperties
  <2> HIDE DEF rest
  <2> QED
    BY <1>2, <2>1
<1> HIDE DEF rest
<1>4. Len(rest) \in Nat /\ DOMAIN rest = 1 .. Len(rest)
  BY <1>3, LenProperties
<1>5. length \in 0 .. Len(rest) /\ \A i \in 1 .. length : i \in DOMAIN rest /\ rest[i] \in Digits
  <2>1. CASE others = {}
    BY <1>4, <2>1
  <2>2. CASE others # {}
    <3>1. others \in SUBSET Nat
      BY <1>4
    <3> HIDE DEF others
    <3>2. first \in others /\ \A j \in others : first <= j
      BY <2>2, <3>1, LeastNumber
    <3> HIDE DEF first
    <3>3. first \in 1 .. Len(rest)
      BY <1>4, <3>2 DEF others
    <3>4. ASSUME NEW i \in 1 .. first - 1 PROVE i \in DOMAIN rest /\ rest[i] \in Digits
      <4>1. i \in 1 .. Len(rest) /\ ~(first <= i)
        BY <1>4, <3>3
      <4> QED
        BY <1>4, <3>2, <4>1 DEF others
    <3> QED
      BY <1>4, <2>2, <3>3, <3>4
  <2> QED
    BY <2>1, <2>2
<1>6. NumberFrom(text, from) = SubSeq(rest, 1, length)
  BY DEF NumberFrom, rest
<1> HIDE DEF length
<1>7. /\ SubSeq(rest, 1, length) \in Seq(Digits)
      /\ Len(SubSeq(rest, 1, length)) = IF 1 <= length THEN length - 1 + 1 ELSE 0
  BY <1>4, <1>5, SubSeqProperties
<1> QED
  BY <1>2, <1>3, <1>4, <1>5, <1>6, <1>7

LEMMA InitVariantInv == VariantInit => VariantInv
<1>1. /\ <<>> \in Seq(Digits \union Letters) /\ <<>> \in Seq(Digits) /\ Len(<<>>) = 0
      /\ EmptyVariant \in [text : Seq(Digits \union Letters), next : Nat \ {0}, good : BOOLEAN]
      /\ EmptyVariant.text = <<>> /\ EmptyVariant.next = 1
  BY DEF EmptyVariant
<1> QED
  BY <1>1 DEF VariantInit, VariantInv

\* Writing, reading and copying keep it, and read each text once.
LEMMA NextVariantInv ==
  VariantInv /\ [VariantNext]_variantVars => VariantInv' /\ [ReadsOnce]_variantVars
<1> SUFFICES ASSUME VariantInv, [VariantNext]_variantVars PROVE VariantInv' /\ [ReadsOnce]_variantVars
  OBVIOUS
<1> DEFINE Texts == Seq(Digits \union Letters)
           Records == [text : Texts, next : Nat \ {0}, good : BOOLEAN]
<1>0. /\ variants \in [Variants -> Records]
      /\ \A v \in Variants : variants[v].next <= Len(variants[v].text) + 1
      /\ everWritten \in [Variants -> Texts]
      /\ lastRead \in [Variants -> Seq(Digits)]
      /\ \A v \in Variants : variants[v].good => everWritten[v] = variants[v].text
  BY DEF VariantInv
<1>t. \A x \in Records : x.text \in Texts /\ x.next \in Nat \ {0} /\ x.good \in BOOLEAN /\ Len(x.text) \in Nat
  BY LenProperties
<1>1. ASSUME NEW v \in Variants, NEW record \in Records, record.next <= Len(record.text) + 1,
             variants' = [variants EXCEPT ![v] = record],
             NEW text \in Texts, everWritten' = [everWritten EXCEPT ![v] = text],
             record.good => text = record.text,
             lastRead' \in [Variants -> Seq(Digits)]
      PROVE  VariantInv'
  <2>1. /\ variants' \in [Variants -> Records] /\ everWritten' \in [Variants -> Texts]
        /\ variants'[v] = record /\ everWritten'[v] = text
        /\ \A u \in Variants \ {v} : variants'[u] = variants[u] /\ everWritten'[u] = everWritten[u]
    BY <1>0, <1>1
  <2>2. ASSUME NEW u \in Variants PROVE variants'[u].next <= Len(variants'[u].text) + 1
    <3>1. CASE u = v
      BY <1>1, <2>1, <3>1
    <3>2. CASE u # v
      BY <1>0, <2>1, <3>2
    <3> QED
      BY <3>1, <3>2
  <2>3. ASSUME NEW u \in Variants, variants'[u].good PROVE everWritten'[u] = variants'[u].text
    <3>1. CASE u = v
      BY <1>1, <2>1, <2>3, <3>1
    <3>2. CASE u # v
      BY <1>0, <2>1, <2>3, <3>2
    <3> QED
      BY <3>1, <3>2
  <2> QED
    BY <1>1, <2>1, <2>2, <2>3 DEF VariantInv
<1>2. ASSUME NEW v \in Variants, NEW c \in Digits \union Letters, WriteText(v, <<c>>) PROVE VariantInv'
  <2>1. CASE variants[v].good
    <3> DEFINE text == variants[v].text \o <<c>>
               record == [variants[v] EXCEPT !.text = text]
    <3>1. text \in Texts /\ Len(text) = Len(variants[v].text) + 1
      BY <1>0, <1>t
    <3> HIDE DEF text
    <3>2. /\ record \in Records /\ record.text = text /\ record.next = variants[v].next
      BY <1>0, <3>1
    <3>3. variants' = [variants EXCEPT ![v] = record] /\ everWritten' = [everWritten EXCEPT ![v] = text]
      BY <1>0, <1>2, <2>1 DEF WriteText, text
    <3>4. record.next <= Len(record.text) + 1
      BY <1>0, <1>t, <3>1, <3>2
    <3>5. lastRead' = lastRead
      BY <1>2 DEF WriteText
    <3> HIDE DEF record, Texts
    <3> QED
      BY <1>0, <1>1, <3>1, <3>2, <3>3, <3>4, <3>5
  <2>2. CASE ~variants[v].good
    <3> DEFINE text == everWritten[v] \o <<c>>
    <3>1. text \in Texts
      BY <1>0
    <3> HIDE DEF text
    <3>2. variants' = [variants EXCEPT ![v] = variants[v]] /\ everWritten' = [everWritten EXCEPT ![v] = text]
      BY <1>0, <1>2, <2>2 DEF WriteText, text
    <3>3. lastRead' = lastRead /\ variants[v] \in Records
      BY <1>0, <1>2 DEF WriteText
    <3> HIDE DEF Records, Texts
    <3> QED
      BY <1>0, <1>1, <2>2, <3>1, <3>2, <3>3
  <2> QED
    BY <2>1, <2>2
<1>3. ASSUME NEW v \in Variants, ReadNumber(v) PROVE VariantInv'
  <2> DEFINE x == variants[v]
             digits == IF x.good THEN NumberFrom(x.text, x.next) ELSE <<>>
             next == x.next + Len(digits)
             good == x.good /\ digits # <<>> /\ next <= Len(x.text)
             record == [x EXCEPT !.next = next, !.good = good]
  <2>1. x \in Records /\ x.text \in Texts /\ x.next \in Nat \ {0} /\ x.next <= Len(x.text) + 1 /\ Len(x.text) \in Nat
    BY <1>0, <1>t
  <2>2. /\ variants' = [variants EXCEPT ![v] = record]
        /\ lastRead' = [lastRead EXCEPT ![v] = digits]
        /\ everWritten' = [everWritten EXCEPT ![v] = everWritten[v]]
    BY <1>0, <1>3 DEF ReadNumber
  <2>3. digits \in Seq(Digits) /\ Len(digits) \in Nat /\ x.next + Len(digits) <= Len(x.text) + 1
    <3> HIDE DEF x
    <3>1. CASE x.good
      <4>1. digits = NumberFrom(x.text, x.next)
        BY <3>1
      <4> HIDE DEF digits
      <4>2. digits \in Seq(Digits) /\ Len(digits) <= Len(x.text) - x.next + 1
        BY <2>1, <4>1, NumberIsDigits
      <4>3. Len(digits) \in Nat
        BY <4>2, LenProperties
      <4> QED
        BY <2>1, <4>2, <4>3
    <3>2. CASE ~x.good
      <4>1. digits = <<>>
        BY <3>2
      <4> HIDE DEF digits
      <4> QED
        BY <2>1, <4>1
    <3> QED
      BY <3>1, <3>2
  <2> HIDE DEF digits
  <2>4. good \in BOOLEAN /\ (good => x.good) /\ next \in Nat \ {0}
    BY <2>1, <2>3
  <2> HIDE DEF good, next
  <2>5. record \in Records /\ record.next = next /\ record.text = x.text /\ (record.good => x.good)
    BY <2>1, <2>4
  <2>6. record.next <= Len(record.text) + 1
    BY <2>3, <2>5 DEF next
  <2>7. lastRead' \in [Variants -> Seq(Digits)]
    BY <1>0, <2>2, <2>3
  <2>8. everWritten[v] \in Texts /\ (record.good => everWritten[v] = record.text)
    BY <1>0, <2>5
  <2> HIDE DEF record, x, Records, Texts
  <2> QED
    BY <1>1, <2>2, <2>5, <2>6, <2>7, <2>8
<1>4. ASSUME NEW v \in Variants, NEW right \in Variants, CopyVariant(v, right) PROVE VariantInv'
  <2>1. CASE v = right
    <3>1. variants' = variants /\ everWritten' = everWritten /\ lastRead' = lastRead
      BY <1>4, <2>1 DEF CopyVariant
    <3> QED
      BY <3>1, Zenon DEF VariantInv
  <2>2. CASE v # right
    <3> DEFINE text == variants[right].text
               record == [EmptyVariant EXCEPT !.text = text]
    <3>1. text \in Texts /\ Len(text) \in Nat
      BY <1>0, <1>t
    <3>2. /\ variants' = [variants EXCEPT ![v] = record]
          /\ everWritten' = [everWritten EXCEPT ![v] = text] /\ lastRead' = lastRead
      BY <1>4, <2>2 DEF CopyVariant
    <3> HIDE DEF text
    <3>3. record.text = text /\ record.next = 1 /\ record.good
      BY DEF EmptyVariant
    <3>4. record \in Records
      <4>1. EmptyVariant \in Records
        BY DEF EmptyVariant
      <4> QED
        BY <3>1, <4>1
    <3> HIDE DEF record, Records, Texts
    <3>5. record.next <= Len(record.text) + 1
      BY <3>1, <3>3
    <3> QED
      BY <1>0, <1>1, <3>1, <3>2, <3>3, <3>4, <3>5
  <2> QED
    BY <2>1, <2>2
<1>5. ASSUME UNCHANGED variantVars PROVE VariantInv'
  <2>1. variants' = variants /\ everWritten' = everWritten /\ lastRead' = lastRead
    BY <1>5 DEF variantVars
  <2>2. /\ variants' \in [Variants -> Records] /\ everWritten' \in [Variants -> Texts]
        /\ lastRead' \in [Variants -> Seq(Digits)]
    BY <1>0, <2>1
  <2>3. \A v \in Variants : variants'[v].next <= Len(variants'[v].text) + 1
    BY <1>0, <2>1
  <2>4. \A v \in Variants : variants'[v].good => everWritten'[v] = variants'[v].text
    BY <1>0, <2>1
  <2> QED
    BY <2>2, <2>3, <2>4 DEF VariantInv
<1>6. VariantInv'
  BY <1>2, <1>3, <1>4, <1>5 DEF VariantNext
<1>7. ReadsOnce
  <2> SUFFICES ASSUME NEW v \in Variants
               PROVE  /\ variants'[v].good => everWritten'[v] = variants'[v].text
                      /\ ReadNumber(v) /\ variants[v].next = 1 /\ variants[v].good =>
                           lastRead'[v] = NumberFrom(variants[v].text, 1)
                      /\ \A right \in Variants \ {v} : CopyVariant(v, right) =>
                           NumberFrom(variants'[v].text, variants'[v].next) = NumberFrom(variants[right].text, 1)
    BY DEF ReadsOnce
  <2>1. variants'[v].good => everWritten'[v] = variants'[v].text
    BY <1>6 DEF VariantInv
  <2>2. ASSUME ReadNumber(v), variants[v].next = 1, variants[v].good
        PROVE  lastRead'[v] = NumberFrom(variants[v].text, 1)
    BY <1>0, <2>2 DEF ReadNumber
  <2>3. ASSUME NEW right \in Variants \ {v}, CopyVariant(v, right)
        PROVE  NumberFrom(variants'[v].text, variants'[v].next) = NumberFrom(variants[right].text, 1)
    <3>1. variants'[v] = [EmptyVariant EXCEPT !.text = variants[right].text]
      BY <1>0, <2>3 DEF CopyVariant
    <3>2. variants'[v].text = variants[right].text /\ variants'[v].next = 1
      BY <3>1 DEF EmptyVariant
    <3> QED
      BY <3>2
  <2> QED
    BY <2>1, <2>2, <2>3
<1> QED
  BY <1>6, <1>7

\* A variant's text is read from its beginning once, and once more by every copy, and what
\* is written is lost only after a read that used the text up: for texts of any length.
THEOREM VariantsReadOnce == VariantSpec => VariantReadsOnce
<1> QED
  BY InitVariantInv, NextVariantInv, PTL DEF VariantSpec, VariantReadsOnce, ReadsOnce

\* A good stream holds all that was written, so the bound on that bounds every text.
TextsBounded == \A v \in Variants : Len(variants[v].text) <= MaxText

LEMMA TextsBoundedKept == VariantInv /\ TextsBounded /\ [VariantNext]_variantVars => TextsBounded'
<1> SUFFICES ASSUME VariantInv, TextsBounded, [VariantNext]_variantVars, NEW u \in Variants
             PROVE  Len(variants'[u].text) <= MaxText
  BY DEF TextsBounded
<1>0. /\ Len(variants[u].text) <= MaxText /\ variants[u].text \in Seq(Digits \union Letters)
      /\ variants \in [Variants -> [text : Seq(Digits \union Letters), next : Nat \ {0}, good : BOOLEAN]]
  BY DEF TextsBounded, VariantInv
<1>1. ASSUME NEW v \in Variants, NEW c \in Digits \union Letters, WriteText(v, <<c>>)
      PROVE  Len(variants'[u].text) <= MaxText
  <2>1. CASE u = v /\ variants[v].good
    <3> DEFINE text == variants[u].text
    <3>1. text \in Seq(Digits \union Letters) /\ Len(text) \in Nat
      BY <1>0, LenProperties
    <3>2. everWritten[v] = text /\ Len(everWritten[v]) + Len(<<c>>) <= MaxText
      BY <1>1, <2>1 DEF WriteText, VariantInv
    <3>3. variants'[u].text = text \o <<c>>
      BY <1>0, <1>1, <2>1 DEF WriteText
    <3> HIDE DEF text
    <3>4. Len(text \o <<c>>) = Len(text) + Len(<<c>>)
      BY <3>1
    <3> QED
      BY <3>2, <3>3, <3>4
  <2>2. CASE ~(u = v /\ variants[v].good)
    <3>1. variants'[u].text = variants[u].text
      BY <1>0, <1>1, <2>2 DEF WriteText
    <3> QED
      BY <1>0, <3>1
  <2> QED
    BY <2>1, <2>2
<1>2. ASSUME NEW v \in Variants, ReadNumber(v) PROVE Len(variants'[u].text) <= MaxText
  <2>1. variants'[u].text = variants[u].text
    BY <1>0, <1>2 DEF ReadNumber
  <2> QED
    BY <1>0, <2>1
<1>3. ASSUME NEW v \in Variants, NEW right \in Variants, CopyVariant(v, right)
      PROVE  Len(variants'[u].text) <= MaxText
  <2>1. variants'[u].text \in {variants[u].text, variants[right].text}
    BY <1>0, <1>3 DEF CopyVariant, EmptyVariant
  <2> QED
    BY <2>1 DEF TextsBounded
<1>4. ASSUME UNCHANGED variantVars PROVE Len(variants'[u].text) <= MaxText
  BY <1>0, <1>4 DEF variantVars
<1> QED
  BY <1>1, <1>2, <1>3, <1>4 DEF VariantNext

\* A text and the place in it stay within the bound, at any bound.
LEMMA VariantsTyped == VariantSpec => []VariantTypeOK
<1>1. VariantInit => TextsBounded
  BY VariantAssumption DEF VariantInit, TextsBounded, EmptyVariant
<1>2. VariantInv /\ TextsBounded => VariantTypeOK
  <2> SUFFICES ASSUME VariantInv, TextsBounded, NEW v \in Variants
               PROVE  /\ variants[v].text \in Seq(Digits \union Letters)
                      /\ variants[v].next \in 1..MaxText + 1
                      /\ variants[v].good \in BOOLEAN
    BY DEF VariantTypeOK
  <2> DEFINE x == variants[v]
  <2>1. x \in [text : Seq(Digits \union Letters), next : Nat \ {0}, good : BOOLEAN]
    BY DEF VariantInv
  <2>2. x.next <= Len(x.text) + 1 /\ Len(x.text) <= MaxText
    BY DEF VariantInv, TextsBounded
  <2> HIDE DEF x
  <2>3. x.next \in Nat \ {0} /\ Len(x.text) \in Nat
    BY <2>1, LenProperties
  <2>4. x.next \in 1..MaxText + 1
    BY <2>2, <2>3, VariantAssumption
  <2> QED
    BY <2>1, <2>4 DEF x
<1> QED
  BY <1>1, <1>2, InitVariantInv, NextVariantInv, TextsBoundedKept, PTL DEF VariantSpec

-----------------------------------------------------------------------------
(* SocketStream *)

StreamBytes == 0 .. 255
Senders == [message : 1 .. Len(Messages) + 1, sent : Nat, doing : {"send", "failed", "closed"}]
Receivers == [doing : {"idle", "recv", "complete", "error"}, calls : 0 .. MaxRecvAlls]

\* A message is under way only until all of it was taken.
StreamInv ==
  /\ sender \in Senders /\ receiver \in Receivers /\ gap \in BOOLEAN
  /\ sender.sent # 0 => sender.message <= Len(Messages) /\ sender.sent < Len(Messages[sender.message])
  /\ inFlight \in Seq(StreamBytes) /\ buffer \in Seq(StreamBytes) /\ before \in Seq(StreamBytes)
  /\ Len(inFlight) <= StackRoom
  /\ before \o buffer \o inFlight = SentSoFar
  /\ receiver.doing = "complete" /\ ~gap => sender.doing = "closed" /\ inFlight = <<>>

LEMMA MessagesTyped ==
  /\ Messages \in Seq(Seq(StreamBytes)) /\ Len(Messages) \in Nat
  /\ \A i \in 1 .. Len(Messages) : Messages[i] \in Seq(StreamBytes) /\ Len(Messages[i]) \in Nat
<1>1. Messages \in Seq(Seq(StreamBytes))
  BY StreamAssumption DEF StreamBytes
<1>2. \A i \in 1 .. Len(Messages) : Messages[i] \in Seq(StreamBytes)
  BY <1>1, ElementOfSeq
<1> QED
  BY <1>1, <1>2, LenProperties

\* Everything of the first messages, in one sequence.
FirstMessages(m) == FlattenSeq(SubSeq(Messages, 1, m))

LEMMA OneMessageMore ==
  /\ FirstMessages(0) = <<>>
  /\ \A m \in 1 .. Len(Messages) : /\ FirstMessages(m - 1) \in Seq(StreamBytes)
                                   /\ FirstMessages(m) = FirstMessages(m - 1) \o Messages[m]
<1> DEFINE Lists == Seq(StreamBytes)
<1>1. Messages \in Seq(Lists) /\ Len(Messages) \in Nat /\ \A i \in 1 .. Len(Messages) : Messages[i] \in Lists
  BY MessagesTyped
<1>2. FirstMessages(0) = <<>>
  <2>1. SubSeq(Messages, 1, 0) = <<>>
    BY SubSeqEmpty
  <2>2. FlattenSeq(<<>>) = <<>>
    BY DEF FlattenSeq
  <2> QED
    BY <2>1, <2>2 DEF FirstMessages
<1>3. ASSUME NEW m \in 1 .. Len(Messages)
      PROVE  /\ FirstMessages(m - 1) \in Lists
             /\ FirstMessages(m) = FirstMessages(m - 1) \o Messages[m]
  <2> DEFINE s == SubSeq(Messages, 1, m - 1)
  <2>1. s \in Seq(Lists) /\ Len(s) = m - 1 /\ \A i \in 1 .. m - 1 : s[i] = Messages[i]
    <3>1. \A i \in 1 .. m - 1 : Messages[i] \in Lists
      BY <1>1
    <3> HIDE DEF Lists
    <3>2. /\ s \in Seq(Lists)
          /\ Len(s) = IF 1 <= m - 1 THEN (m - 1) - 1 + 1 ELSE 0
          /\ \A i \in 1 .. (m - 1) - 1 + 1 : s[i] = Messages[1 + i - 1]
      BY <1>1, <3>1, SubSeqProperties
    <3> HIDE DEF s
    <3>3. Len(s) = m - 1
      BY <1>1, <3>2
    <3> QED
      BY <1>1, <3>2, <3>3
  <2>2. SubSeq(Messages, 1, m) = Append(s, Messages[m])
    <3>1. \A i \in 1 .. m : Messages[i] \in Lists
      BY <1>1
    <3> DEFINE t == SubSeq(Messages, 1, m)
    <3> HIDE DEF Lists
    <3>2. /\ t \in Seq(Lists)
          /\ Len(t) = IF 1 <= m THEN m - 1 + 1 ELSE 0
          /\ \A i \in 1 .. m - 1 + 1 : t[i] = Messages[1 + i - 1]
      BY <1>1, <3>1, SubSeqProperties
    <3> HIDE DEF s, t
    <3>3. Len(t) = m /\ \A i \in 1 .. m : t[i] = Messages[i]
      BY <1>1, <3>2
    <3> DEFINE u == Append(s, Messages[m])
    <3>4. /\ u \in Seq(Lists) /\ Len(u) = Len(s) + 1
          /\ \A i \in 1 .. Len(s) : u[i] = s[i]
          /\ u[Len(s) + 1] = Messages[m]
      BY <1>1, <2>1, AppendProperties
    <3> HIDE DEF u
    <3>5. \A i \in 1 .. Len(t) : t[i] = u[i]
      BY <1>1, <2>1, <3>3, <3>4
    <3>6. Len(t) = Len(u)
      BY <1>1, <2>1, <3>3, <3>4
    <3> QED
      BY <3>2, <3>4, <3>5, <3>6, SeqEqual DEF t, u
  <2> HIDE DEF s
  <2> QED
    BY <1>1, <2>1, <2>2, FlattenAppend DEF FirstMessages, s
<1> QED
  BY <1>2, <1>3

\* What ::send takes is what the bytes sent so far grow by.
LEMMA TakenIsSent ==
  ASSUME StreamInv, NEW z \in 1 .. StackRoom, SendSome(z)
  PROVE  /\ Taken(z) \in Seq(StreamBytes) /\ Len(Taken(z)) = z
         /\ SentSoFar \in Seq(StreamBytes)
         /\ SentSoFar' = SentSoFar \o Taken(z)
         /\ sender' \in Senders
         /\ sender'.sent # 0 => /\ sender'.message <= Len(Messages)
                                /\ sender'.sent < Len(Messages[sender'.message])
         /\ z <= StackRoom - Len(inFlight)
         /\ sender.doing = "send"
<1> DEFINE m == sender.message
           n == sender.sent
           M == Messages[m]
           first == FirstMessages(m - 1)
<1>1. /\ m \in 1 .. Len(Messages) /\ n \in Nat /\ sender.doing = "send"
      /\ z \in 1 .. Smaller(Len(M) - n, StackRoom - Len(inFlight))
      /\ sender \in Senders
  BY DEF SendSome, StreamInv, Senders
<1>2. M \in Seq(StreamBytes) /\ Len(M) \in Nat /\ Len(Messages) \in Nat /\ StackRoom \in Nat
  BY <1>1, MessagesTyped, StreamAssumption
<1>3. Len(inFlight) \in Nat
  BY LenProperties DEF StreamInv
<1>4. n + z <= Len(M) /\ z <= StackRoom - Len(inFlight) /\ z \in Nat /\ z >= 1
  BY <1>1, <1>2, <1>3, SMTT(30) DEF Smaller
<1>5. first \in Seq(StreamBytes) /\ FirstMessages(m) = first \o M
  BY <1>1, OneMessageMore
<1> DEFINE part == SubSeq(M, 1, n)
           taken == SubSeq(M, n + 1, n + z)
<1> HIDE DEF M
<1>6. /\ part \in Seq(StreamBytes) /\ taken \in Seq(StreamBytes) /\ Len(taken) = z
  <2>1. \A i \in 1 .. n : M[i] \in StreamBytes
    BY <1>1, <1>2, <1>4, ElementOfSeq
  <2>2. \A i \in n + 1 .. n + z : M[i] \in StreamBytes
    BY <1>1, <1>2, <1>4, ElementOfSeq
  <2>3. part \in Seq(StreamBytes)
    BY <1>1, <2>1, SubSeqProperties
  <2>4. taken \in Seq(StreamBytes) /\ Len(taken) = IF n + 1 <= n + z THEN n + z - (n + 1) + 1 ELSE 0
    BY <1>1, <1>4, <2>2, SubSeqProperties
  <2> HIDE DEF taken
  <2>5. Len(taken) = z
    BY <1>1, <1>4, <2>4
  <2> QED
    BY <2>3, <2>4, <2>5
<1>7. part \o taken = SubSeq(M, 1, n + z)
  <2>1. n \in 0 .. Len(M) /\ n + z \in n .. Len(M) /\ 1 \in 1 .. Len(M) + 1 /\ 1 - 1 = 0
    BY <1>1, <1>2, <1>4
  <2> QED
    BY <1>2, <2>1, ConcatAdjacentSubSeq
<1>8. Taken(z) = taken
  BY DEF Taken, M
<1>9. SentSoFar = first \o part
  <2>1. CASE n = 0
    <3>1. part = <<>>
      BY <2>1, SubSeqEmpty
    <3> QED
      BY <2>1, <3>1 DEF SentSoFar, FirstMessages
  <2>2. CASE n # 0
    BY <2>2 DEF SentSoFar, FirstMessages, M
  <2> QED
    BY <2>1, <2>2
<1>10. /\ first \o part \in Seq(StreamBytes)
       /\ (first \o part) \o taken = first \o SubSeq(M, 1, n + z)
  <2> HIDE DEF part, taken, first
  <2>1. first \o part \in Seq(StreamBytes)
    BY <1>5, <1>6, ConcatProperties
  <2>2. (first \o part) \o taken = first \o (part \o taken)
    BY <1>5, <1>6, ConcatAssociative
  <2> QED
    BY <1>7, <2>1, <2>2
<1> HIDE DEF part, taken, first
<1>11. CASE n + z < Len(M)
  <2>1. sender' = [sender EXCEPT !.sent = n + z]
    BY <1>11 DEF SendSome, M
  <2>2. sender'.sent = n + z /\ sender'.message = m /\ sender' \in Senders /\ n + z # 0
    BY <1>1, <1>4, <2>1 DEF Senders
  <2>3. SentSoFar' = first \o SubSeq(M, 1, n + z)
    BY <2>2 DEF SentSoFar, FirstMessages, first, M
  <2>4. sender'.message <= Len(Messages) /\ sender'.sent < Len(Messages[sender'.message])
    BY <1>1, <1>2, <1>11, <2>2 DEF M
  <2> QED
    BY <1>1, <1>4, <1>6, <1>8, <1>9, <1>10, <2>2, <2>3, <2>4
<1>12. CASE ~(n + z < Len(M))
  <2>1. sender' = [sender EXCEPT !.sent = 0, !.message = m + 1]
    BY <1>12 DEF SendSome, M
  <2>2. sender'.sent = 0 /\ sender'.message = m + 1 /\ sender' \in Senders
    <3> DEFINE rewound == [sender EXCEPT !.sent = 0]
    <3>1. rewound \in Senders /\ rewound.sent = 0
      BY <1>1 DEF Senders
    <3>2. sender' = [rewound EXCEPT !.message = m + 1]
      BY <1>1, <2>1 DEF Senders
    <3>3. m + 1 \in 1 .. Len(Messages) + 1
      BY <1>1, <1>2
    <3> HIDE DEF rewound
    <3> QED
      BY <3>1, <3>2, <3>3 DEF Senders
  <2>3. SentSoFar' = FirstMessages(m) \o <<>>
    <3>1. (m + 1) - 1 = m
      BY <1>1
    <3> QED
      BY <2>2, <3>1 DEF SentSoFar, FirstMessages
  <2>4. n + z = Len(M) /\ SubSeq(M, 1, Len(M)) = M
    BY <1>1, <1>2, <1>4, <1>12, SubSeqFull
  <2>5. first \o M \in Seq(StreamBytes)
    BY <1>2, <1>5, ConcatProperties
  <2>6. FirstMessages(m) \o <<>> = first \o M
    BY <1>5, <2>5, ConcatEmptySeq
  <2>7. SentSoFar' = (first \o part) \o taken
    BY <1>10, <2>3, <2>4, <2>6
  <2> QED
    BY <1>1, <1>4, <1>6, <1>8, <1>9, <1>10, <2>2, <2>7
<1> QED
  BY <1>11, <1>12

\* Nothing was sent or received at first.
LEMMA InitStreamInv == StreamInit => StreamInv
<1> SUFFICES ASSUME StreamInit PROVE StreamInv
  OBVIOUS
<1>1. sender = [message |-> 1, sent |-> 0, doing |-> "send"] /\ receiver = [doing |-> "idle", calls |-> 0]
  BY DEF StreamInit
<1>2. sender \in Senders /\ receiver \in Receivers /\ sender.sent = 0 /\ sender.message = 1 /\ receiver.doing = "idle"
  BY <1>1, MessagesTyped, StreamAssumption DEF Senders, Receivers
<1>3. inFlight = <<>> /\ buffer = <<>> /\ before = <<>> /\ gap \in BOOLEAN
  BY DEF StreamInit
<1>4. /\ <<>> \in Seq(StreamBytes) /\ <<>> \o <<>> = <<>> /\ Len(<<>>) = 0 /\ 0 <= StackRoom
  BY StreamAssumption
<1>5. SentSoFar = <<>>
  <2>1. FirstMessages(0) = <<>> /\ 1 - 1 = 0
    BY OneMessageMore
  <2> QED
    BY <1>2, <1>4, <2>1 DEF SentSoFar, FirstMessages
<1>6. before \o buffer \o inFlight = SentSoFar
  BY <1>3, <1>4, <1>5
<1> QED
  BY <1>2, <1>3, <1>4, <1>6 DEF StreamInv

\* Every byte the stack took is in one of three places, in the order of sending.
LEMMA NextStreamInv == StreamInv /\ [StreamNext]_streamVars => StreamInv'
<1> SUFFICES ASSUME StreamInv, [StreamNext]_streamVars PROVE StreamInv'
  OBVIOUS
<1>0. /\ sender \in Senders /\ receiver \in Receivers /\ gap \in BOOLEAN
      /\ inFlight \in Seq(StreamBytes) /\ buffer \in Seq(StreamBytes) /\ before \in Seq(StreamBytes)
      /\ Len(inFlight) <= StackRoom /\ Len(inFlight) \in Nat /\ StackRoom \in Nat
      /\ before \o buffer \o inFlight = SentSoFar
  BY LenProperties, StreamAssumption DEF StreamInv
<1>p. sender.sent # 0 => sender.message <= Len(Messages) /\ sender.sent < Len(Messages[sender.message])
  BY DEF StreamInv
<1>c. receiver.doing = "complete" /\ ~gap => sender.doing = "closed" /\ inFlight = <<>>
  BY DEF StreamInv
<1>e. <<>> \in Seq(StreamBytes) /\ Len(<<>>) = 0
  OBVIOUS
<1>j. before \o buffer \in Seq(StreamBytes)
  BY <1>0, ConcatProperties
<1>k. \A x, y, z \in Seq(StreamBytes) : (x \o y) \o z = x \o (y \o z)
  BY ConcatAssociative
\* A step that moves no bytes.
<1>q. ASSUME inFlight' = inFlight, buffer' = buffer, before' = before,
             sender' \in Senders, sender'.message = sender.message, sender'.sent = sender.sent,
             receiver' \in Receivers, gap' \in BOOLEAN,
             receiver'.doing = "complete" /\ ~gap' => sender'.doing = "closed" /\ inFlight' = <<>>
      PROVE  StreamInv'
  <2>1. SentSoFar' = SentSoFar
    BY <1>q DEF SentSoFar
  <2>2. sender'.sent # 0 => sender'.message <= Len(Messages) /\ sender'.sent < Len(Messages[sender'.message])
    BY <1>p, <1>q
  <2>3. before' \o buffer' \o inFlight' = SentSoFar'
    BY <1>0, <1>q, <2>1
  <2> QED
    BY <1>0, <1>q, <2>2, <2>3 DEF StreamInv
<1>1. ASSUME NEW z \in 1 .. StackRoom, SendSome(z) PROVE StreamInv'
  <2> DEFINE taken == Taken(z)
  <2>1. /\ taken \in Seq(StreamBytes) /\ Len(taken) = z
        /\ SentSoFar' = SentSoFar \o taken
        /\ sender' \in Senders
        /\ sender'.sent # 0 => /\ sender'.message <= Len(Messages)
                               /\ sender'.sent < Len(Messages[sender'.message])
        /\ z <= StackRoom - Len(inFlight)
        /\ sender.doing = "send"
    BY <1>1, TakenIsSent
  <2>2. /\ inFlight' = inFlight \o taken
        /\ buffer' = buffer /\ before' = before /\ receiver' = receiver /\ gap' = gap
    BY <1>1 DEF SendSome
  <2> HIDE DEF taken
  <2>3. inFlight' \in Seq(StreamBytes) /\ Len(inFlight') <= StackRoom
    <3>1. inFlight \o taken \in Seq(StreamBytes) /\ Len(inFlight \o taken) = Len(inFlight) + Len(taken)
      BY <1>0, <2>1, ConcatProperties
    <3> QED
      BY <1>0, <2>1, <2>2, <3>1
  <2>4. before' \o buffer' \o inFlight' = SentSoFar'
    <3>1. ((before \o buffer) \o inFlight) \o taken = (before \o buffer) \o (inFlight \o taken)
      BY <1>0, <1>j, <2>1, <1>k, Zenon
    <3> QED
      BY <1>0, <2>1, <2>2, <3>1
  <2>5. receiver'.doing = "complete" /\ ~gap' => sender'.doing = "closed" /\ inFlight' = <<>>
    BY <1>c, <2>1, <2>2
  <2>6. receiver' \in Receivers /\ gap' \in BOOLEAN /\ buffer' \in Seq(StreamBytes) /\ before' \in Seq(StreamBytes)
    BY <1>0, <2>2
  <2> QED
    BY <2>1, <2>3, <2>4, <2>5, <2>6 DEF StreamInv
<1>2. ASSUME SendFails PROVE StreamInv'
  <2>1. /\ sender.doing = "send" /\ sender' = [sender EXCEPT !.doing = "failed"]
        /\ inFlight' = inFlight /\ buffer' = buffer /\ before' = before /\ receiver' = receiver /\ gap' = gap
    BY <1>2 DEF SendFails
  <2>2. sender' \in Senders /\ sender'.message = sender.message /\ sender'.sent = sender.sent
    BY <1>0, <2>1 DEF Senders
  <2>3. receiver'.doing = "complete" /\ ~gap' => sender'.doing = "closed" /\ inFlight' = <<>>
    BY <1>c, <2>1
  <2> QED
    BY <1>0, <1>q, <2>1, <2>2, <2>3
<1>3. ASSUME SenderCloses PROVE StreamInv'
  <2>1. /\ sender' = [sender EXCEPT !.doing = "closed"] /\ sender.doing # "closed"
        /\ inFlight' = inFlight /\ buffer' = buffer /\ before' = before /\ receiver' = receiver /\ gap' = gap
    BY <1>3 DEF SenderCloses
  <2>2. sender' \in Senders /\ sender'.message = sender.message /\ sender'.sent = sender.sent
    BY <1>0, <2>1 DEF Senders
  <2>3. receiver'.doing = "complete" /\ ~gap' => sender'.doing = "closed" /\ inFlight' = <<>>
    BY <1>c, <2>1
  <2> QED
    BY <1>0, <1>q, <2>1, <2>2, <2>3
<1>4. ASSUME CallRecvAll PROVE StreamInv'
  <2>1. /\ receiver' = [doing |-> "recv", calls |-> receiver.calls + 1] /\ receiver.calls < MaxRecvAlls
        /\ before' = before \o buffer /\ buffer' = <<>> /\ gap' \in BOOLEAN
        /\ inFlight' = inFlight /\ sender' = sender
    BY <1>4 DEF CallRecvAll
  <2>2. receiver' \in Receivers /\ receiver'.doing = "recv"
    BY <1>0, <2>1, StreamAssumption DEF Receivers
  <2>3. before' \o buffer' \o inFlight' = SentSoFar'
    <3>1. (before \o buffer) \o <<>> = before \o buffer
      BY <1>j, ConcatEmptySeq
    <3>2. SentSoFar' = SentSoFar
      BY <2>1 DEF SentSoFar
    <3> QED
      BY <1>0, <2>1, <3>1, <3>2
  <2> QED
    BY <1>0, <1>e, <1>j, <1>p, <2>1, <2>2, <2>3 DEF StreamInv
<1>5. ASSUME NEW z \in 1 .. BlockSize, RecvBlock(z) PROVE StreamInv'
  <2> DEFINE head == SubSeq(inFlight, 1, z)
             tail == SubSeq(inFlight, z + 1, Len(inFlight))
  <2>1. /\ receiver.doing = "recv" /\ z \in 1 .. Smaller(BlockSize, Len(inFlight))
        /\ buffer' = buffer \o head /\ inFlight' = tail
        /\ sender' = sender /\ before' = before /\ receiver' = receiver /\ gap' = gap
    BY <1>5 DEF RecvBlock
  <2>2. z \in 1 .. Len(inFlight) /\ z \in Nat
    BY <1>0, <2>1, StreamAssumption DEF Smaller
  <2>3. /\ head \in Seq(StreamBytes) /\ tail \in Seq(StreamBytes) /\ Len(tail) <= StackRoom
        /\ head \o tail = inFlight
    <3>1. \A i \in 1 .. Len(inFlight) : inFlight[i] \in StreamBytes
      BY <1>0, ElementOfSeq
    <3>2. head \in Seq(StreamBytes)
      <4>1. \A i \in 1 .. z : inFlight[i] \in StreamBytes
        BY <1>0, <2>2, <3>1
      <4> QED
        BY <2>2, <4>1, SubSeqProperties
    <3>3. /\ tail \in Seq(StreamBytes)
          /\ Len(tail) = IF z + 1 <= Len(inFlight) THEN Len(inFlight) - (z + 1) + 1 ELSE 0
      <4>1. \A i \in z + 1 .. Len(inFlight) : inFlight[i] \in StreamBytes
        BY <1>0, <2>2, <3>1
      <4> QED
        BY <1>0, <2>2, <4>1, SubSeqProperties
    <3>4. head \o tail = SubSeq(inFlight, 1, Len(inFlight))
      <4>1. 1 \in 1 .. Len(inFlight) + 1 /\ z \in 1 - 1 .. Len(inFlight) /\ Len(inFlight) \in z .. Len(inFlight)
        BY <1>0, <2>2
      <4> QED
        BY <1>0, <4>1, ConcatAdjacentSubSeq
    <3>5. SubSeq(inFlight, 1, Len(inFlight)) = inFlight
      BY <1>0, SubSeqFull
    <3> HIDE DEF head, tail
    <3>6. Len(tail) <= StackRoom
      BY <1>0, <2>2, <3>3
    <3> QED
      BY <3>2, <3>3, <3>4, <3>5, <3>6
  <2> HIDE DEF head, tail
  <2>4. buffer \o head \in Seq(StreamBytes)
    BY <1>0, <2>3, ConcatProperties
  <2>5. before' \o buffer' \o inFlight' = SentSoFar'
    <3>1. before \o (buffer \o head) = (before \o buffer) \o head
      BY <1>0, <2>3, <1>k, Zenon
    <3>2. ((before \o buffer) \o head) \o tail = (before \o buffer) \o (head \o tail)
      BY <1>j, <2>3, <1>k, Zenon
    <3>3. SentSoFar' = SentSoFar
      BY <2>1 DEF SentSoFar
    <3> QED
      BY <1>0, <2>1, <2>3, <3>1, <3>2, <3>3
  <2>6. sender'.sent # 0 => sender'.message <= Len(Messages) /\ sender'.sent < Len(Messages[sender'.message])
    BY <1>p, <2>1
  <2>7. receiver'.doing # "complete" /\ receiver' \in Receivers /\ gap' \in BOOLEAN /\ sender' \in Senders
    BY <1>0, <2>1
  <2>8. inFlight' \in Seq(StreamBytes) /\ buffer' \in Seq(StreamBytes) /\ before' \in Seq(StreamBytes)
        /\ Len(inFlight') <= StackRoom
    BY <1>0, <2>1, <2>3, <2>4
  <2> QED
    BY <2>5, <2>6, <2>7, <2>8 DEF StreamInv
<1>6. ASSUME SelectTimesOut PROVE StreamInv'
  <2>1. /\ receiver' = [receiver EXCEPT !.doing = "complete"] /\ gap'
        /\ inFlight' = inFlight /\ buffer' = buffer /\ before' = before /\ sender' = sender
    BY <1>6 DEF SelectTimesOut
  <2>2. receiver' \in Receivers /\ gap' \in BOOLEAN
    BY <1>0, <1>6, <2>1 DEF Receivers, SelectTimesOut
  <2>3. receiver'.doing = "complete" /\ ~gap' => sender'.doing = "closed" /\ inFlight' = <<>>
    BY <2>1
  <2> QED
    BY <1>0, <1>q, <2>1, <2>2, <2>3
<1>7. ASSUME RecvClosed PROVE StreamInv'
  <2>1. /\ receiver' = [receiver EXCEPT !.doing = "complete"] /\ gap' = gap
        /\ inFlight = <<>> /\ sender.doing = "closed"
        /\ inFlight' = inFlight /\ buffer' = buffer /\ before' = before /\ sender' = sender
    BY <1>7 DEF RecvClosed
  <2>2. receiver' \in Receivers
    BY <1>0, <2>1 DEF Receivers
  <2>3. receiver'.doing = "complete" /\ ~gap' => sender'.doing = "closed" /\ inFlight' = <<>>
    BY <2>1
  <2> QED
    BY <1>0, <1>q, <2>1, <2>2, <2>3
<1>8. ASSUME RecvFails PROVE StreamInv'
  <2>1. /\ receiver' = [receiver EXCEPT !.doing = "error"] /\ gap' = gap
        /\ inFlight' = inFlight /\ buffer' = buffer /\ before' = before /\ sender' = sender
    BY <1>8 DEF RecvFails
  <2>2. receiver' \in Receivers /\ receiver'.doing = "error"
    BY <1>0, <2>1 DEF Receivers
  <2> QED
    BY <1>0, <1>q, <2>1, <2>2
<1>9. ASSUME UNCHANGED streamVars PROVE StreamInv'
  <2>1. /\ receiver' = receiver /\ gap' = gap
        /\ inFlight' = inFlight /\ buffer' = buffer /\ before' = before /\ sender' = sender
    BY <1>9 DEF streamVars
  <2> QED
    BY <1>0, <1>c, <1>q, <2>1
<1> QED
  BY <1>1, <1>2, <1>3, <1>4, <1>5, <1>6, <1>7, <1>8, <1>9 DEF StreamNext

\* No byte is lost, repeated or reordered between send and recv_all, and a call that is
\* complete without a time-out has all there was: for messages, blocks and room of any size.
THEOREM BytesInOrder == StreamSpec => []StreamIntact
<1>1. StreamInv => StreamIntact
  BY DEF StreamInv, StreamIntact
<1> QED
  BY <1>1, InitStreamInv, NextStreamInv, PTL DEF StreamSpec

LEMMA StreamTyped == StreamSpec => []StreamTypeOK
<1>1. StreamInv => StreamTypeOK
  BY DEF StreamInv, StreamTypeOK, Senders, Receivers
<1> QED
  BY <1>1, InitStreamInv, NextStreamInv, PTL DEF StreamSpec

-----------------------------------------------------------------------------
(* FileObject *)

FileContents == Seq(Int)
Handles == [access : SUBSET {Read, Write}, share : SUBSET {Read, Write}, pos : Nat,
            at : {"idle", "quick", "sized", "save", "saved"}, size : Int, seen : FileContents, save : FileContents]

FileHandles ==
  /\ file \in FileContents
  /\ fileObjects \in [FileObjects -> Handles]
  /\ quickGot \in [FileObjects -> FileContents]

\* Whatever two objects have open, each allows the access of the other.
AccessShared ==
  \A o, p \in FileObjects : o # p /\ Ready(o) /\ Ready(p) => fileObjects[o].access \subseteq fileObjects[p].share

\* A quick read under way shares reading only, so the file is still what it opened.
QuickReading(o) == fileObjects[o].at \in {"quick", "sized"}
QuickSeesFile ==
  \A o \in FileObjects : QuickReading(o) =>
    /\ fileObjects[o].access = {Read} /\ fileObjects[o].share = {Read}
    /\ file # NoFile /\ fileObjects[o].seen = file
    /\ fileObjects[o].at = "sized" => fileObjects[o].size = Len(file)

\* An object that saves a buffer may write.
SaversWrite == \A o \in FileObjects : fileObjects[o].at \in {"save", "saved"} => Write \in fileObjects[o].access

FileInv == FileHandles /\ AccessShared /\ QuickSeesFile /\ SaversWrite

LEMMA ReadIsNotWrite == Read # Write
  BY DEF Read, Write

LEMMA MaxOfTwo ==
  ASSUME NEW a \in Int, NEW b \in Int
  PROVE  Max({a, b}) \in {a, b} /\ Max({a, b}) >= a /\ Max({a, b}) >= b
<1>1. \E x \in {a, b} : \A y \in {a, b} : x >= y
  <2>1. CASE a >= b
    BY <2>1
  <2>2. CASE ~(a >= b)
    BY <2>2
  <2> QED
    BY <2>1, <2>2
<1> DEFINE m == CHOOSE x \in {a, b} : \A y \in {a, b} : x >= y
<1>2. m \in {a, b} /\ \A y \in {a, b} : m >= y
  BY <1>1
<1>3. Max({a, b}) = m
  BY DEF Max
<1> HIDE DEF m
<1> QED
  BY <1>2, <1>3

LEMMA MinOfTwo ==
  ASSUME NEW a \in Int, NEW b \in Int
  PROVE  Min({a, b}) \in {a, b} /\ Min({a, b}) <= a /\ Min({a, b}) <= b
<1>1. \E x \in {a, b} : \A y \in {a, b} : x <= y
  <2>1. CASE a <= b
    BY <2>1
  <2>2. CASE ~(a <= b)
    BY <2>2
  <2> QED
    BY <2>1, <2>2
<1> DEFINE m == CHOOSE x \in {a, b} : \A y \in {a, b} : x <= y
<1>2. m \in {a, b} /\ \A y \in {a, b} : m <= y
  BY <1>1
<1>3. Min({a, b}) = m
  BY DEF Min
<1> HIDE DEF m
<1> QED
  BY <1>2, <1>3

\* What a write leaves is a file again.
LEMMA WrittenIsFile ==
  ASSUME file \in FileContents, NEW place \in Nat, NEW bytes \in FileContents
  PROVE  Written(place, bytes) \in FileContents
<1> DEFINE n == Max({Len(file), place + Len(bytes)})
<1>1. Len(file) \in Nat /\ Len(bytes) \in Nat
  BY LenProperties DEF FileContents
<1>2. n \in Nat
  <2>1. place + Len(bytes) \in Nat
    BY <1>1
  <2> DEFINE a == Len(file)
             b == place + Len(bytes)
  <2>2. a \in Nat /\ b \in Nat /\ a \in Int /\ b \in Int
    BY <1>1, <2>1
  <2> HIDE DEF a, b
  <2>3. Max({a, b}) \in {a, b}
    BY <2>2, MaxOfTwo
  <2>4. Max({a, b}) \in Nat
    BY <2>2, <2>3
  <2> QED
    BY <2>4 DEF a, b
<1> HIDE DEF n
<1> DEFINE f == [i \in 1 .. n |-> IF i \in place + 1 .. place + Len(bytes) THEN bytes[i - place]
                                  ELSE IF i <= Len(file) THEN file[i] ELSE 0]
<1>3. \A i \in 1 .. n : f[i] \in Int
  <2> TAKE i \in 1 .. n
  <2>1. CASE i \in place + 1 .. place + Len(bytes)
    <3>1. i - place \in 1 .. Len(bytes)
      BY <1>1, <2>1
    <3>2. bytes[i - place] \in Int
      BY <3>1, ElementOfSeq DEF FileContents
    <3> QED
      BY <2>1, <3>2
  <2>2. CASE i \notin place + 1 .. place + Len(bytes) /\ i <= Len(file)
    <3>1. i \in 1 .. Len(file)
      BY <1>1, <1>2, <2>2
    <3>2. file[i] \in Int
      BY <3>1, ElementOfSeq DEF FileContents
    <3> QED
      BY <2>2, <3>2
  <2>3. CASE i \notin place + 1 .. place + Len(bytes) /\ ~(i <= Len(file))
    BY <2>3
  <2> QED
    BY <2>1, <2>2, <2>3
<1>4. f \in [1 .. n -> Int]
  BY <1>3
<1>5. Written(place, bytes) = f
  BY DEF Written, n
<1> HIDE DEF f
<1> QED
  BY <1>2, <1>4, <1>5, SeqDef DEF FileContents

LEMMA InitFileInv == FileInit => FileInv
<1> SUFFICES ASSUME FileInit PROVE FileInv
  OBVIOUS
<1>1. ClosedFile \in Handles /\ ClosedFile.access = {} /\ ClosedFile.at = "idle"
  <2>1. NoFile \in FileContents /\ <<>> \in FileContents
    BY DEF NoFile, FileContents
  <2> QED
    BY <2>1 DEF ClosedFile, Handles
<1>2. /\ file = NoFile /\ NoBuffer \in FileContents
      /\ fileObjects = [o \in FileObjects |-> ClosedFile]
      /\ quickGot = [o \in FileObjects |-> NoBuffer]
      /\ NoFile \in FileContents
  BY DEF FileInit, NoBuffer, NoFile, FileContents
<1>3. FileHandles
  BY <1>1, <1>2 DEF FileHandles
<1>4. \A o \in FileObjects : fileObjects[o] = ClosedFile
  BY <1>2
<1> QED
  BY <1>1, <1>3, <1>4 DEF FileInv, AccessShared, QuickSeesFile, QuickReading, SaversWrite, Ready

\* A step of one object keeps the invariant if what it has open agrees with what others have
\* open, and the file stays what it is for those who read it quickly.
LEMMA HandleStep ==
  ASSUME FileInv, NEW o \in FileObjects, NEW h \in Handles,
         fileObjects' = [fileObjects EXCEPT ![o] = h],
         file' \in FileContents, quickGot' \in [FileObjects -> FileContents],
         \A p \in FileObjects \ {o} :
           /\ QuickReading(p) => file' = file
           /\ Ready(p) /\ h.access # {} => /\ h.access \subseteq fileObjects[p].share
                                           /\ fileObjects[p].access \subseteq h.share,
         h.at \in {"quick", "sized"} =>
           /\ h.access = {Read} /\ h.share = {Read} /\ file' # NoFile /\ h.seen = file'
           /\ h.at = "sized" => h.size = Len(file'),
         h.at \in {"save", "saved"} => Write \in h.access
  PROVE  FileInv'
<1>1. /\ fileObjects' \in [FileObjects -> Handles] /\ fileObjects'[o] = h
      /\ \A p \in FileObjects \ {o} : fileObjects'[p] = fileObjects[p]
  BY DEF FileInv, FileHandles
<1>2. FileHandles'
  BY <1>1 DEF FileHandles
<1>3. AccessShared'
  <2> SUFFICES ASSUME NEW p \in FileObjects, NEW q \in FileObjects, p # q,
                      fileObjects'[p].access # {}, fileObjects'[q].access # {}
               PROVE  fileObjects'[p].access \subseteq fileObjects'[q].share
    BY DEF AccessShared, Ready
  <2>1. CASE p = o
    BY <1>1, <2>1 DEF Ready
  <2>2. CASE q = o
    BY <1>1, <2>2 DEF Ready
  <2>3. CASE p # o /\ q # o
    BY <1>1, <2>3 DEF FileInv, AccessShared, Ready
  <2> QED
    BY <2>1, <2>2, <2>3
<1>4. QuickSeesFile'
  <2> SUFFICES ASSUME NEW p \in FileObjects, fileObjects'[p].at \in {"quick", "sized"}
               PROVE  /\ fileObjects'[p].access = {Read} /\ fileObjects'[p].share = {Read}
                      /\ file' # NoFile /\ fileObjects'[p].seen = file'
                      /\ fileObjects'[p].at = "sized" => fileObjects'[p].size = Len(file')
    BY DEF QuickSeesFile, QuickReading
  <2>1. CASE p = o
    BY <1>1, <2>1
  <2>2. CASE p # o
    <3>1. fileObjects'[p] = fileObjects[p] /\ QuickReading(p) /\ file' = file
      BY <1>1, <2>2 DEF QuickReading
    <3> QED
      BY <3>1 DEF FileInv, QuickSeesFile
  <2> QED
    BY <2>1, <2>2
<1>5. SaversWrite'
  <2> SUFFICES ASSUME NEW p \in FileObjects, fileObjects'[p].at \in {"save", "saved"}
               PROVE  Write \in fileObjects'[p].access
    BY DEF SaversWrite
  <2>1. CASE p = o
    BY <1>1, <2>1
  <2>2. CASE p # o
    BY <1>1, <2>2 DEF FileInv, SaversWrite
  <2> QED
    BY <2>1, <2>2
<1> QED
  BY <1>2, <1>3, <1>4, <1>5 DEF FileInv

\* A write cannot come while another object reads quickly.
LEMMA WriterAlone ==
  ASSUME FileInv, NEW o \in FileObjects, Write \in fileObjects[o].access, NEW p \in FileObjects \ {o}
  PROVE  ~QuickReading(p)
<1> SUFFICES ASSUME QuickReading(p) PROVE FALSE
  OBVIOUS
<1>1. fileObjects[p].access = {Read} /\ fileObjects[p].share = {Read}
  BY DEF FileInv, QuickSeesFile
<1>2. Ready(o) /\ Ready(p)
  BY <1>1 DEF Ready
<1>3. fileObjects[o].access \subseteq fileObjects[p].share
  BY <1>2 DEF FileInv, AccessShared
<1> QED
  BY <1>1, <1>3, ReadIsNotWrite

\* Whatever mode a file is opened with, it is not emptied under a quick read.
LEMMA OpenKeeps ==
  ASSUME FileInv, NEW o \in FileObjects, NEW mode \in Modes,
         NEW access \in {{Read}, {Read, Write}}, NEW share \in {{Read}, {Read, Write}},
         NEW at \in {"idle", "quick", "save"}, NEW save \in FileContents,
         at = "quick" => mode = "open_existing" /\ access = {Read} /\ share = {Read},
         at = "save" => Write \in access,
         quickGot' \in [FileObjects -> FileContents],
         OpenAs(o, mode, access, share, at, save)
  PROVE  FileInv'
<1>1. CASE SharesFile(o, access \union Needs(mode), share) /\ Content(mode) # {}
  <2>1. PICK content \in Content(mode) :
            /\ file' = content
            /\ SetHandle(o, [ClosedFile EXCEPT !.access = access, !.share = share, !.at = at, !.save = save,
                                         !.seen = IF at = "quick" THEN content ELSE NoFile])
    BY <1>1 DEF OpenAs
  <2> DEFINE seen == IF at = "quick" THEN content ELSE NoFile
             h == [ClosedFile EXCEPT !.access = access, !.share = share, !.at = at, !.save = save, !.seen = seen]
  <2>2. content \in FileContents /\ NoFile \in FileContents
    <3>1. content \in {<<>>, file}
      <4>1. CASE mode = "create_always"
        BY <4>1 DEF Content
      <4>2. CASE mode = "create_new"
        BY <4>2 DEF Content
      <4>3. CASE mode = "open_existing"
        BY <4>3 DEF Content
      <4>4. CASE mode = "open_always"
        BY <4>4 DEF Content
      <4>5. CASE mode = "truncate"
        BY <4>5 DEF Content
      <4> QED
        BY <4>1, <4>2, <4>3, <4>4, <4>5 DEF Modes
    <3>2. <<>> \in FileContents /\ NoFile \in FileContents /\ file \in FileContents
      BY DEF FileInv, FileHandles, FileContents, NoFile
    <3> QED
      BY <3>1, <3>2
  <2>3. /\ h \in Handles /\ h.access = access /\ h.share = share /\ h.at = at /\ h.seen = seen
    <3>1. seen \in FileContents
      BY <2>2
    <3> HIDE DEF seen
    <3> DEFINE h1 == [ClosedFile EXCEPT !.access = access]
               h2 == [h1 EXCEPT !.share = share]
               h3 == [h2 EXCEPT !.at = at]
               h4 == [h3 EXCEPT !.save = save]
               h5 == [h4 EXCEPT !.seen = seen]
    <3>2. ClosedFile \in Handles
      <4>1. <<>> \in FileContents
        BY DEF FileContents
      <4> QED
        BY <2>2, <4>1 DEF ClosedFile, Handles
    <3>3. h1 \in Handles /\ h1.access = access
      BY <3>2 DEF Handles
    <3>4. h = h5
      BY DEF ClosedFile
    <3> HIDE DEF h, h1
    <3>5. h2 \in Handles /\ h2.access = access /\ h2.share = share
      BY <3>3 DEF Handles
    <3> HIDE DEF h2
    <3>6. h3 \in Handles /\ h3.access = access /\ h3.share = share /\ h3.at = at
      BY <3>5 DEF Handles
    <3> HIDE DEF h3
    <3>7. h4 \in Handles /\ h4.access = access /\ h4.share = share /\ h4.at = at
      BY <3>6 DEF Handles
    <3> HIDE DEF h4
    <3>8. h5 \in Handles /\ h5.access = access /\ h5.share = share /\ h5.at = at /\ h5.seen = seen
      BY <3>1, <3>7 DEF Handles
    <3> QED
      BY <3>4, <3>8
  <2>4. fileObjects' = [fileObjects EXCEPT ![o] = h]
    BY <2>1 DEF SetHandle
  <2> HIDE DEF h
  <2>5. ASSUME NEW p \in FileObjects \ {o}
        PROVE  /\ QuickReading(p) => file' = file
               /\ Ready(p) => access \subseteq fileObjects[p].share /\ fileObjects[p].access \subseteq share
    <3>1. /\ Ready(p) => access \union Needs(mode) \subseteq fileObjects[p].share
          /\ fileObjects[p].access \subseteq share
      BY <1>1 DEF SharesFile
    <3>2. ASSUME QuickReading(p) PROVE file' = file
      <4>1. fileObjects[p].access = {Read} /\ fileObjects[p].share = {Read} /\ file # NoFile
        BY <3>2 DEF FileInv, QuickSeesFile
      <4>2. Write \notin Needs(mode)
        BY <3>1, <4>1, ReadIsNotWrite DEF Ready
      <4>3. mode \in {"create_new", "open_existing", "open_always"}
        BY <4>2 DEF Needs, Modes
      <4> QED
        BY <2>1, <4>1, <4>3 DEF Content
    <3> QED
      BY <3>1, <3>2
  <2>6. h.at \in {"quick", "sized"} =>
           /\ h.access = {Read} /\ h.share = {Read} /\ file' # NoFile /\ h.seen = file'
           /\ h.at # "sized"
    <3> SUFFICES ASSUME at = "quick"
                 PROVE  /\ h.access = {Read} /\ h.share = {Read} /\ file' # NoFile /\ h.seen = file'
                        /\ h.at # "sized"
      BY <2>3
    <3>1. content # NoFile
      BY DEF Content
    <3> QED
      BY <2>1, <2>3, <3>1
  <2> QED
    BY <2>1, <2>2, <2>3, <2>4, <2>5, <2>6, HandleStep
<1>2. CASE ~(SharesFile(o, access \union Needs(mode), share) /\ Content(mode) # {})
  <2>1. file' = file /\ fileObjects' = fileObjects
    BY <1>2 DEF OpenAs
  <2> QED
    BY <2>1 DEF FileInv, FileHandles, AccessShared, QuickSeesFile, QuickReading, SaversWrite, Ready
<1> QED
  BY <1>1, <1>2

\* The step QuickReadWhole is about.
ReadsWhole_(o) == quickGot[o] = NoBuffer /\ quickGot'[o] # NoBuffer => quickGot'[o] = fileObjects[o].seen
QuickWhole == \A o \in FileObjects : ReadsWhole_(o)

LEMMA NextFileInv == FileInv /\ [FileNext]_fileVars => FileInv' /\ QuickWhole
<1> SUFFICES ASSUME FileInv, [FileNext]_fileVars PROVE FileInv' /\ QuickWhole
  OBVIOUS
<1>0. /\ file \in FileContents /\ Len(file) \in Nat
      /\ fileObjects \in [FileObjects -> Handles] /\ quickGot \in [FileObjects -> FileContents]
  BY LenProperties DEF FileInv, FileHandles, FileContents
<1>b. /\ <<>> \in FileContents /\ NoBuffer \in FileContents /\ NoFile \in FileContents
      /\ \A b \in FileBytes : <<b>> \in FileContents /\ <<b, b>> \in FileContents
  BY FileAssumption DEF FileContents, NoBuffer, NoFile
<1>m. {Read} \in {{Read}, {Read, Write}} /\ {Read, Write} \in {{Read}, {Read, Write}} /\ Write \in {Read, Write}
  OBVIOUS
<1>u. ASSUME quickGot' = quickGot PROVE QuickWhole
  BY <1>u DEF QuickWhole, ReadsWhole_
\* A step of one object that has open what it had, or less, and leaves the file.
<1>h. ASSUME NEW o \in FileObjects, NEW h \in Handles, SetHandle(o, h), file' = file,
             quickGot' \in [FileObjects -> FileContents],
             h.access = {} \/ (h.access = fileObjects[o].access /\ h.share = fileObjects[o].share),
             h.at \in {"quick", "sized"} =>
               /\ h.access = {Read} /\ h.share = {Read} /\ file # NoFile /\ h.seen = file
               /\ h.at = "sized" => h.size = Len(file),
             h.at \in {"save", "saved"} => Write \in h.access
      PROVE  FileInv'
  <2>1. \A p \in FileObjects \ {o} : Ready(p) /\ h.access # {} => /\ h.access \subseteq fileObjects[p].share
                                                                  /\ fileObjects[p].access \subseteq h.share
    BY <1>h DEF FileInv, AccessShared, Ready
  <2> QED
    BY <1>0, <1>h, <2>1, HandleStep DEF SetHandle
\* A write by an object that may write.
<1>w. ASSUME NEW o \in FileObjects, NEW h \in Handles, SetHandle(o, h),
             Write \in fileObjects[o].access, file' \in FileContents, quickGot' = quickGot,
             h.access = fileObjects[o].access /\ h.share = fileObjects[o].share,
             h.at \in {"idle", "saved"}
      PROVE  FileInv'
  <2>1. \A p \in FileObjects \ {o} :
          /\ ~QuickReading(p)
          /\ Ready(p) /\ h.access # {} => /\ h.access \subseteq fileObjects[p].share
                                          /\ fileObjects[p].access \subseteq h.share
    BY <1>w, WriterAlone DEF FileInv, AccessShared, Ready
  <2> QED
    BY <1>0, <1>w, <2>1, HandleStep DEF SetHandle
<1>i. \A o \in FileObjects : fileObjects[o] \in Handles
  BY <1>0
<1>k. ClosedFile \in Handles /\ ClosedFile.access = {} /\ ClosedFile.at = "idle"
  BY <1>b DEF ClosedFile, Handles
<1> SUFFICES ASSUME ~UNCHANGED fileVars PROVE FileInv' /\ QuickWhole
  <2>1. ASSUME UNCHANGED fileVars PROVE FileInv' /\ QuickWhole
    <3>1. file' = file /\ fileObjects' = fileObjects /\ quickGot' = quickGot
      BY <2>1 DEF fileVars
    <3>2. FileInv'
      BY <3>1 DEF FileInv, FileHandles, AccessShared, QuickSeesFile, QuickReading, SaversWrite, Ready
    <3> QED
      BY <1>u, <3>1, <3>2
  <2> QED
    BY <2>1
<1>1. PICK o \in FileObjects :
  \/ InitializeFile(o) \/ CloseFile(o) \/ QuickOpen(o) \/ AskSize(o) \/ ReadAll(o)
  \/ \E offset \in -1..MaxFile, from \in {"begin", "current", "end"} : Seek(o, offset, from)
  \/ \E size \in 1..MaxFile : ReadSome(o, size)
  \/ \E b \in FileBytes : WriteSome(o, <<b>>) \/ SaveOpen(o, <<b, b>>)
  \/ SaveWrite(o) \/ SaveClose(o) \/ CrashProgram(o)
  BY DEF FileNext
<1> DEFINE now == fileObjects[o]
<1>2. CASE InitializeFile(o)
  <2>1. PICK mode \in Modes, access \in {{Read}, {Read, Write}}, share \in {{Read}, {Read, Write}} :
          OpenAs(o, mode, access, share, "idle", <<>>)
    BY <1>2 DEF InitializeFile
  <2>2. quickGot' = quickGot
    BY <1>2 DEF InitializeFile
  <2>3. FileInv'
    BY <1>0, <1>b, <2>1, <2>2, OpenKeeps
  <2> QED
    BY <1>u, <2>2, <2>3
<1>3. CASE CloseFile(o) \/ SaveClose(o) \/ CrashProgram(o)
  <2>1. SetHandle(o, ClosedFile) /\ file' = file /\ quickGot' = quickGot
    BY <1>3 DEF CloseFile, SaveClose, CrashProgram
  <2>2. FileInv'
    BY <1>0, <1>h, <1>k, <2>1
  <2> QED
    BY <1>u, <2>1, <2>2
<1>4. CASE QuickOpen(o)
  <2>1. OpenAs(o, "open_existing", {Read}, {Read}, "quick", <<>>) /\ quickGot' = [quickGot EXCEPT ![o] = NoBuffer]
    BY <1>4 DEF QuickOpen
  <2>2. quickGot' \in [FileObjects -> FileContents] /\ "open_existing" \in Modes
    BY <1>0, <1>b, <2>1 DEF Modes
  <2>3. FileInv'
    BY <1>0, <1>b, <1>m, <2>1, <2>2, OpenKeeps
  <2>4. QuickWhole
    BY <1>0, <2>1 DEF QuickWhole, ReadsWhole_
  <2> QED
    BY <2>3, <2>4
<1>5. CASE AskSize(o)
  <2>0. /\ now \in Handles /\ now.at = "quick" /\ now.access = {Read} /\ now.share = {Read}
        /\ file # NoFile /\ now.seen = file /\ file' = file
    BY <1>5, <1>i DEF AskSize, FileInv, QuickSeesFile, QuickReading
  <2>1. CASE file = <<>>
    <3>1. SetHandle(o, ClosedFile) /\ quickGot' = [quickGot EXCEPT ![o] = NoBuffer]
      BY <1>5, <2>1 DEF AskSize
    <3>2. quickGot' \in [FileObjects -> FileContents]
      BY <1>0, <1>b, <3>1
    <3>3. FileInv'
      BY <1>h, <1>k, <2>0, <3>1, <3>2
    <3>4. QuickWhole
      BY <1>0, <3>1 DEF QuickWhole, ReadsWhole_
    <3> QED
      BY <3>3, <3>4
  <2>2. CASE file # <<>>
    <3> DEFINE n == Len(file)
               h1 == [now EXCEPT !.at = "sized"]
               h == [h1 EXCEPT !.size = n]
    <3>0. n \in Int
      BY <1>0
    <3>1. SetHandle(o, [now EXCEPT !.at = "sized", !.size = n]) /\ quickGot' = quickGot
      BY <1>5, <2>2 DEF AskSize
    <3>2. [now EXCEPT !.at = "sized", !.size = n] = h
      BY <2>0 DEF Handles
    <3> HIDE DEF now, n
    <3>3. h1 \in Handles /\ h1.at = "sized" /\ h1.access = {Read} /\ h1.share = {Read} /\ h1.seen = file
      BY <2>0 DEF Handles
    <3> HIDE DEF h1
    <3>4. h \in Handles /\ h.at = "sized" /\ h.access = {Read} /\ h.share = {Read} /\ h.seen = file /\ h.size = n
      BY <3>0, <3>3 DEF Handles
    <3>5. SetHandle(o, h) /\ h.access = fileObjects[o].access /\ h.share = fileObjects[o].share
      BY <2>0, <3>1, <3>2, <3>4 DEF now
    <3> HIDE DEF h
    <3>6. FileInv'
      BY <1>0, <1>h, <2>0, <3>1, <3>4, <3>5 DEF n
    <3> QED
      BY <1>u, <3>1, <3>6
  <2> QED
    BY <2>1, <2>2
<1>6. CASE ReadAll(o)
  <2> DEFINE got == [i \in 1 .. now.size |-> IF i <= Len(file) THEN file[i] ELSE 0]
  <2>0. now.size = Len(file) /\ now.seen = file
    BY <1>6 DEF ReadAll, FileInv, QuickSeesFile, QuickReading
  <2>1. SetHandle(o, ClosedFile) /\ file' = file /\ quickGot' = [quickGot EXCEPT ![o] = got]
    BY <1>6 DEF ReadAll
  <2>2. got = file
    <3>1. file \in [1 .. Len(file) -> Int] /\ DOMAIN file = 1 .. Len(file)
      BY <1>0, LenProperties DEF FileContents
    <3>2. \A i \in 1 .. Len(file) : got[i] = file[i]
      BY <1>0, <2>0
    <3>3. got \in [1 .. Len(file) -> Int]
      BY <1>0, <2>0, <3>1
    <3> HIDE DEF got
    <3> QED
      BY <3>1, <3>2, <3>3
  <2> HIDE DEF got
  <2>3. quickGot' \in [FileObjects -> FileContents]
    BY <1>0, <2>1, <2>2
  <2>4. FileInv'
    BY <1>h, <1>k, <2>1, <2>3
  <2>5. QuickWhole
    BY <1>0, <2>0, <2>1, <2>2 DEF QuickWhole, ReadsWhole_
  <2> QED
    BY <2>4, <2>5
<1>7. CASE \E offset \in -1..MaxFile, from \in {"begin", "current", "end"} : Seek(o, offset, from)
  <2>1. PICK place \in 0 .. MaxFile : SetHandle(o, [now EXCEPT !.pos = place])
    BY <1>7 DEF Seek
  <2>2. now.at = "idle" /\ file' = file /\ quickGot' = quickGot /\ now \in Handles
    BY <1>7, <1>i DEF Seek, Idle
  <2> DEFINE h == [now EXCEPT !.pos = place]
  <2>3. h \in Handles /\ h.at = "idle" /\ h.access = now.access /\ h.share = now.share
    BY <2>1, <2>2, FileAssumption DEF Handles
  <2>4. SetHandle(o, h)
    BY <2>1
  <2> HIDE DEF h
  <2>5. FileInv'
    BY <1>0, <1>h, <2>2, <2>3, <2>4
  <2> QED
    BY <1>u, <2>2, <2>5
<1>8. CASE \E size \in 1..MaxFile : ReadSome(o, size)
  <2>0. PICK size \in 1 .. MaxFile : ReadSome(o, size)
    BY <1>8
  <2> DEFINE place == now.pos + BytesLeft(now.pos, size)
             h == [now EXCEPT !.pos = place]
  <2>1. now.at = "idle" /\ file' = file /\ quickGot' = quickGot /\ now \in Handles /\ now.pos \in Nat
    BY <2>0, <1>i DEF ReadSome, Idle, Handles
  <2>2. SetHandle(o, h)
    BY <2>0 DEF ReadSome
  <2>3. place \in Nat
    <3> DEFINE least == Min({size, Len(file) - now.pos})
    <3>1. Len(file) - now.pos \in Int /\ size \in Int
      BY <1>0, <2>1, FileAssumption
    <3>2. least \in {size, Len(file) - now.pos}
      BY <3>1, MinOfTwo
    <3>3. least \in Int
      BY <3>1, <3>2
    <3> HIDE DEF least
    <3>4. Max({0, least}) \in {0, least} /\ Max({0, least}) >= 0
      BY <3>3, MaxOfTwo
    <3>5. BytesLeft(now.pos, size) = Max({0, least})
      BY DEF BytesLeft, least
    <3> QED
      BY <2>1, <3>3, <3>4, <3>5
  <2> HIDE DEF place
  <2>4. h \in Handles /\ h.at = "idle" /\ h.access = now.access /\ h.share = now.share
    BY <2>1, <2>3 DEF Handles
  <2> HIDE DEF h
  <2>5. FileInv'
    BY <1>0, <1>h, <2>1, <2>2, <2>4
  <2> QED
    BY <1>u, <2>1, <2>5
<1>9. CASE \E b \in FileBytes : WriteSome(o, <<b>>)
  <2>0. PICK b \in FileBytes : WriteSome(o, <<b>>)
    BY <1>9
  <2> DEFINE h == [now EXCEPT !.pos = now.pos + Len(<<b>>)]
  <2>1. /\ now.at = "idle" /\ quickGot' = quickGot /\ now \in Handles /\ now.pos \in Nat
        /\ Write \in now.access /\ file' = Written(now.pos, <<b>>)
    BY <2>0, <1>i DEF WriteSome, Idle, Handles
  <2>2. SetHandle(o, h)
    BY <2>0 DEF WriteSome
  <2>3. file' \in FileContents
    BY <1>0, <1>b, <2>1, WrittenIsFile
  <2>4. h \in Handles /\ h.at = "idle" /\ h.access = now.access /\ h.share = now.share
    BY <2>1 DEF Handles
  <2> HIDE DEF h
  <2>5. FileInv'
    BY <1>w, <2>1, <2>2, <2>3, <2>4
  <2> QED
    BY <1>u, <2>1, <2>5
<1>10. CASE \E b \in FileBytes : SaveOpen(o, <<b, b>>)
  <2>0. PICK b \in FileBytes : SaveOpen(o, <<b, b>>)
    BY <1>10
  <2>1. OpenAs(o, "create_always", {Read, Write}, {Read, Write}, "save", <<b, b>>) /\ quickGot' = quickGot
    BY <2>0 DEF SaveOpen
  <2>2. "create_always" \in Modes /\ quickGot' \in [FileObjects -> FileContents]
    BY <1>0, <2>1 DEF Modes
  <2>3. FileInv'
    BY <1>b, <1>m, <2>1, <2>2, OpenKeeps
  <2> QED
    BY <1>u, <2>1, <2>3
<1>11. CASE SaveWrite(o)
  <2> DEFINE h == [now EXCEPT !.at = "saved"]
  <2>1. /\ now.at = "save" /\ quickGot' = quickGot /\ now \in Handles
        /\ Write \in now.access /\ file' = Written(0, now.save) /\ SetHandle(o, h)
    BY <1>11, <1>i DEF SaveWrite, FileInv, SaversWrite
  <2>2. file' \in FileContents
    <3>1. now.save \in FileContents /\ 0 \in Nat
      BY <2>1 DEF Handles
    <3> QED
      BY <1>0, <2>1, <3>1, WrittenIsFile
  <2>3. h \in Handles /\ h.at = "saved" /\ h.access = now.access /\ h.share = now.share
    BY <2>1 DEF Handles
  <2> HIDE DEF h
  <2>4. FileInv'
    BY <1>w, <2>1, <2>2, <2>3
  <2> QED
    BY <1>u, <2>1, <2>4
<1> QED
  BY <1>1, <1>2, <1>3, <1>4, <1>5, <1>6, <1>7, <1>8, <1>9, <1>10, <1>11

\* A quick read returns the file as it was when it was opened, whole, whatever other objects
\* save, write, close and crash between its steps: for any number of them and any file.
THEOREM QuickReadsWhole == FileSpec => QuickReadWhole
  BY InitFileInv, NextFileInv, PTL DEF FileSpec, QuickReadWhole, QuickWhole, ReadsWhole_

\* The file has bytes, and stays within its bound; what is open is a file that exists.
StoredFiles == UNION {[1..n -> FileBytes \union {0}] : n \in 0..MaxFile}
Saves == {<<>>} \union {<<b, b>> : b \in FileBytes}
FileBounds ==
  /\ file = NoFile \/ file \in StoredFiles
  /\ \A o \in FileObjects :
       /\ Ready(o) => file \in StoredFiles
       /\ fileObjects[o].pos <= MaxFile
       /\ fileObjects[o].save \in Saves

LEMMA StoredIs ==
  /\ NoFile \notin StoredFiles /\ <<>> \in StoredFiles
  /\ \A x \in StoredFiles : /\ Len(x) \in 0..MaxFile /\ x \in [1..Len(x) -> FileBytes \union {0}]
  /\ \A n \in 0..MaxFile : [1..n -> FileBytes \union {0}] \subseteq StoredFiles
<1>1. ASSUME NEW x \in StoredFiles
      PROVE  Len(x) \in 0..MaxFile /\ x \in [1..Len(x) -> FileBytes \union {0}]
  <2>1. PICK n \in 0..MaxFile : x \in [1..n -> FileBytes \union {0}]
    BY DEF StoredFiles
  <2>2. n \in Nat
    BY <2>1, FileAssumption
  <2>3. x \in Seq(FileBytes \union {0}) /\ DOMAIN x = 1..n
    BY <2>1, <2>2, SeqDef
  <2>4. Len(x) = n
    BY <2>2, <2>3, LenProperties
  <2> QED
    BY <2>1, <2>4
<1>2. <<>> \in StoredFiles
  <2>1. <<>> \in [1..0 -> FileBytes \union {0}] /\ 0 \in 0..MaxFile
    BY FileAssumption
  <2> QED
    BY <2>1, Zenon DEF StoredFiles
<1>3. NoFile \notin StoredFiles
  <2> SUFFICES ASSUME NoFile \in StoredFiles PROVE FALSE
    OBVIOUS
  <2>1. NoFile \in [1..Len(NoFile) -> FileBytes \union {0}] /\ Len(NoFile) = 1 /\ NoFile[1] = -1
    BY <1>1 DEF NoFile
  <2>2. NoFile[1] \in FileBytes \union {0}
    BY <2>1
  <2> QED
    BY <2>1, <2>2, FileAssumption
<1>4. \A n \in 0..MaxFile : [1..n -> FileBytes \union {0}] \subseteq StoredFiles
  BY Zenon DEF StoredFiles
<1> QED
  BY <1>1, <1>2, <1>3, <1>4

\* A write within the bound leaves bytes, its own, the file's or the zeros between them.
LEMMA WrittenIsStored ==
  ASSUME file \in StoredFiles, NEW place \in Nat, NEW bytes \in Seq(FileBytes),
         place + Len(bytes) <= MaxFile
  PROVE  Written(place, bytes) \in StoredFiles
<1> DEFINE m == Len(file)
           end == place + Len(bytes)
           n == Max({m, end})
<1>1. m \in 0..MaxFile /\ file \in [1..m -> FileBytes \union {0}] /\ Len(bytes) \in Nat
  BY StoredIs, LenProperties
<1>2. end \in Nat /\ end <= MaxFile
  BY <1>1
<1> DEFINE f == [i \in 1..n |-> IF i \in place + 1..end THEN bytes[i - place]
                                ELSE IF i <= m THEN file[i] ELSE 0]
<1>3. Written(place, bytes) = f
  BY DEF Written
<1> HIDE DEF m
<1>4. \A i \in place + 1..end : bytes[i - place] \in FileBytes
  <2> TAKE i \in place + 1..end
  <2>1. i - place \in 1..Len(bytes)
    BY <1>1
  <2> QED
    BY <2>1, ElementOfSeq
<1> HIDE DEF end
<1>5. n \in 0..MaxFile
  <2>1. m \in Int /\ end \in Int
    BY <1>1, <1>2
  <2>2. n \in {m, end}
    BY <2>1, MaxOfTwo
  <2> HIDE DEF n
  <2> QED
    BY <1>1, <1>2, <2>2
<1> HIDE DEF n
<1>6. \A i \in 1..n : f[i] \in FileBytes \union {0}
  <2> TAKE i \in 1..n
  <2>1. CASE i \in place + 1..end
    BY <1>4, <2>1
  <2>2. CASE i \notin place + 1..end /\ i <= m
    <3>1. i \in 1..m
      BY <1>1, <1>5, <2>2
    <3> QED
      BY <1>1, <2>2, <3>1
  <2>3. CASE i \notin place + 1..end /\ ~(i <= m)
    BY <2>3
  <2> QED
    BY <2>1, <2>2, <2>3
<1>7. f \in [1..n -> FileBytes \union {0}]
  BY <1>6
<1> QED
  BY <1>3, <1>5, <1>7, StoredIs

\* A step of one object keeps the bounds if it leaves the file or stores one.
LEMMA BoundsStep ==
  ASSUME FileInv, FileBounds, NEW o \in FileObjects, NEW h, SetHandle(o, h),
         file' \in StoredFiles \/ (file' = file /\ (h.access = {} \/ h.access = fileObjects[o].access)),
         h.pos <= MaxFile, h.save \in Saves
  PROVE  FileBounds'
<1>1. fileObjects'[o] = h /\ \A p \in FileObjects \ {o} : fileObjects'[p] = fileObjects[p]
  BY DEF FileInv, FileHandles, SetHandle
<1>2. file' = NoFile \/ file' \in StoredFiles
  BY DEF FileBounds
<1>3. ASSUME NEW p \in FileObjects
      PROVE  /\ fileObjects'[p].access # {} => file' \in StoredFiles
             /\ fileObjects'[p].pos <= MaxFile
             /\ fileObjects'[p].save \in Saves
  <2>1. CASE p = o
    BY <1>1, <2>1 DEF FileBounds, Ready
  <2>2. CASE p # o
    BY <1>1, <2>2 DEF FileBounds, Ready
  <2> QED
    BY <2>1, <2>2
<1> QED
  BY <1>2, <1>3 DEF FileBounds, Ready

LEMMA OpenStores ==
  ASSUME FileInv, FileBounds, NEW o \in FileObjects, NEW mode \in Modes,
         NEW access, NEW share, NEW at, NEW save \in Saves,
         OpenAs(o, mode, access, share, at, save)
  PROVE  FileBounds'
<1>1. CASE SharesFile(o, access \union Needs(mode), share) /\ Content(mode) # {}
  <2> DEFINE Opened(content) == [ClosedFile EXCEPT !.access = access, !.share = share, !.at = at, !.save = save,
                                                   !.seen = IF at = "quick" THEN content ELSE NoFile]
  <2>1. PICK content \in Content(mode) : file' = content /\ SetHandle(o, Opened(content))
    BY <1>1 DEF OpenAs
  <2> DEFINE h == Opened(content)
  <2>2. content \in StoredFiles
    <3>1. content \in {<<>>} \/ (content = file /\ file # NoFile)
      <4>1. CASE mode = "create_always"
        BY <4>1 DEF Content
      <4>2. CASE mode = "create_new"
        BY <4>2 DEF Content
      <4>3. CASE mode = "open_existing"
        BY <4>3 DEF Content
      <4>4. CASE mode = "open_always"
        BY <4>4 DEF Content
      <4>5. CASE mode = "truncate"
        BY <4>5 DEF Content
      <4> QED
        BY <4>1, <4>2, <4>3, <4>4, <4>5 DEF Modes
    <3> QED
      BY <3>1, StoredIs DEF FileBounds
  <2>3. h.pos = 0 /\ h.save = save
    BY DEF ClosedFile
  <2> HIDE DEF h
  <2>4. SetHandle(o, h)
    BY <2>1 DEF h
  <2> HIDE DEF Opened
  <2> QED
    BY <2>1, <2>2, <2>3, <2>4, BoundsStep, FileAssumption
<1>2. CASE ~(SharesFile(o, access \union Needs(mode), share) /\ Content(mode) # {})
  <2>1. file' = file /\ fileObjects' = fileObjects
    BY <1>2 DEF OpenAs
  <2> QED
    BY <2>1 DEF FileBounds, Ready
<1> QED
  BY <1>1, <1>2

LEMMA FileBoundsKept == FileInv /\ FileBounds /\ [FileNext]_fileVars => FileBounds'
<1> SUFFICES ASSUME FileInv, FileBounds, [FileNext]_fileVars PROVE FileBounds'
  OBVIOUS
<1>0. \A o \in FileObjects : /\ fileObjects[o] \in Handles /\ fileObjects[o].pos \in 0..MaxFile
                              /\ fileObjects[o].save \in Saves
  BY FileAssumption DEF FileInv, FileHandles, FileBounds, Handles
<1>b. <<>> \in Saves /\ \A b \in FileBytes : <<b, b>> \in Saves
  BY DEF Saves
<1>m. "open_existing" \in Modes /\ "create_always" \in Modes
  BY DEF Modes
<1>c. /\ ClosedFile.access = {} /\ ClosedFile.pos = 0 /\ ClosedFile.save = <<>> /\ 0 <= MaxFile
  BY FileAssumption DEF ClosedFile
<1>1. ASSUME UNCHANGED fileVars PROVE FileBounds'
  BY <1>1 DEF fileVars, FileBounds, Ready
<1>2. ASSUME NEW o \in FileObjects, SetHandle(o, ClosedFile), file' = file PROVE FileBounds'
  BY <1>2, <1>b, <1>c, BoundsStep
<1>3. ASSUME NEW o \in FileObjects, InitializeFile(o) PROVE FileBounds'
  BY <1>3, <1>b, OpenStores DEF InitializeFile
<1>4. ASSUME NEW o \in FileObjects, QuickOpen(o) PROVE FileBounds'
  BY <1>4, <1>b, <1>m, OpenStores DEF QuickOpen
<1>5. ASSUME NEW o \in FileObjects, CloseFile(o) \/ ReadAll(o) \/ SaveClose(o) \/ CrashProgram(o)
      PROVE  FileBounds'
  <2>1. SetHandle(o, ClosedFile) /\ file' = file
    BY <1>5 DEF CloseFile, ReadAll, SaveClose, CrashProgram
  <2> QED
    BY <1>2, <2>1
<1>6. ASSUME NEW o \in FileObjects, AskSize(o) PROVE FileBounds'
  <2>1. file' = file
    BY <1>6 DEF AskSize
  <2>2. CASE file = <<>>
    BY <1>2, <1>6, <2>1, <2>2 DEF AskSize
  <2>3. CASE file # <<>>
    <3> DEFINE h == [fileObjects[o] EXCEPT !.at = "sized", !.size = Len(file)]
    <3>1. SetHandle(o, h)
      BY <1>6, <2>3 DEF AskSize
    <3>2. h.access = fileObjects[o].access /\ h.pos = fileObjects[o].pos /\ h.save = fileObjects[o].save
      BY <1>0 DEF Handles
    <3> HIDE DEF h
    <3> QED
      BY <1>0, <2>1, <3>1, <3>2, BoundsStep
  <2> QED
    BY <2>2, <2>3
<1>7. ASSUME NEW o \in FileObjects, NEW place \in 0..MaxFile,
             SetHandle(o, [fileObjects[o] EXCEPT !.pos = place]),
             file' \in StoredFiles \/ file' = file
      PROVE  FileBounds'
  <2> DEFINE h == [fileObjects[o] EXCEPT !.pos = place]
  <2>1. h.access = fileObjects[o].access /\ h.pos = place /\ h.save = fileObjects[o].save
    BY <1>0 DEF Handles
  <2>2. SetHandle(o, h) /\ place <= MaxFile
    BY <1>7, FileAssumption
  <2> HIDE DEF h
  <2> QED
    BY <1>0, <1>7, <2>1, <2>2, BoundsStep
<1>8. ASSUME NEW o \in FileObjects, NEW offset, NEW from, Seek(o, offset, from) PROVE FileBounds'
  BY <1>7, <1>8 DEF Seek
<1>9. ASSUME NEW o \in FileObjects, NEW size \in 1..MaxFile, ReadSome(o, size) PROVE FileBounds'
  <2> DEFINE pos == fileObjects[o].pos
             left == Len(file) - pos
             least == Min({size, left})
             place == pos + Max({0, least})
  <2>1. /\ SetHandle(o, [fileObjects[o] EXCEPT !.pos = place]) /\ file' = file
        /\ file \in StoredFiles /\ pos \in 0..MaxFile
    <3>1. SetHandle(o, [fileObjects[o] EXCEPT !.pos = @ + BytesLeft(@, size)])
      BY <1>9 DEF ReadSome
    <3>2. file' = file /\ file \in StoredFiles /\ pos \in 0..MaxFile
      BY <1>0, <1>9 DEF ReadSome, FileBounds
    <3> QED
      BY <3>1, <3>2 DEF BytesLeft
  <2>2. Len(file) \in 0..MaxFile
    BY <2>1, StoredIs
  <2>3. place \in 0..MaxFile
    <3> HIDE DEF pos
    <3>1. left \in Int /\ size \in Int /\ pos + left <= MaxFile
      BY <2>1, <2>2, FileAssumption
    <3> HIDE DEF left
    <3>2. least \in {size, left} /\ least <= left
      BY <3>1, MinOfTwo
    <3>3. least \in Int
      BY <3>1, <3>2
    <3> HIDE DEF least
    <3>4. Max({0, least}) \in {0, least} /\ Max({0, least}) >= 0
      BY <3>3, MaxOfTwo
    <3> QED
      BY <2>1, <3>1, <3>2, <3>3, <3>4, FileAssumption
  <2> HIDE DEF place
  <2> QED
    BY <1>7, <2>1, <2>3
<1>10. ASSUME NEW o \in FileObjects, NEW b \in FileBytes, WriteSome(o, <<b>>) PROVE FileBounds'
  <2> DEFINE pos == fileObjects[o].pos
  <2>1. /\ SetHandle(o, [fileObjects[o] EXCEPT !.pos = pos + Len(<<b>>)]) /\ file' = Written(pos, <<b>>)
        /\ file \in StoredFiles /\ pos \in 0..MaxFile /\ pos + Len(<<b>>) <= MaxFile
    BY <1>0, <1>10 DEF WriteSome, FileBounds
  <2> HIDE DEF pos
  <2>2. <<b>> \in Seq(FileBytes) /\ Len(<<b>>) = 1 /\ pos \in Nat
    BY <2>1, FileAssumption
  <2>3. Written(pos, <<b>>) \in StoredFiles
    BY <2>1, <2>2, WrittenIsStored
  <2>4. pos + Len(<<b>>) \in 0..MaxFile
    BY <2>1, <2>2, FileAssumption
  <2> QED
    BY <1>7, <2>1, <2>3, <2>4
<1>11. ASSUME NEW o \in FileObjects, NEW b \in FileBytes, SaveOpen(o, <<b, b>>) PROVE FileBounds'
  BY <1>11, <1>b, <1>m, OpenStores DEF SaveOpen
<1>12. ASSUME NEW o \in FileObjects, SaveWrite(o) PROVE FileBounds'
  <2> DEFINE h == [fileObjects[o] EXCEPT !.at = "saved"]
             save == fileObjects[o].save
  <2>1. SetHandle(o, h) /\ file' = Written(0, save) /\ save \in Saves /\ file \in StoredFiles
    BY <1>0, <1>12 DEF SaveWrite, FileInv, SaversWrite, FileBounds, Ready
  <2>2. h.pos = fileObjects[o].pos /\ h.save = save
    BY <1>0 DEF Handles
  <2> HIDE DEF save, h
  <2>3. save \in Seq(FileBytes) /\ 0 + Len(save) <= MaxFile
    <3>1. CASE save = <<>>
      BY <3>1, FileAssumption
    <3>2. ASSUME NEW b \in FileBytes, save = <<b, b>> PROVE save \in Seq(FileBytes) /\ Len(save) <= 2
      BY <3>2
    <3> QED
      BY <2>1, <3>1, <3>2, FileAssumption DEF Saves
  <2>4. Written(0, save) \in StoredFiles
    BY <2>1, <2>3, WrittenIsStored
  <2> QED
    BY <1>0, <2>1, <2>2, <2>4, BoundsStep
<1> QED
  BY <1>1, <1>3, <1>4, <1>5, <1>6, <1>8, <1>9, <1>10, <1>11, <1>12 DEF FileNext

LEMMA FilesTyped == FileSpec => []FileTypeOK
<1>1. FileInit => FileBounds
  <2> SUFFICES ASSUME FileInit PROVE FileBounds
    OBVIOUS
  <2>1. ClosedFile.access = {} /\ ClosedFile.pos = 0 /\ ClosedFile.save = <<>> /\ <<>> \in Saves
    BY DEF ClosedFile, Saves
  <2>2. file = NoFile /\ \A o \in FileObjects : fileObjects[o] = ClosedFile
    BY DEF FileInit
  <2> QED
    BY <2>1, <2>2, FileAssumption DEF FileBounds, Ready
<1>2. FileInv /\ FileBounds => FileTypeOK
  <2> SUFFICES ASSUME FileInv, FileBounds PROVE FileTypeOK
    OBVIOUS
  <2>1. file = NoFile \/ file \in StoredFiles
    BY DEF FileBounds
  <2>2. ASSUME NEW o \in FileObjects
        PROVE  /\ fileObjects[o].access \subseteq fileObjects[o].share \union {Read, Write}
               /\ fileObjects[o].pos \in 0..MaxFile
               /\ fileObjects[o].at \in {"idle", "quick", "sized", "save", "saved"}
    <3>1. fileObjects[o] \in Handles /\ fileObjects[o].pos <= MaxFile
      BY DEF FileInv, FileHandles, FileBounds
    <3> QED
      BY <3>1, FileAssumption DEF Handles
  <2> QED
    BY <2>1, <2>2 DEF FileTypeOK, StoredFiles
<1> QED
  BY <1>1, <1>2, InitFileInv, NextFileInv, FileBoundsKept, PTL DEF FileSpec

-----------------------------------------------------------------------------
(* MemoryBuffer *)

Cells == Seq(Bytes \union {Unknown})
Values == Seq(Bytes)

\* As many bytes as promised, each the promised one or unknown.
Matches(now, promised) ==
  /\ now \in Cells /\ promised \in Values
  /\ Len(now) = Len(promised)
  /\ \A i \in 1 .. Len(now) : now[i] = promised[i] \/ now[i] = Unknown

BufferInv ==
  /\ cells \in [Buffers -> Cells] /\ meant \in [Buffers -> Values] /\ exposed \subseteq Buffers
  /\ \A b \in Buffers : /\ Matches(cells[b], meant[b]) /\ Len(cells[b]) <= MaxBytes
                        /\ b \notin exposed => cells[b] = meant[b]

\* What is written as promised matches the promise.
LEMMA ValuesMatch ==
  /\ Values \subseteq Cells
  /\ \A s \in Values : s \in Cells /\ Matches(s, s)
<1>1. ASSUME NEW s \in Values PROVE s \in Cells
  BY SeqMonotonic DEF Values, Cells
<1> QED
  BY <1>1 DEF Matches

\* A call that gives one buffer contents within the bound that match the promise keeps the
\* invariant, if an unexposed buffer gets exactly what was promised.
LEMMA BufferStep ==
  ASSUME BufferInv, NEW b \in Buffers, NEW now, NEW promised, Matches(now, promised), Len(now) <= MaxBytes,
         cells' = [cells EXCEPT ![b] = now], meant' = [meant EXCEPT ![b] = promised],
         exposed' = exposed \union {b} \/ exposed' = exposed \ {b},
         b \notin exposed' => now = promised
  PROVE  BufferInv'
<1>1. /\ cells' \in [Buffers -> Cells] /\ meant' \in [Buffers -> Values] /\ exposed' \subseteq Buffers
      /\ cells'[b] = now /\ meant'[b] = promised
      /\ \A a \in Buffers \ {b} : cells'[a] = cells[a] /\ meant'[a] = meant[a] /\ (a \in exposed' <=> a \in exposed)
  BY DEF BufferInv, Matches
<1>2. ASSUME NEW a \in Buffers
      PROVE  /\ Matches(cells'[a], meant'[a]) /\ Len(cells'[a]) <= MaxBytes
             /\ a \notin exposed' => cells'[a] = meant'[a]
  <2>1. CASE a = b
    BY <1>1, <2>1
  <2>2. CASE a # b
    BY <1>1, <2>2 DEF BufferInv
  <2> QED
    BY <2>1, <2>2
<1> QED
  BY <1>1, <1>2 DEF BufferInv

\* Blocks of zeros and of bytes nobody wrote.
LEMMA BlocksTyped ==
  ASSUME NEW n \in Int
  PROVE  /\ Zeros(n) \in Values /\ Unknowns(n) \in Cells
         /\ Len(Zeros(n)) = IF n <= 0 THEN 0 ELSE n
         /\ Len(Unknowns(n)) = IF n <= 0 THEN 0 ELSE n
         /\ \A i \in 1 .. n : Zeros(n)[i] = 0 /\ Unknowns(n)[i] = Unknown
<1> DEFINE k == IF n <= 0 THEN 0 ELSE n
<1>1. k \in Nat /\ 1 .. n = 1 .. k
  OBVIOUS
<1>2. Zeros(n) = [i \in 1 .. k |-> 0] /\ Unknowns(n) = [i \in 1 .. k |-> Unknown]
  BY <1>1 DEF Zeros, Unknowns
<1> HIDE DEF k
<1>3. Zeros(n) \in [1 .. k -> Bytes] /\ Unknowns(n) \in [1 .. k -> Bytes \union {Unknown}]
  BY <1>2, BufferAssumption
<1>4. Zeros(n) \in Values /\ Unknowns(n) \in Cells
  BY <1>1, <1>3, SeqDef DEF Values, Cells
<1>5. DOMAIN Zeros(n) = 1 .. Len(Zeros(n)) /\ DOMAIN Unknowns(n) = 1 .. Len(Unknowns(n))
      /\ Len(Zeros(n)) \in Nat /\ Len(Unknowns(n)) \in Nat
  BY <1>4, LenProperties DEF Values, Cells
<1>6. DOMAIN Zeros(n) = 1 .. k /\ DOMAIN Unknowns(n) = 1 .. k
  BY <1>3
<1>7. Len(Zeros(n)) = k /\ Len(Unknowns(n)) = k
  <2>1. \A p, q \in Nat : 1 .. p = 1 .. q => p = q
    <3> SUFFICES ASSUME NEW p \in Nat, NEW q \in Nat, 1 .. p = 1 .. q, p < q PROVE FALSE
      OBVIOUS
    <3>1. q \in 1 .. q /\ q \notin 1 .. p
      OBVIOUS
    <3> QED
      BY <3>1
  <2> QED
    BY <1>1, <1>5, <1>6, <2>1
<1>8. \A i \in 1 .. k : Zeros(n)[i] = 0 /\ Unknowns(n)[i] = Unknown
  BY <1>2
<1> QED
  BY <1>1, <1>4, <1>7, <1>8 DEF k

\* The first bytes of a sequence.
LEMMA FirstBytes ==
  ASSUME NEW S, NEW s \in Seq(S), NEW i \in 0 .. Len(s), NEW j \in i .. Len(s)
  PROVE  /\ SubSeq(s, i + 1, j) \in Seq(S) /\ Len(SubSeq(s, i + 1, j)) = j - i
         /\ \A k \in 1 .. j - i : SubSeq(s, i + 1, j)[k] = s[i + k]
<1>1. Len(s) \in Nat /\ \A k \in 1 .. Len(s) : s[k] \in S
  BY LenProperties, ElementOfSeq
<1>2. \A k \in i + 1 .. j : s[k] \in S
  BY <1>1
<1> DEFINE t == SubSeq(s, i + 1, j)
<1>3. /\ t \in Seq(S)
      /\ Len(t) = IF i + 1 <= j THEN j - (i + 1) + 1 ELSE 0
      /\ \A k \in 1 .. j - (i + 1) + 1 : t[k] = s[(i + 1) + k - 1]
  <2>1. i + 1 \in Int /\ j \in Int
    BY <1>1
  <2> QED
    BY <1>2, <2>1, SubSeqProperties
<1> HIDE DEF t
<1>4. Len(t) = j - i
  BY <1>1, <1>3
<1>5. ASSUME NEW k \in 1 .. j - i PROVE t[k] = s[i + k]
  <2>1. k \in 1 .. j - (i + 1) + 1 /\ (i + 1) + k - 1 = i + k
    BY <1>1
  <2> QED
    BY <1>3, <2>1
<1> QED
  BY <1>3, <1>4, <1>5 DEF t

\* realloc keeps the bytes there were; those after them are zeros in a new block only.
LEMMA RecreateIs ==
  ASSUME NEW old \in Cells, NEW size \in Nat
  PROVE  /\ Recreate(old, size) \in Cells /\ Len(Recreate(old, size)) = size
         /\ \A i \in 1 .. size : i <= Len(old) => Recreate(old, size)[i] = old[i]
         /\ old # <<>> => \A i \in Len(old) + 1 .. size : Recreate(old, size)[i] = Unknown
         /\ old = <<>> => Recreate(old, size) = Zeros(size)
<1> DEFINE n == Len(old)
<1>0. n \in Nat /\ (old = <<>> <=> n = 0)
  BY LenProperties, EmptySeq DEF Cells
<1>1. CASE size = 0
  <2>1. Recreate(old, size) = <<>>
    BY <1>1 DEF Recreate
  <2>2. <<>> \in Cells /\ Len(<<>>) = 0 /\ Zeros(0) = <<>>
    BY EmptySeq, BlocksTyped DEF Cells, Values
  <2> QED
    BY <1>0, <1>1, <2>1, <2>2
<1>2. CASE size # 0 /\ old = <<>>
  <2>1. Recreate(old, size) = Zeros(size)
    BY <1>2 DEF Recreate
  <2>2. Zeros(size) \in Cells /\ Len(Zeros(size)) = size
    BY <1>2, BlocksTyped, ValuesMatch
  <2> QED
    BY <1>0, <1>2, <2>1, <2>2
<1>3. CASE size # 0 /\ old # <<>>
  <2> DEFINE least == Min({size, n})
             kept == SubSeq(old, 1, least)
             rest == Unknowns(size - n)
  <2>1. least \in Nat /\ least <= n /\ least <= size /\ (least = size \/ least = n)
    <3>1. size \in Int /\ n \in Int
      BY <1>0
    <3>2. least \in {size, n} /\ least <= size /\ least <= n
      BY <3>1, MinOfTwo
    <3> HIDE DEF least
    <3> QED
      BY <1>0, <3>2
  <2>2. Recreate(old, size) = kept \o rest
    BY <1>3 DEF Recreate
  <2> HIDE DEF least
  <2>3. /\ kept \in Cells /\ Len(kept) = least /\ \A i \in 1 .. least : kept[i] = old[i]
    <3>1. 0 \in 0 .. n /\ least \in 0 .. n /\ 0 + 1 = 1 /\ old \in Seq(Bytes \union {Unknown})
      BY <1>0, <2>1 DEF Cells
    <3>2. /\ SubSeq(old, 0 + 1, least) \in Cells /\ Len(SubSeq(old, 0 + 1, least)) = least - 0
          /\ \A k \in 1 .. least - 0 : SubSeq(old, 0 + 1, least)[k] = old[0 + k]
      BY <3>1, FirstBytes DEF Cells
    <3> HIDE DEF kept
    <3>3. kept = SubSeq(old, 0 + 1, least) /\ least - 0 = least /\ \A k \in 1 .. least : 0 + k = k
      BY <2>1, <3>1 DEF kept
    <3> QED
      BY <3>2, <3>3
  <2>4. /\ rest \in Cells /\ Len(rest) = (IF size - n <= 0 THEN 0 ELSE size - n)
        /\ \A i \in 1 .. size - n : rest[i] = Unknown
    <3>1. size - n \in Int
      BY <1>0
    <3> QED
      BY <3>1, BlocksTyped
  <2> HIDE DEF kept, rest
  <2> DEFINE all == kept \o rest
  <2>5. /\ all \in Cells /\ Len(all) = Len(kept) + Len(rest)
        /\ \A i \in 1 .. Len(kept) + Len(rest) : all[i] = IF i <= Len(kept) THEN kept[i] ELSE rest[i - Len(kept)]
    BY <2>3, <2>4, ConcatProperties DEF Cells
  <2>6. Len(kept) + Len(rest) = size
    <3>1. CASE size - n <= 0
      <4>1. Len(rest) = 0 /\ Len(kept) = size
        BY <1>0, <2>1, <2>3, <2>4, <3>1
      <4> QED
        BY <4>1
    <3>2. CASE ~(size - n <= 0)
      <4>1. Len(rest) = size - n /\ Len(kept) = n
        BY <1>0, <2>1, <2>3, <2>4, <3>2
      <4> QED
        BY <1>0, <4>1
    <3> QED
      BY <3>1, <3>2
  <2> HIDE DEF all
  <2>7. ASSUME NEW i \in 1 .. size, i <= n PROVE all[i] = old[i]
    <3>1. i <= least
      BY <1>0, <2>1, <2>7
    <3> QED
      BY <1>0, <2>1, <2>3, <2>5, <2>6, <3>1
  <2>8. ASSUME NEW i \in n + 1 .. size PROVE all[i] = Unknown
    <3>1. least = n /\ i - n \in 1 .. size - n /\ ~(i <= least) /\ i \in 1 .. size
      BY <1>0, <2>1
    <3> QED
      BY <1>0, <2>3, <2>4, <2>5, <2>6, <3>1
  <2> QED
    BY <1>3, <2>2, <2>5, <2>6, <2>7, <2>8 DEF all
<1> QED
  BY <1>1, <1>2, <1>3

\* A copy to the end of what was there is an append.
LEMMA CopyAtEnd ==
  ASSUME NEW old \in Cells, NEW source \in Cells, NEW longer \in Cells,
         Len(longer) = Len(old) + Len(source),
         \A i \in 1 .. Len(old) : longer[i] = old[i]
  PROVE  CopyAt(longer, Len(old), source) = old \o source
<1> DEFINE n == Len(old)
<1>0. n \in Nat /\ Len(source) \in Nat
  BY LenProperties DEF Cells
<1>1. SubSeq(longer, 1, n) = old
  <2>1. 0 \in 0 .. Len(longer) /\ n \in 0 .. Len(longer) /\ 0 + 1 = 1 /\ longer \in Seq(Bytes \union {Unknown})
    BY <1>0 DEF Cells
  <2> DEFINE t == SubSeq(longer, 0 + 1, n)
  <2>2. t \in Cells /\ Len(t) = n - 0 /\ \A k \in 1 .. n - 0 : t[k] = longer[0 + k]
    BY <2>1, FirstBytes DEF Cells
  <2> HIDE DEF t
  <2>3. Len(t) = n /\ \A k \in 1 .. n : t[k] = old[k]
    BY <1>0, <2>2
  <2>4. t = old
    BY <2>2, <2>3, SeqEqual DEF Cells
  <2> QED
    BY <2>1, <2>4 DEF t
<1>2. SubSeq(longer, n + Len(source) + 1, Len(longer)) = <<>>
  BY <1>0, SubSeqEmpty
<1>3. old \o source \in Cells
  BY ConcatProperties DEF Cells
<1>4. (old \o source) \o <<>> = old \o source
  BY <1>3, ConcatEmptySeq DEF Cells
<1> QED
  BY <1>1, <1>2, <1>4 DEF CopyAt

\* An append of matching bytes matches.
LEMMA AppendMatches ==
  ASSUME NEW now, NEW promised, NEW more, NEW expected, Matches(now, promised), Matches(more, expected)
  PROVE  Matches(now \o more, promised \o expected)
<1>1. /\ now \in Cells /\ more \in Cells /\ promised \in Values /\ expected \in Values
      /\ Len(now) \in Nat /\ Len(more) \in Nat /\ Len(promised) = Len(now) /\ Len(expected) = Len(more)
  BY LenProperties DEF Matches, Cells, Values
<1> DEFINE s == now \o more
           t == promised \o expected
<1>2. /\ s \in Cells /\ Len(s) = Len(now) + Len(more)
      /\ \A i \in 1 .. Len(now) + Len(more) : s[i] = IF i <= Len(now) THEN now[i] ELSE more[i - Len(now)]
  BY <1>1, ConcatProperties DEF Cells
<1>3. /\ t \in Values /\ Len(t) = Len(now) + Len(more)
      /\ \A i \in 1 .. Len(now) + Len(more) : t[i] = IF i <= Len(now) THEN promised[i] ELSE expected[i - Len(now)]
  <2>1. /\ t \in Values /\ Len(t) = Len(promised) + Len(expected)
        /\ \A i \in 1 .. Len(promised) + Len(expected) :
             t[i] = IF i <= Len(promised) THEN promised[i] ELSE expected[i - Len(promised)]
    BY <1>1, ConcatProperties DEF Values
  <2> HIDE DEF t
  <2> QED
    BY <1>1, <2>1
<1> HIDE DEF s, t
<1>4. ASSUME NEW i \in 1 .. Len(s) PROVE s[i] = t[i] \/ s[i] = Unknown
  <2>1. CASE i <= Len(now)
    <3>1. i \in 1 .. Len(now)
      BY <1>1, <1>2, <2>1
    <3> QED
      BY <1>2, <1>3, <2>1, <3>1 DEF Matches
  <2>2. CASE ~(i <= Len(now))
    <3>1. i - Len(now) \in 1 .. Len(more)
      BY <1>1, <1>2, <2>2
    <3> QED
      BY <1>2, <1>3, <2>2, <3>1 DEF Matches
  <2> QED
    BY <2>1, <2>2
<1>5. Matches(s, t)
  BY <1>2, <1>3, <1>4 DEF Matches
<1> QED
  BY <1>5 DEF s, t

\* A part of matching bytes matches the same part of the promise.
LEMMA PartMatches ==
  ASSUME NEW now, NEW promised, Matches(now, promised), NEW i \in 0 .. Len(now), NEW j \in i .. Len(now)
  PROVE  /\ Matches(SubSeq(now, i + 1, j), SubSeq(promised, i + 1, j))
         /\ now = promised => SubSeq(now, i + 1, j) = SubSeq(promised, i + 1, j)
         /\ Len(SubSeq(now, i + 1, j)) = j - i
         /\ \A k \in 1 .. j - i : SubSeq(promised, i + 1, j)[k] = promised[i + k]
<1>1. /\ now \in Seq(Bytes \union {Unknown}) /\ promised \in Seq(Bytes)
      /\ Len(now) \in Nat /\ Len(promised) = Len(now)
  BY LenProperties DEF Matches, Cells, Values
<1> DEFINE s == SubSeq(now, i + 1, j)
           t == SubSeq(promised, i + 1, j)
<1>2. s \in Cells /\ Len(s) = j - i /\ \A k \in 1 .. j - i : s[k] = now[i + k]
  BY <1>1, FirstBytes DEF Cells
<1>3. t \in Values /\ Len(t) = j - i /\ \A k \in 1 .. j - i : t[k] = promised[i + k]
  <2>1. i \in 0 .. Len(promised) /\ j \in i .. Len(promised)
    BY <1>1
  <2> QED
    BY <1>1, <2>1, FirstBytes DEF Values
<1> HIDE DEF s, t
<1>4. ASSUME NEW k \in 1 .. Len(s) PROVE s[k] = t[k] \/ s[k] = Unknown
  <2>1. i + k \in 1 .. Len(now) /\ k \in 1 .. j - i
    BY <1>1, <1>2
  <2> QED
    BY <1>2, <1>3, <2>1 DEF Matches
<1> QED
  BY <1>2, <1>3, <1>4 DEF Matches, s, t

\* A place from the end, when it is in range, is the remainder of the place by the length.
LEMMA PlaceIsRemainder ==
  ASSUME NEW n \in Nat, NEW first \in Int, FromEnd(n, first) \in 0 .. n - 1
  PROVE  first % n = FromEnd(n, first)
<1>0. n > 0
  OBVIOUS
<1>1. CASE first < 0
  <2> DEFINE i == n + first
  <2>1. FromEnd(n, first) = i /\ i \in 0 .. n - 1 /\ first = i - n
    BY <1>1 DEF FromEnd
  <2> HIDE DEF i
  <2>2. (i - n) % n = i
    BY <1>0, <2>1
  <2> QED
    BY <2>1, <2>2
<1>2. CASE ~(first < 0)
  <2>1. FromEnd(n, first) = first /\ first \in 0 .. n - 1
    BY <1>2 DEF FromEnd
  <2>2. first % n = first
    BY <1>0, <2>1
  <2> QED
    BY <2>1, <2>2
<1> QED
  BY <1>1, <1>2

\* A slice that is not null is a part of the sequence, from the first place asked for.
LEMMA SliceIs ==
  ASSUME NEW s, Len(s) \in Nat, NEW first \in Int, NEW end \in Int, Slice(s, first, end) # <<>>
  PROVE  \E i \in 0 .. Len(s) : \E j \in i .. Len(s) :
           Slice(s, first, end) = SubSeq(s, i + 1, j) /\ first % Len(s) = i
<1> DEFINE n == Len(s)
           i == FromEnd(n, first)
           j == FromEnd(n, end)
<1>1. i \in Int /\ j \in Int
  BY DEF FromEnd
<1>2. ~(n = 0 \/ i < 0 \/ j < 0 \/ i > n \/ j > n \/ i >= j) /\ Slice(s, first, end) = SubSeq(s, i + 1, j)
  BY DEF Slice
<1> HIDE DEF i, j
<1>3. i \in 0 .. n /\ j \in i .. n /\ i \in 0 .. n - 1
  BY <1>1, <1>2
<1>4. first % n = i
  BY <1>3, PlaceIsRemainder DEF i
<1> QED
  BY <1>2, <1>3, <1>4

\* What is found is found inside.
LEMMA FindIsInside ==
  ASSUME NEW s, NEW t, Len(s) \in Nat, Len(t) \in Nat, Find(s, t) > 0
  PROVE  Find(s, t) \in 0 .. Len(s)
<1> DEFINE at == {i \in 0 .. Len(s) - Len(t) : SubSeq(s, i + 1, i + Len(t)) = t}
<1>1. at \subseteq 0 .. Len(s) /\ at \subseteq Nat
  OBVIOUS
<1>2. ~(s = <<>> \/ t = <<>> \/ at = {}) => Find(s, t) = Min(at)
  BY DEF Find
<1>3. (s = <<>> \/ t = <<>> \/ at = {}) => Find(s, t) = -1
  BY DEF Find
<1> HIDE DEF at
<1>4. Find(s, t) = Min(at) /\ at # {}
  <2>1. ASSUME s = <<>> \/ t = <<>> \/ at = {} PROVE FALSE
    <3>1. Find(s, t) = -1
      BY <1>3, <2>1
    <3>2. ~(-1 > 0)
      OBVIOUS
    <3> QED
      BY <3>1, <3>2
  <2> QED
    BY <1>2, <2>1
<1>5. \E x \in at : \A y \in at : x <= y
  BY <1>1, <1>4, LeastNumber
<1>6. Min(at) \in at
  <2>1. Min(at) = CHOOSE x \in at : \A y \in at : x <= y
    BY Zenon DEF Min
  <2> QED
    BY <1>5, <2>1
<1> QED
  BY <1>1, <1>4, <1>6

\* A whole sequence is its first bytes, and a clean copy of it is the sequence.
LEMMA WholeIs ==
  ASSUME NEW s \in Cells
  PROVE  SubSeq(s, 1, Len(s)) = s /\ CreateClean(s, Len(s)) = s
<1>0. Len(s) \in Nat /\ (s = <<>> <=> Len(s) = 0)
  BY LenProperties, EmptySeq DEF Cells
<1> DEFINE t == SubSeq(s, 0 + 1, Len(s))
<1>1. t \in Cells /\ Len(t) = Len(s) - 0 /\ \A k \in 1 .. Len(s) - 0 : t[k] = s[0 + k]
  <2>1. 0 \in 0 .. Len(s) /\ Len(s) \in 0 .. Len(s) /\ s \in Seq(Bytes \union {Unknown})
    BY <1>0 DEF Cells
  <2> QED
    BY <2>1, FirstBytes DEF Cells
<1>2. t = SubSeq(s, 1, Len(s))
  OBVIOUS
<1> HIDE DEF t
<1>3. Len(t) = Len(s) /\ \A k \in 1 .. Len(t) : t[k] = s[k]
  BY <1>0, <1>1
<1>4. t = s
  BY <1>1, <1>3, SeqEqual DEF Cells
<1>5. CreateClean(s, Len(s)) = s
  <2>1. CASE s = <<>>
    <3>1. CreateClean(s, Len(s)) = Zeros(0)
      BY <1>0, <2>1 DEF CreateClean
    <3>2. Zeros(0) \in Cells /\ Len(Zeros(0)) = 0
      BY BlocksTyped, ValuesMatch
    <3>3. Zeros(0) = <<>>
      BY <3>2, EmptySeq DEF Cells
    <3> QED
      BY <2>1, <3>1, <3>3
  <2>2. CASE s # <<>>
    BY <1>2, <1>4, <2>2 DEF CreateClean
  <2> QED
    BY <2>1, <2>2
<1> QED
  BY <1>2, <1>4, <1>5

\* What resize makes matches what it promises, and is it, unless a block grows.
LEMMA ResizeMatches ==
  ASSUME NEW now, NEW promised, Matches(now, promised), NEW size \in Nat
  PROVE  /\ size <= Len(now) =>
              /\ Matches(Recreate(now, size), SubSeq(promised, 1, size))
              /\ now = promised => Recreate(now, size) = SubSeq(promised, 1, size)
         /\ size > Len(now) =>
              /\ Matches(Recreate(now, size), promised \o Zeros(size - Len(now)))
              /\ now = <<>> => Recreate(now, size) = promised \o Zeros(size - Len(now))
<1> DEFINE result == Recreate(now, size)
           n == Len(now)
<1>0. /\ now \in Cells /\ promised \in Values /\ n \in Nat /\ Len(promised) = n
      /\ now \in Seq(Bytes \union {Unknown}) /\ promised \in Seq(Bytes)
  BY LenProperties DEF Matches, Cells, Values
<1>1. /\ result \in Cells /\ Len(result) = size
      /\ \A i \in 1 .. size : i <= n => result[i] = now[i]
      /\ now # <<>> => \A i \in n + 1 .. size : result[i] = Unknown
      /\ now = <<>> => result = Zeros(size)
  BY <1>0, RecreateIs
<1> HIDE DEF result
<1>2. ASSUME size <= n
      PROVE  /\ Matches(result, SubSeq(promised, 1, size))
             /\ now = promised => result = SubSeq(promised, 1, size)
  <2> DEFINE part == SubSeq(now, 0 + 1, size)
  <2>1. 0 \in 0 .. n /\ size \in 0 .. n
    BY <1>0, <1>2
  <2>2. /\ Matches(part, SubSeq(promised, 0 + 1, size))
        /\ now = promised => part = SubSeq(promised, 0 + 1, size)
    BY <1>0, <2>1, PartMatches
  <2>3. part \in Cells /\ Len(part) = size - 0 /\ \A k \in 1 .. size - 0 : part[k] = now[0 + k]
    BY <1>0, <2>1, FirstBytes DEF Cells
  <2>4. SubSeq(promised, 0 + 1, size) = SubSeq(promised, 1, size)
    OBVIOUS
  <2> HIDE DEF part
  <2>5. Len(part) = Len(result) /\ \A k \in 1 .. Len(part) : part[k] = result[k]
    BY <1>0, <1>1, <1>2, <2>3
  <2>6. part = result
    BY <1>1, <2>3, <2>5, SeqEqual DEF Cells
  <2> QED
    BY <2>2, <2>4, <2>6
<1>3. ASSUME size > n
      PROVE  /\ Matches(result, promised \o Zeros(size - n))
             /\ now = <<>> => result = promised \o Zeros(size - n)
  <2> DEFINE zeros == Zeros(size - n)
             whole == promised \o zeros
  <2>1. zeros \in Values /\ Len(zeros) = size - n
    <3>1. size - n \in Int /\ ~(size - n <= 0)
      BY <1>0, <1>3
    <3> QED
      BY <3>1, BlocksTyped
  <2> HIDE DEF zeros
  <2>2. /\ whole \in Values /\ Len(whole) = size
        /\ \A i \in 1 .. size : whole[i] = IF i <= n THEN promised[i] ELSE zeros[i - n]
    <3>1. /\ whole \in Values /\ Len(whole) = Len(promised) + Len(zeros)
          /\ \A i \in 1 .. Len(promised) + Len(zeros) :
               whole[i] = IF i <= Len(promised) THEN promised[i] ELSE zeros[i - Len(promised)]
      BY <1>0, <2>1, ConcatProperties DEF Values
    <3>2. Len(promised) + Len(zeros) = size
      BY <1>0, <2>1
    <3> HIDE DEF whole
    <3> QED
      BY <1>0, <3>1, <3>2
  <2>3. ASSUME now # <<>> PROVE Matches(result, whole)
    <3> HIDE DEF whole
    <3>1. ASSUME NEW i \in 1 .. size PROVE result[i] = whole[i] \/ result[i] = Unknown
      <4>1. CASE i <= n
        <5>1. i \in 1 .. n
          BY <1>0, <4>1
        <5> QED
          BY <1>1, <2>2, <4>1, <5>1 DEF Matches
      <4>2. CASE ~(i <= n)
        <5>1. i \in n + 1 .. size
          BY <1>0, <4>2
        <5> QED
          BY <1>1, <2>3, <5>1
      <4> QED
        BY <4>1, <4>2
    <3> QED
      BY <1>1, <2>2, <3>1 DEF Matches
  <2>4. ASSUME now = <<>> PROVE Matches(result, whole) /\ result = whole
    <3>1. n = 0 /\ promised = <<>>
      BY <1>0, <2>4, EmptySeq
    <3>2. whole = zeros
      BY <2>1, <3>1, ConcatEmptySeq DEF Values
    <3>3. zeros = Zeros(size)
      BY <3>1 DEF zeros
    <3>4. result = whole
      BY <1>1, <2>4, <3>2, <3>3
    <3> HIDE DEF whole
    <3> QED
      BY <2>2, <3>4, ValuesMatch
  <2> QED
    BY <2>3, <2>4 DEF zeros
<1> QED
  BY <1>2, <1>3 DEF result

LEMMA InitBufferInv == BufferInit => BufferInv
<1> SUFFICES ASSUME BufferInit PROVE BufferInv
  OBVIOUS
<1>1. <<>> \in Values /\ <<>> \in Cells
  BY EmptySeq DEF Values, Cells
<1>2. Matches(<<>>, <<>>) /\ Len(<<>>) <= MaxBytes
  BY <1>1, ValuesMatch, BufferAssumption
<1> QED
  BY <1>1, <1>2 DEF BufferInit, BufferInv

LEMMA NextBufferInv == BufferInv /\ [BufferNext]_bufferVars => BufferInv'
<1> SUFFICES ASSUME BufferInv, [BufferNext]_bufferVars PROVE BufferInv'
  OBVIOUS
<1>0. ASSUME NEW r \in Buffers
      PROVE  /\ Matches(cells[r], meant[r]) /\ (r \notin exposed => cells[r] = meant[r])
             /\ cells[r] \in Cells /\ meant[r] \in Values
             /\ Len(cells[r]) \in Nat /\ Len(meant[r]) = Len(cells[r]) /\ Len(cells[r]) <= MaxBytes
             /\ (cells[r] = <<>> <=> Len(cells[r]) = 0)
  <2>1. Matches(cells[r], meant[r]) /\ Len(cells[r]) <= MaxBytes /\ (r \notin exposed => cells[r] = meant[r])
    BY DEF BufferInv
  <2>2. cells[r] \in Cells /\ meant[r] \in Values /\ Len(meant[r]) = Len(cells[r])
    BY <2>1 DEF Matches
  <2> QED
    BY <2>1, <2>2, LenProperties, EmptySeq DEF Cells
<1>1. CASE UNCHANGED bufferVars
  BY <1>1 DEF bufferVars, BufferInv
<1>2. ASSUME NEW source \in Sources PROVE source \in Values /\ Len(source) <= MaxBytes
  <2>1. PICK n \in 1 .. MaxBytes : source \in [1 .. n -> Bytes]
    BY <1>2 DEF Sources
  <2>2. n \in Nat
    BY BufferAssumption
  <2>3. source \in Values /\ DOMAIN source = 1 .. n
    BY <2>1, <2>2, SeqDef DEF Values
  <2>4. Len(source) = n
    BY <2>2, <2>3, LenProperties DEF Values
  <2> QED
    BY <2>1, <2>3, <2>4
<1>3. ASSUME NEW b \in Buffers, NEW size \in 0 .. MaxBytes, ConstructBuffer(b, size) PROVE BufferInv'
  <2>1. size \in Int
    OBVIOUS
  <2>2. Matches(Zeros(size), Zeros(size)) /\ Len(Zeros(size)) <= MaxBytes
    BY <2>1, BlocksTyped, ValuesMatch, BufferAssumption
  <2>3. /\ cells' = [cells EXCEPT ![b] = Zeros(size)] /\ meant' = [meant EXCEPT ![b] = Zeros(size)]
        /\ exposed' = exposed \ {b}
    BY <1>3 DEF ConstructBuffer, Becomes, CreateClean
  <2> QED
    BY <2>2, <2>3, BufferStep
<1>4. ASSUME NEW b \in Buffers, NEW size \in 0 .. MaxBytes, Resize(b, size) PROVE BufferInv'
  <2> DEFINE n == Len(cells[b])
             now == IF size = n THEN cells[b] ELSE Recreate(cells[b], size)
             promised == IF size <= n THEN SubSeq(meant[b], 1, size)
                         ELSE meant[b] \o Zeros(size - Len(meant[b]))
             grows == b \in exposed \/ (cells[b] # <<>> /\ size > n)
  <2>1. /\ cells' = [cells EXCEPT ![b] = now] /\ meant' = [meant EXCEPT ![b] = promised]
        /\ exposed' = IF grows THEN exposed \union {b} ELSE exposed \ {b}
    <3>1. Becomes(b, now, promised, grows)
      BY <1>4, Zenon DEF Resize
    <3> HIDE DEF now, promised, grows
    <3>2. cells' = [cells EXCEPT ![b] = now]
      BY <3>1, Zenon DEF Becomes
    <3>3. meant' = [meant EXCEPT ![b] = promised]
      BY <3>1, Zenon DEF Becomes
    <3>4. exposed' = IF grows THEN exposed \union {b} ELSE exposed \ {b}
      BY <3>1, Zenon DEF Becomes
    <3> QED
      BY <3>2, <3>3, <3>4
  <2>2. size \in Nat /\ n \in Nat
    BY <1>0
  <2>3. Matches(cells[b], meant[b]) /\ Matches(now, promised) /\ (~grows => now = promised)
    <3>1. CASE size = n
      <4>1. now = cells[b] /\ promised = SubSeq(meant[b], 1, size) /\ Len(meant[b]) = size
        BY <1>0, <2>2, <3>1
      <4>2. meant[b] \in Cells
        BY <1>0, ValuesMatch
      <4>3. promised = meant[b]
        BY <4>1, <4>2, WholeIs
      <4> QED
        BY <1>0, <4>1, <4>3
    <3>2. CASE size < n
      <4>1. now = Recreate(cells[b], size) /\ promised = SubSeq(meant[b], 1, size) /\ size <= n
        <5>1. size # n /\ size <= n
          BY <2>2, <3>2
        <5> QED
          BY <5>1, Zenon
      <4>2. Matches(cells[b], meant[b])
        BY <1>0
      <4>3. /\ Matches(Recreate(cells[b], size), SubSeq(meant[b], 1, size))
            /\ cells[b] = meant[b] => Recreate(cells[b], size) = SubSeq(meant[b], 1, size)
        BY <2>2, <4>1, <4>2, ResizeMatches
      <4>4. Matches(now, promised) /\ (cells[b] = meant[b] => now = promised)
        BY <4>1, <4>3, Zenon
      <4> QED
        BY <1>0, <4>2, <4>4
    <3>3. CASE size > n
      <4>1. now = Recreate(cells[b], size) /\ promised = meant[b] \o Zeros(size - n)
        <5>1. size # n /\ ~(size <= n) /\ Len(meant[b]) = n
          BY <1>0, <2>2, <3>3
        <5> QED
          BY <5>1, Zenon
      <4>2. Matches(cells[b], meant[b])
        BY <1>0
      <4>3. /\ Matches(Recreate(cells[b], size), meant[b] \o Zeros(size - n))
            /\ cells[b] = <<>> => Recreate(cells[b], size) = meant[b] \o Zeros(size - n)
        BY <2>2, <3>3, <4>2, ResizeMatches
      <4>4. Matches(now, promised) /\ (cells[b] = <<>> => now = promised)
        BY <4>1, <4>3, Zenon
      <4> QED
        BY <3>3, <4>2, <4>4
    <3> QED
      BY <2>2, <3>1, <3>2, <3>3
  <2>6. Len(now) <= MaxBytes
    <3>1. CASE size = n
      BY <1>0, <3>1
    <3>2. CASE size # n
      <4>1. now = Recreate(cells[b], size) /\ Len(Recreate(cells[b], size)) = size
        BY <1>0, <2>2, <3>2, RecreateIs
      <4> HIDE DEF now
      <4> QED
        BY <4>1, BufferAssumption
    <3> QED
      BY <3>1, <3>2
  <2> HIDE DEF now, promised, grows
  <2>4. exposed' = exposed \union {b} \/ exposed' = exposed \ {b}
    BY <2>1
  <2>5. b \notin exposed' => now = promised
    BY <2>1, <2>3
  <2> QED
    BY <2>1, <2>3, <2>4, <2>5, <2>6, BufferStep
<1>5. ASSUME NEW b \in Buffers, NEW source \in Sources, Replace(b, source) PROVE BufferInv'
  <2>1. Matches(source, source) /\ Len(source) <= MaxBytes
    BY <1>2, ValuesMatch
  <2>2. /\ cells' = [cells EXCEPT ![b] = source] /\ meant' = [meant EXCEPT ![b] = source]
        /\ exposed' = exposed \ {b}
    BY <1>5 DEF Replace, Becomes
  <2> QED
    BY <2>1, <2>2, BufferStep
<1>6. ASSUME NEW b \in Buffers, NEW source \in Sources, Append_(b, source) PROVE BufferInv'
  <2> DEFINE n == Len(cells[b])
             longer == Recreate(cells[b], n + Len(source))
  <2>1. source \in Values /\ source \in Cells /\ Matches(source, source) /\ Len(source) \in Nat
    BY <1>2, ValuesMatch, LenProperties DEF Values
  <2>2. /\ cells' = [cells EXCEPT ![b] = CopyAt(longer, n, source)]
        /\ meant' = [meant EXCEPT ![b] = meant[b] \o source]
        /\ exposed' = IF b \in exposed THEN exposed \union {b} ELSE exposed \ {b}
    BY <1>6 DEF Append_, Becomes
  <2>3. CopyAt(longer, n, source) = cells[b] \o source
    <3>1. n + Len(source) \in Nat /\ cells[b] \in Cells /\ n \in Nat
      BY <1>0, <2>1
    <3>2. /\ longer \in Cells /\ Len(longer) = n + Len(source)
          /\ \A i \in 1 .. n + Len(source) : i <= n => longer[i] = cells[b][i]
      BY <3>1, RecreateIs
    <3> HIDE DEF longer
    <3>3. \A i \in 1 .. n : longer[i] = cells[b][i]
      BY <2>1, <3>1, <3>2
    <3> QED
      BY <2>1, <3>1, <3>2, <3>3, CopyAtEnd
  <2>4. Matches(cells[b] \o source, meant[b] \o source)
    BY <1>0, <2>1, AppendMatches
  <2>5. b \notin exposed' => cells[b] \o source = meant[b] \o source
    BY <1>0, <2>2
  <2>6. exposed' = exposed \union {b} \/ exposed' = exposed \ {b}
    BY <2>2
  <2>7. cells' = [cells EXCEPT ![b] = cells[b] \o source]
    BY <2>2, <2>3
  <2>8. Len(cells[b] \o source) <= MaxBytes
    <3>1. Len(cells[b] \o source) = Len(cells[b]) + Len(source)
      BY <1>0, <2>1, ConcatProperties DEF Cells
    <3> QED
      BY <1>6, <3>1 DEF Append_
  <2> QED
    BY <2>2, <2>4, <2>5, <2>6, <2>7, <2>8, BufferStep
<1>7. ASSUME NEW b \in Buffers, NEW r \in Buffers, ReplaceByBuffer(b, r) PROVE BufferInv'
  <2>1. CASE r = b
    <3> DEFINE lost == Unknowns(Len(cells[b]))
    <3>1. /\ cells' = [cells EXCEPT ![b] = lost] /\ meant' = [meant EXCEPT ![b] = meant[b]]
          /\ exposed' = IF cells[b] # <<>> THEN exposed \union {b} ELSE exposed \ {b}
      BY <1>7, <2>1 DEF ReplaceByBuffer, Becomes
    <3>2. /\ lost \in Cells /\ Len(lost) = Len(cells[b])
          /\ \A i \in 1 .. Len(cells[b]) : lost[i] = Unknown
      <4>1. Len(cells[b]) \in Int /\ (Len(cells[b]) <= 0 => Len(cells[b]) = 0)
        BY <1>0
      <4> QED
        BY <4>1, BlocksTyped
    <3> HIDE DEF lost
    <3>3. Matches(lost, meant[b]) /\ Len(lost) <= MaxBytes
      BY <1>0, <3>2 DEF Matches
    <3>4. b \notin exposed' => lost = meant[b]
      <4> SUFFICES ASSUME b \notin exposed' PROVE lost = meant[b]
        OBVIOUS
      <4>1. Len(cells[b]) = 0
        BY <1>0, <3>1
      <4>2. lost = <<>> /\ meant[b] = <<>>
        <5>1. Len(lost) = 0 /\ Len(meant[b]) = 0
          BY <1>0, <3>2, <4>1
        <5> QED
          BY <1>0, <3>2, <5>1, EmptySeq DEF Cells, Values
      <4> QED
        BY <4>2
    <3>5. exposed' = exposed \union {b} \/ exposed' = exposed \ {b}
      BY <3>1
    <3> QED
      BY <3>1, <3>3, <3>4, <3>5, BufferStep
  <2>2. CASE r # b
    <3>1. /\ cells' = [cells EXCEPT ![b] = cells[r]] /\ meant' = [meant EXCEPT ![b] = meant[r]]
          /\ exposed' = IF r \in exposed THEN exposed \union {b} ELSE exposed \ {b}
      BY <1>7, <2>2 DEF ReplaceByBuffer, Becomes
    <3>2. exposed' = exposed \union {b} \/ exposed' = exposed \ {b}
      BY <3>1
    <3>3. b \notin exposed' => cells[r] = meant[r]
      BY <1>0, <3>1
    <3> QED
      BY <1>0, <3>1, <3>2, <3>3, BufferStep
  <2> QED
    BY <2>1, <2>2
<1>8. ASSUME NEW b \in Buffers, NEW r \in Buffers, Assign(b, r) PROVE BufferInv'
  <2>1. /\ cells' = [cells EXCEPT ![b] = cells[r]] /\ meant' = [meant EXCEPT ![b] = meant[r]]
        /\ exposed' = IF r \in exposed THEN exposed \union {b} ELSE exposed \ {b}
    <3>1. CreateClean(cells[r], Len(cells[r])) = cells[r]
      BY <1>0, WholeIs
    <3>2. CASE cells[b] = cells[r]
      BY <1>8, <3>2 DEF Assign, Becomes
    <3>3. CASE cells[b] # cells[r]
      BY <1>8, <3>1, <3>3 DEF Assign, Becomes
    <3> QED
      BY <3>2, <3>3
  <2>2. exposed' = exposed \union {b} \/ exposed' = exposed \ {b}
    BY <2>1
  <2>3. b \notin exposed' => cells[r] = meant[r]
    BY <1>0, <2>1
  <2> QED
    BY <1>0, <2>1, <2>2, <2>3, BufferStep
<1>9. ASSUME NEW b \in Buffers, NEW r \in Buffers, NEW first \in -MaxBytes .. MaxBytes, NEW end \in -MaxBytes .. MaxBytes,
             TakeSlice(b, r, first, end) PROVE BufferInv'
  <2> DEFINE part == Slice(cells[b], first, end)
             promised == [k \in 1 .. Len(part) |-> meant[b][(first % Len(meant[b])) + k]]
  <2>1. first \in Int /\ end \in Int /\ Len(cells[b]) \in Nat /\ part # <<>>
    BY <1>0, <1>9, BufferAssumption DEF TakeSlice
  <2>2. PICK i \in 0 .. Len(cells[b]) : \E j \in i .. Len(cells[b]) :
          part = SubSeq(cells[b], i + 1, j) /\ first % Len(cells[b]) = i
    BY <2>1, SliceIs
  <2>3. PICK j \in i .. Len(cells[b]) : part = SubSeq(cells[b], i + 1, j) /\ first % Len(cells[b]) = i
    BY <2>2
  <2>4. /\ cells' = [cells EXCEPT ![r] = part] /\ meant' = [meant EXCEPT ![r] = promised]
        /\ exposed' = IF b \in exposed THEN exposed \union {r} ELSE exposed \ {r}
    BY <1>9 DEF TakeSlice, Becomes
  <2> HIDE DEF part
  <2> DEFINE same == SubSeq(meant[b], i + 1, j)
  <2>5. Matches(cells[b], meant[b])
    BY <1>0
  <2>6. /\ Matches(part, same) /\ (cells[b] = meant[b] => part = same)
        /\ Len(part) = j - i /\ \A k \in 1 .. j - i : same[k] = meant[b][i + k]
    BY <2>3, <2>5, PartMatches
  <2>7. same \in Values /\ Len(same) = j - i
    BY <2>6 DEF Matches
  <2> HIDE DEF same
  <2>8. promised = same
    <3>1. same = [k \in 1 .. Len(same) |-> same[k]]
      BY <2>7, LenProperties DEF Values
    <3>2. promised = [k \in 1 .. j - i |-> meant[b][i + k]]
      BY <1>0, <2>3, <2>6
    <3> QED
      BY <2>6, <2>7, <3>1, <3>2
  <2> HIDE DEF promised
  <2>9. exposed' = exposed \union {r} \/ exposed' = exposed \ {r}
    BY <2>4
  <2>10. r \notin exposed' => part = promised
    BY <1>0, <2>4, <2>6, <2>8
  <2>11. Matches(part, promised) /\ Len(part) <= MaxBytes
    <3>1. j - i <= Len(cells[b])
      BY <1>0
    <3>2. Len(cells[b]) \in Nat /\ Len(cells[b]) <= MaxBytes /\ MaxBytes \in Nat /\ i \in Int /\ j \in Int
      BY <1>0, BufferAssumption
    <3>3. Len(part) <= MaxBytes
      BY <2>6, <3>1, <3>2
    <3> QED
      BY <2>6, <2>8, <3>3
  <2> QED
    BY <2>4, <2>9, <2>10, <2>11, BufferStep
<1>10. ASSUME NEW b \in Buffers, NEW r \in Buffers, NEW v \in Bytes, Till(b, r, <<v>>) PROVE BufferInv'
  <2> DEFINE at == Find(cells[b], <<v>>)
             part == SubSeq(cells[b], 1, at)
             promised == SubSeq(meant[b], 1, at)
  <2>1. at \in 0 .. Len(cells[b])
    <3>1. Len(<<v>>) \in Nat /\ Find(cells[b], <<v>>) > 0
      BY <1>10 DEF Till
    <3> QED
      BY <1>0, <3>1, FindIsInside
  <2>2. /\ cells' = [cells EXCEPT ![r] = part] /\ meant' = [meant EXCEPT ![r] = promised]
        /\ exposed' = IF b \in exposed THEN exposed \union {r} ELSE exposed \ {r}
    BY <1>10 DEF Till, Becomes
  <2> HIDE DEF at
  <2>3. Matches(part, promised) /\ (cells[b] = meant[b] => part = promised) /\ Len(part) = at
    <3>1. 0 \in 0 .. Len(cells[b]) /\ 0 + 1 = 1 /\ Matches(cells[b], meant[b])
      BY <1>0
    <3>2. /\ Matches(SubSeq(cells[b], 0 + 1, at), SubSeq(meant[b], 0 + 1, at))
          /\ cells[b] = meant[b] => SubSeq(cells[b], 0 + 1, at) = SubSeq(meant[b], 0 + 1, at)
          /\ Len(SubSeq(cells[b], 0 + 1, at)) = at - 0
      BY <2>1, <3>1, PartMatches
    <3>3. at - 0 = at
      BY <1>0, <2>1
    <3> QED
      BY <3>1, <3>2, <3>3
  <2> HIDE DEF part, promised
  <2>4. exposed' = exposed \union {r} \/ exposed' = exposed \ {r}
    BY <2>2
  <2>5. r \notin exposed' => part = promised
    BY <1>0, <2>2, <2>3
  <2>6. Len(part) <= MaxBytes
    BY <1>0, <2>1, <2>3, BufferAssumption
  <2> QED
    BY <2>2, <2>3, <2>4, <2>5, <2>6, BufferStep
<1>11. ASSUME NEW b \in Buffers, NEW v \in Bytes, Fill(b, v) PROVE BufferInv'
  <2> DEFINE n == Len(cells[b])
             filled == [i \in 1 .. n |-> v]
  <2>1. DOMAIN cells[b] = 1 .. n /\ DOMAIN meant[b] = 1 .. n /\ n \in Nat
    BY <1>0, LenProperties DEF Cells, Values
  <2>2. cells' = [cells EXCEPT ![b] = filled] /\ meant' = [meant EXCEPT ![b] = filled] /\ exposed' = exposed \ {b}
    BY <1>11, <2>1 DEF Fill, Becomes
  <2>3. filled \in Values /\ DOMAIN filled = 1 .. n
    <3>1. filled \in [1 .. n -> Bytes]
      OBVIOUS
    <3> QED
      BY <2>1, <3>1, SeqDef DEF Values
  <2> HIDE DEF filled
  <2>4. Matches(filled, filled) /\ Len(filled) <= MaxBytes
    <3>1. Len(filled) = n
      BY <2>1, <2>3, LenProperties DEF Values
    <3> QED
      BY <1>0, <2>3, <3>1, ValuesMatch
  <2> QED
    BY <2>2, <2>4, BufferStep
<1>12. ASSUME NEW b \in Buffers, AppendSelf(b) PROVE BufferInv'
  <2> DEFINE n == Len(cells[b])
             longer == Recreate(cells[b], 2 * n)
  <2>1. PICK source \in {Unknowns(n), cells[b]} :
          Becomes(b, CopyAt(longer, n, source), meant[b] \o meant[b], TRUE)
    BY <1>12 DEF AppendSelf
  <2>2. n \in Nat /\ cells[b] \in Cells /\ 2 * n \in Nat /\ 2 * n = n + n /\ n \in Int
    BY <1>0
  <2>3. Matches(source, meant[b]) /\ source \in Cells /\ Len(source) = n
    <3>1. CASE source = cells[b]
      BY <1>0, <3>1
    <3>2. CASE source = Unknowns(n)
      <4>1. /\ Unknowns(n) \in Cells /\ Len(Unknowns(n)) = n
            /\ \A i \in 1 .. n : Unknowns(n)[i] = Unknown
        <5>1. n <= 0 => n = 0
          BY <2>2
        <5> QED
          BY <2>2, <5>1, BlocksTyped
      <4> QED
        BY <1>0, <3>2, <4>1 DEF Matches
    <3> QED
      BY <3>1, <3>2
  <2>4. CopyAt(longer, n, source) = cells[b] \o source
    <3>1. /\ longer \in Cells /\ Len(longer) = 2 * n
          /\ \A i \in 1 .. 2 * n : i <= n => longer[i] = cells[b][i]
      BY <2>2, RecreateIs
    <3> HIDE DEF longer
    <3>2. Len(longer) = n + Len(source) /\ \A i \in 1 .. n : longer[i] = cells[b][i]
      BY <2>2, <2>3, <3>1
    <3> QED
      BY <2>2, <2>3, <3>1, <3>2, CopyAtEnd
  <2>5. Matches(cells[b] \o source, meant[b] \o meant[b])
    BY <1>0, <2>3, AppendMatches
  <2>6. /\ cells' = [cells EXCEPT ![b] = cells[b] \o source]
        /\ meant' = [meant EXCEPT ![b] = meant[b] \o meant[b]]
        /\ exposed' = exposed \union {b}
    BY <2>1, <2>4 DEF Becomes
  <2>7. b \notin exposed' => cells[b] \o source = meant[b] \o meant[b]
    BY <2>6
  <2>8. Len(cells[b] \o source) <= MaxBytes
    <3>1. Len(cells[b] \o source) = n + Len(source)
      BY <2>2, <2>3, ConcatProperties DEF Cells
    <3>2. 2 * n <= MaxBytes
      BY <1>12 DEF AppendSelf
    <3> QED
      BY <2>2, <2>3, <3>1, <3>2
  <2> QED
    BY <2>5, <2>6, <2>7, <2>8, BufferStep
<1>13. ASSUME NEW b \in Buffers, Reset(b) PROVE BufferInv'
  <2>1. <<>> \in Values
    BY EmptySeq DEF Values
  <2>2. Matches(<<>>, <<>>) /\ Len(<<>>) <= MaxBytes
    BY <2>1, ValuesMatch, BufferAssumption
  <2>3. cells' = [cells EXCEPT ![b] = <<>>] /\ meant' = [meant EXCEPT ![b] = <<>>] /\ exposed' = exposed \ {b}
    BY <1>13 DEF Reset, Becomes
  <2> QED
    BY <2>2, <2>3, BufferStep
<1> QED
  <2>1. CASE BufferNext
    BY <1>3, <1>4, <1>5, <1>6, <1>7, <1>8, <1>9, <1>10, <1>11, <1>12, <1>13, <2>1, Zenon DEF BufferNext
  <2> QED
    BY <1>1, <2>1

\* Whatever calls came before, in any number and on any number of buffers, a buffer has as many
\* bytes as promised and each is the promised one, unless nobody wrote it: and of those only a
\* buffer has any that grew by resize, was its own source or was copied from such a one.
THEOREM BuffersAsMeant == BufferSpec => []BufferAsMeant
<1>1. BufferInv => BufferAsMeant
  <2> SUFFICES ASSUME BufferInv, NEW b \in Buffers
               PROVE  /\ Len(cells[b]) = Len(meant[b])
                      /\ \A i \in DOMAIN cells[b] : cells[b][i] \in {meant[b][i], Unknown}
                      /\ b \notin exposed => cells[b] = meant[b]
    BY DEF BufferAsMeant
  <2>1. Matches(cells[b], meant[b]) /\ (b \notin exposed => cells[b] = meant[b])
    BY DEF BufferInv
  <2>2. DOMAIN cells[b] = 1 .. Len(cells[b])
    BY <2>1, LenProperties DEF Matches, Cells
  <2> QED
    BY <2>1, <2>2 DEF Matches
<1> QED
  BY <1>1, InitBufferInv, NextBufferInv, PTL DEF BufferSpec

LEMMA BuffersTyped == BufferSpec => []BufferTypeOK
<1>1. BufferInv => BufferTypeOK
  <2> SUFFICES ASSUME BufferInv PROVE BufferTypeOK
    OBVIOUS
  <2>1. ASSUME NEW S, NEW s \in Seq(S), Len(s) <= MaxBytes
        PROVE  s \in UNION {[1..n -> S] : n \in 0..MaxBytes}
    <3>1. Len(s) \in 0..MaxBytes /\ s \in [1..Len(s) -> S]
      BY <2>1, LenProperties, BufferAssumption
    <3> QED
      BY <3>1
  <2>2. ASSUME NEW b \in Buffers
        PROVE  /\ cells[b] \in UNION {[1..n -> Bytes \union {Unknown}] : n \in 0..MaxBytes}
               /\ meant[b] \in UNION {[1..n -> Bytes] : n \in 0..MaxBytes}
    <3>1. /\ cells[b] \in Seq(Bytes \union {Unknown}) /\ meant[b] \in Seq(Bytes)
          /\ Len(cells[b]) <= MaxBytes /\ Len(meant[b]) = Len(cells[b])
      BY DEF BufferInv, Matches, Cells, Values
    <3> QED
      BY <2>1, <3>1
  <2>3. DOMAIN cells = Buffers /\ DOMAIN meant = Buffers /\ exposed \subseteq Buffers
        /\ cells = [b \in Buffers |-> cells[b]] /\ meant = [b \in Buffers |-> meant[b]]
    BY DEF BufferInv
  <2> DEFINE Blocks == UNION {[1..n -> Bytes \union {Unknown}] : n \in 0..MaxBytes}
             Promises == UNION {[1..n -> Bytes] : n \in 0..MaxBytes}
  <2>4. \A b \in Buffers : cells[b] \in Blocks /\ meant[b] \in Promises
    BY <2>2
  <2> HIDE DEF Blocks, Promises
  <2>5. cells \in [Buffers -> Blocks] /\ meant \in [Buffers -> Promises]
    BY <2>3, <2>4
  <2> QED
    BY <2>3, <2>5 DEF BufferTypeOK, Blocks, Promises
<1> QED
  BY <1>1, InitBufferInv, NextBufferInv, PTL DEF BufferSpec

-----------------------------------------------------------------------------
(* Sizes of Base64 text *)

\* The sizes of Base64 text that are asked for fit what is encoded, and what is decoded of it is as
\* long as it was, for every length whose fourfold fits the word, and every word.
THEOREM Base64SizesHold == \A n, Word \in Nat : Base64SizesFit(n, Word)
<1> SUFFICES ASSUME NEW n \in Nat, NEW Word \in Nat, 4 * n < Word
             PROVE  /\ EncodeSize(n, Word) = 4 * ((n + 2) \div 3)
                    /\ n > 0 => DecodeSize(EncodeSize(n, Word), Padding(n)) = n
  BY DEF Base64SizesFit
<1> DEFINE m == (n + 2) \div 3
<1>1. PICK q \in Nat, r \in {0, 1, 2} : n = 3 * q + r
  <2> DEFINE p == n \div 3
             t == n - 3 * p
  <2>1. p \in Nat /\ t \in {0, 1, 2} /\ n = 3 * p + t
    OBVIOUS
  <2> HIDE DEF p, t
  <2> QED
    BY <2>1
<1>2. (4 * n) % Word = 4 * n
  <2> DEFINE k == 4 * n
  <2>1. k \in Nat /\ k < Word
    OBVIOUS
  <2> HIDE DEF k
  <2>2. k % Word = k
    BY <2>1
  <2> QED
    BY <2>2 DEF k
<1>3. m \in Nat /\ m = IF r = 0 THEN q ELSE q + 1
  BY <1>1
<1>4. ((4 * n) \div 3 + 3) \div 4 = m
  <2>1. (4 * n) \div 3 = 4 * q + r
    BY <1>1
  <2>2. (4 * q + r + 3) \div 4 = IF r = 0 THEN q ELSE q + 1
    BY <1>1
  <2> QED
    BY <1>3, <2>1, <2>2
<1>5. EncodeSize(n, Word) = 4 * m
  BY <1>2, <1>3, <1>4 DEF EncodeSize
<1>6. Padding(n) = 3 * m - n
  <2>1. n % 3 = r
    BY <1>1
  <2>2. Padding(n) = IF r = 0 THEN 0 ELSE 3 - r
    BY <1>1, <2>1 DEF Padding
  <2> QED
    BY <1>1, <1>3, <2>2
<1>7. ASSUME n > 0 PROVE DecodeSize(4 * m, 3 * m - n) = n
  <2>1. m >= 1
    BY <1>1, <1>3, <1>7
  <2> HIDE DEF m
  <2>2. ~(4 * m < 2) /\ (4 * m) % 4 = 0 /\ (4 * m) \div 4 = m
    BY <1>3, <2>1
  <2>3. DecodeSize(4 * m, 3 * m - n) = m * 3 - (3 * m - n)
    BY <2>2 DEF DecodeSize
  <2> QED
    BY <1>3, <2>3
<1> QED
  BY <1>5, <1>6, <1>7
=============================================================================
