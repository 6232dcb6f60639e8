---------------------------- MODULE ObjectsProofs ----------------------------
(***************************************************************************)
(* Proofs about the objects that sit between a program and the system and  *)
(* keep a list of their own: the debouncer and its timers, the import hooks *)
(* and the table they patch, the service manager and the services of the   *)
(* control manager; and about the parallel loop: for any ids, functions,   *)
(* services, items, threads and number of calls.                           *)
(***************************************************************************)
EXTENDS MCObjects, InductionLemmas, SequenceTheorems, FiniteSetTheorems, TLAPS

-----------------------------------------------------------------------------
(* StlThread, for every size of the container and every number of threads: the *)
(* ranges lie inside the container and do not overlap, so no item is processed *)
(* twice or by two threads at once, and when the remainder is not larger than  *)
(* a range none is left out.                                                   *)

\* Between one thread and one per item.
LEMMA NumThreadsType == NumThreads \in 1 .. NumItems
BY StlThreadAssumption DEF NumThreads, Wanted, MAX_NTHREADS

\* The facts about division that the partition rests on.
LEMMA Division ==
  ASSUME NEW n \in Nat \ {0}, NEW t \in 1 .. n
  PROVE  /\ n \div t \in Nat \ {0} /\ n % t \in 0 .. t - 1
         /\ n = t * (n \div t) + (n % t)
<1> DEFINE q == n \div t
           r == n % t
<1>1. q \in Int /\ r \in 0 .. t - 1 /\ n = t * q + r
  OBVIOUS
<1> HIDE DEF q, r
<1>2. ASSUME q <= 0 PROVE FALSE
  <2> DEFINE x == t * (0 - q)
  <2>1. 0 - q \in Nat /\ t \in Nat
    BY <1>1, <1>2
  <2>2. x \in Nat
    BY <2>1
  <2>3. t * q = 0 - x
    BY <1>1
  <2> HIDE DEF x
  <2>4. n = r - x
    BY <1>1, <2>2, <2>3
  <2> QED BY <1>1, <2>2, <2>4
<1> QED BY <1>1, <1>2 DEF q, r

\* Each thread gets at least one item, and all together not more than there are.
LEMMA PerThread ==
  /\ ItemsPerThread \in Nat \ {0}
  /\ NumItems = ItemsPerThread * NumThreads + (NumItems % NumThreads)
  /\ NumItems % NumThreads \in 0 .. NumThreads - 1
<1>1. NumItems \in Nat \ {0} /\ NumThreads \in 1 .. NumItems
  BY NumThreadsType, StlThreadAssumption
<1>2. /\ NumItems \div NumThreads \in Nat \ {0}
      /\ NumItems % NumThreads \in 0 .. NumThreads - 1
      /\ NumItems = NumThreads * (NumItems \div NumThreads) + (NumItems % NumThreads)
  BY <1>1, Division, Zenon
<1>3. NumThreads * ItemsPerThread = ItemsPerThread * NumThreads
  BY <1>1, <1>2 DEF ItemsPerThread
<1> QED BY <1>2, <1>3 DEF ItemsPerThread

\* Products are monotonic.
LEMMA Monotonic ==
  ASSUME NEW p \in Nat, NEW a \in Nat, NEW b \in Nat, a <= b
  PROVE  p * a <= p * b
<1>1. PICK c \in Nat : b = a + c
  <2>1. b - a \in Nat /\ b = a + (b - a)
    OBVIOUS
  <2> QED BY <2>1
<1>2. p * b = p * a + p * c
  BY <1>1
<1>3. p * c \in Nat /\ p * a \in Nat
  OBVIOUS
<1> QED BY <1>2, <1>3

\* The number of iterations is the number of threads, and one more exactly when
\* there is a remainder.
LEMMA IterationsType ==
  /\ NumIterations \in Nat \ {0} /\ NumIterations <= NumThreads + 1
  /\ NumIterations = NumThreads + 1 <=> NumItems % NumThreads # 0
BY NumThreadsType, PerThread DEF NumIterations

\* Every range starts at its multiple, ends inside the container and is not
\* less than empty: std::next never leaves the container.
LEMMA RangeBounds ==
  ASSUME NEW it \in Iterations
  PROVE  /\ Start(it) \in Nat /\ Stop(it) \in Int
         /\ Start(it) <= Stop(it) + 1 /\ Stop(it) < NumItems
         /\ Stop(it) + 1 <= Start(it + 1)
<1>1. it \in Nat /\ it <= NumThreads
  BY IterationsType, NumThreadsType, StlThreadAssumption DEF Iterations
<1>2. ItemsPerThread * it <= ItemsPerThread * NumThreads
  BY <1>1, Monotonic, PerThread, NumThreadsType, StlThreadAssumption
<1>3. ItemsPerThread * it \in Nat /\ ItemsPerThread * NumThreads \in Nat
  BY <1>1, PerThread, NumThreadsType, StlThreadAssumption
<1>4. ItemsPerThread * it <= NumItems
  BY <1>2, <1>3, PerThread, NumThreadsType, StlThreadAssumption
<1>5. ItemsPerThread * (it + 1) = ItemsPerThread * it + ItemsPerThread
  BY <1>1, PerThread
<1> QED BY <1>3, <1>4, <1>5, PerThread, StlThreadAssumption DEF Start, Stop

\* Ranges of different iterations do not overlap.
LEMMA RangesDisjoint ==
  ASSUME NEW k \in Iterations, NEW l \in Iterations, k < l
  PROVE  Stop(k) < Start(l)
<1>1. k \in Nat /\ l \in Nat /\ k + 1 <= l
  BY IterationsType DEF Iterations
<1>2. ItemsPerThread * (k + 1) <= ItemsPerThread * l
  BY <1>1, Monotonic, PerThread
<1>3. Stop(k) + 1 <= ItemsPerThread * (k + 1)
  BY RangeBounds DEF Start
<1>4. ItemsPerThread * (k + 1) \in Nat /\ ItemsPerThread * l \in Nat
  BY <1>1, PerThread
<1> QED BY <1>2, <1>3, <1>4, RangeBounds DEF Start

-----------------------------------------------------------------------------
(* The inductive invariant: an iteration that has started is inside its       *)
(* range, and an item was processed once if some iteration has passed over it *)
(* and not at all otherwise.                                                  *)

Started(it) == stage[it] \in {"running", "finished"}

PassedBy(it, i) == Started(it) /\ Start(it) <= i /\ i < cursor[it]

CursorsInRange ==
  \A it \in Iterations : Started(it) => Start(it) <= cursor[it] /\ cursor[it] <= Stop(it) + 1

CallsExact ==
  \A i \in Items : calls[i] = IF \E it \in Iterations : PassedBy(it, i) THEN 1 ELSE 0

IInv == TypeOK /\ CursorsInRange /\ CallsExact

\* Nothing has started yet.
LEMMA InitIInv == Init => IInv
<1> SUFFICES ASSUME Init PROVE IInv
  OBVIOUS
<1>1. TypeOK
  BY IterationsType, StlThreadAssumption DEF Init, TypeOK, Pool!Init, Pool!Stages
<1>2. \A it \in Iterations : ~Started(it)
  BY DEF Init, Pool!Init, Started
<1> QED BY <1>1, <1>2 DEF IInv, CursorsInRange, CallsExact, PassedBy, Init

\* A step that moves no cursor and starts no iteration keeps the counts.
LEMMA SameProgress ==
  ASSUME IInv, TypeOK', UNCHANGED <<cursor, calls>>,
         \A it \in Iterations : Started(it)' <=> Started(it)
  PROVE  IInv'
<1>1. CursorsInRange'
  BY DEF IInv, CursorsInRange
<1>2. ASSUME NEW i \in Items
      PROVE  (\E it \in Iterations : PassedBy(it, i))' <=> \E it \in Iterations : PassedBy(it, i)
  BY DEF PassedBy
<1>3. CallsExact'
  BY <1>2, Zenon DEF IInv, CallsExact
<1> QED BY <1>1, <1>3 DEF IInv

\* Every step of the caller and of the pool's threads keeps the invariant.
LEMMA NextIInv == IInv /\ [Next]_vars => IInv'
<1> SUFFICES ASSUME IInv, [Next]_vars PROVE IInv'
  OBVIOUS
<1> USE DEF IInv
<1>1. CASE UNCHANGED vars
  <2>1. TypeOK'
    BY <1>1 DEF TypeOK, vars
  <2> QED BY <1>1, <2>1, SameProgress DEF vars, Started
<1>2. CASE AddTask
  <2>1. TypeOK'
    <3>1. next + 1 \in 0 .. NumIterations /\ mpc' = mpc /\ next' = next + 1
      BY <1>2, IterationsType DEF AddTask, TypeOK
    <3>2. stage' \in [Iterations -> Pool!Stages]
      BY <1>2 DEF AddTask, Pool!Submit, TypeOK, Pool!Stages
    <3> QED BY <1>2, <3>1, <3>2 DEF AddTask, Pool!Submit, TypeOK
  <2>2. \A it \in Iterations : Started(it)' <=> Started(it)
    BY <1>2 DEF AddTask, Pool!Submit, TypeOK, Started
  <2> QED BY <1>2, <2>1, <2>2, SameProgress DEF AddTask
<1>3. CASE Launch
  BY <1>3, SameProgress DEF Launch, TypeOK, Started
<1>4. CASE Destroy
  BY <1>4, SameProgress DEF Destroy, Pool!Close, TypeOK, Started
<1>5. CASE Destroyed
  <2>1. TypeOK'
    BY <1>5 DEF Destroyed, Pool!Discard, TypeOK, Pool!Stages
  <2>2. \A it \in Iterations : Started(it)' <=> Started(it)
    BY <1>5 DEF Destroyed, Pool!Discard, TypeOK, Started
  <2> QED BY <1>5, <2>1, <2>2, SameProgress DEF Destroyed
<1>6. ASSUME NEW it \in Iterations, Execute(it) PROVE IInv'
  <2>1. /\ stage[it] = "pending" /\ stage' = [stage EXCEPT ![it] = "running"]
        /\ cursor' = [cursor EXCEPT ![it] = Start(it)] /\ UNCHANGED <<mpc, next, open, calls>>
    BY <1>6 DEF Execute, Pool!Start
  <2>2. Start(it) \in 0 .. NumItems /\ Start(it) <= Stop(it) + 1
    BY RangeBounds, StlThreadAssumption
  <2>3. TypeOK'
    BY <2>1, <2>2 DEF TypeOK, Pool!Stages
  <2>4. CursorsInRange'
    BY <2>1, <2>2 DEF CursorsInRange, Started, TypeOK
  <2>5. ASSUME NEW i \in Items, NEW k \in Iterations PROVE PassedBy(k, i)' <=> PassedBy(k, i)
    BY <2>1, <2>2 DEF PassedBy, Started, TypeOK, Items
  <2>6. CallsExact'
    BY <2>1, <2>5, Zenon DEF CallsExact
  <2> QED BY <2>3, <2>4, <2>6
<1>7. ASSUME NEW it \in Iterations, CallTask(it) PROVE IInv'
  <2>0. PICK c : c = cursor[it]
    OBVIOUS
  <2>1. Start(it) <= c /\ c <= Stop(it) /\ c \in Items /\ Stop(it) \in Int
    BY <1>7, <2>0, RangeBounds, StlThreadAssumption DEF CallTask, CursorsInRange, Started, TypeOK, Items
  <2>2. /\ stage[it] = "running" /\ UNCHANGED <<mpc, next, stage, open>>
        /\ calls' = [calls EXCEPT ![c] = @ + 1] /\ cursor' = [cursor EXCEPT ![it] = @ + 1]
    BY <1>7, <2>0 DEF CallTask
  <2>3. TypeOK'
    <3>1. calls[c] + 1 \in Nat /\ cursor[it] + 1 \in 0 .. NumItems
      BY <2>0, <2>1, StlThreadAssumption DEF TypeOK, Items
    <3> QED BY <2>1, <2>2, <3>1 DEF TypeOK
  <2>4. CursorsInRange'
    BY <2>0, <2>1, <2>2, RangeBounds DEF CursorsInRange, Started, TypeOK
  <2>5. ASSUME NEW k \in Iterations PROVE ~PassedBy(k, c)
    <3>1. Start(k) \in Nat /\ Stop(k) \in Int /\ Start(it) \in Nat
      BY RangeBounds
    <3>2. CASE k = it
      BY <3>2, <2>0, <2>1 DEF PassedBy, Items
    <3>3. CASE k < it
      BY <3>3, <3>1, <2>1, RangesDisjoint DEF PassedBy, CursorsInRange, TypeOK, Items
    <3>4. CASE it < k
      <4>1. Stop(it) < Start(k)
        BY <3>4, RangesDisjoint
      <4> QED BY <4>1, <3>1, <2>1 DEF PassedBy, Items
    <3> QED BY <3>2, <3>3, <3>4, IterationsType DEF Iterations
  <2>6. PassedBy(it, c)'
    BY <2>0, <2>1, <2>2, RangeBounds DEF PassedBy, Started, TypeOK, Items
  <2>7. ASSUME NEW i \in Items, i # c, NEW k \in Iterations PROVE PassedBy(k, i)' <=> PassedBy(k, i)
    BY <2>0, <2>1, <2>2, <2>7, RangeBounds DEF PassedBy, Started, TypeOK, Items
  <2>8. calls[c] = 0
    BY <2>1, <2>5, Zenon DEF CallsExact
  <2>9. calls'[c] = 1
    BY <2>1, <2>2, <2>8 DEF TypeOK
  <2>10. ASSUME NEW i \in Items, i # c PROVE calls'[i] = calls[i]
    BY <2>1, <2>2, <2>10 DEF TypeOK
  <2>11. ASSUME NEW i \in Items
         PROVE  calls'[i] = IF \E k \in Iterations : PassedBy(k, i)' THEN 1 ELSE 0
    <3>1. CASE i = c
      BY <3>1, <2>6, <2>9, Zenon
    <3>2. CASE i # c
      BY <3>2, <2>7, <2>10, Zenon DEF CallsExact
    <3> QED BY <3>1, <3>2
  <2>12. CallsExact'
    BY <2>11, Zenon DEF CallsExact
  <2> QED BY <2>3, <2>4, <2>12
<1>8. ASSUME NEW it \in Iterations, Break(it) \/ RangeDone(it) PROVE IInv'
  <2>1. /\ stage[it] = "running" /\ stage' = [stage EXCEPT ![it] = "finished"]
        /\ UNCHANGED <<mpc, next, open, cursor, calls>>
    BY <1>8 DEF Break, RangeDone, Pool!Finish
  <2>2. TypeOK'
    BY <2>1 DEF TypeOK, Pool!Stages
  <2>3. \A k \in Iterations : Started(k)' <=> Started(k)
    BY <2>1 DEF Started, TypeOK
  <2> QED BY <2>1, <2>2, <2>3, SameProgress
<1> QED BY <1>1, <1>2, <1>3, <1>4, <1>5, <1>6, <1>7, <1>8 DEF Next

-----------------------------------------------------------------------------
(* The theorems. *)

\* The invariant holds in every state.
THEOREM Inductive == Spec => []IInv
BY InitIInv, NextIInv, PTL DEF Spec

\* Every variable keeps its type.
THEOREM TypeCorrect == Spec => []TypeOK
<1>1. IInv => TypeOK
  BY DEF IInv
<1> QED BY Inductive, <1>1, PTL

\* execute never leaves the container, whatever its size and the threads.
THEOREM NeverOutside == Spec => []InsideRange
<1>1. IInv => InsideRange
  BY RangeBounds DEF IInv, InsideRange, CursorsInRange, Started, Running
<1> QED BY Inductive, <1>1, PTL

\* No two threads are at the same item.
THEOREM ItemsNotShared == Spec => []NoSharedItem
<1>1. IInv => NoSharedItem
  <2> SUFFICES ASSUME IInv, NEW k \in Iterations, NEW l \in Iterations, k < l,
                      Running(k), Running(l), cursor[k] <= Stop(k)
               PROVE  cursor[k] # cursor[l]
    BY IterationsType DEF NoSharedItem, Iterations
  <2> QED BY RangesDisjoint, RangeBounds DEF IInv, CursorsInRange, Started, Running, TypeOK
<1> QED BY Inductive, <1>1, PTL

\* No item is processed twice.
THEOREM ProcessedOnce == Spec => []ItemOnce
<1>1. IInv => ItemOnce
  BY DEF IInv, CallsExact, ItemOnce, TypeOK
<1> QED BY Inductive, <1>1, PTL

\* Division with a non-negative dividend.
LEMMA Quotient ==
  ASSUME NEW i \in Nat, NEW p \in Nat \ {0}
  PROVE  \E q \in Nat : \E r \in 0 .. p - 1 : i = p * q + r
<1> DEFINE q == i \div p
           r == i % p
<1>1. q \in Int /\ r \in 0 .. p - 1 /\ i = p * q + r
  OBVIOUS
<1> HIDE DEF q, r
<1>2. ASSUME q <= -1 PROVE FALSE
  <2> DEFINE x == p * (0 - (q + 1))
  <2>1. 0 - (q + 1) \in Nat
    BY <1>1, <1>2
  <2>2. x \in Nat
    BY <2>1
  <2>3. p * q = 0 - x - p
    BY <1>1
  <2> HIDE DEF x
  <2> QED BY <1>1, <2>2, <2>3
<1> QED BY <1>1, <1>2

\* When the remainder is not larger than one range, every item is in a range.
LEMMA RangesCover ==
  ASSUME NumItems % NumThreads <= ItemsPerThread, NEW i \in Items
  PROVE  \E it \in Iterations : Start(it) <= i /\ i <= Stop(it)
<1> DEFINE p == ItemsPerThread
           t == NumThreads
<1>1. /\ p \in Nat \ {0} /\ t \in Nat \ {0} /\ i \in Nat /\ i < NumItems
      /\ NumItems % t \in Nat
  BY PerThread, NumThreadsType, StlThreadAssumption DEF Items
<1>2. PICK q \in Nat : \E r \in 0 .. p - 1 : i = p * q + r
  BY <1>1, Quotient, Zenon
<1>3. /\ p * q \in Nat /\ p * t \in Nat /\ p * q <= i /\ i < p * q + p
      /\ p * (q + 1) = p * q + p /\ p * (t + 1) = p * t + p
  BY <1>1, <1>2
<1>4. ASSUME t + 1 <= q PROVE FALSE
  <2>1. p * (t + 1) <= p * q
    BY <1>1, <1>4, Monotonic
  <2> QED BY <1>1, <1>3, <2>1, PerThread
<1>5. ASSUME NumItems % t = 0, t <= q PROVE FALSE
  <2>1. p * t <= p * q
    BY <1>1, <1>5, Monotonic
  <2>2. NumItems = p * t + 0
    BY <1>5, PerThread, Zenon
  <2> QED BY <1>1, <1>3, <2>1, <2>2, StlThreadAssumption
<1>6. q \in Iterations
  BY <1>1, <1>4, <1>5, NumThreadsType DEF Iterations, NumIterations
<1>7. Start(q) <= i /\ i <= Stop(q)
  BY <1>1, <1>3, StlThreadAssumption DEF Start, Stop
<1> QED BY <1>6, <1>7

\* With a remainder not larger than a range, the extra iteration does what its
\* comment says: once every range was walked, every item was processed.
THEOREM RemainderFits ==
  ASSUME NumItems % NumThreads <= ItemsPerThread
  PROVE  Spec => []RemainderProcessed
<1>1. IInv => RemainderProcessed
  <2> SUFFICES ASSUME IInv, NEW i \in Items,
                      \A it \in Iterations : stage[it] = "finished" /\ cursor[it] = Stop(it) + 1
               PROVE  calls[i] = 1
    BY DEF RemainderProcessed
  <2>1. PICK it \in Iterations : Start(it) <= i /\ i <= Stop(it)
    BY RangesCover
  <2>2. PassedBy(it, i)
    BY <2>1, RangeBounds, StlThreadAssumption DEF PassedBy, Started, Items
  <2> QED BY <2>2 DEF IInv, CallsExact
<1> QED BY Inductive, <1>1, PTL

-----------------------------------------------------------------------------
(* Debouncer: no timer is orphaned. *)

\* The numbers in the map are of calls that were made.
HeldAreMade == \A i \in DebounceIds : timers[i] <= debounces

\* No call is under two ids.
HeldOnce == \A i, j \in DebounceIds : timers[i] = timers[j] /\ timers[i] # 0 => i = j

AliveAreHeld == \A c \in alive : \E i \in DebounceIds : timers[i] = c

DebounceInv == DebounceTypeOK /\ HeldAreMade /\ HeldOnce /\ AliveAreHeld

\* The initial state has no timers at all.
LEMMA InitDebounceInv == DebounceInit => DebounceInv
  BY DebouncerAssumption
     DEF DebounceInit, DebounceInv, DebounceTypeOK, HeldAreMade, HeldOnce, AliveAreHeld

\* Each operation, and each callback of the system, keeps the invariant.
LEMMA NextDebounceInv == DebounceInv /\ [DebounceNext]_debounceVars => DebounceInv'
<1> SUFFICES ASSUME DebounceInv, [DebounceNext]_debounceVars PROVE DebounceInv'
  OBVIOUS
<1> USE DebouncerAssumption DEF DebounceInv, DebounceTypeOK, DebounceCalls
<1>1. ASSUME NEW id \in DebounceIds, Debounce(id) PROVE DebounceInv'
  <2>1. /\ debounces \in Nat /\ debounces' = debounces + 1 /\ debounces' \in 1 .. MaxDebounces
        /\ \A i \in DebounceIds : timers'[i] = IF i = id THEN debounces' ELSE timers[i]
    BY <1>1 DEF Debounce
  <2>2. DebounceTypeOK'
    <3>1. timers' \in [DebounceIds -> (1 .. MaxDebounces) \cup {0}]
      BY <1>1, <2>1 DEF Debounce
    <3>2. alive' \subseteq 1 .. MaxDebounces
      BY <1>1, <2>1 DEF Debounce
    <3>3. /\ usingId' \in DebounceIds \cup {0} /\ debounces' \in 0 .. MaxDebounces
          /\ inside' \in DebounceIds \cup {0} /\ ran' \in [1 .. MaxDebounces -> 0 .. MaxFires]
      BY <1>1, <2>1 DEF Debounce
    <3> QED BY <3>1, <3>2, <3>3
  <2>3. HeldAreMade'
    <3> SUFFICES ASSUME NEW i \in DebounceIds PROVE timers'[i] <= debounces'
      BY DEF HeldAreMade
    <3>1. timers[i] \in Nat /\ timers[i] <= debounces
      BY DEF HeldAreMade
    <3> QED BY <2>1, <3>1
  <2>4. HeldOnce'
    <3> SUFFICES ASSUME NEW i \in DebounceIds, NEW j \in DebounceIds,
                        timers'[i] = timers'[j], timers'[i] # 0
        PROVE i = j
      BY DEF HeldOnce
    <3>1. /\ timers[i] <= debounces /\ timers[i] \in Nat
          /\ timers[j] <= debounces /\ timers[j] \in Nat
      BY DEF HeldAreMade
    <3> QED BY <2>1, <3>1 DEF HeldOnce
  <2>5. AliveAreHeld'
    <3> SUFFICES ASSUME NEW c \in alive' PROVE \E i \in DebounceIds : timers'[i] = c
      BY DEF AliveAreHeld
    <3>1. CASE c = debounces'
      BY <2>1, <3>1
    <3>2. CASE c # debounces'
      <4>1. c \in alive /\ c # timers[id]
        BY <1>1, <3>2 DEF Debounce
      <4>2. PICK i \in DebounceIds : timers[i] = c
        BY <4>1 DEF AliveAreHeld
      <4> QED BY <2>1, <4>1, <4>2
    <3> QED BY <3>1, <3>2
  <2> QED BY <2>2, <2>3, <2>4, <2>5
<1>2. ASSUME NEW id \in DebounceIds, RemoveTimer(id) PROVE DebounceInv'
  <2>1. /\ \A i \in DebounceIds : timers'[i] = IF i = id THEN 0 ELSE timers[i]
        /\ debounces' = debounces /\ alive' = alive \ {timers[id]}
    BY <1>2 DEF RemoveTimer
  <2>2. DebounceTypeOK'
    BY <1>2 DEF RemoveTimer
  <2>3. HeldAreMade' /\ HeldOnce'
    BY <2>1, <2>2 DEF HeldAreMade, HeldOnce
  <2>4. AliveAreHeld'
    BY <2>1 DEF AliveAreHeld
  <2> QED BY <2>2, <2>3, <2>4
<1>3. CASE CleanupTimers
  <2>1. \A i \in DebounceIds : timers'[i] = 0
    BY <1>3 DEF CleanupTimers
  <2>2. alive' = {}
    BY <1>3 DEF CleanupTimers, AliveAreHeld
  <2>3. DebounceTypeOK'
    BY <1>3, <2>2 DEF CleanupTimers
  <2>4. HeldAreMade' /\ HeldOnce' /\ AliveAreHeld'
    BY <1>3, <2>1, <2>2 DEF CleanupTimers, HeldAreMade, HeldOnce, AliveAreHeld
  <2> QED BY <2>3, <2>4
<1>4. ASSUME NEW c \in DebounceCalls, FireTimer(c) PROVE DebounceInv'
  BY <1>4, SMTT(30) DEF FireTimer, HeldAreMade, HeldOnce, AliveAreHeld
<1>5. CASE ReturnFromTimer
  BY <1>5 DEF ReturnFromTimer, HeldAreMade, HeldOnce, AliveAreHeld
<1>6. CASE UNCHANGED debounceVars
  BY <1>6 DEF debounceVars, HeldAreMade, HeldOnce, AliveAreHeld
<1> QED BY <1>1, <1>2, <1>3, <1>4, <1>5, <1>6 DEF DebounceNext

\* A timer that is alive is held, and held once: calls count from 1, so it is not
\* the 0 of the free entries.
LEMMA InvOrphans == DebounceInv => NoOrphanTimer
<1> SUFFICES ASSUME DebounceInv, NEW c \in alive
    PROVE \E id \in DebounceIds : timers[id] = c /\ \A i \in DebounceIds \ {id} : timers[i] # c
  BY DEF NoOrphanTimer
<1>1. c # 0
  BY DebouncerAssumption DEF DebounceInv, DebounceTypeOK, DebounceCalls
<1>2. PICK id \in DebounceIds : timers[id] = c
  BY DEF DebounceInv, AliveAreHeld
<1> QED BY <1>1, <1>2 DEF DebounceInv, HeldOnce

\* Debouncer: its variables keep their types.
THEOREM DebouncerTypeCorrect == DebounceSpec => []DebounceTypeOK
<1>1. DebounceInv => DebounceTypeOK
  BY DEF DebounceInv
<1> QED BY <1>1, InitDebounceInv, NextDebounceInv, PTL DEF DebounceSpec

\* Debouncer: every timer the system still fires is under exactly one id of the
\* map, so that remove, cleanup or the next debounce kills it.
THEOREM TimersOwned == DebounceSpec => []NoOrphanTimer
BY InitDebounceInv, NextDebounceInv, InvOrphans, PTL DEF DebounceSpec

-----------------------------------------------------------------------------
(* IatHook: the import table and the list of hooks agree. *)

Entry == [fun : IatFunctions, original : Imports \cup Replacements \cup {Null},
          replacement : Replacements \cup {Null}]

\* The list has at most one entry of a function, which remembers the function itself
\* when the module imports it; the table leads to its replacement if there is one, and
\* to the function itself if it has no entry.
EntriesFaithful ==
  /\ \A i, j \in 1 .. Len(entries) : entries[i].fun = entries[j].fun => i = j
  /\ \A i \in 1 .. Len(entries) : entries[i].fun \in Imports =>
       /\ entries[i].original = entries[i].fun
       /\ table[entries[i].fun] =
            IF entries[i].replacement = Null THEN entries[i].fun ELSE entries[i].replacement
  /\ \A f \in Imports : (\A i \in 1 .. Len(entries) : entries[i].fun # f) => table[f] = f

IatInv ==
  /\ table \in [Imports -> Imports \cup Replacements]
  /\ entries \in Seq(Entry)
  /\ EntriesFaithful

\* The table is as the loader has left it, and there are no hooks.
LEMMA InitIatInv == IatInit => IatInv
  BY DEF IatInit, IatInv, EntriesFaithful

\* install adds an entry behind the others unless the function has one.
LEMMA InstallInv ==
  ASSUME IatInv, NEW f \in IatFunctions, NEW r \in Replacements \cup {Null}, Install(f, r)
  PROVE  IatInv'
<1> USE IatAssumption DEF IatInv
<1>1. CASE IatFind(f) # {}
  BY <1>1 DEF Install, EntriesFaithful
<1>2. CASE IatFind(f) = {}
  <2> DEFINE n == Len(entries)
             e == [fun |-> f, replacement |-> r, original |-> IF f \in Imports THEN table[f] ELSE Null]
  <2>1. IatWrite(f, r) /\ entries' = Append(entries, e)
    BY <1>2 DEF Install
  <2>2. n \in Nat /\ \A i \in 1 .. n : entries[i].fun # f
    BY <1>2 DEF IatFind
  <2>3. e \in Entry
    BY DEF Entry
  <2>4. /\ entries' \in Seq(Entry) /\ Len(entries') = n + 1 /\ entries'[n + 1] = e
        /\ \A i \in 1 .. n : entries'[i] = entries[i]
    BY <2>1, <2>2, <2>3
  <2>5. /\ table' \in [Imports -> Imports \cup Replacements]
        /\ \A g \in Imports : table'[g] = IF g = f /\ r # Null THEN r ELSE table[g]
    BY <2>1 DEF IatWrite
  <2>6. f \in Imports => table[f] = f
    BY <2>2 DEF EntriesFaithful
  <2>7. \A i \in 1 .. n + 1 : entries'[i] = IF i = n + 1 THEN e ELSE entries[i]
    BY <2>2, <2>4
  <2>8. EntriesFaithful'
    <3>1. \A i, j \in 1 .. n + 1 : entries'[i].fun = entries'[j].fun => i = j
      <4> SUFFICES ASSUME NEW i \in 1 .. n + 1, NEW j \in 1 .. n + 1, entries'[i].fun = entries'[j].fun
          PROVE i = j
        OBVIOUS
      <4>1. CASE i = n + 1 /\ j = n + 1
        BY <4>1
      <4>2. CASE i # n + 1 /\ j # n + 1
        <5>1. i \in 1 .. n /\ j \in 1 .. n
          BY <2>2, <4>2
        <5> QED BY <2>4, <5>1 DEF EntriesFaithful
      <4>3. CASE i = n + 1 /\ j # n + 1
        <5>1. j \in 1 .. n
          BY <2>2, <4>3
        <5> QED BY <2>2, <2>7, <4>3, <5>1
      <4>4. CASE i # n + 1 /\ j = n + 1
        <5>1. i \in 1 .. n
          BY <2>2, <4>4
        <5> QED BY <2>2, <2>7, <4>4, <5>1
      <4> QED BY <4>1, <4>2, <4>3, <4>4
    <3>2. ASSUME NEW i \in 1 .. n + 1, entries'[i].fun \in Imports
          PROVE /\ entries'[i].original = entries'[i].fun
                /\ table'[entries'[i].fun] =
                     IF entries'[i].replacement = Null THEN entries'[i].fun ELSE entries'[i].replacement
      <4>1. CASE i = n + 1
        BY <2>4, <2>5, <2>6, <3>2, <4>1
      <4>2. CASE i # n + 1
        <5>1. i \in 1 .. n
          BY <2>2, <4>2
        <5>2. entries'[i] = entries[i] /\ entries[i].fun # f
          BY <2>2, <2>4, <5>1
        <5> QED BY <2>5, <3>2, <5>1, <5>2 DEF EntriesFaithful
      <4> QED BY <4>1, <4>2
    <3>3. ASSUME NEW g \in Imports, \A i \in 1 .. n + 1 : entries'[i].fun # g PROVE table'[g] = g
      <4>1. g # f
        BY <2>2, <2>4, <3>3
      <4>2. \A i \in 1 .. n : entries[i].fun # g
        BY <2>2, <2>4, <3>3
      <4> QED BY <2>5, <4>1, <4>2 DEF EntriesFaithful
    <3> QED BY <2>4, <3>1, <3>2, <3>3 DEF EntriesFaithful
  <2> QED BY <2>4, <2>5, <2>8
<1> QED BY <1>1, <1>2

\* Without the element at place k, those behind it move up by one.
LEMMA RemoveAtKeepsOthers ==
  ASSUME NEW S, NEW s \in Seq(S), NEW k \in 1 .. Len(s)
  PROVE  /\ RemoveAt(s, k) \in Seq(S) /\ Len(RemoveAt(s, k)) = Len(s) - 1
         /\ \A i \in 1 .. Len(s) - 1 : RemoveAt(s, k)[i] = s[IF i < k THEN i ELSE i + 1]
<1> DEFINE n == Len(s)
           before == SubSeq(s, 1, k - 1)
           behind == SubSeq(s, k + 1, n)
<1>1. n \in Nat /\ k \in 1 .. n
  OBVIOUS
<1>2. before \in Seq(S) /\ Len(before) = k - 1 /\ \A i \in 1 .. k - 1 : before[i] = s[i]
  BY <1>1
<1>3. behind \in Seq(S) /\ Len(behind) = n - k /\ \A i \in 1 .. n - k : behind[i] = s[k + i]
  BY <1>1
<1>4. RemoveAt(s, k) = before \o behind
  BY DEF RemoveAt
<1> HIDE DEF before, behind
<1>5. RemoveAt(s, k) \in Seq(S) /\ Len(RemoveAt(s, k)) = n - 1
  BY <1>1, <1>2, <1>3, <1>4
<1>6. ASSUME NEW i \in 1 .. n - 1 PROVE RemoveAt(s, k)[i] = s[IF i < k THEN i ELSE i + 1]
  <2>1. CASE i < k
    <3>1. i \in 1 .. Len(before)
      BY <1>1, <1>2, <2>1
    <3> QED BY <1>2, <1>3, <1>4, <2>1, <3>1
  <2>2. CASE i >= k
    <3>1. i - (k - 1) \in 1 .. Len(behind)
      BY <1>1, <1>3, <2>2
    <3>2. (before \o behind)[i] = behind[i - (k - 1)]
      BY <1>1, <1>2, <1>3, <2>2, <3>1
    <3>3. k + (i - (k - 1)) = i + 1
      BY <1>1
    <3> DEFINE j == i - (k - 1)
    <3>4. j \in 1 .. n - k /\ k + j = i + 1
      BY <1>3, <3>1, <3>3
    <3> HIDE DEF j
    <3>5. behind[j] = s[i + 1]
      BY <1>3, <3>4
    <3> QED BY <1>1, <1>4, <2>2, <3>2, <3>5 DEF j
  <2> QED BY <1>1, <2>1, <2>2
<1> QED BY <1>5, <1>6

\* uninstall writes the function itself back and takes its entry out of the list.
LEMMA UninstallInv ==
  ASSUME IatInv, NEW f \in IatFunctions, Uninstall(f)
  PROVE  IatInv'
<1> USE IatAssumption DEF IatInv
<1> DEFINE n == Len(entries)
           k == Min(IatFind(f))
           from(i) == IF i < k THEN i ELSE i + 1
<1>1. n \in Nat /\ k \in 1 .. n /\ entries[k].fun = f
  <2>1. PICK i \in 1 .. n : entries[i].fun = f
    BY DEF Uninstall, IatFind
  <2>2. IatFind(f) = {i}
    BY <2>1 DEF IatFind, EntriesFaithful
  <2>3. Min({i}) = i
    BY <2>1 DEF Min
  <2> QED BY <2>1, <2>2, <2>3
<1> HIDE DEF k
<1>2. IatWrite(f, entries[k].original) /\ entries' = RemoveAt(entries, k)
  BY DEF Uninstall, k
<1>3. /\ entries' \in Seq(Entry) /\ Len(entries') = n - 1
      /\ \A i \in 1 .. n - 1 : entries'[i] = entries[from(i)]
  BY <1>1, <1>2, RemoveAtKeepsOthers
<1>4. \A i \in 1 .. n - 1 : from(i) \in 1 .. n /\ from(i) # k
  BY <1>1
<1>5. \A j \in 1 .. n : j # k => \E i \in 1 .. n - 1 : from(i) = j
  <2> SUFFICES ASSUME NEW j \in 1 .. n, j # k PROVE \E i \in 1 .. n - 1 : from(i) = j
    OBVIOUS
  <2>1. CASE j < k
    BY <1>1, <2>1
  <2>2. CASE j > k
    <3>1. j - 1 \in 1 .. n - 1 /\ from(j - 1) = j
      BY <1>1, <2>2
    <3> QED BY <3>1
  <2> QED BY <1>1, <2>1, <2>2
<1>6. /\ table' \in [Imports -> Imports \cup Replacements]
      /\ \A g \in Imports : table'[g] = IF g = f THEN f ELSE table[g]
  BY <1>1, <1>2 DEF IatWrite, EntriesFaithful
<1>7. \A i \in 1 .. n - 1 : entries'[i].fun # f
  BY <1>1, <1>3, <1>4 DEF EntriesFaithful
<1>8. EntriesFaithful'
  <2>1. ASSUME NEW i \in 1 .. n - 1, NEW j \in 1 .. n - 1, entries'[i].fun = entries'[j].fun
        PROVE i = j
    <3>1. from(i) = from(j)
      BY <1>3, <1>4, <2>1 DEF EntriesFaithful
    <3> QED BY <1>1, <3>1
  <2>2. ASSUME NEW i \in 1 .. n - 1, entries'[i].fun \in Imports
        PROVE /\ entries'[i].original = entries'[i].fun
              /\ table'[entries'[i].fun] =
                   IF entries'[i].replacement = Null THEN entries'[i].fun ELSE entries'[i].replacement
    BY <1>3, <1>4, <1>6, <1>7, <2>2 DEF EntriesFaithful
  <2>3. ASSUME NEW g \in Imports, \A i \in 1 .. n - 1 : entries'[i].fun # g PROVE table'[g] = g
    <3>1. CASE g = f
      BY <1>6, <3>1
    <3>2. CASE g # f
      <4>1. \A j \in 1 .. n : entries[j].fun # g
        BY <1>1, <1>3, <1>5, <2>3, <3>2, ZenonT(40)
      <4> QED BY <1>6, <3>2, <4>1 DEF EntriesFaithful
    <3> QED BY <3>1, <3>2
  <2> QED BY <1>3, <2>1, <2>2, <2>3 DEF EntriesFaithful
<1> QED BY <1>3, <1>6, <1>8

LEMMA NextIatInv == IatInv /\ [IatNext]_iatVars => IatInv'
<1> SUFFICES ASSUME IatInv, [IatNext]_iatVars PROVE IatInv'
  OBVIOUS
<1>1. ASSUME NEW f \in IatFunctions, NEW r \in Replacements \cup {Null}, Install(f, r) PROVE IatInv'
  BY <1>1, InstallInv
<1>2. ASSUME NEW f \in IatFunctions, Uninstall(f) PROVE IatInv'
  BY <1>2, UninstallInv
<1>3. CASE UNCHANGED iatVars
  BY <1>3 DEF iatVars, IatInv, EntriesFaithful
<1> QED
  BY <1>1, <1>2, <1>3 DEF IatNext

\* The import table and the list of hooks agree after any installs and uninstalls: for
\* any functions, replacements and number of calls.
THEOREM TableFaithful == IatInit /\ [][IatNext]_iatVars => []TableMatchesList
<1>3. IatInv => TableMatchesList
  <2> SUFFICES ASSUME IatInv, NEW f \in Imports
      PROVE LET its == {entries[i] : i \in IatFind(f)} IN
            IF its = {} THEN table[f] = f
            ELSE \A e \in its : e.original = f /\ table[f] \in {f, e.replacement}
                             /\ (e.replacement # Null => table[f] = e.replacement)
    BY DEF TableMatchesList
  <2>1. DOMAIN entries = 1 .. Len(entries)
    BY DEF IatInv
  <2>2. CASE IatFind(f) = {}
    BY <2>1, <2>2 DEF IatInv, EntriesFaithful, IatFind
  <2>3. CASE IatFind(f) # {}
    <3>1. \A i \in IatFind(f) :
            /\ entries[i].original = f
            /\ table[f] = IF entries[i].replacement = Null THEN f ELSE entries[i].replacement
      BY <2>1 DEF IatInv, EntriesFaithful, IatFind
    <3> QED BY <2>3, <3>1
  <2> QED BY <2>2, <2>3
<1> QED BY InitIatInv, NextIatInv, <1>3, PTL

-----------------------------------------------------------------------------
(* ServiceManager: the list lags behind the SCM by what the SCM and others did alone. *)

\* The list is never wrong about what this object did, between operations and inside them.
ListLags == \A s \in Services \ touched : cache[s] # "absent" => scm[s] \in Later(cache[s])

\* The steps that change a service are those of the operation that is for it, and a list that is
\* filled again in the middle of an operation is that of an uninstall.
StepsOfOperation ==
  /\ spc = "start" => sop = "start"
  /\ spc = "create" => sop = "install"
  /\ spc = "delete" => sop = "uninstall"
  /\ spc \in {"size", "list"} /\ resume = "delete" => sop = "uninstall"

\* A stop that fills the list again, or was answered VU_OK, has a service that does not run or
\* that others acted on meanwhile.
StopWorked ==
  sop = "stop" /\ (spc \in {"size", "list"} \/ (spc = "idle" /\ answer = "ok")) /\ ~meddled
    => scm[target] \notin {"starting", "running"}

ServiceInv == ServiceTypeOK /\ ListLags /\ StepsOfOperation /\ StopWorked

\* The states in Later are closed under the moves of the SCM, and a state is one of its own.
LEMMA LaterClosed ==
  ASSUME NEW c \in ServiceStates \ {"absent"}, NEW a \in Later(c), NEW b \in ServiceStates, <<a, b>> \in ScmMoves
  PROVE  b \in Later(c) /\ (b = "stopped" => c # "stopped" /\ "absent" \in Later(c))
  BY DEF ServiceStates, Later, ScmMoves

LEMMA LaterReflexive == \A c \in ServiceStates \ {"absent"} : c \in Later(c)
  BY DEF ServiceStates, Later

LEMMA PresentCounted == Cardinality(Present) \in 0 .. Cardinality(Services)
<1>1. Present \subseteq Services
  BY DEF Present
<1>2. IsFiniteSet(Present) /\ Cardinality(Present) <= Cardinality(Services)
  BY <1>1, ServiceAssumption, FS_Subset
<1> QED
  BY <1>2, ServiceAssumption, FS_CardinalityType

LEMMA InitServiceInv == ServiceInit => ServiceInv
<1> SUFFICES ASSUME ServiceInit PROVE ServiceInv
  OBVIOUS
<1>1. ServiceTypeOK
  <2>1. Cardinality(Services) \in Nat
    BY ServiceAssumption, FS_CardinalityType
  <2>2. scm \in [Services -> ServiceStates]
    BY DEF ServiceInit, ServiceStates
  <2>3. meddled \in BOOLEAN
    BY Zenon DEF ServiceInit
  <2> QED
    BY <2>1, <2>2, <2>3, ServiceAssumption DEF ServiceInit, ServiceTypeOK, ServiceStates, NoServices, Present
<1>2. ListLags /\ StepsOfOperation /\ StopWorked
  BY DEF ServiceInit, ListLags, StepsOfOperation, StopWorked, NoServices
<1> QED
  BY <1>1, <1>2 DEF ServiceInv

\* What a deletion leaves of the SCM is well-formed.
LEMMA DeletionTyped ==
  ASSUME ServiceTypeOK, NEW s \in Services, scm[s] # "absent", s \notin marked
  PROVE  /\ ScmWithout(s) \in [Services -> ServiceStates]
         /\ \A r \in Services \ {s} : ScmWithout(s)[r] = scm[r]
         /\ MarkedWith(s) \subseteq {r \in Services : ScmWithout(s)[r] # "absent"}
<1>1. CASE scm[s] = "stopped" /\ s \notin marked
  BY <1>1 DEF ScmWithout, MarkedWith, ServiceTypeOK, ServiceStates, Present
<1>2. CASE scm[s] # "stopped"
  BY <1>2 DEF ScmWithout, MarkedWith, ServiceTypeOK, ServiceStates, Present
<1> QED
  BY <1>1, <1>2

\* The SCM moves a service on: never from a state the list excludes.
LEMMA ScmStepKeeps ==
  ASSUME ServiceInv, NEW s \in Services, ScmStep(s)
  PROVE  ServiceInv'
<1> USE DEF ServiceInv
<1>1. PICK b \in ServiceStates : /\ <<scm[s], b>> \in ScmMoves
                                 /\ scm' = [scm EXCEPT ![s] = IF s \in marked /\ b = "stopped" THEN "absent" ELSE b]
  BY DEF ScmStep
<1> DEFINE c == IF s \in marked /\ b = "stopped" THEN "absent" ELSE b
<1>2. /\ scm'[s] = c /\ \A r \in Services \ {s} : scm'[r] = scm[r]
      /\ c \in ServiceStates /\ (c = b \/ (c = "absent" /\ b = "stopped"))
  BY <1>1 DEF ServiceTypeOK, ServiceStates
<1>3. /\ marked' = IF c = "absent" THEN marked \ {s} ELSE marked
      /\ UNCHANGED <<cache, spc, sop, target, resume, needed, answer, serviceOps, touched, meddled>>
  BY <1>2 DEF ScmStep, historyVars
<1>4. scm' \in [Services -> ServiceStates] /\ scm[s] \in ServiceStates
  BY <1>1, <1>2 DEF ServiceTypeOK
<1> HIDE DEF c
<1>5. ServiceTypeOK'
  BY <1>2, <1>3, <1>4 DEF ServiceTypeOK, Present
<1>6. ListLags'
  <2> SUFFICES ASSUME s \notin touched, cache[s] # "absent" PROVE c \in Later(cache[s])
    BY <1>2, <1>3 DEF ListLags
  <2>1. cache[s] \in ServiceStates \ {"absent"} /\ scm[s] \in Later(cache[s])
    BY DEF ServiceTypeOK, ListLags
  <2> QED
    BY <1>1, <1>2, <2>1, LaterClosed
<1>7. StepsOfOperation'
  BY <1>3 DEF StepsOfOperation
<1>8. StopWorked'
  <2>1. scm[s] \notin {"starting", "running"} => c \notin {"starting", "running"}
    BY <1>1, <1>2 DEF ScmMoves
  <2>2. \A r \in Services : scm[r] \notin {"starting", "running"} => scm'[r] \notin {"starting", "running"}
    BY <1>2, <2>1
  <2> QED
    BY <1>3, <2>2 DEF StopWorked, ServiceTypeOK
<1> QED
  BY <1>5, <1>6, <1>7, <1>8

\* What others do to a service, the histories remember.
LEMMA OthersActKeeps ==
  ASSUME ServiceInv, NEW s \in Services, OthersAct(s)
  PROVE  ServiceInv'
<1> USE DEF ServiceInv
<1>1. /\ touched' = touched \cup {s} /\ meddled' = (meddled \/ s = target)
      /\ UNCHANGED <<cache, spc, sop, target, resume, needed, answer, serviceOps>>
  BY DEF OthersAct
<1>2. /\ scm' \in [Services -> ServiceStates] /\ \A r \in Services \ {s} : scm'[r] = scm[r]
      /\ marked' \subseteq {r \in Services : scm'[r] # "absent"}
  <2>1. CASE scm[s] # "absent" /\ s \notin marked /\ scm' = ScmWithout(s) /\ marked' = MarkedWith(s)
    BY <2>1, DeletionTyped
  <2>2. CASE /\ \E b \in ServiceStates :
                  /\ <<scm[s], b>> \in ForeignMoves /\ (b = "starting" => s \notin marked)
                  /\ scm' = [scm EXCEPT ![s] = b]
             /\ UNCHANGED marked
    <3>1. PICK b \in ServiceStates : <<scm[s], b>> \in ForeignMoves /\ scm' = [scm EXCEPT ![s] = b]
      BY <2>2
    <3>2. b # "absent" /\ UNCHANGED marked
      BY <2>2, <3>1 DEF ForeignMoves
    <3> QED
      BY <3>1, <3>2 DEF ServiceTypeOK, Present
  <2> QED
    BY <2>1, <2>2 DEF OthersAct
<1>3. ServiceTypeOK'
  BY <1>1, <1>2 DEF ServiceTypeOK, Present
<1>4. ListLags' /\ StepsOfOperation'
  BY <1>1, <1>2 DEF ListLags, StepsOfOperation
<1>5. StopWorked'
  <2> SUFFICES ASSUME s # target PROVE StopWorked'
    BY <1>1 DEF StopWorked
  <2> QED
    BY <1>1, <1>2 DEF StopWorked, ServiceTypeOK
<1> QED
  BY <1>3, <1>4, <1>5

\* The steps of the object that read, from the list or from the SCM.
LEMMA ReadStepKeeps ==
  ASSUME ServiceInv, EnumSize \/ EnumList \/ Query \/ \E s \in Services, op \in {"start", "stop", "uninstall", "install"} : CallService(op, s)
  PROVE  ServiceInv'
<1> USE DEF ServiceInv
<1>1. CASE EnumSize
  BY <1>1, PresentCounted DEF historyVars, EnumSize, ServiceTypeOK, ListLags, StepsOfOperation, StopWorked, Present
<1>2. CASE EnumList
  <2>1. PICK listed \in SUBSET Present : cache' = [s \in Services |-> IF s \in listed THEN scm[s] ELSE "absent"]
    BY <1>2, Zenon DEF EnumList, kSubset
  <2>2. /\ spc = "list" /\ touched' = {} /\ UNCHANGED <<scm, marked, sop, target, resume, needed, serviceOps, meddled>>
        /\ \/ (resume = "idle" /\ answer' = "ok" /\ spc' = "idle")
           \/ (resume = "delete" /\ spc' = "delete" /\ UNCHANGED answer)
    BY <1>2 DEF EnumList, Answer, ServiceTypeOK
  <2>3. ServiceTypeOK'
    <3>1. cache' \in [Services -> ServiceStates]
      BY <2>1 DEF ServiceTypeOK, ServiceStates
    <3> QED
      BY <2>2, <3>1 DEF ServiceTypeOK, Present
  <2>4. ListLags'
    <3> SUFFICES ASSUME NEW s \in Services, cache'[s] # "absent" PROVE scm'[s] \in Later(cache'[s])
      BY DEF ListLags
    <3>1. scm' = scm /\ cache'[s] = scm[s] /\ scm[s] \in ServiceStates \ {"absent"}
      BY <2>1, <2>2 DEF ServiceTypeOK, ServiceStates
    <3> QED
      BY <3>1, LaterReflexive
  <2>5. StepsOfOperation' /\ StopWorked'
    BY <2>2 DEF StepsOfOperation, StopWorked
  <2> QED
    BY <2>3, <2>4, <2>5
<1>3. CASE Query
  <2> DEFINE upNext == AfterQuery(sop, cache[target])
  <2>1. /\ spc = "query" /\ meddled' = (target \in touched)
        /\ UNCHANGED <<scm, marked, cache, sop, target, resume, needed, serviceOps, touched>>
        /\ \/ (upNext \in {"ok", "failed"} /\ answer' = upNext /\ spc' = "idle")
           \/ (upNext \notin {"ok", "failed"} /\ spc' = upNext /\ UNCHANGED answer)
    BY <1>3 DEF Query, Answer
  <2>2. /\ upNext \in {"ok", "failed", "start", "control", "delete", "create"}
        /\ (upNext = "start" => sop = "start") /\ (upNext = "create" => sop = "install")
        /\ (upNext = "delete" => sop = "uninstall")
        /\ (upNext = "ok" /\ sop = "stop" => cache[target] = "stopped")
    BY DEF AfterQuery
  <2> HIDE DEF upNext
  <2>3. ServiceTypeOK'
    BY <2>1, <2>2 DEF ServiceTypeOK, Present
  <2>4. ListLags' /\ StepsOfOperation'
    BY <2>1, <2>2 DEF ListLags, StepsOfOperation
  <2>5. upNext = "ok" /\ sop = "stop" /\ target \notin touched => scm[target] = "stopped"
    BY <2>2 DEF ListLags, ServiceTypeOK, Later
  <2>6. StopWorked'
    BY <2>1, <2>2, <2>5 DEF StopWorked
  <2> QED
    BY <2>3, <2>4, <2>6
<1>4. ASSUME NEW s \in Services, NEW op \in {"start", "stop", "uninstall", "install"}, CallService(op, s)
      PROVE  ServiceInv'
  <2>1. /\ spc' = "query" /\ sop' = op /\ target' = s /\ meddled' = FALSE /\ serviceOps' = serviceOps + 1
        /\ serviceOps < MaxServiceOps /\ UNCHANGED <<scm, marked, cache, resume, needed, answer, touched>>
    BY <1>4 DEF CallService
  <2>2. ServiceTypeOK'
    <3>1. meddled' \in BOOLEAN
      BY <2>1, Zenon
    <3> QED
      BY <2>1, <3>1, ServiceAssumption DEF ServiceTypeOK, Present
  <2>3. ListLags' /\ StepsOfOperation' /\ StopWorked'
    BY <2>1 DEF ListLags, StepsOfOperation, StopWorked
  <2> QED
    BY <2>2, <2>3
<1> QED
  BY <1>1, <1>2, <1>3, <1>4

\* A step that changed a service empties the list.
LEMMA CarryKeeps ==
  ASSUME ServiceInv, NEW step \in {"start", "delete", "create"}, NEW can, NEW scmNext, NEW markedNext,
         Carry(step, can, scmNext, markedNext),
         can => scmNext \in [Services -> ServiceStates] /\ markedNext \subseteq {s \in Services : scmNext[s] # "absent"}
  PROVE  ServiceInv'
<1> USE DEF ServiceInv
<1>1. /\ spc = step /\ sop # "stop" /\ UNCHANGED <<sop, target, needed, serviceOps, touched, meddled>>
      /\ \/ (can /\ scm' = scmNext /\ marked' = markedNext /\ RefreshThen("idle") /\ UNCHANGED answer)
         \/ (Answer("failed") /\ UNCHANGED <<scm, marked, cache, resume>>)
  BY DEF Carry, StepsOfOperation, historyVars
<1>2. CASE can /\ scm' = scmNext /\ marked' = markedNext /\ RefreshThen("idle") /\ UNCHANGED answer
  <2>1. ServiceTypeOK'
    BY <1>1, <1>2 DEF RefreshThen, ServiceTypeOK, Present, NoServices, ServiceStates
  <2>2. ListLags' /\ StepsOfOperation' /\ StopWorked'
    BY <1>1, <1>2 DEF RefreshThen, NoServices, ListLags, StepsOfOperation, StopWorked
  <2> QED
    BY <2>1, <2>2
<1>3. CASE Answer("failed") /\ UNCHANGED <<scm, marked, cache, resume>>
  BY <1>1, <1>3 DEF Answer, ServiceTypeOK, Present, ListLags, StepsOfOperation, StopWorked
<1> QED
  BY <1>1, <1>2, <1>3

LEMMA ChangeStepKeeps ==
  ASSUME ServiceInv, StartService \/ ControlStop \/ DeleteService \/ CreateService
  PROVE  ServiceInv'
<1> USE DEF ServiceInv
<1>1. /\ scm \in [Services -> ServiceStates] /\ target \in Services
      /\ marked \subseteq {s \in Services : scm[s] # "absent"}
  BY DEF ServiceTypeOK, Present
<1>2. CASE StartService
  <2>1. LET after == [scm EXCEPT ![target] = "starting"]
        IN  after \in [Services -> ServiceStates] /\ marked \subseteq {s \in Services : after[s] # "absent"}
    BY <1>1 DEF ServiceStates
  <2> QED
    BY <1>2, <2>1, CarryKeeps DEF StartService
<1>3. CASE CreateService
  <2>1. LET after == [scm EXCEPT ![target] = "stopped"]
        IN  after \in [Services -> ServiceStates] /\ marked \subseteq {s \in Services : after[s] # "absent"}
    BY <1>1 DEF ServiceStates
  <2> QED
    BY <1>3, <2>1, CarryKeeps DEF CreateService
<1>4. CASE DeleteService
  <2> DEFINE can == scm[target] # "absent" /\ target \notin marked
  <2>1. ASSUME can
        PROVE  /\ ScmWithout(target) \in [Services -> ServiceStates]
               /\ MarkedWith(target) \subseteq {s \in Services : ScmWithout(target)[s] # "absent"}
    BY <1>1, <2>1, DeletionTyped
  <2>2. Carry("delete", can, ScmWithout(target), MarkedWith(target))
    BY <1>4, Zenon DEF DeleteService
  <2> HIDE DEF can
  <2> QED
    BY <2>1, <2>2, CarryKeeps
<1>5. CASE ControlStop
  <2> DEFINE upNext == IF sop = "uninstall" THEN "delete" ELSE "idle"
  <2>1. spc = "control" /\ UNCHANGED <<marked, sop, target, needed, serviceOps, touched, meddled>>
    BY <1>5 DEF ControlStop, historyVars
  <2>2. CASE /\ scm' = [scm EXCEPT ![target] = "stopping"] /\ RefreshThen(upNext) /\ UNCHANGED answer
    <3>1. /\ scm' \in [Services -> ServiceStates] /\ scm'[target] = "stopping"
          /\ marked \subseteq {s \in Services : scm'[s] # "absent"}
      BY <1>1, <2>2 DEF ServiceStates
    <3>2. cache' \in [Services -> ServiceStates] /\ \A s \in Services : cache'[s] = "absent"
      BY <2>2 DEF RefreshThen, NoServices, ServiceStates
    <3>3. spc' = "size" /\ resume' = upNext
      BY <2>2 DEF RefreshThen
    <3>4. ServiceTypeOK'
      BY <2>1, <2>2, <3>1, <3>2, <3>3 DEF ServiceTypeOK, Present
    <3> QED
      BY <2>1, <3>1, <3>2, <3>3, <3>4 DEF ListLags, StepsOfOperation, StopWorked
  <2>3. CASE /\ IF upNext = "idle" THEN Answer("failed") ELSE spc' = upNext /\ UNCHANGED answer
             /\ UNCHANGED <<scm, cache, resume>>
    BY <2>1, <2>3 DEF Answer, ServiceTypeOK, Present, ListLags, StepsOfOperation, StopWorked
  <2> QED
    BY <1>5, <2>2, <2>3 DEF ControlStop
<1> QED
  BY <1>2, <1>3, <1>4, <1>5

LEMMA NextServiceInv == ServiceInv /\ [ServiceNext]_serviceVars => ServiceInv'
<1> SUFFICES ASSUME ServiceInv, [ServiceNext]_serviceVars PROVE ServiceInv'
  OBVIOUS
<1>1. CASE UNCHANGED serviceVars
  BY <1>1 DEF serviceVars, historyVars, ServiceInv, ServiceTypeOK, Present, ListLags, StepsOfOperation, StopWorked
<1> QED
  BY <1>1, ScmStepKeeps, OthersActKeeps, ReadStepKeeps, ChangeStepKeeps, Zenon DEF ServiceNext

\* What the list says of a service between operations is where it was before it moved on by
\* itself, unless others acted on it since the list was taken; and a stop answered VU_OK left no
\* service that runs, unless others acted on it since the list the answer was decided on.  For
\* any services and number of operations, whatever others do to the services meanwhile.
THEOREM ListIsHonest == ServiceInit /\ [][ServiceNext]_serviceVars => []ListLagsByScmMoves
<1>2. ServiceInv => ListLagsByScmMoves
  BY DEF ServiceInv, ListLags, StopWorked, ListLagsByScmMoves
<1> QED
  BY <1>2, NextServiceInv, InitServiceInv, PTL

-----------------------------------------------------------------------------
(* Inline hooks: a trampoline does what the function did, a detached function *)
(* is what it was.                                                            *)

\* An object hooks one function: its list is never cleared.
OneFunctionEach == \A u, v \in Uses : u[1] = v[1] => u[2] = v[2]

\* A displacement is at the end of the copied part: the 4 bytes written behind it are those
\* the jump is written over.
RelativeLast ==
  \A f \in HookFunctions : Decodable(f) => \A r \in Relative(f) : r.at + DispSize = TrampolineSize(f)

\* The least and the greatest of a set of numbers.
LEMMA LeastOf ==
  ASSUME NEW S \in SUBSET Nat, S # {}
  PROVE  Min(S) \in S /\ \A y \in S : Min(S) <= y
<1>1. \E x \in S : \A y \in S : x <= y
  BY LeastNumber
<1>2. Min(S) = CHOOSE x \in S : \A y \in S : x <= y
  BY Zenon DEF Min
<1> QED
  BY <1>1, <1>2

LEMMA GreatestOf ==
  ASSUME NEW n \in Nat, NEW S \in SUBSET (1 .. n), S # {}
  PROVE  Max(S) \in S
<1> DEFINE T == {n - x : x \in S}
<1>1. T \in SUBSET Nat /\ T # {}
  <2>1. \A x \in S : n - x \in Nat
    OBVIOUS
  <2>2. PICK x \in S : TRUE
    OBVIOUS
  <2>3. n - x \in T
    OBVIOUS
  <2> QED
    BY <2>1, <2>3
<1>2. PICK t \in T : \A u \in T : t <= u
  <2> HIDE DEF T
  <2> QED
    BY <1>1, LeastNumber
<1>3. PICK x \in S : t = n - x
  BY <1>2
<1>4. \A y \in S : x >= y
  <2> TAKE y \in S
  <2>1. n - y \in T
    OBVIOUS
  <2>2. t <= n - y
    BY <1>2, <2>1
  <2> QED
    BY <1>3, <2>2
<1>5. Max(S) = CHOOSE y \in S : \A z \in S : y >= z
  BY Zenon DEF Max
<1> QED
  BY <1>4, <1>5

\* The offsets of the instructions are numbers.
LEMMA OffsetTyped ==
  ASSUME NEW f \in HookFunctions
  PROVE  /\ Len(Layout[f]) \in Nat
         /\ Offset(f) \in [1 .. Len(Layout[f]) + 1 -> Nat]
<1> DEFINE n == Len(Layout[f])
           at == CHOOSE g : g = [k \in 1 .. n + 1 |-> IF k = 1 THEN 0 ELSE g[k - 1] + Layout[f][k - 1].len]
           step == [c \in (1 .. n) \X Nat |-> c[2] + Layout[f][c[1]].len]
<1>1. /\ n \in Nat
      /\ \A k \in 1 .. n : Layout[f][k].len \in Nat
  <2>1. Layout[f] \in Seq([len : Nat, disp : Nat])
    BY InlineAssumption
  <2>2. n \in Nat /\ \A k \in 1 .. n : Layout[f][k] \in [len : Nat, disp : Nat]
    BY <2>1, LenProperties, ElementOfSeq
  <2> QED
    BY <2>2
<1>2. Offset(f) = at
  BY DEF Offset
<1>3. PICK g : g \in Recursion(n, Nat, 0, step)
  <2>1. step \in [(1 .. n) \X Nat -> Nat] /\ 0 \in Nat
    BY <1>1
  <2> HIDE DEF step, n
  <2> QED
    BY <1>1, <2>1, IntervalRecursion, Zenon
<1>4. /\ g \in [0 .. n -> Nat] /\ g[0] = 0
      /\ \A i \in 1 .. n : g[i] = g[i - 1] + Layout[f][i].len
  <2>1. g \in [0 .. n -> Nat] /\ g[0] = 0 /\ \A i \in 1 .. n : g[i] = step[<<i, g[i - 1]>>]
    BY <1>3 DEF Recursion
  <2>2. ASSUME NEW i \in 1 .. n PROVE g[i] = g[i - 1] + Layout[f][i].len
    <3>1. i - 1 \in 0 .. n
      BY <1>1
    <3>2. <<i, g[i - 1]>> \in (1 .. n) \X Nat
      BY <2>1, <3>1
    <3> QED
      BY <2>1, <3>2
  <2> QED
    BY <2>1, <2>2
<1> HIDE DEF n, step
<1> DEFINE h == [k \in 1 .. n + 1 |-> g[k - 1]]
<1>5. h \in [1 .. n + 1 -> Nat]
  BY <1>1, <1>4
<1>6. h = [k \in 1 .. n + 1 |-> IF k = 1 THEN 0 ELSE h[k - 1] + Layout[f][k - 1].len]
  <2>1. ASSUME NEW k \in 1 .. n + 1 PROVE h[k] = IF k = 1 THEN 0 ELSE h[k - 1] + Layout[f][k - 1].len
    <3>1. CASE k = 1
      BY <1>1, <1>4, <3>1
    <3>2. CASE k # 1
      <4>1. k - 1 \in 1 .. n /\ k - 1 \in 1 .. n + 1 /\ (k - 1) - 1 = k - 2
        BY <1>1, <3>2
      <4>2. h[k] = g[k - 1] /\ h[k - 1] = g[k - 2]
        BY <4>1
      <4> HIDE DEF h
      <4> QED
        BY <1>4, <3>2, <4>1, <4>2
    <3> QED
      BY <3>1, <3>2
  <2>2. h = [k \in 1 .. n + 1 |-> h[k]]
    OBVIOUS
  <2> HIDE DEF h
  <2> QED
    BY <2>1, <2>2
<1>7. at = [k \in 1 .. n + 1 |-> IF k = 1 THEN 0 ELSE at[k - 1] + Layout[f][k - 1].len]
  <2> HIDE DEF h
  <2> QED
    BY <1>6
<1> HIDE DEF at
<1> DEFINE S == {i \in 0 .. n : at[i + 1] \in Nat}
<1>8. 0 \in S
  BY <1>1, <1>7
<1>9. ASSUME NEW i \in 0 .. (n - 1), i \in S PROVE i + 1 \in S
  <2>1. /\ i + 2 \in 1 .. n + 1 /\ i + 2 # 1 /\ (i + 2) - 1 = i + 1 /\ i + 1 \in 1 .. n
        /\ (i + 1) + 1 = i + 2 /\ i + 1 \in 0 .. n
    BY <1>1
  <2>2. at[i + 2] = at[i + 1] + Layout[f][i + 1].len
    BY <1>7, <2>1
  <2> QED
    BY <1>1, <1>9, <2>1, <2>2
<1>10. \A i \in 0 .. n : i \in S
  <2> HIDE DEF S
  <2> QED
    BY <1>1, <1>8, <1>9, IntervalInduction
<1>11. ASSUME NEW k \in 1 .. n + 1 PROVE at[k] \in Nat
  <2>1. k - 1 \in 0 .. n /\ (k - 1) + 1 = k
    BY <1>1
  <2> QED
    BY <1>10, <2>1
<1>12. at \in [1 .. n + 1 -> Nat]
  BY <1>7, <1>11
<1> QED
  BY <1>1, <1>2, <1>12 DEF n

\* What is copied of a function is at least what is overwritten, and not more than there is.
LEMMA SizeBounds ==
  ASSUME NEW f \in HookFunctions
  PROVE  /\ CodeSize(f) \in Nat
         /\ Decodable(f) => TrampolineSize(f) \in MinHookSize .. CodeSize(f)
<1> DEFINE n == Len(Layout[f])
           S == {Offset(f)[k] : k \in {j \in DOMAIN Offset(f) : Offset(f)[j] >= MinHookSize}}
<1>1. n \in Nat /\ Offset(f) \in [1 .. n + 1 -> Nat]
  BY OffsetTyped
<1>2. CodeSize(f) \in Nat /\ n + 1 \in DOMAIN Offset(f)
  BY <1>1 DEF CodeSize
<1>3. ASSUME Decodable(f) PROVE TrampolineSize(f) \in MinHookSize .. CodeSize(f)
  <2>1. CodeSize(f) >= MinHookSize
    BY <1>3, InlineAssumption
  <2>2. S \in SUBSET Nat /\ CodeSize(f) \in S /\ \A x \in S : x >= MinHookSize
    BY <1>1, <1>2, <2>1 DEF CodeSize
  <2>3. TrampolineSize(f) = Min(S)
    BY DEF TrampolineSize
  <2> HIDE DEF S
  <2>4. Min(S) \in S /\ \A y \in S : Min(S) <= y
    BY <2>2, LeastOf
  <2>5. Min(S) \in Nat /\ Min(S) >= MinHookSize /\ Min(S) <= CodeSize(f)
    BY <2>2, <2>4
  <2> QED
    BY <1>2, <2>3, <2>5 DEF MinHookSize
<1> QED
  BY <1>2, <1>3

\* What is pushed for a function are the places of its displacements, all of them.
LEMMA PushedIs ==
  ASSUME NEW f \in HookFunctions
  PROVE  /\ Pushed(f) \in Seq(Relative(f))
         /\ Relative(f) # {} => Len(Pushed(f)) > 0
<1> DEFINE n == Len(Layout[f])
           Lists == Seq(Relative(f))
           up == CHOOSE g : g = [k \in 0 .. n |->
                   IF k = 0 THEN <<>>
                   ELSE IF k \in HasDisp(f) THEN Append(g[k - 1], Place(f, k)) ELSE g[k - 1]]
           step == [c \in (1 .. n) \X Lists |->
                     IF c[1] \in HasDisp(f) THEN Append(c[2], Place(f, c[1])) ELSE c[2]]
<1>1. n \in Nat /\ HasDisp(f) \subseteq 1 .. n /\ \A k \in HasDisp(f) : Place(f, k) \in Relative(f)
  <2>1. Layout[f] \in Seq([len : Nat, disp : Nat])
    BY InlineAssumption
  <2>2. n \in Nat /\ DOMAIN Layout[f] = 1 .. n
    BY <2>1, LenProperties
  <2> QED
    BY <2>2 DEF HasDisp, Decoded, Relative
<1>2. Pushed(f) = up[n]
  BY DEF Pushed
<1>3. <<>> \in Lists /\ Len(<<>>) = 0
  BY EmptySeq
<1>4. ASSUME NEW q \in Lists, NEW k \in HasDisp(f)
      PROVE  Append(q, Place(f, k)) \in Lists /\ Len(Append(q, Place(f, k))) > 0
  <2>1. Place(f, k) \in Relative(f) /\ Len(q) \in Nat
    BY <1>1, LenProperties
  <2> QED
    BY <2>1, AppendProperties
<1>5. PICK g : g \in Recursion(n, Lists, <<>>, step)
  <2>1. step \in [(1 .. n) \X Lists -> Lists]
    <3> HIDE DEF Lists
    <3> QED
      BY <1>4
  <2> HIDE DEF step, n, Lists
  <2> QED
    BY <1>1, <1>3, <2>1, IntervalRecursion, Zenon
<1> HIDE DEF n, Lists
<1>6. g = [k \in 0 .. n |->
             IF k = 0 THEN <<>>
             ELSE IF k \in HasDisp(f) THEN Append(g[k - 1], Place(f, k)) ELSE g[k - 1]]
  <2>1. g \in [0 .. n -> Lists] /\ g[0] = <<>> /\ \A i \in 1 .. n : g[i] = step[<<i, g[i - 1]>>]
    BY <1>5 DEF Recursion
  <2>2. ASSUME NEW i \in 1 .. n
        PROVE  g[i] = IF i \in HasDisp(f) THEN Append(g[i - 1], Place(f, i)) ELSE g[i - 1]
    <3>1. i - 1 \in 0 .. n
      BY <1>1
    <3>2. <<i, g[i - 1]>> \in (1 .. n) \X Lists
      BY <2>1, <3>1
    <3> QED
      BY <2>1, <3>2
  <2> HIDE DEF step
  <2>3. ASSUME NEW i \in 0 .. n
        PROVE  g[i] = IF i = 0 THEN <<>>
                      ELSE IF i \in HasDisp(f) THEN Append(g[i - 1], Place(f, i)) ELSE g[i - 1]
    <3>1. i # 0 => i \in 1 .. n
      BY <1>1
    <3> QED
      BY <2>1, <2>2, <3>1
  <2>4. g = [k \in 0 .. n |-> g[k]]
    BY <2>1
  <2> QED
    BY <2>3, <2>4
<1>7. up = [k \in 0 .. n |->
             IF k = 0 THEN <<>>
             ELSE IF k \in HasDisp(f) THEN Append(up[k - 1], Place(f, k)) ELSE up[k - 1]]
  BY <1>6, Zenon
<1> HIDE DEF up
<1> DEFINE S == {i \in 0 .. n : up[i] \in Lists /\ ((\E k \in HasDisp(f) : k <= i) => Len(up[i]) > 0)}
<1>8. 0 \in S
  BY <1>1, <1>3, <1>7
<1>9. ASSUME NEW i \in 0 .. (n - 1), i \in S PROVE i + 1 \in S
  <2>1. i + 1 \in 0 .. n /\ i + 1 # 0 /\ (i + 1) - 1 = i /\ i \in Nat
    BY <1>1
  <2>2. up[i + 1] = IF i + 1 \in HasDisp(f) THEN Append(up[i], Place(f, i + 1)) ELSE up[i]
    BY <1>7, <2>1
  <2>3. CASE i + 1 \in HasDisp(f)
    <3>1. up[i + 1] \in Lists /\ Len(up[i + 1]) > 0
      BY <1>4, <1>9, <2>2, <2>3
    <3> QED
      BY <2>1, <3>1
  <2>4. CASE i + 1 \notin HasDisp(f)
    <3>1. ASSUME NEW k \in HasDisp(f), k <= i + 1 PROVE k <= i
      <4>1. k # i + 1 /\ k \in Int
        BY <1>1, <2>4
      <4> QED
        BY <2>1, <3>1, <4>1
    <3> QED
      BY <1>9, <2>1, <2>2, <2>4, <3>1
  <2> QED
    BY <2>3, <2>4
<1>10. n \in S
  <2> HIDE DEF S
  <2>1. \A i \in 0 .. n : i \in S
    BY <1>1, <1>8, <1>9, IntervalInduction
  <2> QED
    BY <1>1, <2>1
<1>11. ASSUME Relative(f) # {} PROVE \E k \in HasDisp(f) : k <= n
  <2>1. PICK k \in HasDisp(f) : TRUE
    BY <1>11 DEF Relative
  <2> QED
    BY <1>1, <2>1
<1> QED
  BY <1>2, <1>10, <1>11 DEF Lists

\* The bytes of the trampoline after the list was written into them: displacements where the
\* function has them, and nothing else in the part that was copied.
LEMMA PatchedIs ==
  ASSUME RelativeLast, NEW f \in HookFunctions, Decodable(f),
         NEW list \in Seq(Relative(f)), Relative(f) # {} => Len(list) > 0,
         NEW bytes, NEW low, NEW high, NEW i \in DOMAIN bytes, i \in 0 .. TrampolineSize(f) - 1
  PROVE  Patched(bytes, list, low, high)[i] =
           IF \E r \in Relative(f) : r.at <= i /\ i < r.at + DispSize THEN <<low, f, i>> ELSE bytes[i]
<1> DEFINE size == TrampolineSize(f)
           n == Len(list)
           over == {k \in DOMAIN list : list[k].at <= i /\ i < list[k].at + WriteSize}
<1>1. size \in Nat
  BY SizeBounds DEF MinHookSize
<1>2. n \in Nat /\ DOMAIN list = 1 .. n /\ \A k \in 1 .. n : list[k] \in Relative(f)
  BY LenProperties, ElementOfSeq
<1>3. ASSUME NEW r \in Relative(f) PROVE r.at \in Nat /\ r.at = size - 4 /\ r.of = f
  <2>1. PICK k \in HasDisp(f) : r = Place(f, k)
    BY DEF Relative
  <2>2. r.of = f /\ r.at = Offset(f)[k] + Layout[f][k].disp
    BY <2>1 DEF Place
  <2>3. r.at \in Nat
    <3>1. /\ Layout[f] \in Seq([len : Nat, disp : Nat]) /\ k \in DOMAIN Layout[f]
          /\ Len(Layout[f]) \in Nat /\ Offset(f) \in [1 .. Len(Layout[f]) + 1 -> Nat]
      BY InlineAssumption, OffsetTyped DEF HasDisp, Decoded
    <3>2. k \in 1 .. Len(Layout[f]) /\ Layout[f][k] \in [len : Nat, disp : Nat]
      BY <3>1, LenProperties, ElementOfSeq
    <3>3. k \in 1 .. Len(Layout[f]) + 1
      BY <3>1, <3>2
    <3>4. Offset(f)[k] \in Nat /\ Layout[f][k].disp \in Nat
      BY <3>1, <3>2, <3>3
    <3> HIDE DEF size
    <3> QED
      BY <2>2, <3>4
  <2>4. r.at + 4 = size
    BY DEF RelativeLast, DispSize
  <2> HIDE DEF size
  <2> QED
    BY <1>1, <2>2, <2>3, <2>4
<1>4. Patched(bytes, list, low, high)[i] =
        IF over = {} THEN bytes[i]
        ELSE IF i < list[Max(over)].at + DispSize THEN <<low, list[Max(over)].of, i>> ELSE <<high>>
  BY DEF Patched
<1>5. CASE Relative(f) # {} /\ i >= size - 4
  <2>1. PICK r \in Relative(f) : r.at = size - 4
    BY <1>3, <1>5
  <2>2. \E q \in Relative(f) : q.at <= i /\ i < q.at + DispSize
    BY <1>1, <1>5, <2>1 DEF DispSize
  <2>3. over = 1 .. n /\ over # {} /\ over \in SUBSET (1 .. n)
    <3>1. \A k \in 1 .. n : list[k].at = size - 4
      BY <1>2, <1>3
    <3>2. n > 0
      BY <1>5
    <3>3. \A k \in 1 .. n : list[k].at <= i /\ i < list[k].at + WriteSize
      <4> TAKE k \in 1 .. n
      <4>1. list[k].at = size - 4
        BY <3>1
      <4>2. i \in Int /\ i < size
        BY <1>1
      <4> HIDE DEF n, size
      <4> QED
        BY <1>1, <1>5, <4>1, <4>2 DEF WriteSize
    <3>4. over = 1 .. n
      BY <1>2, <3>3, Zenon
    <3>5. 1 \in 1 .. n
      BY <1>2, <3>2
    <3> HIDE DEF over
    <3> QED
      BY <3>4, <3>5
  <2> HIDE DEF over
  <2>4. Max(over) \in 1 .. n
    BY <1>2, <2>3, GreatestOf
  <2>5. list[Max(over)].at = size - 4 /\ list[Max(over)].of = f
    BY <1>2, <1>3, <2>4
  <2>6. i < list[Max(over)].at + DispSize
    BY <1>1, <2>5 DEF DispSize
  <2> QED
    BY <1>4, <2>2, <2>3, <2>5, <2>6
<1>6. CASE ~(Relative(f) # {} /\ i >= size - 4)
  <2>1. ASSUME NEW r \in Relative(f) PROVE ~(r.at <= i)
    BY <1>1, <1>3, <1>6
  <2>2. over = {}
    BY <1>2, <2>1
  <2> HIDE DEF over
  <2> QED
    BY <1>4, <2>1, <2>2
<1> QED
  BY <1>5, <1>6

FaithfulTrampoline(f) == [i \in 0 .. TrampolineSize(f) + JmpSize - 1 |-> Relocated(f, i)]
HookedCode(f, o) == [i \in 0 .. CodeSize(f) - 1 |-> IF i < JmpSize THEN <<"hook", o, i>> ELSE <<f, i>>]

\* A function that is hooked, by an object whose list has its displacements.
Attached(f) ==
  /\ old[f] \in TrampolineSlots /\ Decodable(f) /\ <<by[f], f>> \in Uses
  /\ slots[old[f]] = FaithfulTrampoline(f)
  /\ code[f] = HookedCode(f, by[f])
  /\ Relative(f) # {} => Len(relocs[by[f]]) > 0

InlineInv ==
  /\ /\ code = [f \in HookFunctions |-> code[f]] /\ slots = [s \in TrampolineSlots |-> slots[s]]
     /\ old = [f \in HookFunctions |-> old[f]] /\ by = [f \in HookFunctions |-> by[f]]
     /\ relocs = [o \in HookObjects |-> relocs[o]]
  /\ \A u \in Uses : relocs[u[1]] \in Seq(Relative(u[2]))
  /\ \A f \in HookFunctions : old[f] = NoSlot => code[f] = Original(f)
  /\ \A f \in HookFunctions : old[f] # NoSlot => Attached(f)
  /\ \A f, g \in HookFunctions : old[f] = old[g] /\ old[f] # NoSlot => f = g

LEMMA InitInlineInv == InlineInit => InlineInv
<1> SUFFICES ASSUME InlineInit PROVE InlineInv
  OBVIOUS
<1>1. ASSUME NEW u \in Uses PROVE relocs[u[1]] \in Seq(Relative(u[2]))
  <2>1. u[1] \in HookObjects
    BY DEF HookObjects
  <2> QED
    BY <2>1, EmptySeq DEF InlineInit
<1> QED
  BY <1>1 DEF InlineInit, InlineInv

\* What an object knows after another function was decoded.
LEMMA KnownIs ==
  ASSUME InlineInv, OneFunctionEach, NEW o, NEW f, <<o, f>> \in Uses
  PROVE  /\ o \in HookObjects /\ f \in HookFunctions
         /\ \A u \in Uses : u[1] = o => u[2] = f
         /\ Known(o, f) \in Seq(Relative(f))
         /\ Relative(f) # {} => Len(Known(o, f)) > 0
<1>1. o \in HookObjects /\ f \in HookFunctions /\ \A u \in Uses : u[1] = o => u[2] = f
  BY InlineAssumption DEF OneFunctionEach, HookObjects
<1>2. relocs[o] \in Seq(Relative(f))
  <2> DEFINE u == <<o, f>>
  <2>1. u \in Uses /\ u[1] = o /\ u[2] = f
    OBVIOUS
  <2> HIDE DEF u
  <2> QED
    BY <2>1 DEF InlineInv
<1>3. Pushed(f) \in Seq(Relative(f)) /\ (Relative(f) # {} => Len(Pushed(f)) > 0)
  BY <1>1, PushedIs
<1>4. Known(o, f) \in Seq(Relative(f)) /\ Len(Known(o, f)) = Len(relocs[o]) + Len(Pushed(f))
  BY <1>2, <1>3, ConcatProperties DEF Known
<1>5. Len(relocs[o]) \in Nat /\ Len(Pushed(f)) \in Nat
  BY <1>2, <1>3, LenProperties
<1> QED
  BY <1>1, <1>3, <1>4, <1>5

\* A list that grows keeps what the invariant says of lists, and of functions that are hooked.
LEMMA ListGrows ==
  ASSUME InlineInv, OneFunctionEach, NEW o, NEW f, <<o, f>> \in Uses,
         relocs' = [relocs EXCEPT ![o] = Known(o, f)]
  PROVE  /\ relocs' = [a \in HookObjects |-> relocs'[a]]
         /\ \A u \in Uses : relocs'[u[1]] \in Seq(Relative(u[2]))
         /\ relocs'[o] = Known(o, f)
         /\ \A g \in HookFunctions : old[g] # NoSlot /\ Relative(g) # {} => Len(relocs'[by[g]]) > 0
<1>1. /\ o \in HookObjects /\ f \in HookFunctions
      /\ \A u \in Uses : u[1] = o => u[2] = f
      /\ Known(o, f) \in Seq(Relative(f))
      /\ Relative(f) # {} => Len(Known(o, f)) > 0
  BY KnownIs
<1>2. /\ relocs' = [a \in HookObjects |-> relocs'[a]]
      /\ relocs'[o] = Known(o, f) /\ \A a \in HookObjects \ {o} : relocs'[a] = relocs[a]
  BY <1>1 DEF InlineInv
<1>3. ASSUME NEW u \in Uses PROVE relocs'[u[1]] \in Seq(Relative(u[2]))
  <2>1. u[1] \in HookObjects
    BY DEF HookObjects
  <2>2. CASE u[1] = o
    BY <1>1, <1>2, <2>2
  <2>3. CASE u[1] # o
    BY <1>2, <2>1, <2>3 DEF InlineInv
  <2> QED
    BY <2>2, <2>3
<1>4. ASSUME NEW g \in HookFunctions, old[g] # NoSlot, Relative(g) # {} PROVE Len(relocs'[by[g]]) > 0
  <2>1. <<by[g], g>> \in Uses /\ Len(relocs[by[g]]) > 0
    BY <1>4 DEF InlineInv, Attached
  <2>2. by[g] \in HookObjects
    <3> DEFINE u == <<by[g], g>>
    <3>1. u \in Uses /\ u[1] = by[g]
      BY <2>1
    <3> HIDE DEF u
    <3> QED
      BY <3>1 DEF HookObjects
  <2>3. CASE by[g] = o
    <3>1. g = f
      BY <1>1, <2>1, <2>3
    <3> QED
      BY <1>1, <1>2, <1>4, <2>3, <3>1
  <2>4. CASE by[g] # o
    BY <1>2, <2>1, <2>2, <2>4
  <2> QED
    BY <2>3, <2>4
<1> QED
  BY <1>2, <1>3, <1>4

LEMMA AttachFailsKeeps ==
  ASSUME InlineInv, OneFunctionEach, NEW o, NEW f, AttachFails(o, f)
  PROVE  InlineInv'
<1>1. /\ <<o, f>> \in Uses /\ relocs' = [relocs EXCEPT ![o] = Known(o, f)]
      /\ UNCHANGED <<code, slots, old, by>>
  BY DEF AttachFails
<1>2. /\ relocs' = [a \in HookObjects |-> relocs'[a]]
      /\ \A u \in Uses : relocs'[u[1]] \in Seq(Relative(u[2]))
      /\ \A g \in HookFunctions : old[g] # NoSlot /\ Relative(g) # {} => Len(relocs'[by[g]]) > 0
  BY <1>1, ListGrows
<1>3. ASSUME NEW g \in HookFunctions, old[g] # NoSlot PROVE Attached(g)'
  BY <1>1, <1>2, <1>3 DEF InlineInv, Attached
<1> QED
  BY <1>1, <1>2, <1>3 DEF InlineInv

LEMMA AttachKeeps ==
  ASSUME InlineInv, OneFunctionEach, RelativeLast,
         NEW o, NEW f, NEW s \in TrampolineSlots, Attach(o, f, s)
  PROVE  InlineInv'
<1> DEFINE size == TrampolineSize(f)
           head == [i \in 0 .. size - 1 |-> code[f][i]]
           body == Patched(head, Known(o, f), "rel", "over")
           made == [i \in 0 .. size + JmpSize - 1 |-> IF i < size THEN body[i] ELSE <<"jmp", f, i - size>>]
           over == [i \in DOMAIN code[f] |-> IF i < JmpSize THEN <<"hook", o, i>> ELSE code[f][i]]
<1>1. /\ <<o, f>> \in Uses /\ old[f] = NoSlot /\ Decodable(f) /\ slots[s] = <<>>
      /\ slots' = [slots EXCEPT ![s] = made]
      /\ code' = [code EXCEPT ![f] = over]
      /\ old' = [old EXCEPT ![f] = s] /\ by' = [by EXCEPT ![f] = o]
      /\ relocs' = [relocs EXCEPT ![o] = Known(o, f)]
  BY DEF Attach
<1>2. /\ o \in HookObjects /\ f \in HookFunctions
      /\ Known(o, f) \in Seq(Relative(f)) /\ (Relative(f) # {} => Len(Known(o, f)) > 0)
  BY <1>1, KnownIs
<1>3. size \in Nat /\ CodeSize(f) \in Nat /\ size >= 14 /\ size <= CodeSize(f)
  BY <1>1, <1>2, SizeBounds DEF MinHookSize
<1>4. code[f] = Original(f)
  BY <1>1, <1>2 DEF InlineInv
<1>5. made = FaithfulTrampoline(f)
  <2>1. ASSUME NEW i \in 0 .. size + JmpSize - 1
        PROVE  (IF i < size THEN body[i] ELSE <<"jmp", f, i - size>>) = Relocated(f, i)
    <3>1. CASE i < size
      <4>1. i \in 0 .. size - 1 /\ i \in 0 .. CodeSize(f) - 1 /\ ~(i >= size)
        BY <1>3, <2>1, <3>1 DEF JmpSize
      <4>2. head[i] = <<f, i>> /\ i \in DOMAIN head
        BY <1>4, <4>1 DEF Original
      <4> HIDE DEF head
      <4>3. body[i] = IF \E r \in Relative(f) : r.at <= i /\ i < r.at + DispSize THEN <<"rel", f, i>> ELSE head[i]
        BY <1>1, <1>2, <4>1, <4>2, PatchedIs
      <4> HIDE DEF body
      <4>4. body[i] = Relocated(f, i)
        BY <4>1, <4>2, <4>3 DEF Relocated
      <4> QED
        BY <3>1, <4>4
    <3>2. CASE ~(i < size)
      <4>1. i >= size
        BY <1>3, <2>1, <3>2 DEF JmpSize
      <4> HIDE DEF body
      <4> QED
        BY <3>2, <4>1 DEF Relocated
    <3> QED
      BY <3>1, <3>2
  <2> HIDE DEF body
  <2> QED
    BY <2>1 DEF FaithfulTrampoline
<1>6. over = HookedCode(f, o)
  <2>1. DOMAIN code[f] = 0 .. CodeSize(f) - 1 /\ \A i \in 0 .. CodeSize(f) - 1 : code[f][i] = <<f, i>>
    BY <1>4 DEF Original
  <2> QED
    BY <2>1 DEF HookedCode
<1> HIDE DEF made, over, size
<1>7. /\ relocs' = [a \in HookObjects |-> relocs'[a]]
      /\ \A u \in Uses : relocs'[u[1]] \in Seq(Relative(u[2]))
      /\ relocs'[o] = Known(o, f)
      /\ \A g \in HookFunctions : old[g] # NoSlot /\ Relative(g) # {} => Len(relocs'[by[g]]) > 0
  BY <1>1, ListGrows
<1>8. /\ code' = [g \in HookFunctions |-> code'[g]] /\ slots' = [a \in TrampolineSlots |-> slots'[a]]
      /\ old' = [g \in HookFunctions |-> old'[g]] /\ by' = [g \in HookFunctions |-> by'[g]]
      /\ code'[f] = HookedCode(f, o) /\ slots'[s] = FaithfulTrampoline(f) /\ old'[f] = s /\ by'[f] = o
      /\ \A g \in HookFunctions \ {f} : code'[g] = code[g] /\ old'[g] = old[g] /\ by'[g] = by[g]
      /\ \A a \in TrampolineSlots \ {s} : slots'[a] = slots[a]
  BY <1>1, <1>2, <1>5, <1>6 DEF InlineInv
<1>9. s # NoSlot
  BY InlineAssumption
<1>10. ASSUME NEW g \in HookFunctions, old[g] # NoSlot PROVE old[g] # s
  <2>1. Decodable(g) /\ slots[old[g]] = FaithfulTrampoline(g)
    BY <1>10 DEF InlineInv, Attached
  <2>2. TrampolineSize(g) \in Nat
    BY <2>1, SizeBounds DEF MinHookSize
  <2>3. 0 \in DOMAIN FaithfulTrampoline(g)
    BY <2>2 DEF FaithfulTrampoline, JmpSize
  <2>4. DOMAIN <<>> = {}
    OBVIOUS
  <2> QED
    BY <1>1, <2>1, <2>3, <2>4
<1>11. ASSUME NEW g \in HookFunctions, old'[g] # NoSlot PROVE Attached(g)'
  <2>1. CASE g = f
    <3>1. Relative(f) # {} => Len(relocs'[o]) > 0
      BY <1>2, <1>7
    <3> QED
      BY <1>1, <1>8, <2>1, <3>1 DEF Attached
  <2>2. CASE g # f
    <3>1. old'[g] = old[g] /\ by'[g] = by[g] /\ code'[g] = code[g] /\ old[g] # NoSlot
      BY <1>8, <1>11, <2>2
    <3>2. Attached(g) /\ old[g] # s
      BY <1>10, <3>1 DEF InlineInv
    <3>3. slots'[old[g]] = slots[old[g]]
      BY <1>8, <3>2 DEF Attached
    <3> QED
      BY <1>7, <3>1, <3>2, <3>3 DEF Attached
  <2> QED
    BY <2>1, <2>2
<1>12. ASSUME NEW g \in HookFunctions, old'[g] = NoSlot PROVE code'[g] = Original(g)
  BY <1>8, <1>9, <1>12 DEF InlineInv
<1>13. ASSUME NEW g \in HookFunctions, NEW h \in HookFunctions, old'[g] = old'[h], old'[g] # NoSlot PROVE g = h
  <2>1. CASE g = f
    BY <1>8, <1>9, <1>10, <1>13, <2>1
  <2>2. CASE g # f /\ h = f
    BY <1>8, <1>9, <1>10, <1>13, <2>2
  <2>3. CASE g # f /\ h # f
    BY <1>8, <1>13, <2>3 DEF InlineInv
  <2> QED
    BY <2>1, <2>2, <2>3
<1> QED
  BY <1>7, <1>8, <1>11, <1>12, <1>13 DEF InlineInv

LEMMA DetachKeeps ==
  ASSUME InlineInv, RelativeLast, NEW o, NEW f \in HookFunctions, Detach(o, f)
  PROVE  InlineInv'
<1> DEFINE size == TrampolineSize(f)
           back == Patched(slots[old[f]], relocs[o], "disp", "zero")
           again == [i \in DOMAIN code[f] |->
                      IF i >= MinHookSize THEN code[f][i]
                      ELSE IF back[i] = <<"disp", f, i>> THEN <<f, i>> ELSE back[i]]
<1>1. /\ old[f] # NoSlot /\ by[f] = o
      /\ code' = [code EXCEPT ![f] = again]
      /\ slots' = [slots EXCEPT ![old[f]] = <<>>]
      /\ old' = [old EXCEPT ![f] = NoSlot] /\ by' = [by EXCEPT ![f] = 0]
      /\ relocs' = relocs
  BY DEF Detach
<1>2. Attached(f)
  BY <1>1 DEF InlineInv
<1>3. relocs[o] \in Seq(Relative(f)) /\ (Relative(f) # {} => Len(relocs[o]) > 0)
  <2> DEFINE u == <<o, f>>
  <2>1. u \in Uses /\ u[1] = o /\ u[2] = f
    BY <1>1, <1>2 DEF Attached
  <2> HIDE DEF u
  <2>2. relocs[o] \in Seq(Relative(f))
    BY <2>1 DEF InlineInv
  <2> QED
    BY <1>1, <1>2, <2>2 DEF Attached
<1>4. size \in Nat /\ CodeSize(f) \in Nat /\ size >= 14 /\ size <= CodeSize(f)
  BY <1>2, SizeBounds DEF MinHookSize, Attached
<1>5. again = Original(f)
  <2>1. /\ DOMAIN code[f] = 0 .. CodeSize(f) - 1
        /\ \A i \in 0 .. CodeSize(f) - 1 : code[f][i] = IF i < 14 THEN <<"hook", by[f], i>> ELSE <<f, i>>
    BY <1>2 DEF Attached, HookedCode, JmpSize
  <2>2. ASSUME NEW i \in 0 .. CodeSize(f) - 1, ~(i >= MinHookSize)
        PROVE  (IF back[i] = <<"disp", f, i>> THEN <<f, i>> ELSE back[i]) = <<f, i>>
    <3>1. i \in 0 .. size - 1 /\ i \in 0 .. size + 13 /\ ~(i >= size)
      BY <1>4, <2>2 DEF MinHookSize
    <3>2. slots[old[f]] = FaithfulTrampoline(f) /\ Decodable(f)
      BY <1>2 DEF Attached
    <3>3. i \in DOMAIN slots[old[f]] /\ slots[old[f]][i] = Relocated(f, i)
      BY <3>1, <3>2 DEF FaithfulTrampoline, JmpSize
    <3>4. back[i] = IF \E r \in Relative(f) : r.at <= i /\ i < r.at + DispSize THEN <<"disp", f, i>>
                    ELSE slots[old[f]][i]
      BY <1>3, <3>1, <3>2, <3>3, PatchedIs
    <3>5. ~(\E r \in Relative(f) : r.at <= i /\ i < r.at + DispSize) => Relocated(f, i) = <<f, i>>
      BY <3>1 DEF Relocated
    <3> HIDE DEF back
    <3> QED
      BY <3>3, <3>4, <3>5
  <2>3. ASSUME NEW i \in 0 .. CodeSize(f) - 1, i >= MinHookSize PROVE code[f][i] = <<f, i>>
    <3>1. ~(i < 14)
      BY <1>4, <2>3 DEF MinHookSize
    <3> QED
      BY <2>1, <3>1
  <2> HIDE DEF back
  <2> QED
    BY <2>1, <2>2, <2>3 DEF Original
<1> HIDE DEF again, size
<1>6. old[f] \in TrampolineSlots
  BY <1>2 DEF Attached
<1>7. /\ code' = [g \in HookFunctions |-> code'[g]] /\ slots' = [a \in TrampolineSlots |-> slots'[a]]
      /\ old' = [g \in HookFunctions |-> old'[g]] /\ by' = [g \in HookFunctions |-> by'[g]]
      /\ code'[f] = Original(f) /\ old'[f] = NoSlot
      /\ \A g \in HookFunctions \ {f} : code'[g] = code[g] /\ old'[g] = old[g] /\ by'[g] = by[g]
      /\ \A a \in TrampolineSlots \ {old[f]} : slots'[a] = slots[a]
  BY <1>1, <1>5, <1>6 DEF InlineInv
<1>8. ASSUME NEW g \in HookFunctions, old'[g] # NoSlot PROVE Attached(g)'
  <2>1. g # f /\ old'[g] = old[g] /\ by'[g] = by[g] /\ code'[g] = code[g] /\ old[g] # NoSlot
    BY <1>7, <1>8
  <2>2. Attached(g) /\ old[g] # old[f]
    BY <1>1, <2>1 DEF InlineInv
  <2>3. slots'[old[g]] = slots[old[g]]
    BY <1>7, <2>2 DEF Attached
  <2> QED
    BY <1>1, <2>1, <2>2, <2>3 DEF Attached
<1>9. ASSUME NEW g \in HookFunctions, old'[g] = NoSlot PROVE code'[g] = Original(g)
  BY <1>7, <1>9 DEF InlineInv
<1>10. ASSUME NEW g \in HookFunctions, NEW h \in HookFunctions, old'[g] = old'[h], old'[g] # NoSlot PROVE g = h
  <2>1. g # f /\ h # f
    BY <1>7, <1>10
  <2> QED
    BY <1>7, <1>10, <2>1 DEF InlineInv
<1> QED
  BY <1>1, <1>7, <1>8, <1>9, <1>10 DEF InlineInv

LEMMA NextInlineInv ==
  ASSUME InlineInv, OneFunctionEach, RelativeLast, [InlineNext]_inlineVars
  PROVE  InlineInv'
<1>1. CASE UNCHANGED inlineVars
  BY <1>1 DEF inlineVars, InlineInv, Attached
<1>2. CASE InlineNext
  BY <1>2, AttachFailsKeeps, AttachKeeps, DetachKeeps DEF InlineNext
<1> QED
  BY <1>1, <1>2

\* A trampoline has the instructions its function began with, the displacements relocated, and
\* leads to the rest of it, after any attaches and detaches of any functions: as long as an object
\* hooks one function and a displacement is the last thing that is copied.
THEOREM TrampolinesFaithful ==
  ASSUME OneFunctionEach, RelativeLast
  PROVE  InlineInit /\ [][InlineNext]_inlineVars => []TrampolineFaithful
<1>1. InlineInv => TrampolineFaithful
  <2> SUFFICES ASSUME InlineInv, NEW f \in HookFunctions, old[f] # NoSlot
               PROVE  /\ \A i \in DOMAIN slots[old[f]] : slots[old[f]][i] = Relocated(f, i)
                      /\ \A i \in TrampolineSize(f) .. CodeSize(f) - 1 : code[f][i] = <<f, i>>
    BY DEF TrampolineFaithful
  <2>1. Attached(f)
    BY DEF InlineInv
  <2>2. TrampolineSize(f) \in Nat /\ TrampolineSize(f) >= 14 /\ CodeSize(f) \in Nat
    BY <2>1, SizeBounds DEF Attached, MinHookSize
  <2>3. \A i \in DOMAIN slots[old[f]] : slots[old[f]][i] = Relocated(f, i)
    BY <2>1 DEF Attached, FaithfulTrampoline
  <2>4. ASSUME NEW i \in TrampolineSize(f) .. CodeSize(f) - 1 PROVE code[f][i] = <<f, i>>
    <3>1. i \in 0 .. CodeSize(f) - 1 /\ ~(i < JmpSize)
      BY <2>2 DEF JmpSize
    <3> QED
      BY <2>1, <3>1 DEF Attached, HookedCode
  <2> QED
    BY <2>3, <2>4
<1>2. InlineInv /\ [InlineNext]_inlineVars => InlineInv'
  BY NextInlineInv
<1> QED
  BY <1>1, <1>2, InitInlineInv, PTL

\* A function without a hook is what it was to the last byte, whatever was attached and detached
\* before, under the same two conditions.
THEOREM DetachRestores ==
  ASSUME OneFunctionEach, RelativeLast
  PROVE  InlineInit /\ [][InlineNext]_inlineVars => []Unhooked
<1>1. InlineInv => Unhooked
  BY DEF InlineInv, Unhooked
<1>2. InlineInv /\ [InlineNext]_inlineVars => InlineInv'
  BY NextInlineInv
<1> QED
  BY <1>1, <1>2, InitInlineInv, PTL

-----------------------------------------------------------------------------
(* All of them, one moving in a behaviour. *)

\* There are as many entries as calls of install, or fewer.
InstallsCounted == Len(entries) <= installs /\ installs \in 0 .. MaxInstalls

LEMMA InstallsCountedKept == IatInv /\ InstallsCounted /\ [IatNext]_iatVars => InstallsCounted'
<1> SUFFICES ASSUME IatInv, InstallsCounted, [IatNext]_iatVars PROVE InstallsCounted'
  OBVIOUS
<1> DEFINE n == Len(entries)
<1>0. n \in Nat /\ DOMAIN entries = 1 .. n /\ n <= installs /\ installs \in 0 .. MaxInstalls /\ MaxInstalls \in Nat
  BY IatAssumption DEF IatInv, InstallsCounted
<1>1. ASSUME NEW f \in IatFunctions, NEW r \in Replacements \cup {Null}, Install(f, r) PROVE InstallsCounted'
  <2>1. installs' = installs + 1 /\ installs < MaxInstalls
    BY <1>1 DEF Install
  <2>2. Len(entries') = n \/ Len(entries') = n + 1
    BY <1>1 DEF Install, IatInv
  <2> QED
    BY <1>0, <2>1, <2>2 DEF InstallsCounted
<1>2. ASSUME NEW f \in IatFunctions, Uninstall(f) PROVE InstallsCounted'
  <2> DEFINE k == Min(IatFind(f))
  <2>1. IatFind(f) \in SUBSET Nat /\ IatFind(f) # {} /\ IatFind(f) \subseteq 1 .. n
    BY <1>0, <1>2 DEF Uninstall, IatFind
  <2>2. k \in 1 .. n
    BY <2>1, LeastOf
  <2>3. entries' = RemoveAt(entries, k) /\ installs' = installs
    BY <1>2 DEF Uninstall
  <2> HIDE DEF k
  <2>4. Len(entries') = n - 1
    BY <2>2, <2>3, RemoveAtKeepsOthers DEF IatInv
  <2> QED
    BY <1>0, <2>3, <2>4 DEF InstallsCounted
<1>3. CASE UNCHANGED iatVars
  BY <1>3 DEF iatVars, InstallsCounted
<1> QED
  BY <1>1, <1>2, <1>3 DEF IatNext

\* The types of the inline hooks need no condition on the functions.
LEMMA InitInlineTypes == InlineInit => InlineTypeOK
<1> SUFFICES ASSUME InlineInit PROVE InlineTypeOK
  OBVIOUS
<1>1. /\ old \in [HookFunctions -> TrampolineSlots \cup {NoSlot}]
      /\ by \in [HookFunctions -> HookObjects \cup {0}] /\ attaches \in 0 .. MaxAttach
  BY InlineAssumption DEF InlineInit
<1>2. hooked \in [HookObjects -> BOOLEAN]
  BY Zenon DEF InlineInit
<1> QED
  BY <1>1, <1>2 DEF InlineTypeOK

LEMMA NextInlineTypes == InlineTypeOK /\ [InlineNext]_inlineVars => InlineTypeOK'
<1> SUFFICES ASSUME InlineTypeOK, [InlineNext]_inlineVars PROVE InlineTypeOK'
  OBVIOUS
<1>1. CASE UNCHANGED inlineVars
  BY <1>1 DEF inlineVars, InlineTypeOK
<1>2. ASSUME NEW o \in HookObjects, NEW f \in HookFunctions, AttachFails(o, f) PROVE InlineTypeOK'
  <2>1. attaches' = attaches + 1 /\ attaches < MaxAttach /\ UNCHANGED <<old, by, hooked>>
    BY <1>2 DEF AttachFails
  <2>2. attaches' \in 0 .. MaxAttach
    BY <2>1, InlineAssumption DEF InlineTypeOK
  <2> QED
    BY <2>1, <2>2 DEF InlineTypeOK
<1>3. ASSUME NEW o \in HookObjects, NEW f \in HookFunctions, Detach(o, f) PROVE InlineTypeOK'
  <2>1. old' = [old EXCEPT ![f] = NoSlot] /\ by' = [by EXCEPT ![f] = 0] /\ UNCHANGED <<hooked, attaches>>
    BY <1>3 DEF Detach
  <2>2. old' \in [HookFunctions -> TrampolineSlots \cup {NoSlot}] /\ by' \in [HookFunctions -> HookObjects \cup {0}]
    BY <2>1 DEF InlineTypeOK
  <2> QED
    BY <2>1, <2>2 DEF InlineTypeOK
<1>4. ASSUME NEW o \in HookObjects, NEW f \in HookFunctions, NEW s \in TrampolineSlots, Attach(o, f, s)
      PROVE InlineTypeOK'
  <2>1. /\ old' = [old EXCEPT ![f] = s] /\ by' = [by EXCEPT ![f] = o]
        /\ attaches' = attaches + 1 /\ attaches < MaxAttach
    BY <1>4 DEF Attach
  <2>2. /\ old' \in [HookFunctions -> TrampolineSlots \cup {NoSlot}] /\ by' \in [HookFunctions -> HookObjects \cup {0}]
        /\ attaches' \in 0 .. MaxAttach
    BY <2>1, InlineAssumption DEF InlineTypeOK
  <2>3. hooked' = [hooked EXCEPT ![o] = TRUE]
    BY <1>4, Zenon DEF Attach
  <2>4. hooked' \in [HookObjects -> BOOLEAN]
    <3>1. hooked \in [HookObjects -> BOOLEAN]
      BY DEF InlineTypeOK
    <3> QED
      BY <2>3, <3>1, Zenon
  <2> QED
    BY <2>2, <2>4 DEF InlineTypeOK
<1> QED
  BY <1>1, <1>2, <1>3, <1>4 DEF InlineNext

EveryInv ==
  /\ InlineTypeOK /\ ServiceInv /\ DebounceInv
  /\ IatInv /\ InstallsCounted
  /\ IInv

LEMMA InitEveryInv == ObjectsInit => EveryInv
<1>1. IatInit => InstallsCounted
  BY IatAssumption, EmptySeq DEF IatInit, InstallsCounted
<1> QED
  BY <1>1, InitInlineTypes, InitServiceInv, InitDebounceInv, InitIatInv, InitIInv DEF ObjectsInit, EveryInv

LEMMA NextEveryInv == EveryInv /\ [ObjectsNext]_objectVars => EveryInv'
<1> SUFFICES ASSUME EveryInv, [ObjectsNext]_objectVars PROVE EveryInv'
  OBVIOUS
<1>1. /\ [InlineNext]_inlineVars /\ [ServiceNext]_serviceVars /\ [DebounceNext]_debounceVars
      /\ [IatNext]_iatVars /\ [Next]_vars
  <2>1. CASE UNCHANGED objectVars
    BY <2>1, Zenon DEF objectVars
  <2>2. CASE ObjectsNext
    BY <2>2, Zenon DEF ObjectsNext
  <2> QED
    BY <2>1, <2>2
<1> QED
  BY <1>1, NextInlineTypes, NextServiceInv, NextDebounceInv, NextIatInv, InstallsCountedKept, NextIInv DEF EveryInv

\* The objects of the run `objects` keep their types, whichever of them moves: lists as long as the
\* calls that made them, counters in their ranges, operations in their steps; for any constants.
THEOREM ObjectsTypeCorrect == ObjectsSpec => []ObjectsTypeOK
<1>1. EveryInv => ObjectsTypeOK
  <2> SUFFICES ASSUME EveryInv PROVE ObjectsTypeOK
    OBVIOUS
  <2>1. IatTypeOK
    <3>1. table \in [Imports -> Imports \cup Replacements] /\ InstallsCounted
      BY DEF EveryInv, IatInv
    <3>2. \A i \in DOMAIN entries : entries[i] \in Entry
      BY DEF EveryInv, IatInv
    <3> QED
      BY <3>1, <3>2 DEF IatTypeOK, InstallsCounted, Entry
  <2> QED
    BY <2>1 DEF EveryInv, ServiceInv, DebounceInv, IInv, ObjectsTypeOK
<1> QED
  BY <1>1, InitEveryInv, NextEveryInv, PTL DEF ObjectsSpec
=============================================================================
