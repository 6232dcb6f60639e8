----------------------------- MODULE StlThread -----------------------------
(***************************************************************************)
(* STLThreadT (include/template/stlthread.tpl): a container is cut into    *)
(* ranges, one task per range is given to a pool of threads, and each task *)
(* walks its range calling task() on every item, without a lock.           *)
(*                                                                         *)
(* The pool is the abstract one of TaskPool.  It does not say when launch  *)
(* returns (ThreadPool shows how little can be said), so it may return at  *)
(* any moment.  The container keeps its size.                              *)
(***************************************************************************)
EXTENDS Integers

CONSTANTS
  NumItems,         \* m_items.size()
  Requested,        \* the argument n_threads
  Hardware          \* std::thread::hardware_concurrency()

MAX_NTHREADS == -1

\* An empty container or no thread at all divides by zero in the constructor.
ASSUME StlThreadAssumption ==
  /\ NumItems \in Nat \ {0} /\ Hardware \in Nat \ {0}
  /\ Requested \in (Nat \ {0}) \cup {MAX_NTHREADS}

-----------------------------------------------------------------------------
(* The partition the constructor computes. *)

Wanted == IF Requested = MAX_NTHREADS THEN Hardware ELSE Requested

NumThreads == IF Wanted > NumItems THEN NumItems ELSE Wanted

ItemsPerThread == NumItems \div NumThreads

\* Mutant of NumIterations: no iteration for the remainder.
IterationsNoRemainder == NumThreads

NumIterations == IF NumItems % NumThreads # 0 THEN NumThreads + 1 ELSE NumThreads

Items == 0 .. NumItems - 1
Iterations == 0 .. NumIterations - 1

\* Mutant of Start: one item too early, except for the first range.
StartEarly(it) == IF it = 0 THEN 0 ELSE ItemsPerThread * it - 1

Start(it) == ItemsPerThread * it

\* Mutants of Stop: the end of the container is forgotten; the - 1 is forgotten.
StopUnbounded(it) == ItemsPerThread * (it + 1) - 1
StopInclusive(it) ==
  LET stop == ItemsPerThread * (it + 1) IN IF stop > NumItems - 1 THEN NumItems - 1 ELSE stop

Stop(it) ==
  LET stop == ItemsPerThread * (it + 1) - 1 IN IF stop > NumItems - 1 THEN NumItems - 1 ELSE stop

-----------------------------------------------------------------------------
VARIABLES
  mpc,              \* the thread that owns the object
  next,             \* iteration of launch's loop
  stage, open,      \* the pool
  cursor,           \* it in execute, per iteration
  calls             \* history: times task() was called on an item

vars == <<mpc, next, stage, open, cursor, calls>>

Pool == INSTANCE TaskPool WITH Tasks <- Iterations, Limit <- NumThreads

Init ==
  /\ mpc = "new" /\ next = 0
  /\ Pool!Init
  /\ cursor = [it \in Iterations |-> 0]
  /\ calls = [i \in Items |-> 0]

AddTask ==
  /\ mpc = "new" /\ next < NumIterations
  /\ Pool!Submit(next)
  /\ next' = next + 1
  /\ UNCHANGED <<mpc, cursor, calls>>

Launch ==
  /\ mpc = "new" /\ next = NumIterations
  /\ mpc' = "launched"
  /\ UNCHANGED <<next, stage, open, cursor, calls>>

\* ~STLThreadT deletes the pool: it takes no more, waits for what runs and
\* drops what is still queued.
Destroy ==
  /\ mpc = "launched"
  /\ Pool!Close
  /\ mpc' = "destroying"
  /\ UNCHANGED <<next, cursor, calls>>

Destroyed ==
  /\ mpc = "destroying"
  /\ Pool!Discard
  /\ mpc' = "gone"
  /\ UNCHANGED <<next, cursor, calls>>

\* execute, on a thread of the pool: the range, then task() item by item until
\* the iterator meets the end, or until task() says Break.
Execute(it) ==
  /\ mpc # "gone" /\ Pool!Start(it)
  /\ cursor' = [cursor EXCEPT ![it] = Start(it)]
  /\ UNCHANGED <<mpc, next, calls>>

CallTask(it) ==
  /\ stage[it] = "running" /\ cursor[it] # Stop(it) + 1
  /\ calls' = [calls EXCEPT ![cursor[it]] = @ + 1]
  /\ cursor' = [cursor EXCEPT ![it] = @ + 1]
  /\ UNCHANGED <<mpc, next, stage, open>>

Break(it) ==
  /\ cursor[it] > Start(it) /\ Pool!Finish(it)
  /\ UNCHANGED <<mpc, next, cursor, calls>>

RangeDone(it) ==
  /\ cursor[it] = Stop(it) + 1 /\ Pool!Finish(it)
  /\ UNCHANGED <<mpc, next, cursor, calls>>

Next ==
  \/ AddTask \/ Launch \/ Destroy \/ Destroyed
  \/ \E it \in Iterations : Execute(it) \/ CallTask(it) \/ Break(it) \/ RangeDone(it)

Spec == Init /\ [][Next]_vars

-----------------------------------------------------------------------------
(* Properties. *)

TypeOK ==
  /\ mpc \in {"new", "launched", "destroying", "gone"}
  /\ next \in 0 .. NumIterations
  /\ stage \in [Iterations -> Pool!Stages] /\ open \in BOOLEAN
  /\ cursor \in [Iterations -> 0 .. NumItems]
  /\ calls \in [Items -> Nat]

Running(it) == stage[it] = "running"

\* execute never leaves the container: its iterator stays between the ends of
\* a range that lies inside (otherwise `it != it_stop` is never false).
InsideRange ==
  \A it \in Iterations : Running(it) =>
    /\ Start(it) <= cursor[it] /\ cursor[it] <= Stop(it) + 1
    /\ 0 <= Start(it) /\ Stop(it) < NumItems

\* task() is called without the lock that execute has commented out, so no two
\* threads may be at the same item.
NoSharedItem ==
  \A k, l \in Iterations :
    Running(k) /\ Running(l) /\ k # l /\ cursor[k] <= Stop(k) /\ cursor[l] <= Stop(l)
      => cursor[k] # cursor[l]

\* No item is processed twice.
ItemOnce == \A i \in Items : calls[i] <= 1

\* "+ 1 for remainder items" (stlthread.tpl:66): when every range was walked to
\* its end, every item was processed.
RemainderProcessed ==
  (\A it \in Iterations : stage[it] = "finished" /\ cursor[it] = Stop(it) + 1)
    => \A i \in Items : calls[i] = 1
=============================================================================
