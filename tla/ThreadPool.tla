----------------------------- MODULE ThreadPool -----------------------------
(***************************************************************************)
(* vu::ThreadPool (src/details/threadpool.cpp) and the threadpool11 pool   *)
(* and workers it delegates to.  One action is one lock-to-lock section.   *)
(*                                                                         *)
(* Mutexes are RAII guards, so who holds one is a function of the program  *)
(* counters; enqueuedWorkMutex only ever guards one deque operation, which *)
(* is therefore one step.  Every condition variable of the code is waited  *)
(* on with a predicate, and every write of that predicate that the pool    *)
(* makes is done under the mutex of the wait and followed by a notify: a   *)
(* wait is "blocked until the predicate holds and the mutex is free".      *)
(* What a task computes is left out; its run is one step.                  *)
(***************************************************************************)
EXTENDS Naturals, Sequences, FiniteSets

CONSTANTS
  NumWorkers,       \* n_threads, the size of the deque of workers
  Clients,          \* the threads that call add_task and launch
  Tasks,            \* the work objects, each handed to add_task at most once
  NoTask            \* work == nullptr

ASSUME PoolAssumption ==
  /\ NumWorkers \in Nat \ {0}
  /\ IsFiniteSet(Tasks)
  /\ NoTask \notin Tasks

VARIABLES
  activeWorkerCount, areAllReallyFinished, enqueuedWork,   \* Pool
  status, work, isWorkReallyPosted, terminate, wpc,        \* Worker
  cpc, hand, target, size,                                 \* locals of a caller
  dpc, victim,                                             \* the destructor
  added, ran, due                                          \* history

poolVars == <<activeWorkerCount, areAllReallyFinished, enqueuedWork>>
workerVars == <<status, work, isWorkReallyPosted, terminate, wpc>>
clientVars == <<cpc, hand, target, size>>
destroyVars == <<dpc, victim>>
vars == <<poolVars, workerVars, clientVars, destroyVars, added, ran, due>>

Workers == 1 .. NumWorkers

-----------------------------------------------------------------------------
(* Who holds which mutex. *)

\* activatorMutex: held by the worker from the top of its loop, across work(),
\* until activator.wait releases it.
ActivatorHeld(w) == wpc[w] \in {"park", "run", "pick", "finish", "deactivate"}

\* workerContainerMutex across steps: only a caller on its way into setWork.
ContainerHeld == \E c \in Clients : cpc[c] = "set"

\* notifyAllFinishedMutex across steps: only a worker about to deactivate.
FinishedHeld == \E w \in Workers : wpc[w] = "deactivate"

Idle(w) == status[w] = "DEACTIVE"

\* Mutant: the search forgets to look at the status of the worker.
FirstIdleAnyStatus(w) == \A v \in 1 .. (w - 1) : ~Idle(v)

\* The linear search of postWork stops at the first inactive worker.
FirstIdle(w) == Idle(w) /\ \A v \in 1 .. (w - 1) : ~Idle(v)

\* Mutants: off by one, and the test made before the decrement.
LastActiveOfTwo(n) == n <= 2
LastActiveEarly(n) == n = 0

\* !activeWorkerCount, after the decrement of a count of n.
LastActive(n) == n = 1

\* The four counters of the public interface.
WorkerCount == NumWorkers
WorkQueueCount == Len(enqueuedWork)
ActiveWorkerCount == activeWorkerCount
InactiveWorkerCount == NumWorkers - activeWorkerCount

-----------------------------------------------------------------------------
\* The constructor returns once every worker is initialized: each then holds
\* its activatorMutex on the way into its first wait.
Init ==
  /\ activeWorkerCount = 0 /\ areAllReallyFinished = FALSE /\ enqueuedWork = <<>>
  /\ status = [w \in Workers |-> "DEACTIVE"]
  /\ work = [w \in Workers |-> NoTask]
  /\ isWorkReallyPosted = [w \in Workers |-> FALSE]
  /\ terminate = [w \in Workers |-> FALSE]
  /\ wpc = [w \in Workers |-> "park"]
  /\ cpc = [c \in Clients |-> "idle"] /\ hand = [c \in Clients |-> NoTask]
  /\ target = [c \in Clients |-> 0] /\ size = [c \in Clients |-> 0]
  /\ dpc = "open" /\ victim = 0
  /\ added = {} /\ ran = [t \in Tasks |-> 0] /\ due = [c \in Clients |-> {}]

-----------------------------------------------------------------------------
(* Callers: add_task and launch. *)

\* add_task(t), up to the request for workerContainerMutex.
AddTask(c, t) ==
  /\ dpc = "open" /\ cpc[c] = "idle" /\ t \notin added
  /\ cpc' = [cpc EXCEPT ![c] = "post"]
  /\ hand' = [hand EXCEPT ![c] = t]
  /\ added' = added \cup {t}
  /\ UNCHANGED <<poolVars, workerVars, destroyVars, target, size, ran, due>>

\* postWork claims the first inactive worker and keeps workerContainerMutex.
ClaimWorker(c, w) ==
  /\ cpc[c] = "post" /\ ~ContainerHeld
  /\ activeWorkerCount < NumWorkers /\ FirstIdle(w)
  /\ activeWorkerCount' = activeWorkerCount + 1
  /\ status' = [status EXCEPT ![w] = "ACTIVE"]
  /\ target' = [target EXCEPT ![c] = w]
  /\ cpc' = [cpc EXCEPT ![c] = "set"]
  /\ UNCHANGED <<areAllReallyFinished, enqueuedWork, work, isWorkReallyPosted,
                 terminate, wpc, hand, size, destroyVars, added, ran, due>>

\* setWork, once it gets the activatorMutex of the claimed worker.
SetWork(c) ==
  /\ cpc[c] = "set" /\ ~ActivatorHeld(target[c])
  /\ work' = [work EXCEPT ![target[c]] = hand[c]]
  /\ isWorkReallyPosted' = [isWorkReallyPosted EXCEPT ![target[c]] = TRUE]
  /\ cpc' = [cpc EXCEPT ![c] = "idle"]
  /\ hand' = [hand EXCEPT ![c] = NoTask]
  /\ target' = [target EXCEPT ![c] = 0]
  /\ UNCHANGED <<poolVars, status, terminate, wpc, size, destroyVars, added, ran, due>>

\* postWork saw every worker active and has released workerContainerMutex.
AllBusy(c) ==
  /\ cpc[c] = "post" /\ ~ContainerHeld
  /\ activeWorkerCount >= NumWorkers \/ \A w \in Workers : ~Idle(w)
  /\ cpc' = [cpc EXCEPT ![c] = "enqueue"]
  /\ UNCHANGED <<poolVars, workerVars, hand, target, size, destroyVars, added, ran, due>>

Enqueue(c) ==
  /\ cpc[c] = "enqueue"
  /\ enqueuedWork' = Append(enqueuedWork, hand[c])
  /\ cpc' = [cpc EXCEPT ![c] = "idle"]
  /\ hand' = [hand EXCEPT ![c] = NoTask]
  /\ UNCHANGED <<activeWorkerCount, areAllReallyFinished, workerVars, target, size,
                 destroyVars, added, ran, due>>

\* The tasks whose add_task has returned.
Posted == added \ {hand[c] : c \in Clients}

\* launch: waitAll reads the count under workerContainerMutex and drops it.
Launch(c) ==
  /\ dpc = "open" /\ cpc[c] = "idle" /\ ~ContainerHeld
  /\ cpc' = [cpc EXCEPT ![c] = "wait"]
  /\ size' = [size EXCEPT ![c] = activeWorkerCount]
  /\ due' = [due EXCEPT ![c] = Posted]
  /\ UNCHANGED <<poolVars, workerVars, hand, target, destroyVars, added, ran>>

WaitOver(c) == size[c] # 0 => areAllReallyFinished

\* The rest of waitAll under notifyAllFinishedMutex: the wait is over when the
\* flag is up, and takes it down; a zero count skips both.
LaunchReturn(c) ==
  /\ cpc[c] = "wait" /\ ~FinishedHeld /\ WaitOver(c)
  /\ areAllReallyFinished' = (areAllReallyFinished /\ size[c] = 0)
  /\ cpc' = [cpc EXCEPT ![c] = "idle"]
  /\ size' = [size EXCEPT ![c] = 0]
  /\ due' = [due EXCEPT ![c] = {}]
  /\ UNCHANGED <<activeWorkerCount, enqueuedWork, workerVars, hand, target,
                 destroyVars, added, ran>>

-----------------------------------------------------------------------------
(* Worker::execute. *)

\* activator.wait releases the mutex and sleeps.
Park(w) ==
  /\ wpc[w] = "park"
  /\ wpc' = [wpc EXCEPT ![w] = "wait"]
  /\ UNCHANGED <<poolVars, status, work, isWorkReallyPosted, terminate, clientVars,
                 destroyVars, added, ran, due>>

\* The wait returns and the end of the block releases the mutex again.
Wake(w) ==
  /\ wpc[w] = "wait" /\ isWorkReallyPosted[w]
  /\ wpc' = [wpc EXCEPT ![w] = "test"]
  /\ UNCHANGED <<poolVars, status, work, isWorkReallyPosted, terminate, clientVars,
                 destroyVars, added, ran, due>>

\* while(!terminate), with no mutex held.
TestTerminate(w) ==
  /\ wpc[w] = "test"
  /\ wpc' = [wpc EXCEPT ![w] = IF terminate[w] THEN "done" ELSE "lock"]
  /\ UNCHANGED <<poolVars, status, work, isWorkReallyPosted, terminate, clientVars,
                 destroyVars, added, ran, due>>

\* Mutant: isWorkReallyPosted is never taken down.
BeginNoReset(w) ==
  /\ wpc[w] = "lock"
  /\ wpc' = [wpc EXCEPT ![w] = "run"]
  /\ UNCHANGED <<poolVars, status, work, isWorkReallyPosted, terminate, clientVars,
                 destroyVars, added, ran, due>>

\* Nothing but this worker can hold its activatorMutex for longer than a step.
Begin(w) ==
  /\ wpc[w] = "lock"
  /\ isWorkReallyPosted' = [isWorkReallyPosted EXCEPT ![w] = FALSE]
  /\ wpc' = [wpc EXCEPT ![w] = "run"]
  /\ UNCHANGED <<poolVars, status, work, terminate, clientVars, destroyVars,
                 added, ran, due>>

Run(w) ==
  /\ wpc[w] = "run"
  /\ ran' = [ran EXCEPT ![work[w]] = @ + 1]
  /\ wpc' = [wpc EXCEPT ![w] = "pick"]
  /\ UNCHANGED <<poolVars, status, work, isWorkReallyPosted, terminate, clientVars,
                 destroyVars, added, due>>

\* Mutant: the task is copied off the queue and stays there.
PickQueuedNoPop(w) ==
  /\ wpc[w] = "pick" /\ enqueuedWork # <<>>
  /\ work' = [work EXCEPT ![w] = Head(enqueuedWork)]
  /\ wpc' = [wpc EXCEPT ![w] = "run"]
  /\ UNCHANGED <<poolVars, status, isWorkReallyPosted, terminate, clientVars,
                 destroyVars, added, ran, due>>

PickQueued(w) ==
  /\ wpc[w] = "pick" /\ enqueuedWork # <<>>
  /\ work' = [work EXCEPT ![w] = Head(enqueuedWork)]
  /\ enqueuedWork' = Tail(enqueuedWork)
  /\ wpc' = [wpc EXCEPT ![w] = "run"]
  /\ UNCHANGED <<activeWorkerCount, areAllReallyFinished, status, isWorkReallyPosted,
                 terminate, clientVars, destroyVars, added, ran, due>>

PickNone(w) ==
  /\ wpc[w] = "pick" /\ enqueuedWork = <<>>
  /\ wpc' = [wpc EXCEPT ![w] = "finish"]
  /\ UNCHANGED <<poolVars, status, work, isWorkReallyPosted, terminate, clientVars,
                 destroyVars, added, ran, due>>

LockFinished(w) ==
  /\ wpc[w] = "finish" /\ ~FinishedHeld
  /\ wpc' = [wpc EXCEPT ![w] = "deactivate"]
  /\ UNCHANGED <<poolVars, status, work, isWorkReallyPosted, terminate, clientVars,
                 destroyVars, added, ran, due>>

\* Under both pool mutexes: give the worker back, and the last one to finish
\* raises the flag for the callers of launch.
Deactivate(w) ==
  /\ wpc[w] = "deactivate" /\ ~ContainerHeld
  /\ activeWorkerCount' = activeWorkerCount - 1
  /\ status' = [status EXCEPT ![w] = "DEACTIVE"]
  /\ areAllReallyFinished' = (areAllReallyFinished \/ LastActive(activeWorkerCount))
  /\ wpc' = [wpc EXCEPT ![w] = "park"]
  /\ UNCHANGED <<enqueuedWork, work, isWorkReallyPosted, terminate, clientVars,
                 destroyVars, added, ran, due>>

-----------------------------------------------------------------------------
(* The destructor: joinAll, one worker after the other.  A C++ object may   *)
(* only be destroyed while no other thread is inside one of its members.    *)

Destroy ==
  /\ dpc = "open"
  /\ \A c \in Clients : cpc[c] = "idle"
  /\ dpc' = "terminate" /\ victim' = 1
  /\ UNCHANGED <<poolVars, workerVars, clientVars, added, ran, due>>

SetTerminate ==
  /\ dpc = "terminate"
  /\ terminate' = [terminate EXCEPT ![victim] = TRUE]
  /\ dpc' = "post"
  /\ UNCHANGED <<poolVars, status, work, isWorkReallyPosted, wpc, clientVars, victim,
                 added, ran, due>>

\* Mutant: the worker is told to terminate and not woken.
PostTerminateNoPost ==
  /\ dpc = "post" /\ ~ActivatorHeld(victim)
  /\ dpc' = "join"
  /\ UNCHANGED <<poolVars, workerVars, clientVars, victim, added, ran, due>>

PostTerminate ==
  /\ dpc = "post" /\ ~ActivatorHeld(victim)
  /\ isWorkReallyPosted' = [isWorkReallyPosted EXCEPT ![victim] = TRUE]
  /\ dpc' = "join"
  /\ UNCHANGED <<poolVars, status, work, terminate, wpc, clientVars, victim,
                 added, ran, due>>

JoinNext ==
  /\ dpc = "join" /\ wpc[victim] = "done" /\ victim < NumWorkers
  /\ dpc' = "terminate" /\ victim' = victim + 1
  /\ UNCHANGED <<poolVars, workerVars, clientVars, added, ran, due>>

\* The last thread is joined: the queue is wiped out and the pool is gone.
JoinLast ==
  /\ dpc = "join" /\ wpc[victim] = "done" /\ victim = NumWorkers
  /\ enqueuedWork' = <<>>
  /\ dpc' = "gone"
  /\ UNCHANGED <<activeWorkerCount, areAllReallyFinished, workerVars, clientVars,
                 victim, added, ran, due>>

\* Nothing runs any more (not a step of the code: it tells the end from a deadlock).
Gone == dpc = "gone" /\ UNCHANGED vars

-----------------------------------------------------------------------------
\* The part of a caller that runs on once add_task or launch is called.
ClientStep(c) ==
  \/ \E w \in Workers : ClaimWorker(c, w)
  \/ SetWork(c)
  \/ AllBusy(c)
  \/ Enqueue(c)
  \/ LaunchReturn(c)

WorkerStep(w) ==
  \/ Park(w) \/ Wake(w) \/ TestTerminate(w) \/ Begin(w) \/ Run(w)
  \/ PickQueued(w) \/ PickNone(w) \/ LockFinished(w) \/ Deactivate(w)

DestroyStep == SetTerminate \/ PostTerminate \/ JoinNext \/ JoinLast

Next ==
  \/ \E c \in Clients, t \in Tasks : AddTask(c, t)
  \/ \E c \in Clients : Launch(c) \/ ClientStep(c)
  \/ \E w \in Workers : WorkerStep(w)
  \/ Destroy \/ DestroyStep \/ Gone

Spec == Init /\ [][Next]_vars

\* Threads are scheduled and work functions return; nobody has to call anything.
Fairness ==
  /\ \A c \in Clients : WF_vars(ClientStep(c))
  /\ \A w \in Workers : WF_vars(WorkerStep(w))
  /\ WF_vars(DestroyStep)

FairSpec == Spec /\ Fairness

-----------------------------------------------------------------------------
(* Properties. *)

Pcs == {"park", "wait", "test", "lock", "run", "pick", "finish", "deactivate", "done"}

\* Every variable has its type; in particular activeWorkerCount, a size_t,
\* never wraps below zero (Worker.cpp, --pool->activeWorkerCount).
TypeOK ==
  /\ activeWorkerCount \in 0 .. NumWorkers
  /\ areAllReallyFinished \in BOOLEAN
  /\ enqueuedWork \in Seq(Tasks)
  /\ status \in [Workers -> {"ACTIVE", "DEACTIVE"}]
  /\ work \in [Workers -> Tasks \cup {NoTask}]
  /\ isWorkReallyPosted \in [Workers -> BOOLEAN]
  /\ terminate \in [Workers -> BOOLEAN]
  /\ wpc \in [Workers -> Pcs]
  /\ cpc \in [Clients -> {"idle", "post", "set", "enqueue", "wait"}]
  /\ hand \in [Clients -> Tasks \cup {NoTask}]
  /\ target \in [Clients -> 0 .. NumWorkers]
  /\ size \in [Clients -> 0 .. NumWorkers]
  /\ dpc \in {"open", "terminate", "post", "join", "gone"}
  /\ victim \in 0 .. NumWorkers
  /\ added \subseteq Tasks
  /\ ran \in [Tasks -> Nat]
  /\ due \in [Clients -> SUBSET Tasks]

\* activeWorkerCount is the number of workers marked ACTIVE, so the counters a
\* program reads (active, inactive) never disagree with the workers, and the
\* subtraction in getInactiveWorkerCount never wraps.
ActiveCountExact ==
  activeWorkerCount = Cardinality({w \in Workers : status[w] = "ACTIVE"})

\* A caller in setWork holds workerContainerMutex while it waits for the
\* activatorMutex of the worker it claimed.  That worker has passed its last
\* use of workerContainerMutex and of the work slot: it is asleep or falling
\* asleep, so the caller neither waits through a task nor closes a lock cycle,
\* and never overwrites a task that has not run.
ClaimedWorkerIsParking ==
  \A c \in Clients : cpc[c] = "set" =>
     /\ wpc[target[c]] \in {"park", "wait"}
     /\ ~isWorkReallyPosted[target[c]]

\* Worker w has been given a task it has not run yet.
HasWork(w) ==
  /\ status[w] = "ACTIVE" /\ wpc[w] \in {"park", "wait", "test", "lock", "run", "done"}
  /\ \A c \in Clients : cpc[c] = "set" => target[c] # w

InHand(t) == \E c \in Clients : hand[c] = t
InQueue(t) == \E i \in DOMAIN enqueuedWork : enqueuedWork[i] = t
InSlot(t) == \E w \in Workers : HasWork(w) /\ work[w] = t

\* No task is ever run twice: not by two workers that took it off the queue,
\* nor by one worker out of its stale slot after a wake-up.
AtMostOnce == \A t \in Tasks : ran[t] <= 1

\* No task is lost, none reappears: until the pool is destroyed, a task that
\* was given to add_task and has not run is in the hand of its caller, in the
\* queue or in the slot of a worker, and a task that is there has not run.
TasksAccounted ==
  dpc # "gone" =>
    \A t \in Tasks : (t \in added /\ ran[t] = 0) <=> (InHand(t) \/ InQueue(t) \/ InSlot(t))

\* A flag raised is a pool gone quiet: when areAllReallyFinished goes up no
\* worker has a task that has not run.  (What is left in the queue, and what
\* was added since, the flag does not tell.)
FlagUpMeansWorkersDone ==
  [][~areAllReallyFinished /\ areAllReallyFinished' => \A w \in Workers : ~HasWork(w)']_vars

\* A task handed straight to a worker runs, whatever the other threads do, unless the
\* destructor has told that worker to terminate.
HandedTaskRuns ==
  \A w \in Workers, t \in Tasks : (HasWork(w) /\ work[w] = t) ~> (ran[t] = 1 \/ terminate[w])

\* add_task returns, and so does launch as long as no two threads are in it together.
LaunchersApart == \A c, d \in Clients : cpc[c] = "wait" /\ cpc[d] = "wait" => c = d
CallsReturn ==
  /\ \A c \in Clients : cpc[c] \in {"post", "set", "enqueue"} ~> cpc[c] = "idle"
  /\ []LaunchersApart => \A c \in Clients : cpc[c] = "wait" ~> cpc[c] = "idle"

\* The destructor ends when it is called on a pool with no active worker.
DestroyEndsWhenIdle ==
  (dpc = "terminate" /\ victim = 1 /\ activeWorkerCount = 0) ~> dpc = "gone"

-----------------------------------------------------------------------------
(* What Pool.h says of the destructor and of launch, and the code does not   *)
(* keep.                                                                     *)

\* "This function joins all the threads in the thread pool as fast as
\* possible" (Pool.h:112), whatever the workers are doing.
DestroyEnds == dpc = "terminate" ~> dpc = "gone"

\* "It guarantees you that before the function returns, all queued works are
\* finished" (Pool.h:107), for the tasks already handed to a worker.
LaunchWaitsForHanded ==
  [][\A c \in Clients : LaunchReturn(c) =>
       ~ \E w \in Workers : HasWork(w) /\ work[w] \in due[c]]_vars

\* The same sentence for the tasks in the queue, when no worker was active at
\* the call (so that the flag has no part in it). One worker and two tasks are
\* enough to violate it.
LaunchWaitsForQueued ==
  [][\A c \in Clients : LaunchReturn(c) /\ size[c] = 0 =>
       ~ \E t \in due[c] : InQueue(t)]_vars
=============================================================================
