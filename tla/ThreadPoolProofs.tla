-------------------------- MODULE ThreadPoolProofs --------------------------
(***************************************************************************)
(* Theorems about ThreadPool, for any number of workers, callers and tasks *)
(* and whether or not the program destroys a pool that is still busy.      *)
(***************************************************************************)
EXTENDS ThreadPoolRefinement, FiniteSetTheorems, FunctionTheorems, TLAPS

-----------------------------------------------------------------------------
(* The inductive invariant, in named parts. *)

\* The destructor runs alone, and tells only workers it has marked.
Closing ==
  /\ dpc # "open" => \A c \in Clients : cpc[c] = "idle"
  /\ dpc = "open" => \A w \in Workers : ~terminate[w]
  /\ dpc \in {"terminate", "post", "join"} => victim \in Workers
  /\ dpc = "post" => terminate[victim]

\* A worker is awake only on behalf of a claim or of the destructor, and
\* nobody posts to it while it holds its activatorMutex.
Awake ==
  \A w \in Workers :
    /\ wpc[w] \in {"lock", "run", "pick", "finish", "deactivate"} => status[w] = "ACTIVE"
    /\ wpc[w] = "test" => terminate[w] \/ status[w] = "ACTIVE"
    /\ wpc[w] = "done" => terminate[w]
    /\ ActivatorHeld(w) => ~isWorkReallyPosted[w]
    /\ isWorkReallyPosted[w] => terminate[w] \/ status[w] = "ACTIVE"

\* A caller inside add_task has its task in hand.  At most one is inside
\* setWork, and its worker is claimed and asleep or falling asleep.
Claims ==
  /\ \A c \in Clients : cpc[c] \in {"post", "set", "enqueue"} => hand[c] \in Tasks
  /\ \A c, d \in Clients : cpc[c] = "set" /\ cpc[d] = "set" => c = d
  /\ \A c \in Clients : cpc[c] = "set" =>
       /\ target[c] \in Workers
       /\ status[target[c]] = "ACTIVE"
       /\ wpc[target[c]] \in {"park", "wait"}
       /\ ~isWorkReallyPosted[target[c]]

Control == TypeOK /\ Closing /\ Awake /\ Claims

-----------------------------------------------------------------------------
LEMMA ControlInit == Init => Closing /\ Awake /\ Claims
BY PoolAssumption DEF Init, Closing, Awake, Claims, ActivatorHeld, Workers

LEMMA ControlStep == Control /\ [Next]_vars => Closing' /\ Awake' /\ Claims'
<1> SUFFICES ASSUME Control, [Next]_vars
             PROVE  Closing' /\ Awake' /\ Claims'
  OBVIOUS
<1> USE PoolAssumption DEF Control, TypeOK, Closing, Awake, Claims, ActivatorHeld,
        ContainerHeld, poolVars, workerVars, clientVars, destroyVars, Workers, Pcs
<1>1. ASSUME NEW c \in Clients, NEW t \in Tasks, AddTask(c, t)
      PROVE  Closing' /\ Awake' /\ Claims'
  BY <1>1 DEF AddTask
<1>2. ASSUME NEW c \in Clients, Launch(c)
      PROVE  Closing' /\ Awake' /\ Claims'
  BY <1>2 DEF Launch
<1>3. ASSUME NEW c \in Clients, NEW w \in Workers, ClaimWorker(c, w)
      PROVE  Closing' /\ Awake' /\ Claims'
  BY <1>3 DEF ClaimWorker, FirstIdle, Idle
<1>4. ASSUME NEW c \in Clients, SetWork(c)
      PROVE  Closing' /\ Awake' /\ Claims'
  BY <1>4 DEF SetWork
<1>5. ASSUME NEW c \in Clients, AllBusy(c)
      PROVE  Closing' /\ Awake' /\ Claims'
  BY <1>5 DEF AllBusy
<1>6. ASSUME NEW c \in Clients, Enqueue(c)
      PROVE  Closing' /\ Awake' /\ Claims'
  BY <1>6 DEF Enqueue
<1>7. ASSUME NEW c \in Clients, LaunchReturn(c)
      PROVE  Closing' /\ Awake' /\ Claims'
  BY <1>7 DEF LaunchReturn
<1>8. ASSUME NEW w \in Workers, Park(w)
      PROVE  Closing' /\ Awake' /\ Claims'
  BY <1>8 DEF Park
<1>8a. ASSUME NEW w \in Workers, Wake(w)
      PROVE  Closing' /\ Awake' /\ Claims'
  BY <1>8a DEF Wake
<1>8b. ASSUME NEW w \in Workers, TestTerminate(w)
      PROVE  Closing' /\ Awake' /\ Claims'
  BY <1>8b DEF TestTerminate
<1>8c. ASSUME NEW w \in Workers, Begin(w)
      PROVE  Closing' /\ Awake' /\ Claims'
  BY <1>8c DEF Begin
<1>8d. ASSUME NEW w \in Workers, Run(w)
      PROVE  Closing' /\ Awake' /\ Claims'
  BY <1>8d DEF Run
<1>8e. ASSUME NEW w \in Workers, PickQueued(w)
      PROVE  Closing' /\ Awake' /\ Claims'
  BY <1>8e DEF PickQueued
<1>8f. ASSUME NEW w \in Workers, PickNone(w)
      PROVE  Closing' /\ Awake' /\ Claims'
  BY <1>8f DEF PickNone
<1>8g. ASSUME NEW w \in Workers, LockFinished(w)
      PROVE  Closing' /\ Awake' /\ Claims'
  BY <1>8g DEF LockFinished
<1>10. ASSUME NEW w \in Workers, Deactivate(w)
      PROVE  Closing' /\ Awake' /\ Claims'
  BY <1>10 DEF Deactivate
<1>11. CASE Destroy
  BY <1>11 DEF Destroy
<1>12. CASE SetTerminate
  BY <1>12 DEF SetTerminate
<1>13. CASE PostTerminate
  BY <1>13 DEF PostTerminate
<1>14. CASE JoinNext \/ JoinLast
  BY <1>14 DEF JoinNext, JoinLast
<1>15. CASE UNCHANGED vars
  BY <1>15 DEF vars
<1> QED
  BY <1>1, <1>2, <1>3, <1>4, <1>5, <1>6, <1>7, <1>8, <1>8a, <1>8b, <1>8c, <1>8d, <1>8e, <1>8f, <1>8g, <1>10, <1>11, <1>12,
     <1>13, <1>14, <1>15 DEF Next, ClientStep, WorkerStep, DestroyStep, Gone

-----------------------------------------------------------------------------
ActiveSet == {w \in Workers : status[w] = "ACTIVE"}

LEMMA ActiveSetFinite ==
  IsFiniteSet(ActiveSet) /\ Cardinality(ActiveSet) \in 0 .. NumWorkers
<1>1. IsFiniteSet(Workers) /\ Cardinality(Workers) = NumWorkers
  BY PoolAssumption, FS_Interval DEF Workers
<1>2. ActiveSet \in SUBSET Workers
  BY DEF ActiveSet
<1>3. IsFiniteSet(ActiveSet) /\ Cardinality(ActiveSet) <= NumWorkers
  BY <1>1, <1>2, FS_Subset
<1> QED
  BY <1>3, FS_CardinalityType, PoolAssumption

LEMMA CountInit == Init => ActiveCountExact
<1> SUFFICES ASSUME Init PROVE ActiveCountExact
  OBVIOUS
<1>1. ActiveSet = {}
  BY DEF ActiveSet, Init
<1> QED
  BY <1>1, FS_EmptySet DEF ActiveSet, ActiveCountExact, Init

LEMMA CountStep == Control /\ ActiveCountExact /\ [Next]_vars => ActiveCountExact'
<1> SUFFICES ASSUME Control, ActiveCountExact, [Next]_vars
             PROVE  ActiveCountExact'
  OBVIOUS
<1>1. ASSUME NEW c \in Clients, NEW w \in Workers, ClaimWorker(c, w)
      PROVE  ActiveCountExact'
  <2>1. w \notin ActiveSet /\ ActiveSet' = ActiveSet \cup {w}
    BY <1>1 DEF ClaimWorker, FirstIdle, Idle, ActiveSet, Control, TypeOK
  <2>2. Cardinality(ActiveSet \cup {w}) = Cardinality(ActiveSet) + 1
    BY <2>1, ActiveSetFinite, FS_AddElement
  <2> QED
    BY <1>1, <2>1, <2>2 DEF ClaimWorker, ActiveSet, ActiveCountExact
<1>2. ASSUME NEW w \in Workers, Deactivate(w)
      PROVE  ActiveCountExact'
  <2>1. w \in ActiveSet /\ ActiveSet' = ActiveSet \ {w}
    BY <1>2 DEF Deactivate, Awake, ActiveSet, Control, TypeOK
  <2>2. Cardinality(ActiveSet \ {w}) = Cardinality(ActiveSet) - 1
    BY <2>1, ActiveSetFinite, FS_RemoveElement
  <2> QED
    BY <1>2, <2>1, <2>2 DEF Deactivate, ActiveSet, ActiveCountExact
<1>3. CASE UNCHANGED <<activeWorkerCount, status>>
  BY <1>3 DEF ActiveCountExact, Workers
<1>4. CASE \E c \in Clients : ClientStep(c)
  BY <1>4, <1>1, <1>3 DEF ClientStep, SetWork, AllBusy, Enqueue, LaunchReturn,
     poolVars, workerVars
<1>5. CASE \E w \in Workers : WorkerStep(w)
  BY <1>5, <1>2, <1>3 DEF WorkerStep, Park, Wake, TestTerminate, Begin, Run,
     PickQueued, PickNone, LockFinished, poolVars, workerVars
<1>6. CASE \/ \E c \in Clients, t \in Tasks : AddTask(c, t)
           \/ \E c \in Clients : Launch(c)
           \/ Destroy \/ DestroyStep \/ Gone \/ UNCHANGED vars
  BY <1>6, <1>3 DEF AddTask, Launch, Destroy, DestroyStep, SetTerminate,
     PostTerminate, JoinNext, JoinLast, Gone, vars, poolVars, workerVars
<1> QED
  BY <1>4, <1>5, <1>6 DEF Next

LEMMA TypeInit == Init => TypeOK
<1> SUFFICES ASSUME Init PROVE TypeOK
  OBVIOUS
<1>1. /\ wpc \in [Workers -> Pcs] /\ due \in [Clients -> SUBSET Tasks]
      /\ ran \in [Tasks -> Nat] /\ added \subseteq Tasks
  BY DEF Init, Pcs
<1>2. /\ enqueuedWork \in Seq(Tasks)
      /\ work \in [Workers -> Tasks \cup {NoTask}]
      /\ hand \in [Clients -> Tasks \cup {NoTask}]
  BY DEF Init
<1>3. /\ target \in [Clients -> 0 .. NumWorkers] /\ size \in [Clients -> 0 .. NumWorkers]
      /\ activeWorkerCount \in 0 .. NumWorkers /\ victim \in 0 .. NumWorkers
  BY PoolAssumption DEF Init
<1> QED
  BY <1>1, <1>2, <1>3 DEF Init, TypeOK

LEMMA CountUp ==
  ASSUME NEW S, NEW f \in [S -> Nat], NEW x
  PROVE  [f EXCEPT ![x] = f[x] + 1] \in [S -> Nat]
<1>1. CASE x \in S
  <2>1. f[x] + 1 \in Nat
    BY <1>1
  <2> QED
    BY <2>1
<1>2. CASE x \notin S
  <2>1. [f EXCEPT ![x] = f[x] + 1] = f
    BY <1>2
  <2> QED
    BY <2>1
<1> QED
  BY <1>1, <1>2

LEMMA TypeStep == Control /\ ActiveCountExact' /\ [Next]_vars => TypeOK'
<1> SUFFICES ASSUME Control, ActiveCountExact', [Next]_vars
             PROVE  TypeOK'
  OBVIOUS
<1>0. activeWorkerCount' \in 0 .. NumWorkers
  <2>1. (IsFiniteSet(ActiveSet) /\ Cardinality(ActiveSet) \in 0 .. NumWorkers)'
    BY ActiveSetFinite, PTL
  <2> QED
    BY <2>1 DEF ActiveCountExact, ActiveSet
<1> USE <1>0, PoolAssumption DEF Control, TypeOK, Workers, Pcs,
        poolVars, workerVars, clientVars, destroyVars
<1>1. ASSUME NEW c \in Clients, NEW t \in Tasks, AddTask(c, t)
      PROVE  TypeOK'
  BY <1>1 DEF AddTask
<1>2. ASSUME NEW c \in Clients, Launch(c)
      PROVE  TypeOK'
  BY <1>2 DEF Launch, Posted
<1>3. ASSUME NEW c \in Clients, NEW w \in Workers, ClaimWorker(c, w)
      PROVE  TypeOK'
  BY <1>3 DEF ClaimWorker
<1>4. ASSUME NEW c \in Clients, SetWork(c)
      PROVE  TypeOK'
  <2>1. work' \in [Workers -> Tasks \cup {NoTask}]
    BY <1>4 DEF SetWork
  <2>2. hand' \in [Clients -> Tasks \cup {NoTask}]
    BY <1>4 DEF SetWork
  <2>3. isWorkReallyPosted' \in [Workers -> BOOLEAN]
    BY <1>4 DEF SetWork
  <2>4. target' \in [Clients -> 0 .. NumWorkers]
    BY <1>4 DEF SetWork
  <2> QED
    BY <1>4, <2>1, <2>2, <2>3, <2>4 DEF SetWork
<1>5. ASSUME NEW c \in Clients, AllBusy(c)
      PROVE  TypeOK'
  BY <1>5 DEF AllBusy
<1>6. ASSUME NEW c \in Clients, Enqueue(c)
      PROVE  TypeOK'
  <2>1. hand[c] \in Tasks
    BY <1>6 DEF Enqueue, Claims
  <2> QED
    BY <1>6, <2>1 DEF Enqueue
<1>7. ASSUME NEW c \in Clients, LaunchReturn(c)
      PROVE  TypeOK'
  BY <1>7 DEF LaunchReturn
<1>8. ASSUME NEW w \in Workers, Park(w)
      PROVE  TypeOK'
  BY <1>8 DEF Park
<1>9. ASSUME NEW w \in Workers, Wake(w)
      PROVE  TypeOK'
  BY <1>9 DEF Wake
<1>10. ASSUME NEW w \in Workers, TestTerminate(w)
      PROVE  TypeOK'
  BY <1>10 DEF TestTerminate
<1>11. ASSUME NEW w \in Workers, Begin(w)
      PROVE  TypeOK'
  BY <1>11 DEF Begin
<1>12. ASSUME NEW w \in Workers, Run(w)
      PROVE  TypeOK'
  <2>1. ran' \in [Tasks -> Nat]
    BY <1>12, CountUp DEF Run
  <2> QED
    BY <1>12, <2>1 DEF Run
<1>13. ASSUME NEW w \in Workers, PickQueued(w)
      PROVE  TypeOK'
  BY <1>13 DEF PickQueued
<1>14. ASSUME NEW w \in Workers, PickNone(w)
      PROVE  TypeOK'
  BY <1>14 DEF PickNone
<1>15. ASSUME NEW w \in Workers, LockFinished(w)
      PROVE  TypeOK'
  BY <1>15 DEF LockFinished
<1>16. ASSUME NEW w \in Workers, Deactivate(w)
      PROVE  TypeOK'
  BY <1>16 DEF Deactivate
<1>17. CASE Destroy
  BY <1>17 DEF Destroy
<1>18a. CASE SetTerminate
  BY <1>18a DEF SetTerminate
<1>18b. CASE PostTerminate
  BY <1>18b DEF PostTerminate
<1>18c. CASE JoinNext
  BY <1>18c DEF JoinNext
<1>18d. CASE JoinLast
  BY <1>18d DEF JoinLast
<1>19. CASE UNCHANGED vars
  BY <1>19 DEF vars
<1> QED
  BY <1>1, <1>2, <1>3, <1>4, <1>5, <1>6, <1>7, <1>8, <1>9, <1>10, <1>11, <1>12, <1>13, <1>14, <1>15, <1>16, <1>17, <1>18a, <1>18b, <1>18c, <1>18d, <1>19
     DEF Next, ClientStep, WorkerStep, DestroyStep, Gone

-----------------------------------------------------------------------------
(* Where the tasks are. *)

\* What is in a hand has not run, and no two callers hold the same task.
Hands ==
  /\ \A c \in Clients : hand[c] # NoTask =>
       /\ cpc[c] \in {"post", "set", "enqueue"}
       /\ hand[c] \in added /\ ran[hand[c]] = 0
  /\ \A c, d \in Clients : hand[c] = hand[d] /\ hand[c] # NoTask => c = d

\* What is in the queue has not run, is there once and in no hand.
Queue ==
  /\ \A i \in 1 .. Len(enqueuedWork) :
       /\ enqueuedWork[i] \in added /\ ran[enqueuedWork[i]] = 0
       /\ \A c \in Clients : hand[c] # enqueuedWork[i]
  /\ \A i, j \in 1 .. Len(enqueuedWork) : enqueuedWork[i] = enqueuedWork[j] => i = j

\* What a worker still has to run has not run, and is nowhere else.
Slots ==
  /\ \A w \in Workers : HasWork(w) =>
       /\ work[w] \in added /\ ran[work[w]] = 0
       /\ \A c \in Clients : hand[c] # work[w]
       /\ \A i \in 1 .. Len(enqueuedWork) : enqueuedWork[i] # work[w]
  /\ \A v, w \in Workers : HasWork(v) /\ HasWork(w) /\ work[v] = work[w] => v = w

\* Only tasks that were added have run, and once.
RanOnce == \A t \in Tasks : ran[t] <= 1 /\ (t \notin added => ran[t] = 0)

\* No task that was added and has not run is missing.
NoneLost ==
  dpc # "gone" => \A t \in added : ran[t] = 0 => InHand(t) \/ InQueue(t) \/ InSlot(t)

TaskInv == Hands /\ Queue /\ Slots /\ RanOnce /\ NoneLost

LEMMA TaskInit == Init => TaskInv
<1> SUFFICES ASSUME Init PROVE TaskInv
  OBVIOUS
<1>1. \A w \in Workers : ~HasWork(w)
  BY DEF Init, HasWork
<1>2. Hands /\ Queue /\ Slots
  BY <1>1 DEF Init, Hands, Queue, Slots
<1>3. RanOnce /\ NoneLost
  BY DEF Init, RanOnce, NoneLost
<1> QED
  BY <1>2, <1>3 DEF TaskInv

\* A step that moves no task.
SameTasks ==
  /\ \A w \in Workers : HasWork(w)' <=> HasWork(w)
  /\ \A c \in Clients : hand[c] # NoTask => cpc'[c] \in {"post", "set", "enqueue"}
  /\ dpc = "gone" => dpc' = "gone"
  /\ UNCHANGED <<hand, enqueuedWork, work, added, ran>>

LEMMA SameTasksKeeps == TaskInv /\ SameTasks => TaskInv'
<1> SUFFICES ASSUME TaskInv, SameTasks PROVE TaskInv'
  OBVIOUS
<1>1. Hands' /\ Queue' /\ RanOnce'
  BY DEF TaskInv, SameTasks, Hands, Queue, RanOnce
<1>2. Slots'
  BY DEF TaskInv, SameTasks, Slots
<1>3. NoneLost'
  BY DEF TaskInv, SameTasks, NoneLost, InHand, InQueue, InSlot
<1> QED
  BY <1>1, <1>2, <1>3 DEF TaskInv

LEMMA QuietClientStep ==
  ASSUME Control, TaskInv, NEW c \in Clients,
         Launch(c) \/ LaunchReturn(c) \/ AllBusy(c) \/ \E w \in Workers : ClaimWorker(c, w)
  PROVE  SameTasks
<1> USE DEF Control, TypeOK, Closing, Claims, TaskInv, Hands, SameTasks, HasWork,
        poolVars, workerVars, destroyVars, clientVars
<1>1. CASE Launch(c)
  BY <1>1 DEF Launch
<1>2. CASE LaunchReturn(c)
  BY <1>2 DEF LaunchReturn
<1>3. CASE AllBusy(c)
  BY <1>3 DEF AllBusy
<1>4. ASSUME NEW w \in Workers, ClaimWorker(c, w)
      PROVE  SameTasks
  <2>1. \A v \in Workers : HasWork(v)' <=> HasWork(v)
    <3> SUFFICES ASSUME NEW v \in Workers PROVE HasWork(v)' <=> HasWork(v)
      OBVIOUS
    <3>1. CASE v = w
      BY <1>4, <3>1 DEF ClaimWorker, FirstIdle, Idle, ContainerHeld
    <3>2. CASE v # w
      BY <1>4, <3>2 DEF ClaimWorker, FirstIdle, Idle, ContainerHeld
    <3> QED
      BY <3>1, <3>2
  <2> QED
    BY <1>4, <2>1, SMTT(30) DEF ClaimWorker
<1> QED
  BY <1>1, <1>2, <1>3, <1>4

LEMMA QuietWorkerStep ==
  ASSUME Control, TaskInv, NEW w \in Workers,
         \/ Park(w) \/ Wake(w) \/ TestTerminate(w) \/ Begin(w)
         \/ PickNone(w) \/ LockFinished(w) \/ Deactivate(w)
  PROVE  SameTasks
<1> USE DEF Control, TypeOK, TaskInv, Hands, SameTasks, HasWork,
        poolVars, workerVars, destroyVars, clientVars
<1>1. CASE Park(w)
  BY <1>1 DEF Park
<1>2. CASE Wake(w)
  BY <1>2 DEF Wake
<1>3. CASE TestTerminate(w)
  BY <1>3 DEF TestTerminate
<1>4. CASE Begin(w)
  BY <1>4 DEF Begin
<1>5. CASE PickNone(w)
  BY <1>5 DEF PickNone
<1>6. CASE LockFinished(w)
  BY <1>6 DEF LockFinished
<1>7. CASE Deactivate(w)
  BY <1>7 DEF Deactivate
<1> QED
  BY <1>1, <1>2, <1>3, <1>4, <1>5, <1>6, <1>7

LEMMA QuietOtherStep ==
  ASSUME Control, TaskInv,
         Destroy \/ SetTerminate \/ PostTerminate \/ JoinNext \/ UNCHANGED vars
  PROVE  SameTasks
<1> USE DEF Control, TypeOK, TaskInv, Hands, SameTasks, HasWork,
        poolVars, workerVars, destroyVars, clientVars
<1>1. CASE Destroy
  BY <1>1 DEF Destroy
<1>2. CASE SetTerminate
  BY <1>2 DEF SetTerminate
<1>3. CASE PostTerminate
  BY <1>3 DEF PostTerminate
<1>4. CASE JoinNext
  BY <1>4 DEF JoinNext
<1>5. CASE UNCHANGED vars
  BY <1>5 DEF vars
<1> QED
  BY <1>1, <1>2, <1>3, <1>4, <1>5

\* The steps that move a task from one place to the next.
LEMMA AddTaskMoves ==
  ASSUME Control, TaskInv, NEW c \in Clients, NEW t \in Tasks, AddTask(c, t)
  PROVE  TaskInv'
<1> USE DEF poolVars, workerVars, destroyVars
<1>1. /\ hand' = [hand EXCEPT ![c] = t] /\ added' = added \cup {t} /\ t \notin added
      /\ cpc' = [cpc EXCEPT ![c] = "post"] /\ cpc[c] = "idle" /\ dpc' = "open"
      /\ UNCHANGED <<enqueuedWork, work, ran>>
  BY DEF AddTask
<1>2. \A w \in Workers : HasWork(w)' <=> HasWork(w)
  BY DEF AddTask, HasWork, Control, TypeOK
<1>3. ran[t] = 0 /\ t # NoTask /\ hand[c] = NoTask
  BY <1>1, PoolAssumption DEF TaskInv, RanOnce, Hands
<1>4. Hands'
  BY <1>1, <1>3 DEF TaskInv, Hands, Control, TypeOK
<1>5. Queue'
  BY <1>1, <1>3 DEF TaskInv, Queue, Control, TypeOK
<1>6. Slots'
  BY <1>1, <1>2, <1>3 DEF TaskInv, Slots, Control, TypeOK
<1>7. RanOnce'
  BY <1>1, <1>3 DEF TaskInv, RanOnce
<1>8. NoneLost'
  <2> SUFFICES ASSUME NEW u \in added', ran'[u] = 0
               PROVE  InHand(u)' \/ InQueue(u)' \/ InSlot(u)'
    BY DEF NoneLost
  <2>1. CASE u = t
    BY <1>1, <2>1 DEF InHand, Control, TypeOK
  <2>2. CASE u # t
    <3>1. u # NoTask /\ (InHand(u) \/ InQueue(u) \/ InSlot(u))
      BY <1>1, <2>2, PoolAssumption DEF TaskInv, NoneLost, AddTask, Control, TypeOK
    <3> QED
      BY <1>1, <1>2, <1>3, <2>2, <3>1 DEF InHand, InQueue, InSlot, Control, TypeOK
  <2> QED
    BY <2>1, <2>2
<1> QED
  BY <1>4, <1>5, <1>6, <1>7, <1>8 DEF TaskInv

LEMMA SetWorkMoves ==
  ASSUME Control, TaskInv, NEW c \in Clients, SetWork(c)
  PROVE  TaskInv'
<1> DEFINE w == target[c]
<1>1. /\ w \in Workers /\ cpc[c] = "set" /\ hand[c] \in Tasks /\ hand[c] # NoTask
      /\ status[w] = "ACTIVE" /\ wpc[w] \in {"park", "wait"} /\ ~HasWork(w)
  BY PoolAssumption DEF SetWork, Control, Claims, HasWork
<1>2. /\ work' = [work EXCEPT ![w] = hand[c]] /\ hand' = [hand EXCEPT ![c] = NoTask]
      /\ cpc' = [cpc EXCEPT ![c] = "idle"]
      /\ UNCHANGED <<enqueuedWork, added, ran, dpc, status, wpc>>
  BY DEF SetWork, poolVars, destroyVars
<1>3. \A v \in Workers : HasWork(v)' <=> HasWork(v) \/ v = w
  <2>1. \A d \in Clients : cpc'[d] # "set"
    BY <1>1, <1>2 DEF Control, Claims, TypeOK
  <2>2. \A v \in Workers : v # w => \A d \in Clients : cpc[d] = "set" => target[d] # v
    BY <1>1 DEF Control, Claims
  <2> QED
    BY <1>1, <1>2, <2>1, <2>2 DEF HasWork
<1> HIDE DEF w
<1>4. \A v \in Workers : work'[v] = IF v = w THEN hand[c] ELSE work[v]
  BY <1>2 DEF Control, TypeOK
<1>5. \A d \in Clients : hand'[d] = IF d = c THEN NoTask ELSE hand[d]
  BY <1>2 DEF Control, TypeOK
<1>6. Hands'
  BY <1>2, <1>5 DEF TaskInv, Hands, Control, TypeOK
<1>7. Queue'
  <2>1. \A i \in 1 .. Len(enqueuedWork) : enqueuedWork[i] \in Tasks
    BY DEF Control, TypeOK
  <2> QED
    BY <1>2, <1>5, <2>1, PoolAssumption DEF TaskInv, Queue
<1>8. Slots'
  <2>1. \A v \in Workers : HasWork(v) => work[v] # hand[c] /\ work[v] \in Tasks
    BY DEF TaskInv, Slots, Control, TypeOK
  <2>2. /\ hand[c] \in added /\ ran[hand[c]] = 0
        /\ \A d \in Clients : d # c => hand[d] # hand[c]
        /\ \A i \in 1 .. Len(enqueuedWork) : enqueuedWork[i] # hand[c]
    BY <1>1 DEF TaskInv, Hands, Queue
  <2>3. ASSUME NEW v \in Workers, HasWork(v)'
        PROVE  /\ work'[v] \in added' /\ ran'[work'[v]] = 0
               /\ \A d \in Clients : hand'[d] # work'[v]
               /\ \A i \in 1 .. Len(enqueuedWork') : enqueuedWork'[i] # work'[v]
    BY <1>1, <1>2, <1>3, <1>4, <1>5, <2>1, <2>2, <2>3, PoolAssumption
       DEF TaskInv, Slots
  <2>4. ASSUME NEW u \in Workers, NEW v \in Workers, HasWork(u)', HasWork(v)',
               work'[u] = work'[v]
        PROVE  u = v
    BY <1>3, <1>4, <2>1, <2>4 DEF TaskInv, Slots
  <2> QED
    BY <2>3, <2>4 DEF Slots
<1>9. RanOnce'
  BY <1>2 DEF TaskInv, RanOnce
<1>10. NoneLost'
  BY <1>1, <1>2, <1>3, <1>4, <1>5 DEF TaskInv, NoneLost, InHand, InQueue, InSlot
<1> QED
  BY <1>6, <1>7, <1>8, <1>9, <1>10 DEF TaskInv

LEMMA EnqueueMoves ==
  ASSUME Control, TaskInv, NEW c \in Clients, Enqueue(c)
  PROVE  TaskInv'
<1>1. /\ hand[c] \in Tasks /\ hand[c] # NoTask /\ cpc[c] = "enqueue"
      /\ enqueuedWork \in Seq(Tasks)
  BY PoolAssumption DEF Enqueue, Control, Claims, TypeOK
<1>2. /\ enqueuedWork' = Append(enqueuedWork, hand[c])
      /\ hand' = [hand EXCEPT ![c] = NoTask] /\ cpc' = [cpc EXCEPT ![c] = "idle"]
      /\ UNCHANGED <<work, added, ran, dpc>>
  BY DEF Enqueue, workerVars, destroyVars
<1>3. \A v \in Workers : HasWork(v)' <=> HasWork(v)
  BY <1>1 DEF Enqueue, workerVars, HasWork, Control, TypeOK
<1>4. \A d \in Clients : hand'[d] = IF d = c THEN NoTask ELSE hand[d]
  BY <1>2 DEF Control, TypeOK
<1>5. /\ Len(enqueuedWork') = Len(enqueuedWork) + 1
      /\ enqueuedWork'[Len(enqueuedWork) + 1] = hand[c]
      /\ \A i \in 1 .. Len(enqueuedWork) : enqueuedWork'[i] = enqueuedWork[i]
      /\ \A i \in 1 .. Len(enqueuedWork) : enqueuedWork[i] \in Tasks
      /\ Len(enqueuedWork) \in Nat
  BY <1>1, <1>2
<1>6. Hands'
  BY <1>2, <1>4 DEF TaskInv, Hands, Control, TypeOK
<1>7. Queue'
  <2>1. ASSUME NEW i \in 1 .. Len(enqueuedWork')
        PROVE  /\ enqueuedWork'[i] \in added' /\ ran'[enqueuedWork'[i]] = 0
               /\ \A d \in Clients : hand'[d] # enqueuedWork'[i]
    <3>1. CASE i = Len(enqueuedWork) + 1
      BY <1>1, <1>2, <1>4, <1>5, <3>1 DEF TaskInv, Hands
    <3>2. CASE i \in 1 .. Len(enqueuedWork)
      BY <1>2, <1>4, <1>5, <3>2, PoolAssumption DEF TaskInv, Queue
    <3> QED
      BY <1>5, <3>1, <3>2
  <2>2. ASSUME NEW i \in 1 .. Len(enqueuedWork'), NEW j \in 1 .. Len(enqueuedWork'),
               enqueuedWork'[i] = enqueuedWork'[j]
        PROVE  i = j
    BY <1>5, <2>2 DEF TaskInv, Queue
  <2> QED
    BY <2>1, <2>2 DEF Queue
<1>8. Slots'
  <2>1. \A v \in Workers : HasWork(v) => work[v] # hand[c] /\ work[v] \in Tasks
    BY DEF TaskInv, Slots, Control, TypeOK
  <2>2. ASSUME NEW v \in Workers, HasWork(v)
        PROVE  \A i \in 1 .. Len(enqueuedWork') : enqueuedWork'[i] # work[v]
    BY <1>5, <2>1, <2>2 DEF TaskInv, Slots
  <2> QED
    BY <1>2, <1>3, <1>4, <2>1, <2>2, PoolAssumption DEF TaskInv, Slots
<1>9. RanOnce'
  BY <1>2 DEF TaskInv, RanOnce
<1>10. NoneLost'
  <2> SUFFICES ASSUME dpc' # "gone", NEW t \in added', ran'[t] = 0
               PROVE  InHand(t)' \/ InQueue(t)' \/ InSlot(t)'
    BY DEF NoneLost
  <2>1. InHand(t) \/ InQueue(t) \/ InSlot(t)
    BY <1>2 DEF TaskInv, NoneLost
  <2>2. DOMAIN enqueuedWork = 1 .. Len(enqueuedWork)
        /\ DOMAIN enqueuedWork' = 1 .. Len(enqueuedWork')
    BY <1>1, <1>2
  <2>3. CASE InHand(t)
    <3>1. CASE hand[c] = t
      BY <1>5, <2>2, <3>1 DEF InQueue
    <3>2. CASE hand[c] # t
      BY <1>4, <2>3, <3>2 DEF InHand
    <3> QED
      BY <3>1, <3>2
  <2>4. CASE InQueue(t)
    BY <1>5, <2>2, <2>4 DEF InQueue
  <2>5. CASE InSlot(t)
    BY <1>2, <1>3, <2>5 DEF InSlot
  <2> QED
    BY <2>1, <2>3, <2>4, <2>5
<1> QED
  BY <1>6, <1>7, <1>8, <1>9, <1>10 DEF TaskInv

LEMMA RunMoves ==
  ASSUME Control, TaskInv, NEW w \in Workers, Run(w)
  PROVE  TaskInv'
<1> DEFINE t == work[w]
<1>1. HasWork(w)
  BY DEF Run, HasWork, Control, TypeOK, Awake, Claims
<1>2. t \in Tasks /\ t \in added /\ ran[t] = 0
  BY <1>1 DEF TaskInv, Slots, Control, TypeOK
<1>3. /\ ran' = [ran EXCEPT ![t] = ran[t] + 1]
      /\ UNCHANGED <<hand, cpc, enqueuedWork, work, added, dpc>>
  BY DEF Run, poolVars, clientVars, destroyVars
<1>4. \A v \in Workers : HasWork(v)' <=> HasWork(v) /\ v # w
  BY DEF Run, HasWork, clientVars, Control, TypeOK
<1> HIDE DEF t
<1>5. \A u \in Tasks : ran'[u] = IF u = t THEN 1 ELSE ran[u]
  BY <1>2, <1>3 DEF Control, TypeOK
<1>6. added \subseteq Tasks
  BY DEF Control, TypeOK
<1>7. Hands' /\ Queue'
  BY <1>1, <1>3, <1>5, <1>6 DEF TaskInv, Hands, Queue, Slots, t
<1>8. Slots'
  BY <1>1, <1>3, <1>4, <1>5, <1>6 DEF TaskInv, Slots, t
<1>9. RanOnce'
  BY <1>2, <1>3, <1>5 DEF TaskInv, RanOnce
<1>10. NoneLost'
  BY <1>3, <1>4, <1>5, <1>6 DEF TaskInv, NoneLost, InHand, InQueue, InSlot, t
<1> QED
  BY <1>7, <1>8, <1>9, <1>10 DEF TaskInv

LEMMA PickQueuedMoves ==
  ASSUME Control, TaskInv, NEW w \in Workers, PickQueued(w)
  PROVE  TaskInv'
<1> DEFINE t == Head(enqueuedWork)
<1>1. ~HasWork(w)
  BY DEF PickQueued, HasWork
<1>2. /\ enqueuedWork \in Seq(Tasks) /\ enqueuedWork # <<>>
      /\ t = enqueuedWork[1] /\ t \in Tasks /\ Len(enqueuedWork) \in Nat \ {0}
      /\ enqueuedWork' \in Seq(Tasks)
      /\ Len(enqueuedWork') = Len(enqueuedWork) - 1
      /\ \A i \in 1 .. Len(enqueuedWork') : enqueuedWork'[i] = enqueuedWork[i + 1]
  BY DEF PickQueued, Control, TypeOK
<1>3. /\ work' = [work EXCEPT ![w] = t]
      /\ UNCHANGED <<hand, cpc, ran, added, dpc>>
  BY DEF PickQueued, clientVars, destroyVars
<1>4. \A v \in Workers : HasWork(v)' <=> HasWork(v) \/ v = w
  BY DEF PickQueued, HasWork, clientVars, Control, TypeOK, Awake, Claims
<1> HIDE DEF t
<1>5. \A v \in Workers : work'[v] = IF v = w THEN t ELSE work[v]
  BY <1>3 DEF Control, TypeOK
<1>6. /\ t \in added /\ ran[t] = 0 /\ \A c \in Clients : hand[c] # t
      /\ \A v \in Workers : HasWork(v) => work[v] # t
      /\ \A i \in 1 .. Len(enqueuedWork') : enqueuedWork'[i] # t
  BY <1>2 DEF TaskInv, Queue, Slots
<1>7. Hands' /\ RanOnce'
  BY <1>3 DEF TaskInv, Hands, RanOnce
<1>8. Queue'
  <2>1. \A i \in 1 .. Len(enqueuedWork') : i + 1 \in 1 .. Len(enqueuedWork)
    BY <1>2
  <2>2. ASSUME NEW i \in 1 .. Len(enqueuedWork')
        PROVE /\ enqueuedWork'[i] \in added' /\ ran'[enqueuedWork'[i]] = 0
              /\ \A c \in Clients : hand'[c] # enqueuedWork'[i]
    BY <1>2, <1>3, <2>1 DEF TaskInv, Queue
  <2>3. ASSUME NEW i \in 1 .. Len(enqueuedWork'), NEW j \in 1 .. Len(enqueuedWork'),
               enqueuedWork'[i] = enqueuedWork'[j]
        PROVE i = j
    <3>1. i + 1 = j + 1
      BY <1>2, <2>1, <2>3 DEF TaskInv, Queue
    <3> QED BY <3>1
  <2> QED
    BY <2>2, <2>3 DEF Queue
<1>9. Slots'
  <2>1. \A i \in 1 .. Len(enqueuedWork') : i + 1 \in 1 .. Len(enqueuedWork)
    BY <1>2
  <2> QED
    BY <1>1, <1>2, <1>3, <1>4, <1>5, <1>6, <2>1 DEF TaskInv, Slots
<1>10. NoneLost'
  <2> SUFFICES ASSUME dpc' # "gone", NEW u \in added', ran'[u] = 0
               PROVE  InHand(u)' \/ InQueue(u)' \/ InSlot(u)'
    BY DEF NoneLost
  <2>1. InHand(u) \/ InQueue(u) \/ InSlot(u)
    BY <1>3 DEF TaskInv, NoneLost
  <2>2. DOMAIN enqueuedWork = 1 .. Len(enqueuedWork)
        /\ DOMAIN enqueuedWork' = 1 .. Len(enqueuedWork')
    BY <1>2
  <2>3. CASE InHand(u)
    BY <1>3, <2>3 DEF InHand
  <2>4. ASSUME NEW i \in 1 .. Len(enqueuedWork), enqueuedWork[i] = u
        PROVE  InQueue(u)' \/ InSlot(u)'
    <3>1. CASE i = 1
      BY <1>2, <1>4, <1>5, <2>4, <3>1 DEF InSlot
    <3>2. CASE i # 1
      <4>1. i - 1 \in 1 .. Len(enqueuedWork') /\ enqueuedWork'[i - 1] = u
        BY <1>2, <2>4, <3>2
      <4> QED
        BY <2>2, <4>1 DEF InQueue
    <3> QED
      BY <3>1, <3>2
  <2>5. CASE InSlot(u)
    BY <1>1, <1>4, <1>5, <2>5 DEF InSlot
  <2> QED
    BY <2>1, <2>2, <2>3, <2>4, <2>5 DEF InQueue
<1> QED
  BY <1>7, <1>8, <1>9, <1>10 DEF TaskInv

LEMMA JoinLastMoves ==
  ASSUME Control, TaskInv, JoinLast
  PROVE  TaskInv'
<1>1. /\ dpc' = "gone" /\ enqueuedWork' = <<>>
      /\ UNCHANGED <<hand, cpc, work, added, ran>>
      /\ \A w \in Workers : HasWork(w)' <=> HasWork(w)
  BY DEF JoinLast, HasWork, workerVars, clientVars
<1>2. Len(enqueuedWork') = 0
  BY <1>1
<1>3. Hands' /\ Queue' /\ RanOnce' /\ NoneLost'
  BY <1>1, <1>2 DEF TaskInv, Hands, Queue, RanOnce, NoneLost
<1>4. Slots'
  BY <1>1, <1>2 DEF TaskInv, Slots
<1> QED
  BY <1>3, <1>4 DEF TaskInv

LEMMA TaskStep == Control /\ TaskInv /\ [Next]_vars => TaskInv'
<1> SUFFICES ASSUME Control, TaskInv, [Next]_vars
             PROVE  TaskInv'
  OBVIOUS
<1>1. ASSUME NEW c \in Clients, Launch(c) \/ ClientStep(c)
      PROVE  TaskInv'
  BY <1>1, SetWorkMoves, EnqueueMoves, QuietClientStep, SameTasksKeeps DEF ClientStep
<1>2. ASSUME NEW w \in Workers, WorkerStep(w)
      PROVE  TaskInv'
  BY <1>2, RunMoves, PickQueuedMoves, QuietWorkerStep, SameTasksKeeps DEF WorkerStep
<1>3. CASE Destroy \/ DestroyStep \/ UNCHANGED vars
  BY <1>3, JoinLastMoves, QuietOtherStep, SameTasksKeeps DEF DestroyStep
<1> QED
  BY <1>1, <1>2, <1>3, AddTaskMoves DEF Next, Gone

-----------------------------------------------------------------------------
IInv == Control /\ ActiveCountExact /\ TaskInv

\* Every state the pool can reach satisfies the inductive invariant.
THEOREM Inductive == Spec => []IInv
<1>1. Init => IInv
  BY TypeInit, ControlInit, CountInit, TaskInit DEF IInv, Control
<1>2. IInv /\ [Next]_vars => IInv'
  BY CountStep, TypeStep, ControlStep, TaskStep DEF IInv, Control
<1> QED
  BY <1>1, <1>2, PTL DEF Spec

\* The variables keep their types: no counter of the pool (Worker.cpp:103,
\* Pool.cpp:60 and 123) ever wraps, for any number of workers and callers.
THEOREM TypeCorrect == Spec => []TypeOK
BY Inductive, PTL DEF IInv, Control

\* The counters of the public interface agree with the workers.
THEOREM CountersExact == Spec => []ActiveCountExact
BY Inductive, PTL DEF IInv

\* A caller in setWork waits only for a worker that is falling asleep, and
\* overwrites no task.
THEOREM ClaimSafe == Spec => []ClaimedWorkerIsParking
<1>1. IInv => ClaimedWorkerIsParking
  BY DEF IInv, Control, Claims, ClaimedWorkerIsParking
<1> QED
  BY <1>1, Inductive, PTL

\* No task runs twice.
THEOREM RunsOnce == Spec => []AtMostOnce
<1>1. IInv => AtMostOnce
  BY DEF IInv, TaskInv, RanOnce, AtMostOnce
<1> QED
  BY <1>1, Inductive, PTL

\* No task is lost while the pool lives, and one that has run is gone from
\* every hand, queue and slot.
THEOREM NothingLost == Spec => []TasksAccounted
<1>1. IInv => TasksAccounted
  <2> SUFFICES ASSUME IInv, dpc # "gone", NEW t \in Tasks
               PROVE  (t \in added /\ ran[t] = 0) <=> (InHand(t) \/ InQueue(t) \/ InSlot(t))
    BY DEF TasksAccounted
  <2>1. t # NoTask
    BY PoolAssumption
  <2>2. InHand(t) => t \in added /\ ran[t] = 0
    BY <2>1 DEF IInv, TaskInv, Hands, InHand
  <2>3. InQueue(t) => t \in added /\ ran[t] = 0
    BY DEF IInv, TaskInv, Queue, InQueue, Control, TypeOK
  <2>4. InSlot(t) => t \in added /\ ran[t] = 0
    BY DEF IInv, TaskInv, Slots, InSlot
  <2> QED
    BY <2>2, <2>3, <2>4 DEF IInv, TaskInv, NoneLost
<1> QED
  BY <1>1, Inductive, PTL

\* When the last worker raises areAllReallyFinished, no worker is left with
\* a task that has not run.
THEOREM FlagHonest == Spec => FlagUpMeansWorkersDone
<1>1. IInv /\ IInv' /\ [Next]_vars =>
        [~areAllReallyFinished /\ areAllReallyFinished' =>
           \A w \in Workers : ~HasWork(w)']_vars
  <2> SUFFICES ASSUME IInv, IInv', Next, ~areAllReallyFinished, areAllReallyFinished'
               PROVE  \A w \in Workers : ~HasWork(w)'
    OBVIOUS
  <2>1. PICK w \in Workers : Deactivate(w)
    BY DEF Next, ClientStep, WorkerStep, DestroyStep, AddTask, Launch, ClaimWorker,
       SetWork, AllBusy, Enqueue, LaunchReturn, Park, Wake, TestTerminate, Begin, Run,
       PickQueued, PickNone, LockFinished, Destroy, SetTerminate, PostTerminate,
       JoinNext, JoinLast, Gone, vars, poolVars
  <2>2. activeWorkerCount' = 0
    BY <2>1 DEF Deactivate, LastActive, IInv, Control, TypeOK
  <2>3. ActiveSet' = {}
    <3>1. (IsFiniteSet(ActiveSet) /\ Cardinality(ActiveSet) \in 0 .. NumWorkers)'
      BY ActiveSetFinite, PTL
    <3>2. Cardinality(ActiveSet') = 0
      BY <2>2 DEF IInv, ActiveCountExact, ActiveSet
    <3> QED
      BY <3>1, <3>2, FS_EmptySet
  <2> QED
    BY <2>3 DEF ActiveSet, HasWork
<1> QED
  BY <1>1, Inductive, PTL DEF Spec, FlagUpMeansWorkersDone

-----------------------------------------------------------------------------
(* What the refinement needs beyond IInv: joinAll joins in order, and a    *)
(* joined worker stays gone.  Without it the pool could be discarding what *)
(* is left while a worker runs a task.                                     *)
JoinedInOrder ==
  /\ dpc \in {"terminate", "post", "join"} => \A w \in 1 .. (victim - 1) : wpc[w] = "done"
  /\ dpc = "gone" => \A w \in Workers : wpc[w] = "done"

LEMMA JoinedInit == Init => JoinedInOrder
BY DEF Init, JoinedInOrder

LEMMA JoinedStep == Control /\ JoinedInOrder /\ [Next]_vars => JoinedInOrder'
<1> SUFFICES ASSUME Control, JoinedInOrder, [Next]_vars
             PROVE  JoinedInOrder'
  OBVIOUS
<1> USE PoolAssumption DEF Control, TypeOK, Closing, JoinedInOrder, Workers
<1>1. CASE /\ UNCHANGED <<dpc, victim>>
           /\ \A w \in Workers : wpc[w] = "done" => wpc'[w] = "done"
  BY <1>1
<1>2. ASSUME NEW c \in Clients, \E t \in Tasks : AddTask(c, t)
      PROVE  JoinedInOrder'
  BY <1>1, <1>2 DEF AddTask, workerVars, destroyVars
<1>3. ASSUME NEW c \in Clients, Launch(c) \/ ClientStep(c)
      PROVE  JoinedInOrder'
  BY <1>1, <1>3 DEF Launch, ClientStep, ClaimWorker, SetWork, AllBusy, Enqueue,
     LaunchReturn, workerVars, destroyVars
<1>4. ASSUME NEW w \in Workers, WorkerStep(w)
      PROVE  JoinedInOrder'
  BY <1>1, <1>4 DEF WorkerStep, Park, Wake, TestTerminate, Begin, Run, PickQueued,
     PickNone, LockFinished, Deactivate, destroyVars
<1>5. CASE Destroy
  BY <1>5 DEF Destroy, workerVars
<1>6. CASE SetTerminate \/ PostTerminate
  BY <1>6 DEF SetTerminate, PostTerminate, workerVars
<1>7. CASE JoinNext
  BY <1>7 DEF JoinNext, workerVars
<1>8. CASE JoinLast
  BY <1>8 DEF JoinLast, workerVars
<1>9. CASE UNCHANGED vars
  BY <1>9 DEF vars, workerVars, destroyVars
<1> QED
  BY <1>2, <1>3, <1>4, <1>5, <1>6, <1>7, <1>8, <1>9 DEF Next, DestroyStep, Gone

RInv == IInv /\ JoinedInOrder

LEMMA RefinementInductive == Spec => []RInv
<1>1. RInv /\ [Next]_vars => RInv'
  BY JoinedStep, CountStep, TypeStep, ControlStep, TaskStep DEF RInv, IInv, Control
<1>2. Init => RInv
  BY JoinedInit, TypeInit, ControlInit, CountInit, TaskInit DEF RInv, IInv, Control
<1> QED
  BY <1>1, <1>2, PTL DEF Spec

-----------------------------------------------------------------------------
(* Facts about the mapping. *)

Stage == [t \in Tasks |-> StageOf(t)]

\* TaskPool counts as this module does.
LEMMA SameCardinality == \A S : Promise!Cardinality(S) = Cardinality(S)
BY Zenon DEF Promise!Cardinality, Cardinality, Promise!IsFiniteSet, IsFiniteSet

\* A task that a worker is inside of was added, has not run and is with that
\* worker only.
RunningTasksOwned ==
  /\ \A w \in Workers : wpc[w] = "run" =>
       /\ work[w] \in Tasks /\ work[w] \in added /\ ran[work[w]] = 0
       /\ dpc # "gone"
  /\ \A v, w \in Workers :
       wpc[v] = "run" /\ wpc[w] = "run" /\ work[v] = work[w] => v = w

LEMMA RunningTask == RInv => RunningTasksOwned
<1> SUFFICES ASSUME RInv PROVE RunningTasksOwned
  OBVIOUS
<1>1. \A w \in Workers : wpc[w] = "run" => HasWork(w)
  BY DEF RInv, IInv, Control, TypeOK, Awake, Claims, HasWork
<1> QED
  BY <1>1 DEF RInv, IInv, Control, TypeOK, TaskInv, Slots, JoinedInOrder,
     RunningTasksOwned

\* A worker that is not inside a task leaves room for one more.
LEMMA RoomForOneMore ==
  ASSUME RInv, NEW w \in Workers, wpc[w] # "run"
  PROVE  Cardinality({t \in Tasks : Stage[t] = "running"}) < NumWorkers
<1> DEFINE W == {v \in Workers : wpc[v] = "run"}
           R == {t \in Tasks : Stage[t] = "running"}
           f == [v \in W |-> work[v]]
<1>1. f \in [W -> R]
  BY RunningTask DEF RunningTasksOwned, Stage, StageOf, Running
<1>2. \A t \in R : \E v \in W : f[v] = t
  BY DEF Stage, StageOf, Running
<1>3. f \in Surjection(W, R)
  BY <1>1, <1>2, Fun_IsSurj
<1>4. IsFiniteSet(Workers) /\ Cardinality(Workers) = NumWorkers
  BY PoolAssumption, FS_Interval DEF Workers
<1>5. /\ IsFiniteSet(Workers \ {w})
      /\ Cardinality(Workers \ {w}) = NumWorkers - 1
  BY <1>4, FS_RemoveElement
<1>6. W \in SUBSET (Workers \ {w})
  OBVIOUS
<1>7. IsFiniteSet(W) /\ Cardinality(W) <= NumWorkers - 1
  BY <1>5, <1>6, FS_Subset
<1> HIDE DEF W, R, f
<1>8. IsFiniteSet(R) /\ Cardinality(R) <= Cardinality(W)
  BY <1>3, <1>7, FS_Surjection
<1>9. Cardinality(W) \in Nat /\ Cardinality(R) \in Nat
  BY <1>7, <1>8, FS_CardinalityType
<1> QED
  BY <1>7, <1>8, <1>9, PoolAssumption DEF R

\* A step that neither adds nor runs a task, and sends no worker in or out of one.
SameStages ==
  /\ UNCHANGED <<added, ran>>
  /\ dpc' = "gone" <=> dpc = "gone"
  /\ \A w \in Workers : wpc'[w] = "run" <=> wpc[w] = "run"
  /\ \A w \in Workers : wpc[w] = "run" => work'[w] = work[w]

LEMMA SameStagesKeeps == SameStages => Stage' = Stage
<1> SUFFICES ASSUME SameStages, NEW t \in Tasks
             PROVE  StageOf(t)' = StageOf(t)
  BY DEF Stage
<1>1. Running(t)' <=> Running(t)
  BY DEF SameStages, Running
<1> QED
  BY <1>1 DEF SameStages, StageOf

\* A step that moves one task to stage s.
LEMMA OneTaskMoves ==
  ASSUME NEW t \in Tasks, NEW s, StageOf(t)' = s,
         \A u \in Tasks : u # t => StageOf(u)' = StageOf(u)
  PROVE  Stage' = [Stage EXCEPT ![t] = s]
BY DEF Stage

-----------------------------------------------------------------------------
(* One lemma for each kind of step of the pool. *)

LEMMA AddTaskSubmits ==
  ASSUME RInv, NEW c \in Clients, NEW t \in Tasks, AddTask(c, t)
  PROVE  Promise!Submit(t)
<1>1. /\ dpc = "open" /\ dpc' = "open" /\ t \notin added /\ added' = added \cup {t}
      /\ UNCHANGED <<ran, wpc, work>>
  BY DEF AddTask, workerVars, destroyVars
<1>2. \A u \in Tasks : Running(u)' <=> Running(u)
  BY <1>1 DEF Running
<1>3. ran[t] = 0 /\ ~Running(t)
  BY <1>1, RunningTask DEF RunningTasksOwned, RInv, IInv, TaskInv, RanOnce, Running
<1>4. StageOf(t)' = "pending" /\ Stage[t] = "new"
  BY <1>1, <1>2, <1>3 DEF StageOf, Stage
<1>5. \A u \in Tasks : u # t => StageOf(u)' = StageOf(u)
  BY <1>1, <1>2 DEF StageOf
<1> QED
  BY <1>1, <1>4, <1>5, OneTaskMoves DEF Promise!Submit, Stage

\* Entering work() with the task that was in the slot, or with one taken off
\* the queue.
LEMMA EnteringStarts ==
  ASSUME RInv, RInv', NEW w \in Workers, Begin(w) \/ PickQueued(w)
  PROVE  \E t \in Tasks : Promise!Start(t)
<1>1. /\ wpc[w] \in {"lock", "pick"} /\ wpc' = [wpc EXCEPT ![w] = "run"]
      /\ \A v \in Workers : v # w => work'[v] = work[v]
      /\ UNCHANGED <<added, ran, dpc>>
  BY DEF Begin, PickQueued, poolVars, clientVars, destroyVars, RInv, IInv, Control, TypeOK
<1>2. wpc'[w] = "run" /\ \A v \in Workers : v # w => wpc'[v] = wpc[v]
  BY <1>1 DEF RInv, IInv, Control, TypeOK
<1>3. RunningTasksOwned'
  BY RunningTask, PTL
<1>4. PICK t \in Tasks : t = work'[w] /\ t \in added /\ ran[t] = 0 /\ dpc # "gone"
  BY <1>1, <1>2, <1>3 DEF RunningTasksOwned
<1>5. \A v \in Workers : wpc[v] = "run" => work[v] # t
  BY <1>1, <1>2, <1>3, <1>4 DEF RunningTasksOwned
<1>6. \A u \in Tasks : Running(u)' <=> Running(u) \/ u = t
  BY <1>1, <1>2, <1>4 DEF Running
<1>7. Stage[t] = "pending" /\ StageOf(t)' = "running"
  BY <1>1, <1>4, <1>5, <1>6 DEF Stage, StageOf, Running
<1>8. \A u \in Tasks : u # t => StageOf(u)' = StageOf(u)
  BY <1>1, <1>6 DEF StageOf
<1>9. Stage' = [Stage EXCEPT ![t] = "running"]
  BY <1>7, <1>8, OneTaskMoves
<1>10. Cardinality({u \in Tasks : Stage[u] = "running"}) < NumWorkers
  BY <1>1, RoomForOneMore
<1>11. Promise!At("running") = {u \in Tasks : Stage[u] = "running"}
  BY DEF Promise!At, Stage
<1>12. UNCHANGED (dpc = "open")
  BY <1>1
<1>13. Promise!Start(t)
  BY <1>7, <1>9, <1>10, <1>11, <1>12, SameCardinality, Zenon DEF Promise!Start, Stage
<1> QED
  BY <1>13

\* work() returns.
LEMMA RunFinishes ==
  ASSUME RInv, NEW w \in Workers, Run(w)
  PROVE  \E t \in Tasks : Promise!Finish(t)
<1>1. /\ wpc[w] = "run" /\ wpc' = [wpc EXCEPT ![w] = "pick"]
      /\ ran' = [ran EXCEPT ![work[w]] = ran[work[w]] + 1]
      /\ UNCHANGED <<work, added, dpc>>
  BY DEF Run, poolVars, destroyVars
<1>2. wpc'[w] = "pick" /\ \A v \in Workers : v # w => wpc'[v] = wpc[v]
  BY <1>1 DEF RInv, IInv, Control, TypeOK
<1>3. PICK t \in Tasks : /\ t = work[w] /\ t \in added /\ ran[t] = 0
                         /\ \A v \in Workers : v # w /\ wpc[v] = "run" => work[v] # t
  BY <1>1, RunningTask DEF RunningTasksOwned
<1>4. ran'[t] = 1 /\ \A u \in Tasks : u # t => ran'[u] = ran[u]
  BY <1>1, <1>3 DEF RInv, IInv, Control, TypeOK
<1>5. \A u \in Tasks : Running(u)' <=> Running(u) /\ u # t
  BY <1>1, <1>2, <1>3 DEF Running
<1>6. Stage[t] = "running" /\ StageOf(t)' = "finished"
  BY <1>1, <1>3, <1>4, <1>5 DEF Stage, StageOf, Running
<1>7. \A u \in Tasks : u # t => StageOf(u)' = StageOf(u)
  BY <1>1, <1>4, <1>5 DEF StageOf
<1>8. Stage' = [Stage EXCEPT ![t] = "finished"]
  BY <1>6, <1>7, OneTaskMoves
<1>9. Promise!Finish(t)
  BY <1>1, <1>6, <1>8 DEF Promise!Finish, Stage
<1> QED
  BY <1>9

LEMMA DestroyCloses == Destroy => Promise!Close
<1> SUFFICES ASSUME Destroy PROVE Promise!Close
  OBVIOUS
<1>1. SameStages /\ dpc = "open" /\ dpc' # "open"
  BY DEF Destroy, SameStages, workerVars
<1> QED
  BY <1>1, SameStagesKeeps DEF Promise!Close, Stage

\* The last worker is joined: no task runs, and those that have not run never will.
LEMMA JoinLastDiscards ==
  ASSUME RInv, JoinLast
  PROVE  Promise!Discard
<1>1. /\ dpc = "join" /\ dpc' = "gone" /\ victim = NumWorkers /\ wpc[victim] = "done"
      /\ UNCHANGED <<wpc, work, added, ran>>
  BY DEF JoinLast, workerVars
<1>2. \A w \in Workers : wpc[w] = "done"
  BY <1>1, PoolAssumption DEF RInv, JoinedInOrder, Workers
<1>3. \A t \in Tasks : ~Running(t) /\ ~Running(t)'
  BY <1>1, <1>2 DEF Running
<1>4. \A t \in Tasks : Stage[t] # "running"
  BY <1>3 DEF Stage, StageOf
<1>5. \A t \in Tasks :
        StageOf(t)' = IF Stage[t] = "pending" THEN "discarded" ELSE Stage[t]
  BY <1>1, <1>3 DEF Stage, StageOf
<1>6. Stage' = [t \in Tasks |-> IF Stage[t] = "pending" THEN "discarded" ELSE Stage[t]]
  BY <1>5 DEF Stage
<1> QED
  BY <1>1, <1>4, <1>6 DEF Promise!Discard, Promise!At, Stage

\* Every other step leaves the stages alone, and the pool open or closed.
LEMMA OtherStepStutters ==
  ASSUME RInv,
         \/ \E c \in Clients : Launch(c) \/ ClientStep(c)
         \/ \E w \in Workers : \/ Park(w) \/ Wake(w) \/ TestTerminate(w)
                               \/ PickNone(w) \/ LockFinished(w) \/ Deactivate(w)
         \/ SetTerminate \/ PostTerminate \/ JoinNext \/ UNCHANGED vars
  PROVE  UNCHANGED <<Stage, dpc = "open">>
<1> USE DEF RInv, IInv, Control, TypeOK, Claims, SameStages,
        workerVars, clientVars, destroyVars, vars
<1>1. SameStages /\ (dpc' = "open") = (dpc = "open")
  <2>1. ASSUME NEW c \in Clients, Launch(c) \/ ClientStep(c)
        PROVE  SameStages /\ dpc' = dpc
    BY <2>1 DEF Launch, ClientStep, ClaimWorker, SetWork, AllBusy, Enqueue, LaunchReturn
  <2>2. ASSUME NEW w \in Workers, \/ Park(w) \/ Wake(w) \/ TestTerminate(w)
                                  \/ PickNone(w) \/ LockFinished(w) \/ Deactivate(w)
        PROVE  SameStages /\ dpc' = dpc
    BY <2>2 DEF Park, Wake, TestTerminate, PickNone, LockFinished, Deactivate
  <2>3. CASE SetTerminate \/ PostTerminate \/ JoinNext \/ UNCHANGED vars
    BY <2>3 DEF SetTerminate, PostTerminate, JoinNext
  <2> QED
    BY <2>1, <2>2, <2>3
<1> QED
  BY <1>1, SameStagesKeeps

-----------------------------------------------------------------------------
LEMMA RefinementInit == Init => Promise!Init
BY DEF Init, Promise!Init, StageOf

LEMMA RefinementStep ==
  RInv /\ RInv' /\ [Next]_vars => [Promise!Next]_<<Stage, dpc = "open">>
<1> SUFFICES ASSUME RInv, RInv', [Next]_vars
             PROVE  Promise!Next \/ UNCHANGED <<Stage, dpc = "open">>
  OBVIOUS
<1>1. ASSUME NEW c \in Clients, NEW t \in Tasks, AddTask(c, t)
      PROVE  Promise!Next
  BY <1>1, AddTaskSubmits DEF Promise!Next
<1>2. ASSUME NEW w \in Workers, Begin(w) \/ PickQueued(w)
      PROVE  Promise!Next
  BY <1>2, EnteringStarts DEF Promise!Next
<1>3. ASSUME NEW w \in Workers, Run(w)
      PROVE  Promise!Next
  BY <1>3, RunFinishes DEF Promise!Next
<1>4. CASE Destroy
  BY <1>4, DestroyCloses DEF Promise!Next
<1>5. CASE JoinLast
  BY <1>5, JoinLastDiscards DEF Promise!Next
<1> QED
  BY <1>1, <1>2, <1>3, <1>4, <1>5, OtherStepStutters DEF Next, WorkerStep, DestroyStep, Gone

\* The pool keeps the promise of TaskPool: a task is run at most once and by
\* one worker, at most NumWorkers run at a time, none is taken after the
\* destructor has begun, and what has not run is given up only when every
\* worker has been joined (threadpool.cpp, Pool.cpp, Worker.cpp).
THEOREM Refines == Spec => ImplementsTaskPool
<1>1. RInv /\ RInv' /\ [Next]_vars =>
        [Promise!Next]_<<[t \in Tasks |-> StageOf(t)], dpc = "open">>
  BY RefinementStep DEF Stage
<1> QED
  BY <1>1, RefinementInit, RefinementInductive, PTL DEF Spec, ImplementsTaskPool, Promise!Spec
=============================================================================
