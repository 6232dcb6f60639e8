# Vutils in TLA+

Vutils is a C++ utility library for Windows: thin wrappers of Win32, and a few
objects with a life of their own (a thread pool, a parallel loop, an
asynchronous socket, API hooks, a service manager, a debouncer). This directory
models both, the objects that keep state with every order of their calls and the
algorithms on sequences, checks them with TLC on small instances, and
proves nearly all of the safety properties with TLAPS for every size. Source paths below are
relative to the root of the repository; `details/` is `src/details/`.

    tlc -workers 2 -config ThreadPoolSafety.cfg ThreadPoolRefinement
    tlapm ThreadPoolProofs.tla

## 1. Inventory

### Components with behaviour of their own

| component | state | operations | what is hard | what makes it correct |
|---|---|---|---|---|
| **Thread pool** `details/threadpool.cpp` over `3rdparty/TP11` | workers (status, work slot, wake-up flag, terminate), task queue, active count, "all finished" flag | add_task, launch, counters, constructor, destructor | four kinds of mutex, condition variables, callers, workers and the destructor at once | each task runs once, none is lost, counters match the workers, launch and the destructor return |
| **STLThreadT** `template/stlthread.tpl` | a partition of a container, a pool, an iterator per range | constructor, launch, execute (Break), destructor | integer division, lock-free calls of task() on several threads, a pool that gives weak guarantees | ranges stay inside, do not overlap and cover all items |
| **AsyncSocket** `details/asyncsocket.cpp` | running flag, table of sockets and events, a loop thread per run | listen/connect, run, stop, disconnect_connections, five handlers | the loop rebuilds the table it iterates over; the controlling thread reads it; peers, handle reuse, errors | every open connection is in the table with its event; callbacks in order; closes and connections are noticed; the loop ends |
| **Inline hooks** `details/apihookinl.cpp` | hooked flag, list of relocated displacements, trampolines, patched code | attach/detach, install/uninstall | overlapping writes of code bytes, order of copy, fix and jump | the trampoline does what the function did; detach restores every byte |
| **IAT hooks** `details/apihookiat.cpp` | list of entries, import table | install, uninstall, exist | repeated and refused calls, functions not imported | list and table agree, originals are remembered |
| **Service manager** `details/service.cpp` | cached list of services | install, start, stop, uninstall, refresh, queries | the SCM and other programs move while the cache stands still | the cache lags only by what others, and the SCM itself, did since it was filled |
| **Debouncer** `details/debouncer.cpp` | map id -> timer, id used last | debounce, remove, cleanup, timer procedure | timers fire in any order, callbacks debounce again | a function runs once; every timer can still be stopped |

### Wrappers that share something

A wrapper has few steps of its own. What is hard about it is what it shares: a table of
the program, handle values the system gives out again, another process, a file.

| component | state | operations | what is hard | what makes it correct |
|---|---|---|---|---|
| **Locks** `details/crisec.cpp` | map id -> lock, without a lock of its own | guard construction and destruction | first use of an id by two threads, and of the map by any two | a section has one thread in it unless first uses of its id met, or calls of the map overlapped an insertion |
| **ThreadSignal** `details/crisec.cpp` | a manual-reset event | notify, set, reset, wait, assignment | an assignment is a read and a write | an answer consumes nothing |
| **SingletonT** `template/singleton.tpl` | one pointer | instance | the pointer is set before the object is complete | one complete object unless calls raced |
| **SingleProcess** `details/process.cpp` | a handle of a named event per process | initialize, running, exit | the name outlives a crash of its maker if others have it | one owner at most |
| **Process objects** `details/process.cpp` | pid, handle, word size | attach, create, copy, close, destructor | handle values are reused, copies share one | an attached object works on its own process |
| **Memory access** `read_memory`, `write_memory` | protections of the target's pages | plain and forced access | three calls other threads come between | protections are put back |
| **Injection** `inject_dll` | blocks and loader threads in the target | inject, with or without waiting | the target exits; the block is freed while read | nothing leaks, nothing is read after it is freed |
| **Message hooks** `details/wmhook.cpp` | table by hook type, `LibraryX` | install, uninstall, destructor | types reach beyond both ends; targets exit | every hook stands in the table |
| **Socket** `details/socket.cpp` | descriptor, attached flag, WSAStartup count | life cycle, attach, accept; send, recv_all | descriptors nobody closes; partial sends, gaps | descriptors and Winsock accounted for; no byte lost |
| **Registry** `details/registry.cpp` | root and sub key handles | open, test, create, list, close, typed values | stale handles, a test that opens, two-call reads | names and values are those of the key opened, until key_exists |
| **FileMapping** `details/filemap.cpp` | file, map, view | create, open, view, close | every step may fail; creating again | holds its own, closes it once |
| **File objects** `details/filesys.cpp`, `Buffer::save_to_file` | handle | open, read, write, quick reads | other programs write and crash | a quick read is whole |
| **Buffer** `details/mbuffer.cpp` | block and size | append, replace, slice, resize, ... | reallocation under a pointer into itself | its bytes are the promised ones |
| **StopWatch** `details/stopwatch.cpp` | counts | start, stop, laps, log lines of a scope | log lines take time themselves | the total is what elapsed |
| **VariantT** `details/strfmt.cpp` | a string stream | write, convert, copy | const conversions move the stream | the first read gets what was written |
| **ScopedHandleT** `template/handle.tpl` | a handle | construct, assign, close, destroy | copies close the same handle | an uncopied handle is its own |
| **Algorithms** `string.cpp`, `strfmt.cpp`, `filedir.cpp`, `math.cpp`, `crypt.cpp`, parts of `process.cpp`, `misc.cpp`, `inifile.cpp`, `filesys.cpp` | none | split, join, trim, encodings, dumps, paths, pattern scans, pointer chains, partitions | boundaries, rounding, buffer sizes, names | round trips and agreement with a definition or with the documentation |

How they interact: `STLThreadT` and the program use the thread pool through
add_task and launch; `vu::ThreadPool` delegates to threadpool11; `AsyncSocket`
owns a `Socket` and closes connections through it; the message hooks own a `LibraryX`;
`Buffer` saves through a file object; the two API hook classes look
functions up through `Library` and write into memory other threads execute. The
table of lock ids, the table of message hooks and the singleton are shared by the
whole program. What outlives a process is a file, the registry and the named event of
`SingleProcess`: crashes are modelled there (`CrashProgram`, the crash of an instance),
and nowhere else is there anything to recover.

### Components without a model

`PROJECT.json` lists each with its reason. In short: `pefile.cpp` reads a binary layout
at offsets, without state or order of its own; windows and pickers (`window.cpp`,
`picker.cpp`) are user interface calls without a protocol; `wmi.cpp` and `restclient.cpp`
delegate to COM and to a third-party HTTP library; `guid.cpp` and `deconsts.cpp` are wording and
lookup tables; vendored code other than threadpool11 is not Vutils's own. Section 8 names
what is missing of the components that are modelled in part.

## 2. Modules

| module | models | 
|---|---|
| `TaskPool` | abstract: what any pool of threads promises about its tasks (submit, start, finish, close, discard) |
| `ThreadPool` | `vu::ThreadPool`, threadpool11's `Pool` and `Worker`, one action per lock-to-lock section |
| `ThreadPoolRefinement` | the mapping under which `ThreadPool` implements `TaskPool` |
| `ThreadPoolProofs` | theorems about `ThreadPool` |
| `StlThread` | `STLThreadT` on top of `TaskPool` |
| `AsyncSocket` | the table, the loop threads, the controlling thread, Winsock and the peers |
| `InlineHook`, `IatHook`, `ServiceManager`, `Debouncer` | one component each |
| `AsyncSocketProofs` | theorems about `AsyncSocket` |
| `ObjectsProofs` | theorems about the parallel loop, the hooks, the service manager and the debouncer, and about all of `MCObjects` |
| `GlobalLock`, `ThreadSignal`, `Singleton`, `SingleInstance` | what threads, or processes, of the program use together |
| `Process`, `RemoteMemory`, `DllInjection`, `MessageHooks` | what the library does to other processes |
| `SocketObject`, `SocketStream` | life of sockets and descriptors; one connection's bytes |
| `RegistryKey`, `RegistryValue`, `FileMapping`, `FileObject` | handles of, and two-call reads from, what other programs share |
| `MemoryBuffer`, `StopWatch`, `Variant`, `ScopedHandle` | objects of one thread, in every order of their calls |
| `Strings`, `Codecs`, `TextFiles`, `Settings`, `Paths`, `Maths`, `ProcessQueries` | pure algorithms, and what each promises |
| `DocumentedResults` | one call each of three functions whose results are documented otherwise |
| `LibraryProperties` | the properties that several wrappers have in common |
| `ResourceProofs` | theorems about what is shared: `GlobalLock`, `Singleton`, `SingleInstance`, `Process`, `RemoteMemory`, `DllInjection`, `MessageHooks`, `SocketObject`, `RegistryKey`, `FileMapping`, `ScopedHandle` |
| `ValueProofs` | theorems about `StopWatch`, `ThreadSignal`, `Variant`, `SocketStream`, `FileObject`, `MemoryBuffer`, and the Base64 sizes of `Maths` |
| `TextProofs` | theorems about `RegistryValue`, and about the laws of `Strings`, `Codecs`, `TextFiles`, `Settings` and `Paths` |
| `InductionLemmas` | induction and recursion over the numbers of an interval, and flattening of lists, for the other proofs |
| `LibraryProofs` | theorems about all of `MCLibrary`, from those of its wrappers, and about the laws of `ProcessQueries` and `Maths` |
| `MCObjects` | instances of the components that share no state: `which` names the one that moves in a behaviour, so their state spaces add instead of multiplying |
| `MCLibrary` | the same for the wrappers; when `which` is "input", `input` is one input of one algorithm |

A run of one component uses the component's own module; the composed ones use an MC module.

The operators `PROJECT.json` lists under `mutants` are plausible wrong versions of the
definition that follows each of them; no specification uses them.

### ThreadPool

Program counters replace the mutexes, which are all RAII guards: `ActivatorHeld`,
`ContainerHeld` and `FinishedHeld` say who holds what. A worker goes round
`Park -> Wake -> TestTerminate -> Begin -> Run -> PickQueued | PickNone ->
LockFinished -> Deactivate` (`Worker::execute`); a caller of add_task does
`AddTask -> ClaimWorker -> SetWork` or `AddTask -> AllBusy -> Enqueue`
(`Pool::postWork`, `Worker::setWork`), a caller of launch `Launch -> LaunchReturn`
(`Pool::waitAll`), the destructor `Destroy -> SetTerminate -> PostTerminate ->
JoinNext... -> JoinLast` (`Pool::joinAll`). All condition-variable waits have a
predicate that is only changed under the mutex of the wait, so a wait is a guard.
A task's run is one step. threadpool11's increaseWorkerCountBy and decreaseWorkerCountBy cannot be
reached through `vu::ThreadPool` and are left out. The program's
duty is that nobody is inside the pool when the destructor starts; workers may be, and
`DestroyEndsWhenIdle` is about the destructions that find none active.

### StlThread

`NumThreads`, `ItemsPerThread`, `NumIterations`, `Start` and `Stop` are the
constructor's and execute's arithmetic; the pool is `INSTANCE TaskPool`, which is
what ThreadPool is shown to implement. Because the pool's launch may return early
(below), `Launch` may return at any moment, and `Destroy` may come while ranges
run. The container does not change its size.

### AsyncSocket

The table is `n`, `conn`, `evt`; `rec` and `assoc` are Winsock's record of network
events per socket and the event object it was selected for. The loop is `Enter,
Raise, TestRunning, WaitAny, SkipSlot | TakeEvents, Deliver (Accept, Refuse,
BeginClose -> Refill... -> EndClose, callbacks), NextSlot, ScanDone`.
Closing a connection empties the table and puts the others back one by one, while
the controlling thread may read it (`ReadSlot`): each step is an action. Accept may reuse
a handle. The array of connections lies before the array of events, so the slot
behind it is `evt[0]`. Each call of run makes a loop thread (`Loops`).

### InlineHook

A byte of code is a token saying where it belongs (`<<f, i>>`: byte i of function
f). A function is a list of instructions with their length and, if RIP-relative,
the place of the displacement, which is what the decoder reports; the decoder stops at
an instruction it does not know, and the displacements it found by then stay in
the list, in the order it found them (`Pushed`). Writes have the widths of the code: a displacement is 4 bytes long and written as 8.

### ServiceManager

`scm` is the truth and moves by itself (`ScmStep`: pending to final states, death of a
service, the end of a deletion), and others move it (`OthersAct`: another program, or the SCM, installs,
starts, stops or deletes any service at any time); `cache` is
`m_services`. `touched` and `meddled` remember which services others acted on since the list was filled. Each Win32 call is a step, so the SCM may move between the size
query and the listing, and between query and control.

### Debouncer, IatHook

One action per operation. Timers fire repeatedly until killed, in any order; a
function may call debounce, not remove. An import table entry holds an address; installs may
repeat, pass no replacement, or name a function that is not imported.

### Locks, signals, singleton, single instance

`GlobalLock`: a call of the map in the guard's constructor and destructor begins in one step and ends in
another (`CallFind -> FindLock`, `CallInsert -> InsertEntry`, `CallLook -> ReachLock`, `CallLeave -> LeaveLock`),
because the map has no lock of its own; between the entry that `m_list[id]` inserts, which is null, and
the lock stored in it (`MakeLock`) other threads run, and one that finds the null entry crashes on it. Calls that overlap an
insertion are remembered (`mapRaced`): from then on a call may miss an entry or crash. A lock is the number it was
made with, and `WarmIds` are ids used before.
`Singleton`: `TestInstance`, `BeginInstance` (the base constructor stores the pointer),
`EndInstance` (instance() stores it again), `AnswerInstance`. `SingleInstance`:
the probe of running() is CreateEvent, the question, CloseHandle, with exits and crashes
between. `ThreadSignal`: an assignment reads and sets in two steps.

### Other processes

`Process` gives the handle values out again: `NewHandle` is one fixed choice among the
free ones, so a stale handle comes to name another process. `RemoteMemory` has three
steps of a forced access (VirtualProtectEx, transfer, VirtualProtectEx), of several
threads; a transfer may fail. `DllInjection` has the block, the remote thread, the wait, the free,
and the exit of the target at any point. `MessageHooks` has a table one slot longer
at each end than the array, the memory the accepted types reach.

### Sockets

`SocketObject` counts WSAStartup and WSACleanup and remembers descriptors handed to
the program (`callerHas`) and lost (`dropped`). `SocketStream` sends what the stack
takes (`StackRoom`), and receives in blocks; every receive may time out or fail, and what
recv_all appends stays in the buffer.

### Registry, files, mappings

Reads in two calls (size, then value; count, then names; size, then bytes) are two steps,
and another program may write, delete or crash in between where the sharing mode lets it.
A and W objects differ only where a size is in bytes of their characters
(`WideRegistries`). Handles that stay in an object after they were closed are kept as such. `on` is the key the
program opened or created through an object, and only that: key_exists, which opens what it asks about into the
same member, leaves it alone and sets `asked`.
Other programs create and delete keys below the one opened, at any time. `RegistryValue` takes texts without a zero
in them, which is what the program can pass.

### Objects of one thread

`MemoryBuffer` compares its bytes with `meant`, the bytes the calls promise; a byte nobody
has written is `Unknown`. `StopWatch` compares the total with the ticks that really passed.
`Variant` has the position and the fail state of the stream beside its text. In `ScopedHandle` a
serial tells two handles of one value apart.

### Algorithms

Each module defines the code's algorithm and, below it, the laws it must satisfy: a split is
undone by a join, a replacement is a split and a join with another separator, a trim is the longest, the URL and
hexadecimal conversions round-trip, the parts of a path make the path, a scan finds what
the definition of a match names, pieces partition the items. Lengths and
sizes (buffers of MAX_SIZE, Base64) are checked as numbers, not as texts. A law is about what the code is for;
where the code does not keep what its documentation says, no law says so in its place: `ToStringA` gives an empty text for
UTF-8, as the code does, and `DocumentedResults` holds it against the test that expects one.

## 3. Runs

| run | instance | shows |
|---|---|---|
| `pool_safety` | 2 workers, 2 callers, 3 tasks, destructor at any time (92 258 states) | type and counters; claims are safe; no task is lost or in two places; the flag means quiet; implements `TaskPool`, in which a task runs once; handed tasks run; add_task, launch, and the destructor of an idle pool return |
| `pool_stale_flag` | 2 workers, 1 caller, 2 tasks | **violated**: launch returns while a task it should wait for is in a worker's slot |
| `pool_destroy_busy` | 1 worker, 1 task | **violated**: the destructor waits for ever |
| `async_table` | server or client, 3 slots, 2 handles, 2 peers, network errors (455 348 states) | table, order of callbacks, closes noticed, connections accepted |
| `async_too_many` | 2 slots, 2 peers | **violated**: the capacity test is off by one |
| `async_early_stop` | 1 loop | **violated**: a stop before the loop has raised its flag is lost |
| `stl_remainder` | 5 items on 3 threads | **violated**: the last item is never processed |
| `objects` | see below (600 174 states) | hooks, service manager, debouncer, parallel loop |
| `library` | see below (921 910 states) | the wrappers, each in every order of its calls, and the algorithms on every bounded input |
| `documented_results` | texts of 1 or 2 characters in six encodings, 3 lists of numbers, 14 divisions | **violated**: a text converted to UTF-8 is empty, gcd is the least common multiple, and the pieces of a set reach past it; the property is that one of the three is as documented, so its one counterexample refutes all |
| `debouncer_once` | 2 ids | **violated**: a debounced function runs more than once |
| `inline_early_relative` | a RIP-relative instruction that is not the last one copied | **violated**: the trampoline is corrupted |

Bounds, and why they are enough. Two workers give every pair of worker
interleavings, and a first-idle search with a choice; three tasks are one more than the workers, so the queue is used, and
one task waits while others run. Two callers give the contention for
workerContainerMutex. In `async_table` three slots hold the own socket and two connections: a close
moves the other connection to a lower slot, and reuse of a handle happens because two
handles serve connections that come and go. One `run` is enough for the table;
restarting (stop, listen, run again) revives the old loop thread beside the new one when its
flag goes up before it looked, and breaks `StopEndsLoop` as well, with MaxRuns = 2.
`objects` has: three functions (RIP-relative instruction last, none,
undecodable), each hooked by an object of its own, two trampolines, four attaches; two services
in any initial state and two operations, enough to act on a state a former
operation has left, with moves of others at every step; two debounce ids, four debounces, three runs per
function; two imported functions and one not imported, four installs; seven items
on three threads, where the remainder (1) fits one extra range of 2.

What `library` checks, property by property:

| property | instance | says |
|---|---|---|
| `MadeOnceUnlessRaced` | 2 threads, 2 ids of which 1 used before, 3 locks; 3 threads, 3 objects | locks and the singleton are made once unless first uses raced; no null lock is met, and no used id is made again, unless calls of the map overlapped an insertion |
| `AnswerConsumesNothing` | 2 threads, 2 signals | whoever is answered, all waiters are, and the signal stays up |
| `OneEventOwner` | 3 processes of one program | one process at most owns the event, through exits, crashes, restarts |
| `AttachedHandleLive` | 2 objects, 2 processes, 3 handles | an attached object's handle is open and names its process |
| `RemoteRestored` | 2 pages, 3 layouts, 2 threads; 2 injecting threads, 2 DLLs, one with a long name, 2 blocks | page protections return, injected blocks are freed, and not early; with the exceptions named in the property |
| `HeldByItsOwn` | 2 mappings, an empty and a full file; a hook table of one type with both ends, 2 objects; 3 scoped objects, 3 handles | objects and tables hold the handles they made |
| `SocketsAccountedFor` | 2 objects, 3 descriptors, 3 constructions | no object loses its descriptor to another; what leaks is what attach and detach drop |
| `StreamIntact` | messages of 3 and 2 bytes, blocks of 2, room for 3, 2 calls of recv_all | bytes arrive once, in order, and all when recv_all ends complete |
| `RegistryFaithful` | an A and a W object, 2 names, 2 handles, keys of depth 2; 4 texts, 5 lists, 4 data | keys and values read are those opened, or last asked about, and whole |
| `QuickReadWhole` | 2 objects, files of at most 2 bytes | a quick read is the file at one moment |
| `BufferAsMeant` | 2 buffers, at most 3 bytes of 2 values | a buffer's bytes are the promised ones |
| `TotalIsElapsed` | clock to 6, 3 laps | the total is the elapsed time |
| `VariantReadsOnce` | 2 variants, texts of at most 2 characters written at a time | a first read gets what was written |
| `TextsLawful`, `AlgorithmsLawful` | every sequence of a few characters up to a length of 3 to 5, every number up to a bound (`Questions` in `MCLibrary`) | the laws of each algorithm |

`LibraryTypeOK` holds the types of all of them. Two actors suffice for the properties about
a pair (two objects with one handle, two threads in one section); a third is there
where a handle or an event has to be given out, closed and given out again between two
others. Texts of length 4 over 3 characters contain every way a
separator of length 2 can overlap itself or touch an end. `HeldByItsOwn`,
`MadeOnceUnlessRaced`, `RemoteRestored`, `SocketsAccountedFor`, `BufferAsMeant` and `RegistryFaithful`, and
`ListLagsByScmMoves` of `objects`, name the cases in which
the code does lose something (a first use raced, a copied handle, forced accesses that overlap,
an attach over an open descriptor, a buffer given to itself, a key asked about meanwhile, a service others started since the
list was filled). All of them happen in the models. For these no line of the repository promises otherwise, so there is no
run that reports them: the property bounds when they happen. `hazards` in `PROJECT.json` says of each what the
property does not catch. Where a line does promise otherwise, a violated run holds the code against it.

`CHECK_DEADLOCK FALSE` is given everywhere: the program may simply stop calling, and in `pool_safety` a
destructor may really wait for ever (`pool_destroy_busy`). That callers, workers and destructor do not block each other
otherwise is what `CallsReturn` and `DestroyEndsWhenIdle` say under fairness.

No constraint and no symmetry is used. Properties with a leads-to are only checked under fairness.

## 4. Fairness

`ThreadPool!Fairness`: weak fairness of each worker, of each caller once inside add_task or launch, and of the
destructor: threads are scheduled, mutexes are eventually handed over (no step
needs strong fairness: a worker waiting for a mutex is enabled continuously once
the holder, who never waits for it, is done), and work functions
return. Nobody has to call anything. `AsyncSocket!Fairness`: each loop thread and the body of stop or
disconnect_connections go on; handlers return. Peers and the network owe
nothing; `CloseNoticed` and `PeerAccepted` are stated for as long as the loop is served.
`objects` and `library` state no liveness: their operations are calls the program may or may not make, and each ends by itself.

## 5. What the violated runs say

Each quotes a line of the repository that the code does not keep (`findings` in
`PROJECT.json`).

1. `Pool.h:107` promises that waitAll returns after all queued work is finished.
   It tests `areAllReallyFinished` without lowering it first, so a flag left
   from an earlier quiet moment lets it through (`pool_stale_flag`); and a task
   enqueued between the last worker's look at the queue and its deactivation is left
   behind for a launch that returns without it: `LaunchWaitsForQueued` is violated with one worker
   and two tasks. The same line promises both, so there is one run.
2. `Pool.h:112`: joinAll can sleep for ever, because a worker past
   `while(!terminate)` clears `isWorkReallyPosted` after joinAll has set it
   (`pool_destroy_busy`). A further consequence of the flag, found by checking
   `CallsReturn` with two callers, is that of two concurrent launches the first to
   wake lowers the flag under the second, which then waits for another task to finish; no line
   promises otherwise, so there is no run for it.
3. `asyncsocket.cpp:349` compares with `>` where the arrays need `>=` (`async_too_many`).
4. `asyncsocket.cpp:232` raises the running flag in the new thread, over a stop
   that came first (`async_early_stop`).
5. `stlthread.tpl:66` adds one iteration "for remainder items", which covers the
   remainder only if it is not larger than a range (`stl_remainder`).
6. `debouncer.cpp:98` looks up the id debounced last, not the timer that fired
   (`debouncer_once`).
7. `string.cpp:193` passes WC_COMPOSITECHECK with CP_UTF8, which the system refuses, and does not look at
   the result: text converted to UTF-8 is empty, where `Test/Sample.String.h:83` and `:90` assert that it is not.
   `math.cpp:50` and `:85` give gcd and lcm each other's results, against their names and the comments beside them.
   `math.cpp:155` rounds the size of a piece to the nearest, so the pieces may use up the items before the last one, whose number
   of items wraps, against `math.cpp:132`. (`documented_results`, for all three.)
8. `apihookinl.cpp:238` writes 8 bytes over a 4-byte displacement (`inline_early_relative`); the jump written
   behind it repairs the damage only when the instruction is the last one copied, which is why
   `objects` holds for such functions.

## 6. Proofs

The proofs hold for every value of the constants that satisfies the assumption
named in each module. Those are as weak as the programs: bounds are numbers, sets
of ids exist, markers are apart from the values they stand beside, bytes are bytes.
Where a theorem needs more, it says so in its statement, and this section says why.

### Thread pool and parallel loop

**ThreadPool** (`PoolAssumption`: at least one worker, finitely many tasks, `NoTask` is
none of them; callers are arbitrary). The safety invariants are not inductive alone:
that the active count never wraps needs that a worker decrements it only when it is ACTIVE,
which needs to know who may wake it. The invariant is

    IInv == Control /\ ActiveCountExact /\ TaskInv
    Control == TypeOK /\ Closing /\ Awake /\ Claims

`Closing`: the destructor runs alone and only posts to workers it has told to
terminate. `Awake`: a worker that is awake was claimed or told to terminate, and nobody
posts to one that holds its activatorMutex. `Claims`: at most one caller is inside
setWork, and its worker is parking. `TaskInv` = `Hands /\ Queue /\ Slots /\ RanOnce
/\ NoneLost`: a task is in exactly one place until it runs. `ControlStep`,
`CountStep`, `TypeStep` and `TaskStep` have one step per action; the steps that move no
task are handled together (`SameTasks`). From it: `TypeCorrect`, `CountersExact`,
`ClaimSafe`, `RunsOnce`, `NothingLost`, and the action property `FlagHonest`.

`Refines` is the refinement, `Spec => ImplementsTaskPool`: under the mapping of
`ThreadPoolRefinement` the initial state is one of `TaskPool`, the step that hands a task over is
its submit, `Begin` its start, `Run` its finish, the last join the discard of what is left, and every
other step stutters, because a task that moves from slot to queue or from queue
to worker stays "pending". That it does needs `IInv`, and for the discard that joins go from the
first worker to the last (`JoinedInOrder`).

**StlThread** (`StlThreadAssumption`: a container that is not empty, at least one
thread; otherwise the constructor divides by zero). The invariant is `TypeOK /\
CursorsInRange /\ CallsExact`: each started iterator is between the ends of its range, and the
calls on an item are one if the iterator of the range it belongs to has passed
it, else none. It rests on three lemmas of arithmetic, `Division`,
`RangeBounds` and `RangesDisjoint`. From it: `TypeCorrect`, `NeverOutside`,
`ItemsNotShared`, `ProcessedOnce`; and `RemainderFits` adds, through `RangesCover`, that
`RemainderProcessed` holds whenever the remainder is not larger than a range, which
is exactly what `stl_remainder` violates.

### AsyncSocket

The code does not keep its table in every behaviour, so the theorems state when it does, in
terms of what happened and not of what the object holds:

- `FirstLife`: there was one run at most, and the object was not opened again after it. A later
  run may meet the loop thread of an earlier one (section 3), and two threads then
  rebuild one table.
- `~overrun`: no accept wrote behind the arrays. `FewerPeersFit` proves that none does
  as long as there are fewer peers than slots, `TableFits`; with as many, `async_too_many`
  shows one.

Under these, `FirstRunTypes`, `FirstRunListed` and `FirstRunReachable` are `TypeOK`, `LiveListed` and
`ServerKeepsSlotZero`; `SingleRunSound` and `SingleRunOrdered` put them together with `CallbackOrder` for
the instance of the run (`MaxRuns <= 1`, fewer peers than slots), where the conditions are facts.
The types are not an invariant of the object alone: `n` is a slot only while nothing overran. The invariant is

    Sound == TypeOK /\ OneLoop /\ Cursor /\ EventsOwn /\ Placed /\ OwnFirst

`OneLoop`: one loop thread at most has begun and not ended. `Cursor`: the slot a loop is at is a slot of
the table it rebuilds or reads. `EventsOwn`: no event object is in two places, where what
do_close has in hand (`kept`) counts as a place. `Placed`: an open connection is in the table, in
`kept`, or being closed. `OwnFirst`: a server's own socket is first, in the table and in `kept`. The
last two are why closing, which empties the table and puts the rest back one by
one, loses nothing. `CallbacksReady` adds what the order of callbacks needs: an event
is taken only of a socket announced before. `KeptOfRecursive` and `KeepsTheOthers` say what the list of
others is; they replace an induction by the recursion of the operator itself.

### Hooks, service manager, debouncer

**Debouncer** (`DebouncerAssumption`): `DebounceInv` says that the map holds each call at
most once, under numbers already given, and that every timer alive is held;
`DebouncerTypeCorrect` and `TimersOwned` follow.

**IatHook** (`IatAssumption`: the null pointer is not the address of a function). `IatInv`
adds to the types that the list has one entry of a function at most, that an entry of
an imported function remembers the function itself, and that the table leads to the
replacement of the entry, or to the function if there is none (`EntriesFaithful`). `RemoveAtKeepsOthers` says
what is left of a list when one place is removed; `InstallInv` and `UninstallInv` have a step per
early return. From it: `TableFaithful`, the theorem for `TableMatchesList`.

**ServiceManager** (`ServiceAssumption`). `ServiceInv` = types, `ListLags`, `StepsOfOperation`,
`StopWorked`. `ListLags` says of every moment what the property says of the moments
between operations: of a service others did not touch since the list was filled, the SCM got to where it is from what the
list says by moves of its own. `StepsOfOperation` says which operation each changing step belongs to, and `StopWorked` that after a
stop was accepted the service does not run unless others acted on it meanwhile. From it: `ListIsHonest`.

**InlineHook** (`InlineAssumption`: a function that can be decoded is at least as long as what is
overwritten). Two conditions, stated with the theorems `TrampolinesFaithful` and `DetachRestores`:

- `OneFunctionEach`: an object hooks one function. Its list of displacements is never cleared,
  so after a second function each attach relocates what belongs to the first.
- `RelativeLast`: a relocated displacement ends where the copy ends. `inline_early_relative` shows
  what happens otherwise.

`InlineInv` says of each hooked function what its trampoline holds byte by byte and that its list
consists of places of this function (`KnownIs`); `PatchedIs` says that the
writes of such a list leave at each byte what the last one that covers it wrote, and that the jump
behind hides what they spill. `PushedIs`, `SizeBounds` and `OffsetTyped` are about the recursive
functions the model is built from.

`ObjectsTypeCorrect` is the type invariant of the whole run `objects` (`ObjectsTypeOK`): each component keeps
its types whichever of them moves. A list of entries is as long as the calls that made it at
most, which is `InstallsCounted`.

### The wrappers several parties share

`ResourceProofs`, each for any number of parties, objects, handles, pages, threads and failures:

- `OneOwner` (`OneEventOwner`): the invariant adds `AskersNamed`, that whoever is inside running() has been
  initialized: it is from there that an owner comes, and the property says an owner is initialized.
- `OneInstance` (`OneInstanceUnlessRaced`): without a race at most one thread is
  making the object, and what others hold is what it made (`ObjectsNumbered`, `OneMaker`).
- `LockExclusive` (`ExclusiveUnlessFirstsMeet`): as long as no call of the map overlapped an insertion, the locks made are
  numbered without gaps (`LocksNumbered`), no two ids share one (`TableApart`), ids used before were made once (`WarmKept`), and
  for an id no thread looked for while another was making its lock (`UnmetKept`) the entry is what the one maker has done so far
  (`EntryKept`), there is one maker (`MakersKept`), and whoever waits for the lock or is inside knows the one the table
  names (`UsersKept`). Each action has a lemma. What the property excuses is what the model shows to go wrong: `FindLock` tells
  who meets whom, `CallMap` which calls overlap.
- `MadeOnce` (`MadeOnceUnlessRaced`) puts the last two together.
- `ObjectsOnTheirProcess` (`AttachedHandleLive`): besides the types of handles (`HandlesInv`), an
  object that is not attached holds nothing (`UnattachedHoldNothing`); a
  handle that is closed is held by no attached object afterwards, so giving its value out again misleads none. `NewHandleIsFree` and
  `WithoutKeeps` are the lemmas about the table of handles.

- `HeldByOwner` (`HeldByItsOwn`): `MappingInv`, `HookInv` and `ScopedInv`. The last needs `SharedIsCopied`: two
  objects hold one handle only if both descend from a copy, and a copied object promises nothing.
- `RemoteUndone` (`RemoteRestored`): `Committed` says which protection each access under way will put
  back, and that is the original one unless two of them overlapped on the page; `BlocksOwned`,
  `BlocksUsed` and `LoadersRead` tie each block in the target to the one injector
  that frees it, and to the loader that may read it.
- `SocketsKept` (`SocketsAccountedFor`): `WinsockUp` counts start-ups against objects alive; an
  open descriptor is an object's own, the program's, or counted as dropped.
- `RegistryHandlesNamed` (`[]SubKeyNamesPath`) and `RegistryListsAll` (`[]ListingComplete`): `KeyInv` adds that an open
  handle names a key that exists or was deleted, `HandlesHeld`, that an object holds the handle of what the program opened unless
  key_exists was asked since, and `ListedSoFar`, what a listing that nobody disturbed has by
  now: the first names in order. That the last name completes it needs that the k-th name of a finite set of numbers
  is one of them and none is given twice, which is a lemma about `NameAt`.
- The types of each (`HooksTyped`, `SocketsTyped`, ...), from the same invariants.

### Objects of one thread, and one connection

`ValueProofs`, for any sizes and any number of calls:

- `TotalMeasured`, `StopWatchTyped`: the laps so far and the one under way add up to the time since the
  reset (`WatchMeasures`); `AccumulatedAppend` is the recursion of the sum.
- `SignalStaysUp` (`AnswerConsumesNothing`): a signal that is up has no waiters, and a thread waits on one signal (`WaitersListed`).
- `VariantsReadOnce`: a stream that is good has all that was ever written to it, however often it was read (`VariantInv`).
- `BytesInOrder` (`StreamIntact`): what earlier calls received, what this one has and what is in flight are, one
  behind the other, what was sent so far (`StreamInv`): so partial sends and time-outs reorder nothing. `FlattenAppend` is the lemma.
- `QuickReadsWhole`: the sharing modes of two open handles allow each other's access (`AccessShared`), so while a
  quick read is between its two calls nobody can write (`QuickSeesFile`).
- `BuffersAsMeant` (`BufferAsMeant`): a buffer is as long as promised and has at each place the promised byte or
  `Unknown`, the latter only after one of the three calls the property names. It is inductive as it stands, and the proof is one
  lemma about sequences per call.
- `Base64SizesHold`: the sizes for encoding and decoding fit each other, for every length and every word that can
  hold its fourfold.

The types follow from the same invariants. Two of them need a bound that is nobody's guard: a variant's text is no longer than the
texts written to it (`TextsBounded`), and a file no longer than what was written or saved (`FileBounds`).

### Texts and registry values

`TextProofs`:

- `MultiStringsKept` (`MultiStringKeeps`, one of the laws in `TextsLawful`, here for every list of strings without a
  zero): reading a multi-string gives the list back up to its first empty string.
  `MultiToListReads` says what the loop of `MultiToList` computes at each place, `FlattenPlaces` where each string lies.
- `RegistryReadsWhole` (`ReadsWhole`): `ValueInv` says that the value stored is what was written, in cells of the
  width of the call, and that a size that was asked for and is not stale is that of the value (`SizeKnown`). `PaddedText` and
  `PaddedMulti` say that the zeros a buffer has behind the value change nothing.

The other laws, each for texts of every length; the property is named as in its module:

- `SplitsJoin` (`SplitJoins`): `SplitReads` is the loop of a split as an equation at each place, which exists by
  `JumpRecursion`; the joined parts are the text from that place on, by induction from the last place back. The two splits
  agree because the kept parts are those `Picked`: `PickedIs` counts the places that are picked.
- `ReplacesOnce` (`ReplaceIsSplitJoin`): the turns of a replacement are a function by `IntervalRecursion`. `Stage` couples
  a turn with the split: what is behind the place where the next turn starts is as it was, and what is before is the joined
  parts so far. `NextStage` is one turn; the last of the turns finds nothing.
- `TrimsAreLongest` (`TrimLongest`): from the least and the greatest place of a character that is kept.
- `EncodesWhole` (`AnsiWhole`), `DumpsWhole` (`DumpWhole`), `ChecksumsAsAsked`, `DigestsTold`, `SettingsRead`
  (`ValuesReadWhole`), `SectionNamesRead` (`SectionNamesWhole`), `WalksInOrder` (`IteratesInOrder`).
- `NamesCorrected` (`CorrectionValid`) and `DriveFound` (`DriveOfDevice`).
- `PathsTakenApart` (`PartsMakePath`), `NamesStay` (`NamesKept`) and `EqualPathsNamed` (`EqualPathsAgree`): the names of a path
  are the parts a split at its separators leaves; the last is for tables of lower characters that keep the space and
  the separators.

### The whole library

`LibraryProofs`: a step of `MCLibrary` is a step of one wrapper and a stutter of all others (`LibraryStep`), so a
behaviour of the library is one of each wrapper's own specification (`LibraryIsEvery`). With it the theorems above are
theorems of `LibrarySpec`: `LibraryTyped` (`LibraryTypeOK`), `LibraryReadsRegistry` (`RegistryFaithful`) and
`LibraryKeepsPromises` (all others). `LibraryAlgorithms` is `AlgorithmsLawful`, from the laws of `TextProofs` and those below.

It also has the laws of `ProcessQueries` and `Maths`, for every input under the conditions given:

- `SearchFindsAll` (`PatternFound`) and `ScanFindsAll` (`ScanCovers`): the pattern is not empty, and what the system says is
  readable is mapped. The search of one block is an induction along its places, the scan one along the regions.
- `ChainsCompose` (`ChainComposes`): nothing can be read at the value that stands for a failure; otherwise a chain that
  failed would go on from there.
- `ThreadsFound` (`ThreadsAgree`) and `NamesFound` (`NamesAgree`): pids of a snapshot are listed once and names are not empty.
- `GcdLcmSwapped`: for positive numbers gcd is the least common multiple (they include the product, so there is a least), a
  common divisor only where all numbers are equal, and lcm never a common multiple: what `documented_results` shows of 4
  and 6 holds of any numbers.
- `PiecesCoverSet` (`PiecesPartition`): a set is divided without a loss exactly when the last piece has a place to begin (`Fits`).
  There are at most half as many items as the word has values, beyond which the sum of two numbers of items wraps.

### Induction

The induction rules of the proof library take an operator as a parameter and cannot be used with the
provers at hand. `InductionLemmas` gets around this for what is about a set of numbers: from the
well-foundedness of < it proves that a set that has the first number of an interval and with each its
successor has them all (`IntervalInduction`; `DownwardInduction` from the last one back), that a set of numbers has a least one, and that
a function defined by recursion over an interval exists and satisfies its equation, whether it goes back one
number at a time (`IntervalRecursion`) or jumps ahead to any later one (`JumpRecursion`), as the loops over a text do. On
these rest the lemmas about `FlattenSeq` (`FlattenAppend`, `FlattenPlaces`, `FlattenConcat`) and about parts of parts of
a text (`PartOf`). No module declares a RECURSIVE
operator, with which the SMT solver cannot be used at all: loops are recursive functions.

### Only model-checked, and why

- `HandedTaskRuns`, `CallsReturn`, `DestroyEndsWhenIdle`, `CloseNoticed`, `PeerAccepted`: liveness under fairness is out of
  the prover's reach.
- Of `TextsLawful`: `ClosestLongest`, `AffixesAgree`, `HexRoundTrip`, `UrlRoundTrip`, `UnitsOfFirst` and
  `TextRoundTrip`. They are checked over the bounded inputs of `Questions`; nothing but their length keeps them from being
  proved like the others. Of `AlgorithmsLawful` all is proved (`LibraryAlgorithms`).
- What `AsyncSocket` keeps beyond the first run, or with as many peers as slots: in part false.
- Hooks of several functions by one object, or with an earlier displacement: false, see above.

## 7. Abstractions and limits

- What tasks, handlers, hooks and callbacks compute is left out; they return, and do not
  call back into the object, except that a debounced function may debounce.
- The counters of `ThreadPool` are operators read by nobody in the model; they are
  locked reads without effect.
- `StlThread`: a container that is empty, or a machine whose hardware_concurrency is unknown, makes
  the constructor divide by zero; the container does not shrink while ranges run; launch is called once.
- `AsyncSocket`: send, bind and the data that travels are left out; a send of the
  program changes no state of the object. Descriptors the temporary `Socket` of a handler loses
  are counted in `SocketObject`, not here.
- A stop may miss a connection that do_close has taken out of the table for a
  moment; that connection stays open when the loop ends. The interleaving is in the
  model, and so is an event with an error that ends the loop with running() still up; no line promises otherwise,
  so no property forbids them.
- `InlineHook`: 64-bit code; displacements behind immediates and page protection
  are left out; an object hooks one function and uninstalls it once (the list of
  displacements is never cleared and the flag never lowered); nobody executes the bytes while they change.
- `ServiceManager`: the A variant; W is the same code except that it opens another
  manager handle on each refresh. Names the list hands out point into the list's own memory;
  their lifetime is not modelled. After control and start the list may show a pending state, which
  `ListLagsByScmMoves` allows.
- `Debouncer`: ids given by the program never equal a timer number Windows has given out.
- `Singleton`: the destructor deletes the object being destroyed, which has no defined
  behaviour; the model never destroys it.
- `Socket` objects are passed by reference; Winsock's own limits are one number of descriptors.
- The system gives closed handle values out again in an order of its choice; `Process` fixes
  one (`NewHandle`) under which values are reused at once.
- Algorithms: where the code has no defined result (an empty separator, an empty dump), the input is left out, and the
  module says so. Characters are members of a small set; the W functions do the same as the A
  ones where the text says nothing else.

## 8. Not modelled, and plan

Left out of components that are modelled in part: send_to, recv_from, socket options and host names;
processor times, privileges, suspending and resuming; registry values that are deleted or
only tested; profile calls that only pass on; copies of directory trees; io_control;
enumeration of exports; conversions of buffers to text; printf-style formatting and
dates, which are the C runtime's; vectors, matrices and floating-point geometry, which are out
of TLC's reach; the encoders and digests of `3rdparty`. Each is one call of the system or of
a vendored library, without an order or a state that a property could be about.

Next, in this order:

1. The laws of texts and algorithms that are only checked over bounded inputs, for every input.
2. `AsyncSocket` beyond its first run: which part of the invariant survives a second loop
   thread, and which does not (section 5 says what breaks).
3. The sections and exports of `pefile.cpp` as laws over small images, if a reader needs them.
