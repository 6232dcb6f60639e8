---- MODULE GlobalLock ----
(* vu::ScopedThreadLock: a critical section looked up by id in a std::map that has no *)
(* lock of its own.  The guard's constructor and destructor; a call of the map begins *)
(* and ends in steps of their own, and the lock is put into its entry after the entry *)
(* was inserted.  A ThreadLock is the number it was made with.                        *)
EXTENDS Integers, FiniteSets

CONSTANTS LockThreads,  \* threads that construct guards
          LockIds,      \* ids in use, one per place in the source (__COUNTER__)
          WarmIds,      \* ids some thread used before the others started
          NoThread,
          MaxLocks      \* bound on ThreadLocks made

ASSUME GlobalLockAssumption ==
  /\ LockIds # {} /\ WarmIds \subseteq LockIds /\ IsFiniteSet(WarmIds)
  /\ LockThreads \intersect {NoThread, "unmade"} = {} /\ NoThread # "unmade"
  /\ MaxLocks \in Nat

VARIABLES lockTable,  \* m_list: id -> the ThreadLock it names, NullEntry or NoEntry
          lockMade,   \* id -> how many ThreadLocks were put under it
          lockOwner,  \* ThreadLock -> the thread inside its critical section
          guards,     \* thread -> where its guard stands, its id, the lock it waits for
          mapRaced,   \* history: a call of the map overlapped an insertion into it
          firstsMet   \* history: ids looked for while another thread was making their lock

lockVars == <<lockTable, lockMade, lockOwner, guards, mapRaced, firstsMet>>

NoEntry == -1
NullEntry == 0
Locks == 1..MaxLocks
InMap == {"find", "insert", "look", "leave"}   \* steps inside a call of the map
MakingLock == {"missed", "insert", "make"}         \* found no entry, has not stored its lock
InSection == {"inside", "leave"}
GuardSteps == InMap \union MakingLock \union InSection \union {"none", "found", "wait", "crashed"}
NoGuard == [at |-> "none", id |-> CHOOSE i \in LockIds : TRUE, lock |-> 0]
LocksMade == Cardinality({l \in Locks : lockOwner[l] # "unmade"})

WarmTable(table) ==
  /\ \A i \in LockIds : table[i] = NoEntry <=> i \notin WarmIds
  /\ \A i, j \in WarmIds : table[i] = table[j] => i = j
  /\ {table[i] : i \in WarmIds} = 1..Cardinality(WarmIds)

LockInit ==
  /\ lockTable \in [LockIds -> NoEntry..MaxLocks] /\ WarmTable(lockTable)
  /\ lockMade = [i \in LockIds |-> IF i \in WarmIds THEN 1 ELSE 0]
  /\ lockOwner = [l \in Locks |-> IF l <= Cardinality(WarmIds) THEN NoThread ELSE "unmade"]
  /\ guards = [t \in LockThreads |-> NoGuard]
  /\ mapRaced = FALSE /\ firstsMet = {}

-----------------------------------------------------------------------------
(* Calls of the map. *)

Inserts(at, i) == at = "insert" /\ lockTable[i] = NoEntry

\* A call begins: of two that overlap, neither may insert.
CallMap(t, at, i) ==
  /\ guards' = [guards EXCEPT ![t] = [@ EXCEPT !.at = at, !.id = i]]
  /\ mapRaced' = (mapRaced \/ \E u \in LockThreads \ {t} :
                    guards[u].at \in InMap /\ (Inserts(at, i) \/ Inserts(guards[u].at, guards[u].id)))
  /\ UNCHANGED <<lockTable, lockMade, lockOwner, firstsMet>>

\* What a call may come upon: an entry of a map that is being or was rebuilt under
\* another call may be missed.
SeenEntry(i) == IF mapRaced THEN {lockTable[i], NoEntry} ELSE {lockTable[i]}

\* operator[]: a missing entry is inserted, and is null.
Indexed(i, e) ==
  lockTable' = IF e = NoEntry THEN [lockTable EXCEPT ![i] = NullEntry] ELSE lockTable

MoveGuard(t, at) == guards' = [guards EXCEPT ![t].at = at]

\* A null lock is dereferenced, or a call follows the links of a torn map.
CrashGuard(t) == MoveGuard(t, "crashed")

CrashInMap(t) ==
  /\ mapRaced /\ guards[t].at \in InMap
  /\ CrashGuard(t) /\ UNCHANGED <<lockTable, lockMade, lockOwner, mapRaced, firstsMet>>

-----------------------------------------------------------------------------
(* The constructor and the destructor. *)

CallFind(t, i) == guards[t].at = "none" /\ CallMap(t, "find", i)

SomeoneMaking(t, i) == \E u \in LockThreads \ {t} : guards[u].id = i /\ guards[u].at \in MakingLock

\* A constructor that does not test whether the id is there.
FindLockAlwaysMakes(t) ==
  LET i == guards[t].id IN
  /\ guards[t].at = "find"
  /\ MoveGuard(t, "missed")
  /\ firstsMet' = IF SomeoneMaking(t, i) THEN firstsMet \union {i} ELSE firstsMet
  /\ UNCHANGED <<lockTable, lockMade, lockOwner, mapRaced>>

\* m_list.find: the decision to make a lock is taken here and carried out later; an
\* entry that is still null is found.
FindLock(t) ==
  LET i == guards[t].id IN
  /\ guards[t].at = "find"
  /\ \E e \in SeenEntry(i) : MoveGuard(t, IF e = NoEntry THEN "missed" ELSE "found")
  /\ firstsMet' = IF SomeoneMaking(t, i) THEN firstsMet \union {i} ELSE firstsMet
  /\ UNCHANGED <<lockTable, lockMade, lockOwner, mapRaced>>

CallInsert(t) == guards[t].at = "missed" /\ CallMap(t, "insert", guards[t].id)

\* m_list[id] of the statement that makes the lock.
InsertEntry(t) ==
  /\ guards[t].at = "insert"
  /\ \E e \in SeenEntry(guards[t].id) : Indexed(guards[t].id, e)
  /\ MoveGuard(t, "make")
  /\ UNCHANGED <<lockMade, lockOwner, mapRaced, firstsMet>>

\* .reset(new ThreadLock()): whatever the entry held is deleted.
MakeLock(t) ==
  LET i == guards[t].id new == LocksMade + 1 IN
  /\ guards[t].at = "make" /\ new \in Locks
  /\ lockTable' = [lockTable EXCEPT ![i] = new]
  /\ lockMade' = [lockMade EXCEPT ![i] = @ + 1]
  /\ lockOwner' = [lockOwner EXCEPT ![new] = NoThread]
  /\ MoveGuard(t, "found")
  /\ UNCHANGED <<mapRaced, firstsMet>>

CallLook(t) == guards[t].at = "found" /\ CallMap(t, "look", guards[t].id)

\* m_list[id]->: the lock to wait for is read once.
ReachLock(t) ==
  /\ guards[t].at = "look"
  /\ \E e \in SeenEntry(guards[t].id) :
       /\ Indexed(guards[t].id, e)
       /\ IF e \in Locks THEN guards' = [guards EXCEPT ![t] = [at |-> "wait", id |-> @.id, lock |-> e]]
          ELSE CrashGuard(t)
  /\ UNCHANGED <<lockMade, lockOwner, mapRaced, firstsMet>>

Deleted(l) == l \notin {lockTable[i] : i \in LockIds}

\* EnterCriticalSection. On a deleted lock anything may happen: here it may succeed.
EnterLock(t) ==
  LET l == guards[t].lock IN
  /\ guards[t].at = "wait"
  /\ lockOwner[l] = NoThread \/ Deleted(l)
  /\ lockOwner' = [lockOwner EXCEPT ![l] = t]
  /\ MoveGuard(t, "inside")
  /\ UNCHANGED <<lockTable, lockMade, mapRaced, firstsMet>>

CallLeave(t) == guards[t].at = "inside" /\ CallMap(t, "leave", guards[t].id)

\* The destructor looks the lock up again: it leaves the one the table names now.
LeaveLock(t) ==
  /\ guards[t].at = "leave"
  /\ \E e \in SeenEntry(guards[t].id) :
       /\ Indexed(guards[t].id, e)
       /\ IF e \in Locks
          THEN lockOwner' = [lockOwner EXCEPT ![e] = NoThread] /\ guards' = [guards EXCEPT ![t] = NoGuard]
          ELSE CrashGuard(t) /\ UNCHANGED lockOwner
  /\ UNCHANGED <<lockMade, mapRaced, firstsMet>>

\* A crash is the end of the process.
LockNext ==
  /\ \A t \in LockThreads : guards[t].at # "crashed"
  /\ \E t \in LockThreads :
       \/ \E i \in LockIds : CallFind(t, i)
       \/ FindLock(t) \/ CallInsert(t) \/ InsertEntry(t) \/ MakeLock(t)
       \/ CallLook(t) \/ ReachLock(t) \/ EnterLock(t) \/ CallLeave(t) \/ LeaveLock(t) \/ CrashInMap(t)

LockSpec == LockInit /\ [][LockNext]_lockVars

-----------------------------------------------------------------------------
(* Properties. *)

LockTypeOK ==
  /\ lockTable \in [LockIds -> NoEntry..MaxLocks]
  /\ lockMade \in [LockIds -> 0..MaxLocks]
  /\ lockOwner \in [Locks -> LockThreads \union {NoThread, "unmade"}]
  /\ guards \in [LockThreads -> [at : GuardSteps, id : LockIds, lock : 0..MaxLocks]]
  /\ mapRaced \in BOOLEAN /\ firstsMet \subseteq LockIds

\* As long as no call of the map overlapped an insertion into it, two threads are inside the
\* section of one id, or one meets an entry without a lock, only if a thread looked for that id
\* between another's finding it missing and storing the lock for it; the lock of an id that was
\* used before is never made again (the find, the insertion and the reset of _GlobalThreadLock
\* are not one step).
ExclusiveUnlessFirstsMeet ==
  ~mapRaced =>
    /\ \A i \in WarmIds : lockMade[i] = 1 /\ i \notin firstsMet
    /\ \A i \in LockIds \ firstsMet :
         /\ lockMade[i] <= 1
         /\ \A t, u \in LockThreads :
              /\ guards[t].id = i => guards[t].at # "crashed"
              /\ guards[t].at \in InSection /\ guards[u].at \in InSection /\ guards[t].id = i /\ guards[u].id = i
                   => t = u
====
