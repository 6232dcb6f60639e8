---- MODULE RemoteMemory ----
(* vu::read_memory and write_memory: a forced access makes the pages of its    *)
(* range accessible, transfers, and puts back the one protection it was given  *)
(* as the old one, in three calls that other threads' calls may come between.  *)
EXTENDS Integers, FiniteSets

CONSTANTS MemoryThreads,
          Layouts,        \* protections the pages may have at first; "free" is not committed
          LastPage

ASSUME RemoteMemoryAssumption ==
  LastPage \in Nat /\ Layouts \subseteq [0..LastPage -> {"none", "r", "rw", "free"}]

VARIABLES layout,    \* the protections at first
          pages,     \* the protections now
          access,    \* thread -> the access it makes
          spoiled    \* pages a forced access could not put back

memoryVars == <<layout, pages, access, spoiled>>

Pages == 0..LastPage
NotAccessing == [at |-> "idle", write |-> FALSE, range |-> {}, force |-> FALSE, old |-> "unset", done |-> FALSE]

MemoryInit ==
  /\ layout \in Layouts
  /\ pages = layout
  /\ access = [t \in MemoryThreads |-> NotAccessing]
  /\ spoiled = {}

First(range) == CHOOSE p \in range : \A q \in range : p <= q

\* VirtualProtectEx: fails without effect on a range that is not all committed;
\* answers the protection of the first page for all of them.
CanProtect(range, protection) == protection # "unset" /\ \A p \in range : pages[p] # "free"
Protected(range, protection) == [p \in Pages |-> IF p \in range THEN protection ELSE pages[p]]

\* Pages another thread is in the middle of a forced access to, or that do not share a
\* protection: what is put back on them need not be what was there.
Shared(t, range) == UNION {access[u].range : u \in {v \in MemoryThreads \ {t} :
                             access[v].old # "unset" /\ access[v].range \intersect range # {}}}
Mixed(range) == IF \A p, q \in range : pages[p] = pages[q] THEN {} ELSE range

BeginAccess(t, range, write, force) ==
  LET ok == force /\ CanProtect(range, "rwx") IN
  /\ access[t].at = "idle"
  /\ access' = [access EXCEPT ![t] = [at |-> "transfer", write |-> write, range |-> range, force |-> force,
                                     old |-> IF ok THEN pages[First(range)] ELSE "unset", done |-> FALSE]]
  /\ pages' = IF ok THEN Protected(range, "rwx") ELSE pages
  /\ spoiled' = IF ok THEN spoiled \union Mixed(range)
                       \union (IF Shared(t, range) # {} THEN range \union Shared(t, range) ELSE {})
                ELSE spoiled
  /\ UNCHANGED layout

Permits(protection, write) == protection \in (IF write THEN {"rw", "rwx"} ELSE {"r", "rw", "rwx"})

\* Read/WriteProcessMemory: all of it, or an answer of false; the handle may grant less than
\* VirtualProtectEx asks for.
Transfer(t) ==
  /\ access[t].at = "transfer"
  /\ \E granted \in BOOLEAN :
       access' = [access EXCEPT ![t].at = "restore",
         ![t].done = granted /\ \A p \in access[t].range : Permits(pages[p], access[t].write)]
  /\ UNCHANGED <<layout, pages, spoiled>>

\* An access that, when the transfer failed, returns before it puts anything back.
RestoreOnSuccess(t) ==
  LET a == access[t] IN
  /\ a.at = "restore"
  /\ pages' = IF a.force /\ a.done /\ CanProtect(a.range, a.old) THEN Protected(a.range, a.old) ELSE pages
  /\ access' = [access EXCEPT ![t] = NotAccessing]
  /\ UNCHANGED <<layout, spoiled>>

\* The second VirtualProtectEx, after a failed transfer too; with the old protection
\* never set (0) it fails.
Restore(t) ==
  LET a == access[t] IN
  /\ a.at = "restore"
  /\ pages' = IF a.force /\ CanProtect(a.range, a.old) THEN Protected(a.range, a.old) ELSE pages
  /\ access' = [access EXCEPT ![t] = NotAccessing]
  /\ UNCHANGED <<layout, spoiled>>

Ranges == {p..q : p, q \in Pages} \ {{}}

MemoryNext == \E t \in MemoryThreads :
  \/ \E range \in Ranges, write, force \in BOOLEAN : BeginAccess(t, range, write, force)
  \/ Transfer(t) \/ Restore(t)

MemorySpec == MemoryInit /\ [][MemoryNext]_memoryVars

MemoryTypeOK ==
  /\ layout \in Layouts
  /\ pages \in [Pages -> {"none", "r", "rw", "free", "rwx"}]
  /\ access \in [MemoryThreads ->
       [at : {"idle", "transfer", "restore"}, write : BOOLEAN, range : SUBSET Pages,
        force : BOOLEAN, old : {"unset", "none", "r", "rw", "rwx"}, done : BOOLEAN]]
  /\ spoiled \subseteq Pages

\* A forced access leaves every page as it found it, whether the transfer succeeds or
\* not and whatever is not committed, unless the range mixes protections (one value is
\* put back on all of it) or two threads force accesses to a common page at once (the
\* second takes the first one's rwx for the old protection).
ProtectionRestored ==
  \A p \in Pages \ spoiled :
    (\A t \in MemoryThreads : access[t].at = "idle" \/ ~access[t].force \/ p \notin access[t].range)
      => pages[p] = layout[p]
====
