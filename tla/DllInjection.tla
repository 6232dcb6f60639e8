---- MODULE DllInjection ----
(* vu::inject_dll by threads of the program into one process: the DLL's path is   *)
(* written into a block of the target, a thread of the target loads the DLL, and  *)
(* the block is freed if the caller waits. The target may exit at any time.       *)
EXTENDS Integers, FiniteSets, FiniteSetsExt

CONSTANTS Injectors,      \* threads that inject
          Dlls,           \* DLLs, by file name
          LongNames,      \* those with names of sizeof(std::string) characters or more
          NoDll,
          MaxBlocks       \* bound on the blocks allocated in the target

VARIABLES injectors,   \* thread -> at: where it is; dll; wait; block: the block it uses, or 0
          target,      \* at: "running" or "exited"; loads: DLL -> times LoadLibrary was called
          blocks,      \* block of the target -> the path in it; NoDll before it is written
          loaders,     \* blocks that threads of the target load from
          overlapped,  \* DLLs two threads injected at the same time
          left         \* blocks whose injection returned without freeing them

injectVars == <<injectors, target, blocks, loaders, overlapped, left>>

ASSUME InjectAssumption == LongNames \subseteq Dlls /\ NoDll \notin Dlls /\ MaxBlocks \in Nat

IdleInjector == [at |-> "idle", dll |-> NoDll, wait |-> FALSE, block |-> 0]
NoBlocks == [b \in {} |-> NoDll]

InjectInit ==
  /\ injectors = [i \in Injectors |-> IdleInjector]
  /\ target = [at |-> "running", loads |-> [d \in Dlls |-> 0]]
  /\ blocks = NoBlocks /\ loaders = {} /\ overlapped = {} /\ left = {}

Injecting(dll) == {i \in Injectors : injectors[i].dll = dll}
MoveInjector(i, at) == injectors' = [injectors EXCEPT ![i].at = at]
InjectReturns(i) == injectors' = [injectors EXCEPT ![i] = IdleInjector]

\* remote_get_module_handle: GetModuleBaseName is told of sizeof(module_name) characters,
\* so a longer name is cut and never equal to the one looked for.
RemoteModule(dll) == target.at = "running" /\ target.loads[dll] > 0 /\ dll \notin LongNames

\* inject_dll as far as the test that the DLL is not there yet (error 3).
CheckTarget(i, dll, wait) ==
  /\ injectors[i].at = "idle"
  /\ ~RemoteModule(dll)
  /\ injectors' = [injectors EXCEPT ![i] = [at |-> "checked", dll |-> dll, wait |-> wait, block |-> 0]]
  /\ overlapped' = overlapped \union (IF Injecting(dll) # {} THEN {dll} ELSE {})
  /\ UNCHANGED <<target, blocks, loaders, left>>

\* OpenProcess and VirtualAllocEx; one of them may fail (errors 4 to 6), and does when
\* the target has exited.
AllocateBlock(i) ==
  /\ injectors[i].at = "checked"
  /\ \/ LET free == 1..MaxBlocks \ DOMAIN blocks
        IN /\ target.at = "running" /\ free # {}
           /\ blocks' = [b \in DOMAIN blocks \union {Min(free)} |-> IF b = Min(free) THEN NoDll ELSE blocks[b]]
           /\ injectors' = [injectors EXCEPT ![i].at = "allocated", ![i].block = Min(free)]
     \/ InjectReturns(i) /\ UNCHANGED blocks
  /\ UNCHANGED <<target, loaders, overlapped, left>>

\* An error behind the allocation leaves the block in the target.
ReturnLeaving(i) ==
  /\ InjectReturns(i)
  /\ left' = left \union ({injectors[i].block} \intersect DOMAIN blocks)
  /\ UNCHANGED <<target, blocks, loaders, overlapped>>

\* write_memory, error 7.
WritePath(i) ==
  /\ injectors[i].at = "allocated"
  /\ \/ /\ target.at = "running"
        /\ blocks' = [blocks EXCEPT ![injectors[i].block] = injectors[i].dll]
        /\ MoveInjector(i, "written")
        /\ UNCHANGED <<target, loaders, overlapped, left>>
     \/ ReturnLeaving(i)

\* CreateRemoteThread, error 8; a caller that does not wait returns at once.
StartLoader(i) ==
  /\ injectors[i].at = "written"
  /\ \/ /\ target.at = "running"
        /\ loaders' = loaders \union {injectors[i].block}
        /\ IF injectors[i].wait THEN MoveInjector(i, "waiting") /\ UNCHANGED left
           ELSE InjectReturns(i) /\ left' = left \union {injectors[i].block}
        /\ UNCHANGED <<target, blocks, overlapped>>
     \/ ReturnLeaving(i)

FreeEarly(i) ==
  /\ injectors[i].at = "waiting"
  /\ blocks' = [b \in DOMAIN blocks \ {injectors[i].block} |-> blocks[b]]
  /\ InjectReturns(i)
  /\ UNCHANGED <<target, loaders, overlapped, left>>

\* The thread of the target has ended, by itself or with the target; the block is freed.
WaitAndFree(i) ==
  /\ injectors[i].at = "waiting"
  /\ injectors[i].block \notin loaders
  /\ blocks' = [b \in DOMAIN blocks \ {injectors[i].block} |-> blocks[b]]
  /\ InjectReturns(i)
  /\ UNCHANGED <<target, loaders, overlapped, left>>

\* LoadLibrary in the target, as long as the model counts.
LoadDll(b) ==
  /\ b \in loaders
  /\ target' = IF b \in DOMAIN blocks /\ target.loads[blocks[b]] < 2
               THEN [target EXCEPT !.loads[blocks[b]] = @ + 1] ELSE target
  /\ loaders' = loaders \ {b}
  /\ UNCHANGED <<injectors, blocks, overlapped, left>>

\* Its memory and its threads go with the target.
TargetEnds ==
  /\ target.at = "running"
  /\ target' = [at |-> "exited", loads |-> [d \in Dlls |-> 0]]
  /\ blocks' = NoBlocks /\ loaders' = {} /\ left' = {}
  /\ UNCHANGED <<injectors, overlapped>>

InjectNext ==
  \/ \E i \in Injectors :
       \/ \E dll \in Dlls, wait \in BOOLEAN : CheckTarget(i, dll, wait)
       \/ AllocateBlock(i) \/ WritePath(i) \/ StartLoader(i) \/ WaitAndFree(i)
  \/ \E b \in 1..MaxBlocks : LoadDll(b)
  \/ TargetEnds

InjectSpec == InjectInit /\ [][InjectNext]_injectVars

InjectTypeOK ==
  /\ \A i \in Injectors : /\ injectors[i].at \in {"idle", "checked", "allocated", "written", "waiting"}
                          /\ injectors[i].dll \in Dlls \union {NoDll}
                          /\ injectors[i].block \in 0..MaxBlocks
  /\ target.at \in {"running", "exited"} /\ target.loads \in [Dlls -> 0..2]
  /\ DOMAIN blocks \subseteq 1..MaxBlocks
  /\ loaders \subseteq 1..MaxBlocks /\ left \subseteq DOMAIN blocks
  /\ overlapped \subseteq Dlls

\* A thread of the target never loads from a block that was freed or not written, a block
\* stays allocated only for an injection under way or one that failed or did not wait, and
\* a DLL is loaded a second time only when its name is too long to be recognised, two
\* threads injected it at once, or an injection that did not wait was still loading.
InjectionClean ==
  /\ loaders \subseteq {b \in DOMAIN blocks : blocks[b] # NoDll}
  /\ DOMAIN blocks \subseteq left \union {injectors[i].block : i \in Injectors}
  /\ \A d \in Dlls : target.loads[d] > 1 =>
       d \in LongNames \union overlapped \/ \E b \in left : blocks[b] = d
====
