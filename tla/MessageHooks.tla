---- MODULE MessageHooks ----
(* vu::WMHookingX and the vu::LibraryX each of its objects holds: hooks of other  *)
(* processes' messages, in one table of the program indexed by the hook type.     *)
(* Types reach from one below the table to one above it.                          *)
EXTENDS Integers, FiniteSets, FiniteSetsExt

CONSTANTS HookObjects, HookTargets, \* objects; processes hooked
          MaxHook,                  \* WH_MAXHOOK, the size of m_handles
          MaxHookHandles            \* bound on the hooks ever installed

VARIABLES hookTable,    \* m_handles, and the memory before and behind it
          liveHooks,    \* hook -> type, target and the object that installed it
          hookTargets,  \* targets that have not exited
          hookObjects,  \* object -> target and m_module_handle, or NoHookObject
          dllLoads,     \* loads of the DLL that were not freed
          quickAddress  \* what quick_get_proc_address returned last: "none", "live" or "dangling"

hookVars == <<hookTable, liveHooks, hookTargets, hookObjects, dllLoads, quickAddress>>

ASSUME HookAssumption == MaxHook \in Nat \ {0} /\ MaxHookHandles \in Nat

NoHookObject == [target |-> "none", loaded |-> FALSE]
Foreign == MaxHookHandles + 1     \* a word of some other variable
AcceptedTypes == -1..MaxHook      \* WH_MINHOOK..WH_MAXHOOK
HooksMade == {h \in 1..MaxHookHandles : \E i \in AcceptedTypes : hookTable[i] = h} \union DOMAIN liveHooks

HookInit ==
  /\ hookTable \in [AcceptedTypes -> {0, Foreign}]
  /\ \A i \in 0..MaxHook - 1 : hookTable[i] = 0
  /\ liveHooks = [h \in {} |-> 0]
  /\ hookTargets = HookTargets
  /\ hookObjects = [o \in HookObjects |-> NoHookObject]
  /\ dllLoads = 0
  /\ quickAddress = "none"

\* WMHookingX for a process: LoadLibrary finds the DLL or does not.
MakeHooking(o, target) ==
  /\ hookObjects[o] = NoHookObject
  /\ \E loaded \in BOOLEAN :
       /\ hookObjects' = [hookObjects EXCEPT ![o] = [target |-> target, loaded |-> loaded]]
       /\ dllLoads' = dllLoads + (IF loaded THEN 1 ELSE 0)
  /\ UNCHANGED <<hookTable, liveHooks, hookTargets, quickAddress>>

\* A destructor that leaves the DLL loaded.
DestroyHookingNoFree(o) ==
  /\ hookObjects[o] # NoHookObject
  /\ hookObjects' = [hookObjects EXCEPT ![o] = NoHookObject]
  /\ UNCHANGED <<hookTable, liveHooks, hookTargets, dllLoads, quickAddress>>

\* The destructor frees the DLL, and leaves the hooks installed.
DestroyHooking(o) ==
  /\ hookObjects[o] # NoHookObject
  /\ hookObjects' = [hookObjects EXCEPT ![o] = NoHookObject]
  /\ dllLoads' = dllLoads - (IF hookObjects[o].loaded THEN 1 ELSE 0)
  /\ UNCHANGED <<hookTable, liveHooks, hookTargets, quickAddress>>

\* SetWindowsHookEx for the main thread of the target. Its failure, or that of the
\* steps before it, changes nothing; it succeeds with a procedure of a loaded DLL.
AddHook(o, type) ==
  /\ hookObjects[o].loaded /\ hookObjects[o].target \in hookTargets
  /\ 1..MaxHookHandles \ HooksMade # {}
  /\ LET h == Min(1..MaxHookHandles \ HooksMade)
     IN /\ liveHooks' = [g \in DOMAIN liveHooks \union {h} |->
                           IF g = h THEN [type |-> type, target |-> hookObjects[o].target, by |-> o]
                           ELSE liveHooks[g]]
        /\ hookTable' = [hookTable EXCEPT ![type] = h]
  /\ UNCHANGED <<hookTargets, hookObjects, dllLoads, quickAddress>>

\* A set_windows_hook_ex_X that does not look whether the type is taken.
SetWindowsHookUnchecked(o, type) == type \in AcceptedTypes /\ AddHook(o, type)

\* set_windows_hook_ex_X: the types below and above the table pass the range test.
SetWindowsHook(o, type) ==
  /\ type \in AcceptedTypes
  /\ hookTable[type] = 0
  /\ AddHook(o, type)

\* uninstall, of any object: the hook is the one in the table, whoever installed it.
UninstallHook(type) ==
  /\ \E o \in HookObjects : hookObjects[o] # NoHookObject
  /\ type \in AcceptedTypes
  /\ hookTable[type] \in DOMAIN liveHooks
  /\ liveHooks' = [h \in DOMAIN liveHooks \ {hookTable[type]} |-> liveHooks[h]]
  /\ hookTable' = [hookTable EXCEPT ![type] = 0]
  /\ UNCHANGED <<hookTargets, hookObjects, dllLoads, quickAddress>>

\* A hooked process exits, and its hooks go with it: uninstall then fails and
\* leaves their handles in the table, so that their types stay taken.
TargetExits(target) ==
  /\ target \in hookTargets
  /\ hookTargets' = hookTargets \ {target}
  /\ liveHooks' = [h \in {g \in DOMAIN liveHooks : liveHooks[g].target # target} |-> liveHooks[h]]
  /\ UNCHANGED <<hookTable, hookObjects, dllLoads, quickAddress>>

\* quick_get_proc_address frees the DLL before it returns the address in it.
QuickProcAddress ==
  /\ quickAddress' = IF dllLoads > 0 THEN "live" ELSE "dangling"
  /\ UNCHANGED <<hookTable, liveHooks, hookTargets, hookObjects, dllLoads>>

HookNext ==
  \/ \E o \in HookObjects :
       \/ \E target \in HookTargets : MakeHooking(o, target)
       \/ DestroyHooking(o)
       \/ \E type \in AcceptedTypes : SetWindowsHook(o, type)
  \/ \E type \in AcceptedTypes : UninstallHook(type)
  \/ \E target \in HookTargets : TargetExits(target)
  \/ QuickProcAddress

HookSpec == HookInit /\ [][HookNext]_hookVars

HookTypeOK ==
  /\ hookTable \in [AcceptedTypes -> 0..Foreign]
  /\ DOMAIN liveHooks \subseteq 1..MaxHookHandles
  /\ hookTargets \subseteq HookTargets
  /\ dllLoads = Cardinality({o \in HookObjects : hookObjects[o].loaded})
  /\ quickAddress \in {"none", "live", "dangling"}

\* No hook is ever lost: each one installed stands in the table under its own type,
\* so that some object can uninstall it, even after the object that installed it is
\* gone and after other processes with hooks have exited.
HooksTracked ==
  \A h \in DOMAIN liveHooks :
    /\ hookTable[liveHooks[h].type] = h
    /\ liveHooks[h].target \in hookTargets
====
