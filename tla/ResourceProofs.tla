--------------------------- MODULE ResourceProofs ---------------------------
(***************************************************************************)
(* Proofs about the wrappers that hold resources of the system - handles,  *)
(* views, hooks, descriptors, keys, pages and blocks of other processes,   *)
(* the one instance of a program, the singleton and the table of lock ids  *)
(* - for any number of objects, names and threads, and any number open.    *)
(***************************************************************************)
EXTENDS LibraryProperties, SocketObject, RegistryKey, SingleInstance, Process,
        InductionLemmas, SequenceTheorems, FiniteSetTheorems

\* The number the system gives out next is the least free one.
LEMMA NewIsFree ==
  ASSUME NEW limit \in Nat, NEW used \in SUBSET (1 .. limit), used # 1 .. limit
  PROVE  Min(1 .. limit \ used) \in 1 .. limit \ used
<1> DEFINE free == 1 .. limit \ used
<1>1. free # {}
  BY Zenon
<1>2. free \in SUBSET Nat
  OBVIOUS
<1> HIDE DEF free
<1>3. Min(free) \in free
  BY <1>1, <1>2, MinIsMember
<1> QED
  BY <1>3 DEF free

-----------------------------------------------------------------------------
(* FileMapping *)

MappingInv == MappingTypeOK /\ MappingHoldsItsOwn

LEMMA MappingInitInv == MappingInit => MappingInv
  BY MappingAssumption
     DEF MappingInit, MappingInv, MappingTypeOK, MappingHoldsItsOwn, Nothing, Invalid

\* Creating a section keeps the invariant, whatever table the handle held before is in.
LEMMA SharedKeeps ==
  ASSUME MappingTypeOK, NEW o \in MappingObjects, NEW table, NEW file \in 0 .. MaxMapHandles, NEW name,
         DOMAIN table \subseteq 1 .. MaxMapHandles, DOMAIN mapHandles \subseteq DOMAIN table,
         \A h \in DOMAIN mapHandles : table[h] = mapHandles[h],
         \A h \in DOMAIN table : table[h].kind \in {"file", "map"},
         file # Invalid => file \in DOMAIN table /\ table[file].kind = "file",
         \A p \in MappingObjects \ {o} : file # Invalid => mappings[p].file # file,
         MappingHoldsItsOwn, CreateShared(o, table, file, name), UNCHANGED views
  PROVE  MappingInv'
<1> USE MappingAssumption DEF MappingTypeOK
<1>1. PICK m \in 0 .. MaxMapHandles :
        /\ mappings' = [mappings EXCEPT ![o].file = file, ![o].map = m]
        /\ DOMAIN table \subseteq DOMAIN mapHandles' /\ DOMAIN mapHandles' \subseteq 1 .. MaxMapHandles
        /\ \A h \in DOMAIN table : mapHandles'[h] = table[h]
        /\ \A h \in DOMAIN mapHandles' : mapHandles'[h].kind \in {"file", "map"}
        /\ m # Invalid => m \notin DOMAIN table /\ m \in DOMAIN mapHandles' /\ mapHandles'[m].kind = "map"
  <2>1. CASE mapHandles' = table /\ mappings' = [mappings EXCEPT ![o].file = file, ![o].map = Invalid]
    <3> WITNESS Invalid \in 0 .. MaxMapHandles
    <3> QED
      BY <2>1 DEF Invalid
  <2>2. ASSUME NEW b, Room(table, MaxMapHandles),
               mapHandles' = Added(table, MaxMapHandles, MapHandle("map", name, b)),
               mappings' = [mappings EXCEPT ![o].file = file, ![o].map = NewIn(table, MaxMapHandles)]
        PROVE  \E m \in 0 .. MaxMapHandles :
                 /\ mappings' = [mappings EXCEPT ![o].file = file, ![o].map = m]
                 /\ DOMAIN table \subseteq DOMAIN mapHandles' /\ DOMAIN mapHandles' \subseteq 1 .. MaxMapHandles
                 /\ \A h \in DOMAIN table : mapHandles'[h] = table[h]
                 /\ \A h \in DOMAIN mapHandles' : mapHandles'[h].kind \in {"file", "map"}
                 /\ m # Invalid => m \notin DOMAIN table /\ m \in DOMAIN mapHandles' /\ mapHandles'[m].kind = "map"
    <3> DEFINE m == NewIn(table, MaxMapHandles)
               w == MapHandle("map", name, b)
    <3>1. /\ m \in 1 .. MaxMapHandles /\ m \notin DOMAIN table
          /\ DOMAIN mapHandles' = DOMAIN table \union {m} /\ mapHandles'[m] = w
          /\ \A x \in DOMAIN table : mapHandles'[x] = table[x]
      <4>1. DOMAIN table # 1 .. MaxMapHandles
        BY <2>2 DEF Room
      <4>2. m \in 1 .. MaxMapHandles \ DOMAIN table
        BY <4>1, NewIsFree, Zenon DEF NewIn
      <4>3. mapHandles' = [x \in DOMAIN table \union {m} |-> IF x = m THEN w ELSE table[x]]
        BY <2>2, Zenon DEF Added, NewIn
      <4> HIDE DEF m, w
      <4> QED
        BY <4>2, <4>3
    <3>2. w.kind = "map"
      BY DEF MapHandle
    <3> HIDE DEF m, w
    <3> WITNESS m \in 0 .. MaxMapHandles
    <3> QED
      BY <2>2, <3>1, <3>2 DEF m
  <2> QED
    BY <2>1, <2>2 DEF CreateShared
<1>2. /\ mappings'[o].file = file /\ mappings'[o].map = m /\ mappings'[o].data = mappings[o].data
      /\ \A p \in MappingObjects : p # o => mappings'[p] = mappings[p]
  BY <1>1
<1>3. MappingTypeOK'
  BY <1>1, ZenonT(40)
<1>4. MappingHoldsItsOwn'
  BY <1>1, <1>2 DEF MappingHoldsItsOwn
<1> QED
  BY <1>3, <1>4 DEF MappingInv

\* Each call of an object keeps what every object holds its own.
LEMMA MappingStep ==
  ASSUME MappingInv, NEW o \in MappingObjects,
         \/ \E name \in MappingNames \union {NoName} : CreateNamed(o, name)
         \/ \E name \in MappingNames : OpenNamed(o, name)
         \/ \E f \in EmptyFiles \union FullFiles : CreateWithinFile(o, f)
         \/ FileNotOpened(o) \/ View(o) \/ CloseMapping(o)
  PROVE  MappingInv'
<1> USE MappingAssumption DEF MappingInv, MappingTypeOK
<1>1. mappings[o].file \in 0 .. MaxMapHandles
  OBVIOUS
<1>2. ASSUME NEW name, CreateNamed(o, name) PROVE MappingInv'
  <2>1. CreateShared(o, mapHandles, mappings[o].file, name) /\ UNCHANGED views
    BY <1>2 DEF CreateNamed
  <2>2. /\ mappings[o].file # Invalid =>
             mappings[o].file \in DOMAIN mapHandles /\ mapHandles[mappings[o].file].kind = "file"
        /\ \A p \in MappingObjects \ {o} : mappings[o].file # Invalid => mappings[p].file # mappings[o].file
    BY DEF MappingHoldsItsOwn
  <2> QED
    BY <1>1, <2>1, <2>2, SharedKeeps
<1>3. ASSUME NEW f, CreateWithinFile(o, f) PROVE MappingInv'
  <2> DEFINE m == NewIn(mapHandles, MaxMapHandles)
             w == MapHandle("file", NoName, f)
             table == Added(mapHandles, MaxMapHandles, w)
  <2>1. DOMAIN mapHandles # 1 .. MaxMapHandles /\ CreateShared(o, table, m, NoName) /\ UNCHANGED views
    BY <1>3 DEF CreateWithinFile, Room
  <2>2. m \in 1 .. MaxMapHandles \ DOMAIN mapHandles
    BY <2>1, NewIsFree, Zenon DEF NewIn
  <2>3. table = [x \in DOMAIN mapHandles \union {m} |-> IF x = m THEN w ELSE mapHandles[x]]
    BY Zenon DEF Added, NewIn
  <2>4. w.kind = "file"
    BY DEF MapHandle
  <2> HIDE DEF m, w, table
  <2>5. /\ m \in 0 .. MaxMapHandles
        /\ DOMAIN table = DOMAIN mapHandles \union {m} /\ table[m] = w
        /\ \A h \in DOMAIN mapHandles : table[h] = mapHandles[h]
    BY <2>2, <2>3
  <2>6. \A p \in MappingObjects \ {o} : mappings[p].file # m
    BY <2>2 DEF MappingHoldsItsOwn, Invalid
  <2>7. /\ DOMAIN table \subseteq 1 .. MaxMapHandles /\ DOMAIN mapHandles \subseteq DOMAIN table
        /\ m \in DOMAIN table /\ table[m].kind = "file"
        /\ \A h \in DOMAIN table : table[h].kind \in {"file", "map"}
    BY <2>2, <2>4, <2>5
  <2> QED
    BY <2>1, <2>5, <2>6, <2>7, SharedKeeps
<1>4. ASSUME NEW name, OpenNamed(o, name) PROVE MappingInv'
  <2>1. CASE mappings' = [mappings EXCEPT ![o].map = Invalid] /\ UNCHANGED <<mapHandles, views>>
    <3>1. MappingTypeOK'
      BY <2>1 DEF Invalid
    <3>2. MappingHoldsItsOwn'
      BY <2>1 DEF MappingHoldsItsOwn, Invalid
    <3> QED
      BY <3>1, <3>2
  <2>2. CASE Named(mapHandles, name) # {}
    <3> DEFINE m == NewIn(mapHandles, MaxMapHandles)
               h0 == CHOOSE h \in Named(mapHandles, name) : TRUE
               w == mapHandles[h0]
    <3>1. /\ DOMAIN mapHandles # 1 .. MaxMapHandles
          /\ mapHandles' = Added(mapHandles, MaxMapHandles, w)
          /\ mappings' = [mappings EXCEPT ![o].map = m] /\ UNCHANGED views
      BY <1>4, <2>2 DEF OpenNamed, Room
    <3>2. m \in 1 .. MaxMapHandles \ DOMAIN mapHandles
      BY <3>1, NewIsFree, Zenon DEF NewIn
    <3>3. mapHandles' = [x \in DOMAIN mapHandles \union {m} |-> IF x = m THEN w ELSE mapHandles[x]]
      BY <3>1, Zenon DEF Added, NewIn
    <3>4. h0 \in Named(mapHandles, name)
      BY <2>2, Zenon
    <3>5. w.kind = "map"
      BY <3>4 DEF Named
    <3> HIDE DEF m, w, h0
    <3>6. MappingTypeOK'
      BY <3>1, <3>2, <3>3, <3>5
    <3>7. MappingHoldsItsOwn'
      BY <3>1, <3>2, <3>3, <3>5 DEF MappingHoldsItsOwn, Invalid
    <3> QED
      BY <3>6, <3>7
  <2> QED
    BY <1>4, <2>1, <2>2 DEF OpenNamed
<1>5. CASE FileNotOpened(o)
  <2>1. MappingTypeOK'
    BY <1>5 DEF FileNotOpened, Invalid
  <2>2. MappingHoldsItsOwn'
    BY <1>5 DEF FileNotOpened, MappingHoldsItsOwn, Invalid
  <2> QED
    BY <2>1, <2>2
<1>6. CASE View(o)
  <2>1. CASE mappings' = [mappings EXCEPT ![o].data = Invalid] /\ UNCHANGED <<mapHandles, views>>
    <3>1. MappingTypeOK'
      BY <2>1 DEF Invalid
    <3>2. MappingHoldsItsOwn'
      BY <2>1 DEF MappingHoldsItsOwn, Invalid
    <3> QED
      BY <3>1, <3>2
  <2>2. CASE Room(views, MaxViews) /\ views' = Added(views, MaxViews, mapHandles[mappings[o].map].backing)
             /\ mappings' = [mappings EXCEPT ![o].data = NewIn(views, MaxViews)] /\ UNCHANGED mapHandles
    <3> DEFINE m == NewIn(views, MaxViews)
               w == mapHandles[mappings[o].map].backing
    <3>1. DOMAIN views # 1 .. MaxViews
      BY <2>2 DEF Room
    <3>2. m \in 1 .. MaxViews \ DOMAIN views
      BY <3>1, NewIsFree, Zenon DEF NewIn
    <3>3. views' = [x \in DOMAIN views \union {m} |-> IF x = m THEN w ELSE views[x]]
      BY <2>2, Zenon DEF Added, NewIn
    <3>4. mappings' = [mappings EXCEPT ![o].data = m] /\ UNCHANGED mapHandles
      BY <2>2
    <3> HIDE DEF m, w
    <3>5. MappingTypeOK'
      BY <3>2, <3>3, <3>4
    <3>6. MappingHoldsItsOwn'
      BY <3>2, <3>3, <3>4 DEF MappingHoldsItsOwn, Invalid
    <3> QED
      BY <3>5, <3>6
  <2> QED
    BY <1>6, <2>1, <2>2 DEF View
<1>7. CASE CloseMapping(o)
  <2>1. /\ mappings' = [mappings EXCEPT ![o] = Nothing]
        /\ DOMAIN views' = DOMAIN views \ {mappings[o].data}
        /\ DOMAIN mapHandles' = DOMAIN mapHandles \ {mappings[o].map, mappings[o].file}
        /\ \A h \in DOMAIN mapHandles' : mapHandles'[h] = mapHandles[h]
    BY <1>7 DEF CloseMapping, Dropped
  <2>2. MappingTypeOK'
    BY <2>1 DEF Nothing, Invalid
  <2>3. MappingHoldsItsOwn'
    BY <2>1 DEF MappingHoldsItsOwn, Nothing, Invalid
  <2> QED
    BY <2>2, <2>3
<1> QED
  BY <1>2, <1>3, <1>4, <1>5, <1>6, <1>7

LEMMA MappingInvariant == MappingSpec => []MappingInv
<1>1. MappingInv /\ [MappingNext]_mappingVars => MappingInv'
  <2> SUFFICES ASSUME MappingInv, [MappingNext]_mappingVars PROVE MappingInv'
    OBVIOUS
  <2>1. CASE MappingNext
    BY <2>1, MappingStep, Zenon DEF MappingNext
  <2>2. CASE UNCHANGED mappingVars
    BY <2>2 DEF mappingVars, MappingInv, MappingTypeOK, MappingHoldsItsOwn
  <2> QED
    BY <2>1, <2>2
<1> QED
  BY <1>1, MappingInitInv, PTL DEF MappingSpec

-----------------------------------------------------------------------------
(* MessageHooks *)

HookParts ==
  /\ hookTable \in [AcceptedTypes -> 0 .. Foreign]
  /\ DOMAIN liveHooks \subseteq 1 .. MaxHookHandles
  /\ \A h \in DOMAIN liveHooks : liveHooks[h].type \in AcceptedTypes
HookInv == HookParts /\ HooksTracked

LEMMA HookInitInv == HookInit => HookInv
  BY HookAssumption DEF HookInit, HookInv, HookParts, HooksTracked, Foreign

\* A hook is added under a type whose place is free, and its number is of no other hook.
LEMMA SetHookKeeps ==
  ASSUME HookInv, NEW o \in HookObjects, NEW type \in AcceptedTypes, SetWindowsHook(o, type)
  PROVE  HookInv'
<1> USE HookAssumption DEF HookInv, HookParts, HooksTracked
<1> DEFINE h == Min(1 .. MaxHookHandles \ HooksMade)
           new == [type |-> type, target |-> hookObjects[o].target, by |-> o]
<1>1. /\ hookTable[type] = 0 /\ hookObjects[o].target \in hookTargets /\ UNCHANGED hookTargets
      /\ hookTable' = [hookTable EXCEPT ![type] = h]
      /\ liveHooks' = [g \in DOMAIN liveHooks \union {h} |-> IF g = h THEN new ELSE liveHooks[g]]
  BY DEF SetWindowsHook, AddHook
<1>2. h \in 1 .. MaxHookHandles /\ h \notin HooksMade
  <2> DEFINE free == 1 .. MaxHookHandles \ HooksMade
  <2>1. free # {}
    BY DEF SetWindowsHook, AddHook
  <2>2. free \in SUBSET Nat
    OBVIOUS
  <2> HIDE DEF free
  <2>3. Min(free) \in free
    BY <2>1, <2>2, MinIsMember
  <2> QED
    BY <2>3 DEF free
<1>3. h \notin DOMAIN liveHooks
  BY <1>2 DEF HooksMade
<1>4. new.type = type /\ new.target \in hookTargets
  BY <1>1
<1> HIDE DEF h, new
<1>5. \A g \in DOMAIN liveHooks : liveHooks[g].type # type
  BY <1>1
<1>6. HookParts'
  BY <1>1, <1>2, <1>4 DEF Foreign
<1>7. HooksTracked'
  BY <1>1, <1>3, <1>4, <1>5
<1> QED
  BY <1>6, <1>7

LEMMA HookInvariant == HookSpec => []HookInv
<1>1. ASSUME HookInv, [HookNext]_hookVars PROVE HookInv'
  <2> USE <1>1 DEF HookInv, HookParts, HooksTracked
  <2>1. ASSUME NEW o \in HookObjects, NEW type \in AcceptedTypes, SetWindowsHook(o, type) PROVE HookInv'
    BY <2>1, SetHookKeeps
  <2>2. ASSUME NEW type \in AcceptedTypes, UninstallHook(type) PROVE HookInv'
    <3>1. /\ liveHooks' = [h \in DOMAIN liveHooks \ {hookTable[type]} |-> liveHooks[h]]
          /\ hookTable' = [hookTable EXCEPT ![type] = 0] /\ UNCHANGED hookTargets
      BY <2>2 DEF UninstallHook
    <3>2. HookParts'
      BY <3>1, HookAssumption DEF Foreign
    <3>3. HooksTracked'
      BY <3>1
    <3> QED
      BY <3>2, <3>3
  <2>3. ASSUME NEW t \in HookTargets, TargetExits(t) PROVE HookInv'
    <3>1. /\ liveHooks' = [h \in {g \in DOMAIN liveHooks : liveHooks[g].target # t} |-> liveHooks[h]]
          /\ hookTargets' = hookTargets \ {t} /\ UNCHANGED hookTable
      BY <2>3 DEF TargetExits
    <3> QED
      BY <3>1
  <2>4. CASE UNCHANGED <<hookTable, liveHooks, hookTargets>>
    BY <2>4
  <2>5. ASSUME NEW o \in HookObjects, (\E t \in HookTargets : MakeHooking(o, t)) \/ DestroyHooking(o)
        PROVE  HookInv'
    BY <2>4, <2>5 DEF MakeHooking, DestroyHooking
  <2>6. CASE QuickProcAddress \/ UNCHANGED hookVars
    BY <2>4, <2>6 DEF QuickProcAddress, hookVars
  <2> QED
    BY <1>1, <2>1, <2>2, <2>3, <2>5, <2>6, Zenon DEF HookNext
<1> QED
  BY <1>1, HookInitInv, PTL DEF HookSpec

-----------------------------------------------------------------------------
(* ScopedHandle *)

ScopedParts ==
  /\ opened \in Nat /\ strayClose \in BOOLEAN
  /\ DOMAIN scopedOpen \subseteq 1 .. opened
  /\ scoped \in [ScopedObjects -> [value : Int, serial : Nat]]
  /\ \A o \in ScopedObjects : scoped[o].serial <= opened
\* Two objects hold one handle only when it was copied.
SharedIsCopied ==
  \A o, p \in ScopedObjects :
    o # p /\ Holds(o) /\ Holds(p) /\ scoped[o].serial = scoped[p].serial => scoped[o].serial \in copied
ScopedInv == ScopedParts /\ SharedIsCopied /\ ScopedHoldsItsOwn

LEMMA ScopedInitInv == ScopedInit => ScopedInv
<1> SUFFICES ASSUME ScopedInit PROVE ScopedInv
  OBVIOUS
<1>1. \A o \in ScopedObjects : scoped[o] = NotMade /\ ~ Holds(o)
  BY DEF ScopedInit, Holds
<1>2. ScopedParts
  <2>1. strayClose \in BOOLEAN
    BY Zenon DEF ScopedInit
  <2> QED
    BY <1>1, <2>1 DEF ScopedInit, ScopedParts, NotMade
<1>3. SharedIsCopied /\ ScopedHoldsItsOwn
  BY <1>1, Zenon DEF SharedIsCopied, ScopedHoldsItsOwn, Stray
<1> QED
  BY <1>2, <1>3 DEF ScopedInv

\* A handle that is new has a value that is not in use and a serial of its own.
LEMMA TakeHandleKeeps ==
  ASSUME ScopedInv, NEW o \in ScopedObjects, TakeHandle(o)
  PROVE  ScopedInv'
<1> USE ScopedAssumption DEF ScopedInv, ScopedParts
<1> DEFINE h == Min(1 .. MaxSerial \ DOMAIN scopedOpen)
           k == opened + 1
           new == [value |-> h, serial |-> k]
<1>1. /\ opened < MaxSerial /\ opened' = k /\ UNCHANGED <<copied, strayClose>>
      /\ scopedOpen' = [g \in DOMAIN scopedOpen \union {h} |-> IF g = h THEN k ELSE scopedOpen[g]]
      /\ scoped' = [scoped EXCEPT ![o] = new]
  BY DEF TakeHandle
<1>2. h \in 1 .. k /\ h \notin DOMAIN scopedOpen
  <2> DEFINE free == 1 .. MaxSerial \ DOMAIN scopedOpen
  <2>1. k \in free /\ free \in SUBSET Nat
    BY <1>1
  <2>2. free \subseteq 1 .. MaxSerial \ DOMAIN scopedOpen /\ h = Min(free)
    OBVIOUS
  <2> HIDE DEF free, h
  <2>3. h \in free /\ h <= k
    BY <2>1, <2>2, MinIsMember
  <2> QED
    BY <2>2, <2>3
<1>3. /\ new.value = h /\ new.serial = k /\ new \in [value : Int, serial : Nat]
  BY <1>2
<1> HIDE DEF h, new
<1>4. ScopedParts'
  <2>1. strayClose' \in BOOLEAN
    BY <1>1, Zenon
  <2> QED
    BY <1>1, <1>2, <1>3, <2>1
<1>5. scoped'[o] = new /\ \A p \in ScopedObjects \ {o} : scoped'[p] = scoped[p] /\ scoped[p].serial # k
  BY <1>1
<1>6. ~ Stray(o)'
  BY <1>1, <1>3, <1>5 DEF Stray
<1>7. ASSUME NEW p \in ScopedObjects, p # o PROVE (Holds(p)' <=> Holds(p)) /\ (Stray(p)' => Stray(p))
  <2>1. scoped'[p] = scoped[p] /\ scoped[p].serial # k
    BY <1>5, <1>7
  <2> HIDE DEF k
  <2>2. Holds(p)' <=> Holds(p)
    BY <2>1 DEF Holds
  <2> QED
    BY <1>1, <1>2, <2>1, <2>2 DEF Stray
<1>8. SharedIsCopied'
  BY <1>1, <1>3, <1>5, <1>7 DEF SharedIsCopied
<1>9. ScopedHoldsItsOwn'
  BY <1>1, <1>5, <1>6, <1>7 DEF ScopedHoldsItsOwn
<1> QED
  BY <1>4, <1>8, <1>9

\* A copy makes the handle a copied one.
LEMMA CopyScopedKeeps ==
  ASSUME ScopedInv, NEW o \in ScopedObjects, NEW right \in ScopedObjects, CopyScoped(o, right)
  PROVE  ScopedInv'
<1> USE DEF ScopedInv, ScopedParts
<1>1. /\ UNCHANGED <<scopedOpen, opened, strayClose>> /\ o # right
      /\ scoped' = [scoped EXCEPT ![o] = scoped[right]] /\ copied \subseteq copied'
      /\ Holds(right) => scoped[right].serial \in copied'
  BY DEF CopyScoped
<1>2. scoped'[o] = scoped[right] /\ \A p \in ScopedObjects \ {o} : scoped'[p] = scoped[p]
  BY <1>1
<1>3. Holds(o)' => Holds(right) /\ scoped'[o].serial \in copied'
  BY <1>1, <1>2 DEF Holds
<1>4. \A p \in ScopedObjects \ {o} : (Holds(p)' <=> Holds(p)) /\ (Stray(p)' <=> Stray(p))
  BY <1>1, <1>2 DEF Stray, Holds
<1>5. ScopedParts'
  BY <1>1, <1>2
<1>6. SharedIsCopied'
  BY <1>1, <1>2, <1>3, <1>4 DEF SharedIsCopied
<1>7. ScopedHoldsItsOwn'
  <2>1. Stray(o)' => Holds(o)'
    BY DEF Stray
  <2> QED
    BY <1>1, <1>2, <1>3, <1>4, <2>1 DEF ScopedHoldsItsOwn
<1> QED
  BY <1>5, <1>6, <1>7

\* A close takes the handle from another object only when the two held one handle, or when the
\* object that closes held one that was closed before.
LEMMA ClosesKeeps ==
  ASSUME ScopedInv, NEW o \in ScopedObjects, Made(o), Closes(o), NEW v \in {NoHandle, NotMade},
         scoped' = [scoped EXCEPT ![o] = v]
  PROVE  ScopedInv'
<1> USE DEF ScopedInv, ScopedParts
<1>1. /\ DOMAIN scopedOpen' = DOMAIN scopedOpen \ {scoped[o].value}
      /\ \A h \in DOMAIN scopedOpen' : scopedOpen'[h] = scopedOpen[h]
      /\ UNCHANGED <<opened, copied>> /\ scoped'[o] = v
      /\ \A p \in ScopedObjects \ {o} : scoped'[p] = scoped[p]
  BY DEF Closes
<1>2. /\ strayClose' \in BOOLEAN /\ (strayClose => strayClose') /\ (Stray(o) => strayClose')
  BY Zenon DEF Closes
<1>3. ~ Holds(o)' /\ \A p \in ScopedObjects \ {o} : Holds(p)' <=> Holds(p)
  BY <1>1 DEF Holds
<1>4. ScopedParts'
  BY <1>1, <1>2 DEF NoHandle, NotMade
<1>5. SharedIsCopied'
  BY <1>1, <1>3 DEF SharedIsCopied
<1>6. ASSUME NEW p \in ScopedObjects, Stray(p)' PROVE (scoped[p].serial \in copied \/ strayClose)'
  <2>1. p # o /\ Holds(p) /\ scoped'[p] = scoped[p]
    BY <1>1, <1>3, <1>6 DEF Stray
  <2>2. CASE Stray(p)
    BY <1>1, <1>2, <2>1, <2>2 DEF ScopedHoldsItsOwn
  <2>3. CASE ~ Stray(p)
    <3>1. scoped[p].value \in DOMAIN scopedOpen /\ scopedOpen[scoped[p].value] = scoped[p].serial
      BY <2>1, <2>3 DEF Stray
    <3>2. scoped[p].value = scoped[o].value
      BY <1>1, <1>6, <2>1, <3>1 DEF Stray
    <3>3. Holds(o)
      BY <3>1, <3>2 DEF Holds, Made, NoHandle
    <3>4. CASE scoped[o].serial = scoped[p].serial
      BY <1>1, <2>1, <3>3, <3>4 DEF SharedIsCopied
    <3>5. CASE scoped[o].serial # scoped[p].serial
      BY <1>2, <3>1, <3>2, <3>3, <3>5 DEF Stray
    <3> QED
      BY <3>4, <3>5
  <2> QED
    BY <2>2, <2>3
<1>7. ScopedHoldsItsOwn'
  BY <1>6 DEF ScopedHoldsItsOwn
<1> QED
  BY <1>4, <1>5, <1>7

LEMMA ScopedInvariant == ScopedSpec => []ScopedInv
<1>1. ASSUME ScopedInv, [ScopedNext]_scopedVars PROVE ScopedInv'
  <2>1. ASSUME NEW o \in ScopedObjects, ConstructScoped(o) PROVE ScopedInv'
    <3>1. /\ ~ Made(o) /\ scoped' = [scoped EXCEPT ![o] = NoHandle]
          /\ UNCHANGED <<scopedOpen, opened, copied, strayClose>>
      BY <2>1 DEF ConstructScoped
    <3>2. scoped \in [ScopedObjects -> [value : Int, serial : Nat]]
      BY <1>1 DEF ScopedInv, ScopedParts
    <3>3. ~ Holds(o)' /\ \A p \in ScopedObjects \ {o} : (Holds(p)' <=> Holds(p)) /\ scoped'[p] = scoped[p]
      BY <3>1, <3>2 DEF Holds
    <3>4. \A p \in ScopedObjects : Stray(p)' => p # o /\ Stray(p)
      BY <3>1, <3>3 DEF Stray
    <3>5. ScopedParts'
      BY <1>1, <3>1 DEF ScopedInv, ScopedParts, NoHandle
    <3>6. SharedIsCopied'
      BY <1>1, <3>1, <3>3 DEF ScopedInv, SharedIsCopied
    <3>7. ScopedHoldsItsOwn'
      BY <1>1, <3>1, <3>3, <3>4 DEF ScopedInv, ScopedHoldsItsOwn
    <3> QED
      BY <3>5, <3>6, <3>7 DEF ScopedInv
  <2>2. ASSUME NEW o \in ScopedObjects, CloseScoped(o) \/ DestroyScoped(o) PROVE ScopedInv'
    <3>1. CASE CloseScoped(o)
      <4>1. Made(o) /\ Closes(o) /\ scoped' = [scoped EXCEPT ![o] = NoHandle]
        BY <3>1 DEF CloseScoped, Holds, Made
      <4> QED
        BY <1>1, <4>1, ClosesKeeps
    <3>2. CASE DestroyScoped(o)
      <4>1. Made(o) /\ Closes(o) /\ scoped' = [scoped EXCEPT ![o] = NotMade]
        BY <3>2 DEF DestroyScoped
      <4> QED
        BY <1>1, <4>1, ClosesKeeps
    <3> QED
      BY <2>2, <3>1, <3>2
  <2>3. CASE UNCHANGED scopedVars
    BY <1>1, <2>3 DEF scopedVars, ScopedInv, ScopedParts, SharedIsCopied, ScopedHoldsItsOwn, Stray, Holds
  <2> QED
    BY <1>1, <2>1, <2>2, <2>3, TakeHandleKeeps, CopyScopedKeeps, Zenon DEF ScopedNext
<1> QED
  BY <1>1, ScopedInitInv, PTL DEF ScopedSpec

\* The files, maps and views of a mapping, the hooks of the table and the handle of a scoped
\* object that was not copied are the ones made for them, for any number of each.
THEOREM HeldByOwner == MappingSpec /\ HookSpec /\ ScopedSpec => []HeldByItsOwn
<1>1. MappingInv /\ HookInv /\ ScopedInv => HeldByItsOwn
  BY DEF MappingInv, HookInv, ScopedInv, HeldByItsOwn
<1> QED
  BY <1>1, MappingInvariant, HookInvariant, ScopedInvariant, PTL

-----------------------------------------------------------------------------
(* RemoteMemory *)

MemoryParts ==
  /\ layout \in [Pages -> {"none", "r", "rw", "free"}]
  /\ pages \in [Pages -> {"none", "r", "rw", "free", "rwx"}]
  /\ access \in [MemoryThreads ->
       [at : {"idle", "transfer", "restore"}, write : BOOLEAN, range : SUBSET Pages,
        force : BOOLEAN, old : {"unset", "none", "r", "rw", "rwx"}, done : BOOLEAN]]
\* What is not committed stays so, and a thread holds an old protection only in a forced
\* access to pages that are committed.
Committed ==
  /\ \A p \in Pages : pages[p] = "free" <=> layout[p] = "free"
  /\ \A t \in MemoryThreads : access[t].old # "unset" =>
       access[t].force /\ access[t].at # "idle" /\ \A p \in access[t].range : layout[p] # "free"
Covers(t, p) == access[t].old # "unset" /\ p \in access[t].range
\* The protection a page had at first is on the page or with the one thread that covers it.
AccountedFor(p) ==
  /\ \A t, u \in MemoryThreads : Covers(t, p) /\ Covers(u, p) => t = u
  /\ \A t \in MemoryThreads : Covers(t, p) => access[t].old = layout[p]
  /\ (\A t \in MemoryThreads : ~ Covers(t, p)) => pages[p] = layout[p]
MemoryInv == MemoryParts /\ Committed /\ \A p \in Pages \ spoiled : AccountedFor(p)

LEMMA MemoryInitInv == MemoryInit => MemoryInv
<1> SUFFICES ASSUME MemoryInit PROVE MemoryInv
  OBVIOUS
<1>1. /\ layout \in [Pages -> {"none", "r", "rw", "free"}] /\ pages = layout
      /\ access = [t \in MemoryThreads |-> NotAccessing]
  BY RemoteMemoryAssumption DEF MemoryInit, Pages
<1>2. MemoryParts
  <2>1. NotAccessing \in [at : {"idle", "transfer", "restore"}, write : BOOLEAN, range : SUBSET Pages,
                          force : BOOLEAN, old : {"unset", "none", "r", "rw", "rwx"}, done : BOOLEAN]
    BY DEF NotAccessing
  <2> QED
    BY <1>1, <2>1 DEF MemoryParts
<1>3. \A t \in MemoryThreads : access[t].old = "unset"
  BY <1>1 DEF NotAccessing
<1> QED
  BY <1>1, <1>2, <1>3 DEF MemoryInv, Committed, AccountedFor, Covers

\* A thread that takes a range takes one protection, the one each page had at first, unless
\* the range is spoiled.
LEMMA BeginAccessKeeps ==
  ASSUME MemoryInv, NEW t \in MemoryThreads, NEW range \in Ranges, NEW write \in BOOLEAN,
         NEW force \in BOOLEAN, BeginAccess(t, range, write, force)
  PROVE  MemoryInv'
<1> USE DEF MemoryInv, MemoryParts
<1> DEFINE ok == force /\ CanProtect(range, "rwx")
           old == IF ok THEN pages[First(range)] ELSE "unset"
           begun == [at |-> "transfer", write |-> write, range |-> range, force |-> force,
                     old |-> old, done |-> FALSE]
<1>1. range \in SUBSET Pages /\ range # {} /\ First(range) \in range
  <2>1. range \in SUBSET Pages /\ range # {}
    BY RemoteMemoryAssumption DEF Ranges, Pages
  <2>2. range \in SUBSET Nat
    BY <2>1, RemoteMemoryAssumption DEF Pages
  <2>3. \E p \in range : \A q \in range : p <= q
    BY <2>1, <2>2, LeastNumber
  <2> QED
    BY <2>1, <2>3, Zenon DEF First
<1>2. access[t].at = "idle" /\ access' = [access EXCEPT ![t] = begun] /\ UNCHANGED layout
  BY Zenon DEF BeginAccess
<1>3. ok => force /\ (\A p \in range : pages[p] # "free")
  BY DEF CanProtect
<1>4. old \in {"unset", "none", "r", "rw", "rwx"} /\ (old # "unset" <=> ok)
  BY <1>1, <1>3
<1>5. begun.old = old /\ begun.range = range /\ begun.force = force /\ begun.at = "transfer"
  OBVIOUS
<1>6. begun \in [at : {"idle", "transfer", "restore"}, write : BOOLEAN, range : SUBSET Pages,
                 force : BOOLEAN, old : {"unset", "none", "r", "rw", "rwx"}, done : BOOLEAN]
  BY <1>1, <1>4, Zenon
<1>7. pages' = IF ok THEN [p \in Pages |-> IF p \in range THEN "rwx" ELSE pages[p]] ELSE pages
  BY Zenon DEF BeginAccess, Protected
<1>8. spoiled \subseteq spoiled'
  BY DEF BeginAccess
<1>9. ASSUME ok PROVE /\ range \ spoiled' # {} => \A p \in range : pages[p] = old
                      /\ \A p \in range \ spoiled', u \in MemoryThreads \ {t} : ~ Covers(u, p)
  <2>1. spoiled' = spoiled \union Mixed(range)
                     \union (IF Shared(t, range) # {} THEN range \union Shared(t, range) ELSE {})
    BY <1>9, Zenon DEF BeginAccess
  <2>2. range \ spoiled' # {} => \A p \in range : pages[p] = old
    BY <1>1, <1>9, <2>1 DEF Mixed
  <2>3. ASSUME NEW p \in range \ spoiled', NEW u \in MemoryThreads \ {t}, Covers(u, p) PROVE FALSE
    <3>1. access[u].old # "unset" /\ p \in access[u].range /\ p \in access[u].range \intersect range
      BY <2>3 DEF Covers
    <3>2. p \in Shared(t, range)
      BY <3>1 DEF Shared
    <3> QED
      BY <2>1, <2>3, <3>2
  <2> QED
    BY <2>2, <2>3
<1> HIDE DEF begun, old, ok
<1>10. access'[t] = begun /\ \A u \in MemoryThreads \ {t} : access'[u] = access[u]
  BY <1>2
<1>11. \A p \in Pages : /\ Covers(t, p)' <=> ok /\ p \in range
                        /\ \A u \in MemoryThreads \ {t} : Covers(u, p)' <=> Covers(u, p)
                        /\ ~ Covers(t, p)
  BY <1>2, <1>4, <1>5, <1>10 DEF Covers, Committed
<1>12. MemoryParts'
  BY <1>2, <1>6, <1>7
<1>13. Committed'
  <2>1. \A p \in Pages : (pages[p] = "free" <=> layout[p] = "free")'
    BY <1>2, <1>3, <1>7 DEF Committed
  <2>2. ok => \A p \in range : layout[p] # "free"
    BY <1>1, <1>3 DEF Committed
  <2> QED
    BY <1>2, <1>3, <1>4, <1>5, <1>10, <2>1, <2>2 DEF Committed
<1>14. ASSUME NEW p \in Pages \ spoiled' PROVE AccountedFor(p)'
  <2>1. AccountedFor(p)
    BY <1>8
  <2>2. CASE ok /\ p \in range
    <3>1. pages[p] = old /\ \A u \in MemoryThreads : ~ Covers(u, p)
      BY <1>9, <1>11, <2>2
    <3>2. old = layout[p]
      BY <2>1, <3>1 DEF AccountedFor
    <3>3. \A u \in MemoryThreads : Covers(u, p)' <=> u = t
      BY <1>11, <2>2, <3>1
    <3> QED
      BY <1>2, <1>5, <1>10, <3>2, <3>3 DEF AccountedFor
  <2>3. CASE ~ (ok /\ p \in range)
    <3>1. \A u \in MemoryThreads : /\ Covers(u, p)' <=> Covers(u, p)
                                   /\ Covers(u, p) => access'[u] = access[u]
      BY <1>10, <1>11, <2>3
    <3>2. pages'[p] = pages[p] /\ layout'[p] = layout[p]
      BY <1>2, <1>7, <2>3
    <3>3. \A u, v \in MemoryThreads : Covers(u, p)' /\ Covers(v, p)' => u = v
      BY <2>1, <3>1, Zenon DEF AccountedFor
    <3>4. \A u \in MemoryThreads : Covers(u, p)' => access'[u].old = layout'[p]
      BY <2>1, <3>1, <3>2, Zenon DEF AccountedFor
    <3>5. (\A u \in MemoryThreads : ~ Covers(u, p)') => pages'[p] = layout'[p]
      BY <2>1, <3>1, <3>2, Zenon DEF AccountedFor
    <3> QED
      BY <3>3, <3>4, <3>5, Zenon DEF AccountedFor
  <2> QED
    BY <2>2, <2>3
<1> QED
  BY <1>12, <1>13, <1>14

\* The last step of an access puts the old protection back on the whole of its range.
LEMMA RestoreKeeps ==
  ASSUME MemoryInv, NEW t \in MemoryThreads, Restore(t)
  PROVE  MemoryInv'
<1> USE DEF MemoryInv, MemoryParts
<1> DEFINE old == access[t].old
<1>1. /\ pages' = IF access[t].force /\ CanProtect(access[t].range, old)
                   THEN [p \in Pages |-> IF p \in access[t].range THEN old ELSE pages[p]] ELSE pages
      /\ access' = [access EXCEPT ![t] = NotAccessing] /\ UNCHANGED <<layout, spoiled>>
  BY DEF Restore, Protected
<1>2. access[t].range \in SUBSET Pages /\ old \in {"unset", "none", "r", "rw", "rwx"}
  OBVIOUS
<1>3. access[t].force /\ CanProtect(access[t].range, old) <=> old # "unset"
  BY <1>2 DEF CanProtect, Committed
<1>4. pages' = IF old # "unset" THEN [p \in Pages |-> IF p \in access[t].range THEN old ELSE pages[p]] ELSE pages
  BY <1>1, <1>3
<1>5. access'[t] = NotAccessing /\ \A u \in MemoryThreads \ {t} : access'[u] = access[u]
  BY <1>1
<1>6. NotAccessing \in [at : {"idle", "transfer", "restore"}, write : BOOLEAN, range : SUBSET Pages,
                        force : BOOLEAN, old : {"unset", "none", "r", "rw", "rwx"}, done : BOOLEAN]
  BY DEF NotAccessing
<1>7. \A p \in Pages : /\ ~ Covers(t, p)' /\ (Covers(t, p) <=> old # "unset" /\ p \in access[t].range)
                       /\ \A u \in MemoryThreads \ {t} : Covers(u, p)' <=> Covers(u, p)
  BY <1>5 DEF Covers, NotAccessing
<1>8. MemoryParts'
  <2>1. pages' \in [Pages -> {"none", "r", "rw", "free", "rwx"}]
    BY <1>2, <1>4
  <2>2. access' \in [MemoryThreads ->
       [at : {"idle", "transfer", "restore"}, write : BOOLEAN, range : SUBSET Pages,
        force : BOOLEAN, old : {"unset", "none", "r", "rw", "rwx"}, done : BOOLEAN]]
    BY <1>1, <1>6
  <2> QED
    BY <1>1, <2>1, <2>2
<1>9. Committed'
  <2>1. \A p \in Pages : (pages[p] = "free" <=> layout[p] = "free")'
    BY <1>1, <1>2, <1>4 DEF Committed
  <2> QED
    BY <1>1, <1>5, <2>1 DEF Committed, NotAccessing
<1>10. ASSUME NEW p \in Pages \ spoiled' PROVE AccountedFor(p)'
  <2>1. AccountedFor(p)
    BY <1>1
  <2>2. CASE Covers(t, p)
    <3>1. pages'[p] = layout[p]
      BY <1>4, <1>7, <2>1, <2>2 DEF AccountedFor
    <3>2. \A u \in MemoryThreads : ~ Covers(u, p)'
      BY <1>7, <2>1, <2>2 DEF AccountedFor
    <3> QED
      BY <1>1, <3>1, <3>2 DEF AccountedFor
  <2>3. CASE ~ Covers(t, p)
    <3>1. pages'[p] = pages[p]
      BY <1>4, <1>7, <2>3
    <3>2. \A u \in MemoryThreads : (Covers(u, p)' <=> Covers(u, p)) /\ (Covers(u, p) => access'[u] = access[u])
      BY <1>5, <1>7, <2>3
    <3> QED
      BY <1>1, <2>1, <3>1, <3>2 DEF AccountedFor
  <2> QED
    BY <2>2, <2>3
<1> QED
  BY <1>8, <1>9, <1>10

LEMMA MemoryInvariant == MemorySpec => []MemoryInv
<1>1. ASSUME MemoryInv, [MemoryNext]_memoryVars PROVE MemoryInv'
  <2>1. ASSUME NEW t \in MemoryThreads, Transfer(t) PROVE MemoryInv'
    <3>0. PICK granted \in BOOLEAN :
            access' = [access EXCEPT ![t].at = "restore",
              ![t].done = granted /\ \A p \in access[t].range : Permits(pages[p], access[t].write)]
      BY <2>1, Zenon DEF Transfer
    <3> DEFINE whole == granted /\ \A p \in access[t].range : Permits(pages[p], access[t].write)
    <3>1. /\ access' = [access EXCEPT ![t].at = "restore", ![t].done = whole]
          /\ UNCHANGED <<layout, pages, spoiled>> /\ whole \in BOOLEAN
      BY <2>1, <3>0, Zenon DEF Transfer
    <3> HIDE DEF whole
    <3>2. MemoryParts'
      <4> DEFINE accesses == [at : {"idle", "transfer", "restore"}, write : BOOLEAN, range : SUBSET Pages,
                              force : BOOLEAN, old : {"unset", "none", "r", "rw", "rwx"}, done : BOOLEAN]
                 was == access[t]
                 now == [was EXCEPT !.at = "restore", !.done = whole]
      <4>1. access \in [MemoryThreads -> accesses] /\ was \in accesses
        BY <1>1 DEF MemoryInv, MemoryParts
      <4>2. access' = [access EXCEPT ![t] = now]
        BY <3>1
      <4> HIDE DEF was
      <4>3. now \in accesses
        BY <3>1, <4>1
      <4> HIDE DEF now, accesses
      <4>4. access' \in [MemoryThreads -> accesses]
        BY <4>1, <4>2, <4>3
      <4> QED
        BY <1>1, <3>1, <4>4 DEF MemoryInv, MemoryParts, accesses
    <3>3. \A u \in MemoryThreads :
            /\ access'[u].old = access[u].old /\ access'[u].range = access[u].range
            /\ access'[u].force = access[u].force /\ (access'[u].at # "idle" \/ access'[u] = access[u])
      BY <1>1, <3>1 DEF MemoryInv, MemoryParts
    <3>4. \A u \in MemoryThreads, p \in Pages : Covers(u, p)' <=> Covers(u, p)
      BY <3>3 DEF Covers
    <3>5. Committed'
      BY <1>1, <3>1, <3>3, ZenonT(40) DEF MemoryInv, Committed
    <3>6. ASSUME NEW p \in Pages \ spoiled' PROVE AccountedFor(p)'
      BY <1>1, <3>1, <3>3, <3>4 DEF MemoryInv, AccountedFor
    <3> QED
      BY <3>2, <3>5, <3>6 DEF MemoryInv
  <2>2. CASE UNCHANGED memoryVars
    BY <1>1, <2>2 DEF memoryVars, MemoryInv, MemoryParts, Committed, AccountedFor, Covers
  <2> QED
    BY <1>1, <2>1, <2>2, BeginAccessKeeps, RestoreKeeps, Zenon DEF MemoryNext
<1> QED
  BY <1>1, MemoryInitInv, PTL DEF MemorySpec

LEMMA ProtectionKept == MemoryInv => ProtectionRestored
  BY DEF MemoryInv, Committed, AccountedFor, Covers, ProtectionRestored

-----------------------------------------------------------------------------
(* DllInjection *)

InjectorType == [at : {"idle", "checked", "allocated", "written", "waiting"},
                 dll : Dlls \union {NoDll}, wait : BOOLEAN, block : 0 .. MaxBlocks]
UsesBlock(i) == injectors[i].at \in {"allocated", "written", "waiting"}

InjectParts ==
  /\ injectors \in [Injectors -> InjectorType]
  /\ target \in [at : {"running", "exited"}, loads : [Dlls -> 0 .. 2]]
  /\ DOMAIN blocks \subseteq 1 .. MaxBlocks /\ \A b \in DOMAIN blocks : blocks[b] \in Dlls \union {NoDll}
  /\ left \subseteq DOMAIN blocks
  /\ \A i \in Injectors : injectors[i].at = "idle" <=> injectors[i].dll = NoDll
\* Nothing outlives the target.
GoneEmpty == target.at = "exited" =>
  DOMAIN blocks = {} /\ loaders = {} /\ left = {} /\ \A d \in Dlls : target.loads[d] = 0
\* In a target that runs, an injection has a block of its own with its path in it.
BlocksOwned == target.at = "running" => \A i \in Injectors : UsesBlock(i) =>
  /\ injectors[i].block \in DOMAIN blocks \ left
  /\ injectors[i].at # "allocated" => blocks[injectors[i].block] = injectors[i].dll
  /\ \A j \in Injectors : UsesBlock(j) /\ injectors[j].block = injectors[i].block => i = j
BlocksUsed == \A b \in DOMAIN blocks : b \notin left => \E i \in Injectors : UsesBlock(i) /\ injectors[i].block = b
LoadersRead == \A b \in loaders :
  /\ b \in DOMAIN blocks /\ blocks[b] # NoDll
  /\ b \notin left => \E i \in Injectors : injectors[i].at = "waiting" /\ injectors[i].block = b
\* A DLL that one thread at a time injects, and that no block left behind is of, is loaded once,
\* by an injection that goes on to wait and has nothing more to load.
InjectedAlone(d) == \A i, j \in Injectors : injectors[i].dll = d /\ injectors[j].dll = d => i = j
LoadedOnce(d) == (\A b \in left : blocks[b] # d) =>
  /\ target.loads[d] <= 1
  /\ target.loads[d] = 1 => \A i \in Injectors : injectors[i].dll = d =>
       injectors[i].at = "waiting" /\ injectors[i].block \notin loaders
Recognised == Dlls \ (LongNames \union overlapped)
InjectInv ==
  /\ InjectParts /\ GoneEmpty /\ BlocksOwned /\ BlocksUsed /\ LoadersRead
  /\ \A d \in Recognised : InjectedAlone(d) /\ LoadedOnce(d)

LEMMA InjectInitInv == InjectInit => InjectInv
<1> SUFFICES ASSUME InjectInit PROVE InjectInv
  OBVIOUS
<1>1. /\ injectors = [i \in Injectors |-> IdleInjector]
      /\ target = [at |-> "running", loads |-> [d \in Dlls |-> 0]]
      /\ DOMAIN blocks = {} /\ loaders = {} /\ left = {}
  BY DEF InjectInit, NoBlocks
<1>2. IdleInjector \in InjectorType
  BY InjectAssumption, Z3 DEF InjectorType, IdleInjector
<1>3. \A i \in Injectors : injectors[i].at = "idle" /\ injectors[i].dll = NoDll
  BY <1>1 DEF IdleInjector
<1>4. InjectParts
  BY <1>1, <1>2, <1>3 DEF InjectParts
<1>5. GoneEmpty /\ BlocksOwned /\ BlocksUsed /\ LoadersRead
  BY <1>1, <1>3 DEF GoneEmpty, BlocksOwned, BlocksUsed, LoadersRead, UsesBlock
<1>6. \A d \in Dlls : InjectedAlone(d) /\ LoadedOnce(d)
  BY <1>1, <1>3, InjectAssumption DEF InjectedAlone, LoadedOnce
<1> QED
  BY <1>4, <1>5, <1>6 DEF InjectInv, Recognised

\* A test of the target finds a DLL that was loaded, when its name is recognised.
LEMMA CheckTargetKeeps ==
  ASSUME InjectInv, NEW i \in Injectors, NEW dll \in Dlls, NEW wait \in BOOLEAN, CheckTarget(i, dll, wait)
  PROVE  InjectInv'
<1> USE InjectAssumption DEF InjectInv
<1> DEFINE new == [at |-> "checked", dll |-> dll, wait |-> wait, block |-> 0]
<1>1. /\ injectors[i].at = "idle" /\ injectors' = [injectors EXCEPT ![i] = new]
      /\ UNCHANGED <<target, blocks, loaders, left>> /\ overlapped \subseteq overlapped'
      /\ Injecting(dll) # {} => dll \in overlapped'
  BY DEF CheckTarget
<1>2. dll \notin LongNames /\ target.at = "running" => ~ (target.loads[dll] > 0)
  BY DEF CheckTarget, RemoteModule
<1>3. new \in InjectorType
  BY Z3 DEF InjectorType
<1>4. injectors'[i] = new /\ \A j \in Injectors \ {i} : injectors'[j] = injectors[j]
  BY <1>1 DEF InjectParts
<1>5. InjectParts'
  BY <1>1, <1>3 DEF InjectParts
<1>6. \A j \in Injectors : /\ UsesBlock(j)' <=> UsesBlock(j)
                           /\ UsesBlock(j) => injectors'[j] = injectors[j] /\ j # i
  BY <1>1, <1>4 DEF UsesBlock
<1>7. \A j \in Injectors : injectors[j].at = "waiting" <=> injectors'[j].at = "waiting"
  BY <1>1, <1>4
<1>8. GoneEmpty' /\ BlocksUsed'
  BY <1>1, <1>6 DEF GoneEmpty, BlocksUsed
<1>9. BlocksOwned'
  BY <1>1, <1>6 DEF BlocksOwned
<1>10. LoadersRead'
  BY <1>1, <1>4, <1>7 DEF LoadersRead
<1>11. ASSUME NEW d \in Recognised' PROVE InjectedAlone(d)' /\ LoadedOnce(d)'
  <2>1. d \in Recognised /\ InjectedAlone(d) /\ LoadedOnce(d)
    BY <1>1 DEF Recognised
  <2>2. CASE d = dll
    <3>1. \A j \in Injectors : injectors[j].dll # d
      BY <1>1, <2>2 DEF Recognised, Injecting
    <3>2. target.loads[d] = 0
      <4>1. target.loads[d] \in 0 .. 2 /\ dll \notin LongNames /\ target.at \in {"running", "exited"}
        BY <2>1, <2>2 DEF InjectParts, Recognised
      <4> QED
        BY <1>2, <2>2, <4>1 DEF GoneEmpty
    <3>3. InjectedAlone(d)'
      BY <1>4, <3>1 DEF InjectedAlone
    <3> QED
      BY <1>1, <3>2, <3>3 DEF LoadedOnce
  <2>3. CASE d # dll
    <3>1. \A j \in Injectors : injectors'[j].dll = d => injectors[j].dll = d /\ injectors'[j] = injectors[j]
      BY <1>4, <2>3
    <3> QED
      BY <1>1, <2>1, <3>1 DEF InjectedAlone, LoadedOnce
  <2> QED
    BY <2>2, <2>3
<1> QED
  BY <1>5, <1>8, <1>9, <1>10, <1>11

\* A block that is new is of one injection, and is not written yet.
LEMMA AllocateBlockKeeps ==
  ASSUME InjectInv, NEW i \in Injectors, injectors[i].at = "checked", target.at = "running",
         NEW b \in 1 .. MaxBlocks, b \notin DOMAIN blocks,
         blocks' = [c \in DOMAIN blocks \union {b} |-> IF c = b THEN NoDll ELSE blocks[c]],
         injectors' = [injectors EXCEPT ![i].at = "allocated", ![i].block = b],
         UNCHANGED <<target, loaders, overlapped, left>>
  PROVE  InjectInv'
<1> USE InjectAssumption DEF InjectInv
<1>1. /\ injectors'[i].at = "allocated" /\ injectors'[i].block = b /\ injectors'[i].dll = injectors[i].dll
      /\ injectors'[i] \in InjectorType
      /\ \A j \in Injectors \ {i} : injectors'[j] = injectors[j]
  <2>1. i \in DOMAIN injectors /\ injectors[i] \in InjectorType
    BY DEF InjectParts
  <2>2. /\ injectors'[i] = [injectors[i] EXCEPT !.at = "allocated", !.block = b]
        /\ \A j \in Injectors \ {i} : injectors'[j] = injectors[j]
    BY <2>1 DEF InjectParts
  <2> DEFINE was == injectors[i]
  <2>3. was \in InjectorType
    BY <2>1
  <2> HIDE DEF was
  <2> DEFINE new == [was EXCEPT !.at = "allocated", !.block = b]
  <2>4. new = [at |-> "allocated", dll |-> was.dll, wait |-> was.wait, block |-> b]
    <3>1. was = [at |-> was.at, dll |-> was.dll, wait |-> was.wait, block |-> was.block]
      BY <2>3 DEF InjectorType
    <3>2. ASSUME NEW u, NEW v, NEW w, NEW c, was = [at |-> u, dll |-> v, wait |-> w, block |-> c]
          PROVE  new = [at |-> "allocated", dll |-> v, wait |-> w, block |-> b]
      <4>1. [was EXCEPT !.at = "allocated"] = [at |-> "allocated", dll |-> v, wait |-> w, block |-> c]
        BY <3>2
      <4>2. [[at |-> "allocated", dll |-> v, wait |-> w, block |-> c] EXCEPT !.block = b]
              = [at |-> "allocated", dll |-> v, wait |-> w, block |-> b]
        OBVIOUS
      <4> QED
        BY <4>1, <4>2
    <3> QED
      BY <3>1, <3>2, Zenon
  <2>5. was.dll \in Dlls \union {NoDll} /\ was.wait \in BOOLEAN
    BY <2>3, Z3 DEF InjectorType
  <2>6. injectors'[i] = new
    BY <2>2 DEF was
  <2> HIDE DEF new
  <2>7. new \in InjectorType
    BY <2>4, <2>5, Z3 DEF InjectorType
  <2>8. new.at = "allocated" /\ new.block = b /\ new.dll = was.dll
    BY <2>4
  <2> QED
    BY <2>2, <2>6, <2>7, <2>8 DEF was
<1>2. InjectParts'
  BY <1>1 DEF InjectParts, InjectorType
<1>3. \A j \in Injectors : UsesBlock(j)' <=> UsesBlock(j) \/ j = i
  BY <1>1 DEF UsesBlock
<1>4. GoneEmpty'
  BY DEF GoneEmpty
<1>5. ~ UsesBlock(i)
  BY DEF UsesBlock
<1>6. \A j \in Injectors \ {i} : UsesBlock(j) =>
        /\ injectors[j].block \in DOMAIN blocks \ left /\ injectors[j].block # b
        /\ injectors[j].at # "allocated" => blocks[injectors[j].block] = injectors[j].dll
        /\ blocks'[injectors[j].block] = blocks[injectors[j].block]
        /\ \A k \in Injectors : UsesBlock(k) /\ injectors[k].block = injectors[j].block => j = k
  <2> TAKE j \in Injectors \ {i}
  <2> HAVE UsesBlock(j)
  <2>1. /\ injectors[j].block \in DOMAIN blocks \ left /\ injectors[j].block # b
        /\ injectors[j].at # "allocated" => blocks[injectors[j].block] = injectors[j].dll
    BY DEF BlocksOwned
  <2>2. \A k \in Injectors : UsesBlock(k) /\ injectors[k].block = injectors[j].block => j = k
    BY DEF BlocksOwned
  <2> QED
    BY <2>1, <2>2
<1>0. left' = left /\ b \notin left /\ DOMAIN blocks' = DOMAIN blocks \union {b} /\ loaders' = loaders
  BY DEF InjectParts
<1>7. BlocksOwned' /\ BlocksUsed'
  <2>1. ASSUME NEW j \in Injectors, UsesBlock(j)'
        PROVE  (/\ injectors[j].block \in DOMAIN blocks \ left
                /\ injectors[j].at # "allocated" => blocks[injectors[j].block] = injectors[j].dll)'
    <3>1. CASE j = i
      BY <1>0, <1>1, <3>1
    <3>2. CASE j # i
      <4>1. UsesBlock(j) /\ injectors'[j] = injectors[j]
        BY <1>1, <1>3, <2>1, <3>2
      <4> QED
        BY <1>0, <1>6, <3>2, <4>1
    <3> QED
      BY <3>1, <3>2
  <2>2. ASSUME NEW j \in Injectors, NEW k \in Injectors, UsesBlock(j)', UsesBlock(k)',
               (injectors[j].block = injectors[k].block)'
        PROVE  k = j
    <3>1. CASE j = i
      BY <1>1, <1>3, <1>6, <2>2, <3>1, SMTT(30)
    <3>2. CASE j # i
      <4>1. UsesBlock(j) /\ injectors'[j] = injectors[j]
        BY <1>1, <1>3, <2>2, <3>2
      <4>2. injectors[j].block # b /\ \A l \in Injectors : UsesBlock(l) /\ injectors[l].block = injectors[j].block => j = l
        BY <1>6, <3>2, <4>1
      <4>3. k # i
        BY <1>1, <2>2, <4>1, <4>2
      <4>4. UsesBlock(k) /\ injectors'[k] = injectors[k]
        BY <1>1, <1>3, <2>2, <4>3
      <4> QED
        BY <2>2, <4>1, <4>2, <4>4
    <3> QED
      BY <3>1, <3>2
  <2>3. ASSUME NEW c \in DOMAIN blocks', c \notin left
        PROVE  (\E j \in Injectors : UsesBlock(j) /\ injectors[j].block = c)'
    <3>1. CASE c = b
      BY <1>1, <1>3, <3>1
    <3>2. CASE c # b
      <4>1. PICK j \in Injectors : UsesBlock(j) /\ injectors[j].block = c
        BY <1>0, <2>3, <3>2 DEF BlocksUsed
      <4>2. UsesBlock(j)' /\ injectors'[j] = injectors[j]
        BY <1>1, <1>3, <1>5, <4>1
      <4> QED
        BY <4>1, <4>2
    <3> QED
      BY <3>1, <3>2
  <2> QED
    <3>1. BlocksOwned'
      BY <2>1, <2>2, Zenon DEF BlocksOwned
    <3>2. BlocksUsed'
      BY <1>0, <2>3, Zenon DEF BlocksUsed
    <3> QED
      BY <3>1, <3>2, Zenon
<1>8. LoadersRead'
  <2>1. ASSUME NEW c \in loaders PROVE c \in DOMAIN blocks' /\ blocks'[c] # NoDll
    BY <1>0, <2>1 DEF LoadersRead
  <2>2. ASSUME NEW c \in loaders, c \notin left
        PROVE  \E j \in Injectors : injectors'[j].at = "waiting" /\ injectors'[j].block = c
    <3>1. PICK j \in Injectors : injectors[j].at = "waiting" /\ injectors[j].block = c
      BY <2>2 DEF LoadersRead
    <3>2. j # i
      BY <3>1
    <3> QED
      BY <1>1, <3>1, <3>2
  <2> QED
    BY <1>0, <2>1, <2>2 DEF LoadersRead
<1>9. ASSUME NEW d \in Recognised' PROVE InjectedAlone(d)' /\ LoadedOnce(d)'
  <2>1. d \in Recognised /\ InjectedAlone(d) /\ LoadedOnce(d)
    BY DEF Recognised
  <2>2. \A j \in Injectors : injectors'[j].dll = injectors[j].dll
    BY <1>1
  <2>3. (\A c \in left : blocks'[c] # d) => \A c \in left : blocks[c] # d
    BY DEF InjectParts
  <2>4. InjectedAlone(d)'
    BY <2>1, <2>2 DEF InjectedAlone
  <2>5. ASSUME \A c \in left : blocks[c] # d, target.loads[d] = 1, NEW j \in Injectors, injectors'[j].dll = d
        PROVE  (injectors[j].at = "waiting" /\ injectors[j].block \notin loaders)'
    <3>1. injectors[j].dll = d
      BY <2>2, <2>5
    <3>2. injectors[j].at = "waiting" /\ injectors[j].block \notin loaders
      BY <2>1, <2>5, <3>1 DEF LoadedOnce
    <3>3. j # i
      BY <3>2
    <3>4. injectors'[j] = injectors[j]
      BY <1>1, <3>3
    <3> QED
      BY <1>0, <3>2, <3>4
  <2>6. LoadedOnce(d)'
    BY <2>1, <2>3, <2>5 DEF LoadedOnce
  <2> QED
    BY <2>4, <2>6
<1> QED
  BY <1>2, <1>4, <1>7, <1>8, <1>9

\* An injection that returns before it waits leaves its block, if it has one and it is there.
LEMMA InjectReturnsKeeps ==
  ASSUME InjectInv, NEW i \in Injectors, injectors[i].at \in {"checked", "allocated", "written"},
         injectors' = [injectors EXCEPT ![i] = IdleInjector],
         left' = left \union IF UsesBlock(i) THEN {injectors[i].block} \intersect DOMAIN blocks ELSE {},
         UNCHANGED <<target, blocks, overlapped>>, loaders \subseteq loaders',
         loaders' \subseteq loaders \union (left' \intersect {c \in DOMAIN blocks : blocks[c] # NoDll})
  PROVE  InjectInv'
<1> USE InjectAssumption DEF InjectInv
<1>1. IdleInjector \in InjectorType /\ IdleInjector.at = "idle" /\ IdleInjector.dll = NoDll
  BY Z3 DEF InjectorType, IdleInjector
<1>2. injectors'[i] = IdleInjector /\ \A j \in Injectors \ {i} : injectors'[j] = injectors[j]
  BY DEF InjectParts
<1>3. left \subseteq left' /\ left' \subseteq DOMAIN blocks
  BY DEF InjectParts
<1>4. InjectParts'
  BY <1>1, <1>3 DEF InjectParts
<1>5. \A j \in Injectors : UsesBlock(j)' <=> UsesBlock(j) /\ j # i
  BY <1>1, <1>2 DEF UsesBlock
<1>6. GoneEmpty'
  BY <1>3 DEF GoneEmpty
<1>7. BlocksOwned'
  BY <1>2, <1>5 DEF BlocksOwned
<1>8. BlocksUsed'
  BY <1>2, <1>5 DEF BlocksUsed
<1>9. LoadersRead'
  BY <1>2, <1>3 DEF LoadersRead
<1>10. ASSUME NEW d \in Recognised' PROVE InjectedAlone(d)' /\ LoadedOnce(d)'
  <2>1. d \in Recognised /\ InjectedAlone(d) /\ LoadedOnce(d) /\ d # NoDll
    BY DEF Recognised
  <2>2. \A j \in Injectors : injectors'[j].dll = d => j # i /\ injectors'[j] = injectors[j]
    BY <1>1, <1>2, <2>1
  <2>3. InjectedAlone(d)'
    BY <2>1, <2>2 DEF InjectedAlone
  <2>4. ASSUME \A c \in left' : blocks[c] # d, NEW j \in Injectors, injectors'[j].dll = d, target.loads[d] = 1
        PROVE  injectors[j].at = "waiting" /\ injectors[j].block \notin loaders'
    <3>1. injectors[j].at = "waiting" /\ injectors[j].block \notin loaders
      BY <1>3, <2>1, <2>2, <2>4 DEF LoadedOnce
    <3>2. target.at = "running"
      BY <2>4, <2>1 DEF GoneEmpty, InjectParts, Recognised
    <3>3. blocks[injectors[j].block] = d
      BY <2>2, <2>4, <3>1, <3>2 DEF BlocksOwned, UsesBlock
    <3> QED
      BY <2>4, <3>1, <3>3
  <2>5. LoadedOnce(d)'
    BY <1>3, <2>1, <2>2, <2>4 DEF LoadedOnce
  <2> QED
    BY <2>3, <2>5
<1> QED
  BY <1>4, <1>6, <1>7, <1>8, <1>9, <1>10

\* An injection goes on in a target that runs: its block is written, or a thread that it waits
\* for reads it.
LEMMA InjectorMovesKeeps ==
  ASSUME InjectInv, NEW i \in Injectors, target.at = "running",
         \/ /\ injectors[i].at = "allocated" /\ injectors' = [injectors EXCEPT ![i].at = "written"]
            /\ blocks' = [blocks EXCEPT ![injectors[i].block] = injectors[i].dll] /\ UNCHANGED loaders
         \/ /\ injectors[i].at = "written" /\ injectors' = [injectors EXCEPT ![i].at = "waiting"]
            /\ loaders' = loaders \union {injectors[i].block} /\ UNCHANGED blocks,
         UNCHANGED <<target, overlapped, left>>
  PROVE  InjectInv'
<1> USE InjectAssumption DEF InjectInv
<1> DEFINE b == injectors[i].block
<1>1. UsesBlock(i) /\ b \in DOMAIN blocks \ left /\ injectors[i].dll \in Dlls
  BY DEF UsesBlock, BlocksOwned, InjectParts, InjectorType
<1>2. \A c \in loaders : c \notin left => c # b
  BY <1>1 DEF LoadersRead, BlocksOwned, UsesBlock
<1>3. /\ injectors'[i].at \in {"written", "waiting"} /\ injectors'[i].at # "idle"
      /\ injectors'[i].dll = injectors[i].dll /\ injectors'[i].block = b
      /\ injectors'[i].at = "waiting" <=> injectors[i].at = "written"
      /\ injectors'[i] \in InjectorType /\ \A j \in Injectors \ {i} : injectors'[j] = injectors[j]
  BY DEF InjectParts, InjectorType
<1>4. /\ DOMAIN blocks' = DOMAIN blocks /\ \A c \in DOMAIN blocks \ {b} : blocks'[c] = blocks[c]
      /\ blocks'[b] = injectors[i].dll
  BY <1>1 DEF BlocksOwned
<1>5. loaders \subseteq loaders' /\ loaders' \subseteq loaders \union {b} /\ (b \in loaders' => injectors[i].at = "written")
  BY <1>1, <1>2 DEF LoadersRead
<1> HIDE DEF b
<1>6. InjectParts'
  BY <1>1, <1>3, <1>4 DEF InjectParts
<1>7. \A j \in Injectors : UsesBlock(j)' <=> UsesBlock(j)
  BY <1>1, <1>3 DEF UsesBlock
<1>8. \A j \in Injectors : injectors'[j].block = injectors[j].block /\ injectors'[j].dll = injectors[j].dll
  BY <1>3 DEF b
<1>9. GoneEmpty'
  BY DEF GoneEmpty
<1>10. \A j \in Injectors \ {i} : UsesBlock(j) => injectors[j].block # b
  BY <1>1 DEF BlocksOwned, b
<1>11. BlocksOwned'
  BY <1>1, <1>3, <1>4, <1>7, <1>8, <1>10 DEF BlocksOwned
<1>12. BlocksUsed'
  BY <1>1, <1>4, <1>7, <1>8 DEF BlocksUsed
<1>13. LoadersRead'
  BY <1>1, <1>3, <1>4, <1>5 DEF LoadersRead
<1>14. ASSUME NEW d \in Recognised' PROVE InjectedAlone(d)' /\ LoadedOnce(d)'
  <2>1. d \in Recognised /\ InjectedAlone(d) /\ LoadedOnce(d) /\ d \in Dlls
    BY DEF Recognised
  <2>2. InjectedAlone(d)'
    BY <2>1, <1>8 DEF InjectedAlone
  <2>3. (\A c \in left' : blocks'[c] # d) <=> (\A c \in left : blocks[c] # d)
    BY <1>1, <1>4 DEF InjectParts
  <2>4. ASSUME \A c \in left : blocks[c] # d, NEW j \in Injectors, injectors'[j].dll = d, target.loads[d] = 1
        PROVE  (injectors[j].at = "waiting" /\ injectors[j].block \notin loaders)'
    <3>1. injectors[j].at = "waiting" /\ injectors[j].block \notin loaders
      BY <1>8, <2>1, <2>4 DEF LoadedOnce
    <3>2. j # i
      BY <3>1
    <3> QED
      BY <1>3, <1>5, <1>10, <3>1, <3>2 DEF UsesBlock
  <2>5. LoadedOnce(d)'
    BY <2>1, <2>3, <2>4 DEF LoadedOnce
  <2> QED
    BY <2>2, <2>5
<1> QED
  BY <1>6, <1>9, <1>11, <1>12, <1>13, <1>14

\* A caller that waited frees its block, from which nothing loads any more.
LEMMA WaitAndFreeKeeps ==
  ASSUME InjectInv, NEW i \in Injectors, WaitAndFree(i)
  PROVE  InjectInv'
<1> USE InjectAssumption DEF InjectInv
<1> DEFINE b == injectors[i].block
<1>1. /\ injectors[i].at = "waiting" /\ b \notin loaders
      /\ injectors' = [injectors EXCEPT ![i] = IdleInjector]
      /\ DOMAIN blocks' = DOMAIN blocks \ {b} /\ \A c \in DOMAIN blocks' : blocks'[c] = blocks[c]
      /\ UNCHANGED <<target, loaders, overlapped, left>>
  BY DEF WaitAndFree, InjectReturns
<1>2. IdleInjector \in InjectorType /\ IdleInjector.at = "idle" /\ IdleInjector.dll = NoDll
  BY Z3 DEF InjectorType, IdleInjector
<1>3. injectors'[i] = IdleInjector /\ \A j \in Injectors \ {i} : injectors'[j] = injectors[j]
  BY <1>1 DEF InjectParts
<1>4. target.at = "running" => b \notin left
  BY <1>1 DEF BlocksOwned, UsesBlock
<1>5. b \notin left
  BY <1>4 DEF GoneEmpty, InjectParts
<1>6. \A j \in Injectors : /\ UsesBlock(j)' <=> UsesBlock(j) /\ j # i
                           /\ UsesBlock(j) /\ j # i /\ target.at = "running" => injectors[j].block # b
  BY <1>1, <1>2, <1>3 DEF UsesBlock, BlocksOwned
<1> HIDE DEF b
<1>7. InjectParts'
  BY <1>1, <1>2, <1>5 DEF InjectParts
<1>8. GoneEmpty'
  BY <1>1 DEF GoneEmpty
<1>9. BlocksOwned'
  BY <1>1, <1>3, <1>5, <1>6 DEF BlocksOwned
<1>10. BlocksUsed'
  <2>1. UsesBlock(i) /\ injectors[i].block = b
    BY <1>1 DEF UsesBlock, b
  <2> QED
    BY <1>1, <1>3, <1>6, <2>1 DEF BlocksUsed
<1>11. LoadersRead'
  BY <1>1, <1>3 DEF LoadersRead, b
<1>12. ASSUME NEW d \in Recognised' PROVE InjectedAlone(d)' /\ LoadedOnce(d)'
  <2>1. d \in Recognised /\ InjectedAlone(d) /\ LoadedOnce(d) /\ d # NoDll
    BY <1>1 DEF Recognised
  <2>2. \A j \in Injectors : injectors'[j].dll = d => j # i /\ injectors'[j] = injectors[j]
    BY <1>2, <1>3, <2>1
  <2>3. \A c \in left : c \in DOMAIN blocks' /\ blocks'[c] = blocks[c]
    BY <1>1, <1>5 DEF InjectParts
  <2>4. InjectedAlone(d)'
    BY <2>1, <2>2 DEF InjectedAlone
  <2>5. LoadedOnce(d)'
    BY <1>1, <2>1, <2>2, <2>3 DEF LoadedOnce
  <2> QED
    BY <2>4, <2>5
<1> QED
  BY <1>7, <1>8, <1>9, <1>10, <1>11, <1>12

\* A DLL that is loaded for the first time is the one of an injection that waits.
LEMMA LoadDllKeeps ==
  ASSUME InjectInv, NEW b, LoadDll(b)
  PROVE  InjectInv'
<1> USE InjectAssumption DEF InjectInv
<1> DEFINE e == blocks[b]
<1>1. /\ b \in loaders /\ loaders' = loaders \ {b} /\ UNCHANGED <<injectors, blocks, overlapped, left>>
      /\ b \in DOMAIN blocks /\ e \in Dlls
  BY DEF LoadDll, LoadersRead, InjectParts
<1>2. /\ target'.at = target.at /\ target'.loads \in [Dlls -> 0 .. 2]
      /\ target' \in [at : {"running", "exited"}, loads : [Dlls -> 0 .. 2]]
      /\ \A d \in Dlls : target'.loads[d] = IF d = e /\ target.loads[e] < 2 THEN target.loads[d] + 1 ELSE target.loads[d]
  <2>1. target \in [at : {"running", "exited"}, loads : [Dlls -> 0 .. 2]]
    BY DEF InjectParts
  <2>2. target' = IF target.loads[e] < 2 THEN [target EXCEPT !.loads = [target.loads EXCEPT ![e] = @ + 1]] ELSE target
    BY <1>1 DEF LoadDll
  <2> HIDE DEF e
  <2>3. CASE target.loads[e] < 2
    BY <1>1, <2>1, <2>2, <2>3
  <2>4. CASE ~ (target.loads[e] < 2)
    BY <1>1, <2>1, <2>2, <2>4
  <2> QED
    BY <2>3, <2>4
<1> HIDE DEF e
<1>3. InjectParts'
  BY <1>1, <1>2 DEF InjectParts
<1>4. \A j \in Injectors : UsesBlock(j)' <=> UsesBlock(j)
  BY <1>1 DEF UsesBlock
<1>5. GoneEmpty' /\ target.at = "running"
  BY <1>1, <1>2 DEF GoneEmpty, InjectParts
<1>6. BlocksOwned'
  BY <1>1, <1>2, <1>4 DEF BlocksOwned
<1>7. BlocksUsed'
  BY <1>1, <1>4 DEF BlocksUsed
<1>8. LoadersRead'
  BY <1>1 DEF LoadersRead
<1>9. ASSUME NEW d \in Recognised' PROVE InjectedAlone(d)' /\ LoadedOnce(d)'
  <2>1. d \in Recognised /\ InjectedAlone(d) /\ LoadedOnce(d) /\ d \in Dlls
    BY <1>1 DEF Recognised
  <2>2. InjectedAlone(d)'
    BY <1>1, <2>1 DEF InjectedAlone
  <2>3. CASE d # e
    <3>1. target'.loads[d] = target.loads[d]
      BY <1>2, <2>1, <2>3
    <3>2. LoadedOnce(d)'
      BY <1>1, <2>1, <3>1 DEF LoadedOnce
    <3> QED
      BY <2>2, <3>2
  <2>4. CASE d = e
    <3> SUFFICES ASSUME \A c \in left : blocks[c] # d
                 PROVE  /\ target'.loads[d] = 1
                        /\ \A j \in Injectors : injectors[j].dll = d =>
                             injectors[j].at = "waiting" /\ injectors[j].block \notin loaders'
      BY <1>1, <2>2 DEF LoadedOnce
    <3>1. PICK i \in Injectors : injectors[i].at = "waiting" /\ injectors[i].block = b
      BY <1>1, <2>4 DEF LoadersRead, e
    <3>2. injectors[i].dll = d
      BY <1>5, <2>4, <3>1 DEF BlocksOwned, UsesBlock, e
    <3>3. target.loads[d] <= 1 /\ target.loads[d] # 1
      BY <1>1, <2>1, <3>1, <3>2 DEF LoadedOnce
    <3>4. target.loads[d] = 0
      BY <2>1, <3>3 DEF InjectParts
    <3>5. target'.loads[d] = 1
      BY <1>2, <2>1, <2>4, <3>4
    <3>6. \A j \in Injectors : injectors[j].dll = d => j = i
      BY <2>1, <3>2 DEF InjectedAlone
    <3> QED
      BY <1>1, <3>1, <3>5, <3>6
  <2> QED
    BY <2>3, <2>4
<1> QED
  BY <1>3, <1>5, <1>6, <1>7, <1>8, <1>9

LEMMA TargetEndsKeeps ==
  ASSUME InjectInv, TargetEnds
  PROVE  InjectInv'
<1> USE DEF InjectInv
<1>1. /\ target' = [at |-> "exited", loads |-> [d \in Dlls |-> 0]]
      /\ DOMAIN blocks' = {} /\ loaders' = {} /\ left' = {} /\ UNCHANGED <<injectors, overlapped>>
  BY DEF TargetEnds, NoBlocks
<1>2. InjectParts'
  BY <1>1 DEF InjectParts
<1>3. GoneEmpty' /\ BlocksOwned' /\ BlocksUsed' /\ LoadersRead'
  BY <1>1 DEF GoneEmpty, BlocksOwned, BlocksUsed, LoadersRead
<1>4. ASSUME NEW d \in Recognised' PROVE InjectedAlone(d)' /\ LoadedOnce(d)'
  <2>1. d \in Recognised /\ InjectedAlone(d) /\ target'.loads[d] = 0
    BY <1>1 DEF Recognised
  <2>2. InjectedAlone(d)'
    BY <1>1, <2>1 DEF InjectedAlone
  <2> QED
    BY <2>1, <2>2 DEF LoadedOnce
<1> QED
  BY <1>2, <1>3, <1>4

\* The steps of one injection.
LEMMA InjectorStep ==
  ASSUME InjectInv, NEW i \in Injectors, AllocateBlock(i) \/ WritePath(i) \/ StartLoader(i)
  PROVE  InjectInv'
<1> USE InjectAssumption
<1>1. CASE AllocateBlock(i)
  <2> DEFINE free == 1 .. MaxBlocks \ DOMAIN blocks
             b == Min(free)
  <2>1. CASE InjectReturns(i) /\ UNCHANGED <<blocks, target, loaders, overlapped, left>>
    <3>1. injectors[i].at = "checked" /\ ~ UsesBlock(i)
      BY <1>1 DEF AllocateBlock, UsesBlock
    <3> QED
      BY <2>1, <3>1, InjectReturnsKeeps DEF InjectReturns
  <2>2. CASE /\ target.at = "running" /\ free # {}
             /\ blocks' = [c \in DOMAIN blocks \union {b} |-> IF c = b THEN NoDll ELSE blocks[c]]
             /\ injectors' = [injectors EXCEPT ![i].at = "allocated", ![i].block = b]
             /\ UNCHANGED <<target, loaders, overlapped, left>>
    <3>1. free \in SUBSET Nat /\ free \subseteq 1 .. MaxBlocks \ DOMAIN blocks
      OBVIOUS
    <3> HIDE DEF free
    <3>2. b \in 1 .. MaxBlocks /\ b \notin DOMAIN blocks
      BY <2>2, <3>1, MinIsMember
    <3>3. injectors[i].at = "checked"
      BY <1>1 DEF AllocateBlock
    <3> HIDE DEF b
    <3> QED
      BY <2>2, <3>2, <3>3, AllocateBlockKeeps
  <2> QED
    BY <1>1, <2>1, <2>2 DEF AllocateBlock
<1>2. ASSUME ReturnLeaving(i), injectors[i].at \in {"allocated", "written"} PROVE InjectInv'
  <2>1. UsesBlock(i)
    BY <1>2 DEF UsesBlock
  <2> QED
    BY <1>2, <2>1, InjectReturnsKeeps DEF ReturnLeaving, InjectReturns
<1>3. CASE WritePath(i)
  <2>1. injectors[i].at = "allocated"
    BY <1>3 DEF WritePath
  <2>2. CASE ReturnLeaving(i)
    BY <1>2, <2>1, <2>2
  <2>3. CASE ~ ReturnLeaving(i)
    BY <1>3, <2>1, <2>3, InjectorMovesKeeps DEF WritePath, MoveInjector
  <2> QED
    BY <2>2, <2>3
<1>4. CASE StartLoader(i)
  <2>1. injectors[i].at = "written"
    BY <1>4 DEF StartLoader
  <2>2. CASE ReturnLeaving(i)
    BY <1>2, <2>1, <2>2
  <2>3. CASE ~ ReturnLeaving(i) /\ injectors[i].wait
    BY <1>4, <2>1, <2>3, InjectorMovesKeeps DEF StartLoader, MoveInjector
  <2>4. CASE ~ ReturnLeaving(i) /\ ~ injectors[i].wait
    <3>1. /\ target.at = "running" /\ loaders' = loaders \union {injectors[i].block}
          /\ injectors' = [injectors EXCEPT ![i] = IdleInjector]
          /\ left' = left \union {injectors[i].block} /\ UNCHANGED <<target, blocks, overlapped>>
      BY <1>4, <2>4 DEF StartLoader, InjectReturns
    <3>2. UsesBlock(i)
      BY <2>1 DEF UsesBlock
    <3>3. injectors[i].block \in DOMAIN blocks /\ blocks[injectors[i].block] = injectors[i].dll
      BY <2>1, <3>1, <3>2 DEF InjectInv, BlocksOwned
    <3>4. injectors[i].dll # NoDll
      BY <2>1 DEF InjectInv, InjectParts
    <3> QED
      BY <2>1, <3>1, <3>2, <3>3, <3>4, InjectReturnsKeeps
  <2> QED
    BY <2>2, <2>3, <2>4
<1> QED
  BY <1>1, <1>3, <1>4

LEMMA InjectInvariant == InjectSpec => []InjectInv
<1>1. ASSUME InjectInv, [InjectNext]_injectVars PROVE InjectInv'
  <2>1. CASE UNCHANGED injectVars
    <3>1. UNCHANGED <<injectors, target, blocks, loaders, overlapped, left>>
      BY <2>1 DEF injectVars
    <3>2. InjectParts' /\ GoneEmpty' /\ Recognised' = Recognised
      BY <1>1, <3>1 DEF InjectInv, InjectParts, GoneEmpty, Recognised
    <3>3. BlocksOwned' /\ BlocksUsed' /\ LoadersRead'
      BY <1>1, <3>1 DEF InjectInv, BlocksOwned, BlocksUsed, LoadersRead, UsesBlock
    <3>4. \A d \in Recognised : InjectedAlone(d)' /\ LoadedOnce(d)'
      BY <1>1, <3>1 DEF InjectInv, InjectedAlone, LoadedOnce
    <3> QED
      BY <3>2, <3>3, <3>4 DEF InjectInv
  <2> QED
    BY <1>1, <2>1, CheckTargetKeeps, InjectorStep, WaitAndFreeKeeps, LoadDllKeeps, TargetEndsKeeps, Zenon
       DEF InjectNext
<1> QED
  BY <1>1, InjectInitInv, PTL DEF InjectSpec

LEMMA InjectionKept == InjectInv => InjectionClean
<1> SUFFICES ASSUME InjectInv PROVE InjectionClean
  OBVIOUS
<1>1. loaders \subseteq {b \in DOMAIN blocks : blocks[b] # NoDll}
  BY DEF InjectInv, LoadersRead
<1>2. DOMAIN blocks \subseteq left \union {injectors[i].block : i \in Injectors}
  BY DEF InjectInv, BlocksUsed
<1>3. \A d \in Dlls : target.loads[d] > 1 => d \in LongNames \union overlapped \/ \E b \in left : blocks[b] = d
  BY DEF InjectInv, InjectParts, LoadedOnce, Recognised
<1> QED
  BY <1>1, <1>2, <1>3 DEF InjectionClean

\* What is done to another process is undone: a page that one thread at a time accesses by force
\* has its protection back, and the memory of an injection is freed and not before it was read,
\* for any number of pages, threads, injections and DLLs.
THEOREM RemoteUndone == MemorySpec /\ InjectSpec => []RemoteRestored
<1>1. MemoryInv /\ InjectInv => RemoteRestored
  BY ProtectionKept, InjectionKept DEF RemoteRestored
<1> QED
  BY <1>1, MemoryInvariant, InjectInvariant, PTL

-----------------------------------------------------------------------------
(* SocketObject *)

SocketObjectType == [alive : BOOLEAN, socket : Descriptors \union {NoDescriptor},
                     attached : BOOLEAN, side : {"undefined", "server", "client"}]
LivingSockets == {o \in SocketObjects : socketOf[o].alive}

SocketParts ==
  /\ DOMAIN descriptor \subseteq Descriptors
  /\ callerHas \subseteq DOMAIN descriptor /\ dropped \subseteq DOMAIN descriptor \ callerHas
  /\ socketOf \in [SocketObjects -> SocketObjectType]
WinsockUp == winsockUps \in Int /\ IsFiniteSet(LivingSockets) /\ winsockUps >= Cardinality(LivingSockets)
\* An object that has a descriptor lives, no other object has it, and the descriptor is open;
\* it is also the program's exactly when the object was attached.
OnesOwn(o) == LET d == socketOf[o].socket IN d # NoDescriptor =>
  /\ socketOf[o].alive /\ d \in DOMAIN descriptor \ dropped
  /\ d \in callerHas <=> socketOf[o].attached
  /\ \A p \in SocketObjects : socketOf[p].socket = d => p = o
NoneLost == \A d \in DOMAIN descriptor :
  d \in callerHas \union dropped \/ \E o \in SocketObjects : socketOf[o].socket = d
SocketInv == SocketParts /\ WinsockUp /\ NoneLost /\ \A o \in SocketObjects : OnesOwn(o)

LEMMA SocketInitInv == SocketInit => SocketInv
<1> SUFFICES ASSUME SocketInit PROVE SocketInv
  OBVIOUS
<1>1. NoSocketObject \in SocketObjectType /\ ~ NoSocketObject.alive /\ NoSocketObject.socket = NoDescriptor
  BY DEF NoSocketObject, SocketObjectType
<1>2. /\ socketOf = [o \in SocketObjects |-> NoSocketObject] /\ DOMAIN descriptor = {}
      /\ callerHas = {} /\ dropped = {} /\ winsockUps = 0
  BY DEF SocketInit
<1>3. SocketParts /\ NoneLost
  BY <1>1, <1>2 DEF SocketParts, NoneLost
<1>4. WinsockUp
  <2>1. LivingSockets = {}
    BY <1>1, <1>2 DEF LivingSockets
  <2> QED
    BY <1>2, <2>1, FS_EmptySet DEF WinsockUp
<1>5. \A o \in SocketObjects : OnesOwn(o)
  BY <1>1, <1>2 DEF OnesOwn
<1> QED
  BY <1>3, <1>4, <1>5 DEF SocketInv

\* The descriptor given out next is not open.
LEMMA NextDescriptorFree ==
  ASSUME CanOpen
  PROVE  NextDescriptor \in Descriptors \ DOMAIN descriptor /\ NextDescriptor # NoDescriptor
<1> DEFINE free == Descriptors \ DOMAIN descriptor
<1>1. free \in SUBSET Nat /\ free # {}
  BY SocketAssumption DEF CanOpen, IsOpen
<1>2. free \subseteq Descriptors \ DOMAIN descriptor /\ NextDescriptor = Min(free)
  BY DEF NextDescriptor
<1> HIDE DEF free
<1>3. NextDescriptor \in free
  BY <1>1, <1>2, MinIsMember, Zenon
<1> QED
  BY <1>2, <1>3, SocketAssumption DEF NoDescriptor

\* Winsock is brought up once for an object that is made, and given back once at most for one
\* that is destroyed.
LEMMA WinsockKept ==
  ASSUME WinsockUp, SocketParts, NEW o \in SocketObjects, NEW fields, SetObject(o, fields),
         \/ fields.alive = socketOf[o].alive /\ UNCHANGED winsockUps
         \/ ~ socketOf[o].alive /\ fields.alive = TRUE /\ winsockUps' = winsockUps + 1
         \/ socketOf[o].alive /\ fields.alive = FALSE /\ winsockUps' \in {winsockUps, winsockUps - 1}
  PROVE  WinsockUp'
<1>1. socketOf'[o] = fields /\ \A p \in SocketObjects \ {o} : socketOf'[p] = socketOf[p]
  BY DEF SetObject, SocketParts
<1>2. /\ IsFiniteSet(LivingSockets) /\ Cardinality(LivingSockets) \in Nat
      /\ winsockUps \in Int /\ winsockUps >= Cardinality(LivingSockets)
  BY FS_CardinalityType DEF WinsockUp
<1>3. CASE fields.alive = socketOf[o].alive /\ UNCHANGED winsockUps
  <2>1. LivingSockets' = LivingSockets
    BY <1>1, <1>3 DEF LivingSockets
  <2> QED
    BY <1>2, <1>3, <2>1 DEF WinsockUp
<1>4. CASE ~ socketOf[o].alive /\ fields.alive = TRUE /\ winsockUps' = winsockUps + 1
  <2>1. LivingSockets' = LivingSockets \union {o} /\ o \notin LivingSockets
    BY <1>1, <1>4 DEF LivingSockets
  <2>2. IsFiniteSet(LivingSockets') /\ Cardinality(LivingSockets') = Cardinality(LivingSockets) + 1
    BY <1>2, <2>1, FS_AddElement
  <2> QED
    BY <1>2, <1>4, <2>2 DEF WinsockUp
<1>5. CASE socketOf[o].alive /\ fields.alive = FALSE /\ winsockUps' \in {winsockUps, winsockUps - 1}
  <2>1. LivingSockets' = LivingSockets \ {o} /\ o \in LivingSockets
    BY <1>1, <1>5 DEF LivingSockets
  <2>2. IsFiniteSet(LivingSockets') /\ Cardinality(LivingSockets') = Cardinality(LivingSockets) - 1
    BY <1>2, <2>1, FS_RemoveElement
  <2> QED
    BY <1>2, <1>5, <2>2 DEF WinsockUp
<1> QED
  BY <1>3, <1>4, <1>5

\* An object that keeps its descriptor, whose state may change while it stays open.
LEMMA KeepsDescriptor ==
  ASSUME SocketInv, NEW o \in SocketObjects, NEW fields \in SocketObjectType, SetObject(o, fields),
         fields.alive = socketOf[o].alive, fields.socket = socketOf[o].socket,
         fields.attached = socketOf[o].attached,
         DOMAIN descriptor' = DOMAIN descriptor, UNCHANGED <<winsockUps, callerHas, dropped>>
  PROVE  SocketInv'
<1>1. socketOf'[o] = fields /\ \A p \in SocketObjects \ {o} : socketOf'[p] = socketOf[p]
  BY DEF SetObject, SocketInv, SocketParts
<1>2. \A p \in SocketObjects : /\ socketOf'[p].alive = socketOf[p].alive
                               /\ socketOf'[p].socket = socketOf[p].socket
                               /\ socketOf'[p].attached = socketOf[p].attached
  BY <1>1
<1>3. SocketParts'
  BY DEF SetObject, SocketInv, SocketParts
<1>4. WinsockUp'
  BY WinsockKept DEF SocketInv
<1>5. NoneLost'
  BY <1>2 DEF SocketInv, NoneLost
<1>6. ASSUME NEW p \in SocketObjects PROVE OnesOwn(p)'
  <2>1. OnesOwn(p)
    BY DEF SocketInv
  <2> QED
    BY <1>2, <2>1 DEF OnesOwn
<1> QED
  BY <1>3, <1>4, <1>5, <1>6 DEF SocketInv

\* What an object without a descriptor any more, or with one of the program's, forgot is lost
\* exactly when it is counted as dropped.
LEMMA ForgetsDescriptor ==
  ASSUME SocketInv, NEW o \in SocketObjects, NEW fields \in SocketObjectType, SetObject(o, fields),
         WinsockUp', dropped' = dropped \union Forgotten(o), UNCHANGED <<descriptor, callerHas>>,
         \/ fields.socket = NoDescriptor
         \/ /\ fields.socket \in callerHas /\ fields.attached = TRUE /\ fields.alive = TRUE
            /\ \A p \in SocketObjects \ {o} : socketOf[p].socket # fields.socket
  PROVE  SocketInv'
<1> DEFINE d == socketOf[o].socket
<1>1. socketOf'[o] = fields /\ \A p \in SocketObjects \ {o} : socketOf'[p] = socketOf[p]
  BY DEF SetObject, SocketInv, SocketParts
<1>2. OnesOwn(o)
  BY DEF SocketInv
<1>3. dropped' = IF d \in DOMAIN descriptor /\ d \notin callerHas THEN dropped \union {d} ELSE dropped
  <2>1. d \in DOMAIN descriptor => d # NoDescriptor
    BY SocketAssumption DEF SocketInv, SocketParts, NoDescriptor
  <2>2. d # NoDescriptor => \A p \in SocketObjects \ {o} : socketOf[p].socket # d
    BY <1>2 DEF OnesOwn
  <2> QED
    BY <2>1, <2>2 DEF Forgotten, IsOpen
<1>4. SocketParts'
  BY <1>3 DEF SetObject, SocketInv, SocketParts
<1>5. NoneLost'
  <2> SUFFICES ASSUME NEW e \in DOMAIN descriptor, e \notin callerHas \union dropped'
               PROVE  \E p \in SocketObjects : socketOf'[p].socket = e
    BY DEF NoneLost
  <2>1. PICK p \in SocketObjects : socketOf[p].socket = e
    BY <1>3 DEF SocketInv, NoneLost
  <2>2. p # o
    BY <1>3, <2>1
  <2> QED
    BY <1>1, <2>1, <2>2
<1>6. ASSUME NEW p \in SocketObjects PROVE OnesOwn(p)'
  <2>1. OnesOwn(p)
    BY DEF SocketInv
  <2>2. CASE p # o
    <3>1. socketOf'[p] = socketOf[p]
      BY <1>1, <2>2
    <3>2. socketOf[p].socket # NoDescriptor => socketOf[p].socket # d /\ socketOf[p].socket # fields.socket
      BY <1>2, <2>1, <2>2 DEF OnesOwn
    <3> QED
      BY <1>1, <1>3, <2>1, <3>1, <3>2 DEF OnesOwn
  <2>3. CASE p = o
    <3>1. CASE fields.socket = NoDescriptor
      BY <1>1, <2>3, <3>1 DEF OnesOwn
    <3>2. CASE fields.socket # NoDescriptor
      <4>1. fields.socket \in DOMAIN descriptor \ dropped'
        BY <1>3, <3>2 DEF SocketInv, SocketParts
      <4> QED
        BY <1>1, <2>3, <3>2, <4>1 DEF OnesOwn
    <3> QED
      BY <3>1, <3>2
  <2> QED
    BY <2>2, <2>3
<1> QED
  BY <1>4, <1>5, <1>6 DEF SocketInv

\* An object that closes the descriptor only it has.
LEMMA ClosesDescriptor ==
  ASSUME SocketInv, NEW o \in SocketObjects, NEW fields \in SocketObjectType, SetObject(o, fields), WinsockUp',
         fields.socket = NoDescriptor, IsOpen(socketOf[o].socket), descriptor' = ClosedTable(socketOf[o].socket),
         callerHas' = callerHas \ {socketOf[o].socket}, dropped' = dropped \ {socketOf[o].socket}
  PROVE  SocketInv'
<1> DEFINE d == socketOf[o].socket
<1>1. socketOf'[o] = fields /\ \A p \in SocketObjects \ {o} : socketOf'[p] = socketOf[p]
  BY DEF SetObject, SocketInv, SocketParts
<1>2. DOMAIN descriptor' = DOMAIN descriptor \ {d} /\ callerHas' = callerHas \ {d} /\ dropped' = dropped \ {d}
  BY DEF ClosedTable
<1>3. d \in DOMAIN descriptor /\ d # NoDescriptor
  BY SocketAssumption DEF IsOpen, SocketInv, SocketParts, NoDescriptor
<1>4. \A p \in SocketObjects \ {o} : socketOf[p].socket # d
  BY <1>3 DEF SocketInv, OnesOwn
<1> HIDE DEF d
<1>5. SocketParts'
  BY <1>2 DEF SetObject, SocketInv, SocketParts
<1>6. NoneLost'
  <2> SUFFICES ASSUME NEW e \in DOMAIN descriptor \ {d}, e \notin callerHas \union dropped
               PROVE  \E p \in SocketObjects : socketOf'[p].socket = e
    BY <1>2 DEF NoneLost
  <2>1. PICK p \in SocketObjects : socketOf[p].socket = e
    BY DEF SocketInv, NoneLost
  <2> QED
    BY <1>1, <2>1 DEF d
<1>7. ASSUME NEW p \in SocketObjects PROVE OnesOwn(p)'
  <2>1. OnesOwn(p)
    BY DEF SocketInv
  <2>2. CASE p = o
    BY <1>1, <2>2 DEF OnesOwn
  <2>3. CASE p # o
    <3>1. socketOf'[p] = socketOf[p] /\ socketOf[p].socket # d
      BY <1>1, <1>4, <2>3
    <3> QED
      BY <1>1, <1>2, <2>1, <3>1 DEF OnesOwn
  <2> QED
    BY <2>2, <2>3
<1> QED
  BY <1>5, <1>6, <1>7 DEF SocketInv

\* A descriptor that is new goes to an object without one, or to the program.
LEMMA OpensDescriptor ==
  ASSUME SocketInv, NEW o \in SocketObjects, CanOpen, WinsockUp', UNCHANGED dropped,
         NEW state, descriptor' = WithDescriptor(descriptor, NextDescriptor, state),
         \/ /\ ~ socketOf[o].alive /\ UNCHANGED callerHas
            /\ SetObject(o, [NoSocketObject EXCEPT !.alive = TRUE, !.socket = NextDescriptor])
         \/ callerHas' = callerHas \union {NextDescriptor} /\ UNCHANGED socketOf
  PROVE  SocketInv'
<1> DEFINE n == NextDescriptor
           new == [NoSocketObject EXCEPT !.alive = TRUE, !.socket = n]
<1>1. n \in Descriptors \ DOMAIN descriptor /\ n # NoDescriptor
  BY NextDescriptorFree
<1>2. DOMAIN descriptor' = DOMAIN descriptor \union {n}
  BY DEF WithDescriptor
<1>3. new \in SocketObjectType
  BY <1>1 DEF NoSocketObject, SocketObjectType
<1>4. new.alive = TRUE /\ new.socket = n /\ new.attached = FALSE
  BY <1>1 DEF NoSocketObject
<1> HIDE DEF n, new
<1>5. \A p \in SocketObjects : socketOf[p].socket # n
  BY <1>1 DEF SocketInv, OnesOwn
<1>6. CASE /\ ~ socketOf[o].alive /\ UNCHANGED callerHas
           /\ SetObject(o, new)
  <2>1. socketOf' = [socketOf EXCEPT ![o] = new]
    BY <1>6 DEF SetObject
  <2>2. socketOf'[o] = new /\ \A p \in SocketObjects \ {o} : socketOf'[p] = socketOf[p]
    BY <2>1 DEF SocketInv, SocketParts
  <2>3. SocketParts'
    BY <1>1, <1>2, <1>3, <1>6, <2>1 DEF SocketInv, SocketParts
  <2>5. socketOf[o].socket = NoDescriptor
    BY <1>6 DEF SocketInv, OnesOwn
  <2>6. NoneLost'
    <3> SUFFICES ASSUME NEW e \in DOMAIN descriptor \union {n}, e \notin callerHas \union dropped
                 PROVE  \E p \in SocketObjects : socketOf'[p].socket = e
      BY <1>2, <1>6 DEF NoneLost
    <3>1. CASE e = n
      BY <2>2, <1>4, <3>1
    <3>2. CASE e # n
      <4>1. PICK p \in SocketObjects : socketOf[p].socket = e
        BY <3>2 DEF SocketInv, NoneLost
      <4>2. e # NoDescriptor
        BY <3>2, SocketAssumption DEF SocketInv, SocketParts, NoDescriptor
      <4> QED
        BY <2>2, <2>5, <4>1, <4>2
    <3> QED
      BY <3>1, <3>2
  <2>7. ASSUME NEW p \in SocketObjects PROVE OnesOwn(p)'
    <3>1. OnesOwn(p) /\ n \notin callerHas /\ n \notin dropped
      BY <1>1 DEF SocketInv, SocketParts
    <3>2. CASE p = o
      BY <1>2, <1>5, <1>6, <2>2, <1>4, <3>1, <3>2 DEF OnesOwn
    <3>3. CASE p # o
      <4>1. socketOf'[p] = socketOf[p] /\ socketOf[p].socket # n
        BY <1>5, <2>2, <3>3
      <4> QED
        BY <1>2, <1>6, <2>2, <1>4, <3>1, <4>1 DEF OnesOwn
    <3> QED
      BY <3>2, <3>3
  <2> QED
    BY <2>3, <2>6, <2>7 DEF SocketInv
<1>7. CASE callerHas' = callerHas \union {n} /\ UNCHANGED socketOf
  <2>1. SocketParts'
    BY <1>1, <1>2, <1>7 DEF SocketInv, SocketParts
  <2>2. NoneLost'
    BY <1>2, <1>7 DEF SocketInv, NoneLost
  <2>3. ASSUME NEW p \in SocketObjects PROVE OnesOwn(p)'
    <3>1. OnesOwn(p)
      BY DEF SocketInv
    <3> QED
      BY <1>2, <1>5, <1>7, <3>1 DEF OnesOwn
  <2> QED
    BY <2>1, <2>2, <2>3 DEF SocketInv
<1> QED
  BY <1>6, <1>7 DEF n, new

\* Each call of an object keeps the descriptors accounted for.
LEMMA SocketStep ==
  ASSUME SocketInv, NEW o \in SocketObjects,
         \/ ConstructSocket(o) \/ BindSocket(o) \/ ListenSocket(o) \/ ConnectSocket(o) \/ AcceptSocket(o)
         \/ DetachSocket(o) \/ CloseSocketObject(o) \/ DestroySocket(o)
         \/ \E d \in Descriptors : AttachSocket(o, d)
  PROVE  SocketInv'
<1> DEFINE d == socketOf[o].socket
           was == socketOf[o]
<1>1. /\ was = [alive |-> was.alive, socket |-> d, attached |-> was.attached, side |-> was.side]
      /\ was \in SocketObjectType /\ was.alive \in BOOLEAN /\ was.attached \in BOOLEAN
  BY DEF SocketInv, SocketParts, SocketObjectType
<1>2. WinsockUp /\ SocketParts /\ OnesOwn(o)
  BY DEF SocketInv
<1>3. NoSocketObject \in SocketObjectType /\ NoSocketObject.alive = FALSE /\ NoSocketObject.socket = NoDescriptor
  BY DEF NoSocketObject, SocketObjectType
<1>4. \A side \in {"server", "client"} :
        LET fields == [was EXCEPT !.side = side]
        IN  /\ fields \in SocketObjectType /\ fields.alive = was.alive
            /\ fields.socket = d /\ fields.attached = was.attached
  BY <1>1 DEF SocketObjectType
<1>5. ASSUME NEW e \in Descriptors \union {NoDescriptor}
      PROVE  LET fields == [was EXCEPT !.socket = e]
             IN  fields \in SocketObjectType /\ fields.alive = was.alive /\ fields.socket = e
  BY <1>1 DEF SocketObjectType
<1>6. \A state : IsOpen(d) => DOMAIN WithDescriptor(descriptor, d, state) = DOMAIN descriptor
  BY DEF WithDescriptor, IsOpen
<1>7. CASE ConstructSocket(o)
  <2>1. ~ was.alive /\ winsockUps' = winsockUps + 1 /\ UNCHANGED <<callerHas, dropped>>
    BY <1>7 DEF ConstructSocket
  <2>2. CASE /\ CanOpen /\ descriptor' = WithDescriptor(descriptor, NextDescriptor, "fresh")
             /\ SetObject(o, [NoSocketObject EXCEPT !.alive = TRUE, !.socket = NextDescriptor])
    <3>1. [NoSocketObject EXCEPT !.alive = TRUE, !.socket = NextDescriptor].alive = TRUE
      BY DEF NoSocketObject
    <3>2. WinsockUp'
      BY <1>2, <2>1, <2>2, <3>1, WinsockKept
    <3> QED
      BY <2>1, <2>2, <3>2, OpensDescriptor
  <2>3. CASE SetObject(o, [NoSocketObject EXCEPT !.alive = TRUE]) /\ UNCHANGED descriptor
    <3> DEFINE fields == [NoSocketObject EXCEPT !.alive = TRUE]
    <3>1. fields \in SocketObjectType /\ fields.alive = TRUE /\ fields.socket = NoDescriptor
      BY DEF NoSocketObject, SocketObjectType
    <3> HIDE DEF fields
    <3>2. SetObject(o, fields)
      BY <2>3 DEF fields
    <3>3. WinsockUp'
      BY <1>2, <2>1, <3>1, <3>2, WinsockKept
    <3>4. Forgotten(o) = {}
      <4>1. d = NoDescriptor
        BY <1>2, <2>1 DEF OnesOwn
      <4> QED
        BY <1>2, <4>1, SocketAssumption DEF Forgotten, IsOpen, SocketParts, NoDescriptor
    <3> QED
      BY <2>1, <2>3, <3>1, <3>2, <3>3, <3>4, ForgetsDescriptor
  <2> QED
    BY <1>7, <2>2, <2>3 DEF ConstructSocket
<1>8. ASSUME UNCHANGED <<winsockUps, callerHas, dropped>>, DOMAIN descriptor' = DOMAIN descriptor,
             UNCHANGED socketOf \/ \E side \in {"server", "client"} : SetObject(o, [was EXCEPT !.side = side])
      PROVE  SocketInv'
  <2>1. CASE UNCHANGED socketOf
    <3>1. SetObject(o, was)
      BY <1>2, <2>1 DEF SetObject, SocketParts
    <3> QED
      BY <1>1, <1>8, <3>1, KeepsDescriptor
  <2>2. ASSUME NEW side \in {"server", "client"}, SetObject(o, [was EXCEPT !.side = side]) PROVE SocketInv'
    <3> DEFINE fields == [was EXCEPT !.side = side]
    <3>1. /\ fields \in SocketObjectType /\ fields.alive = was.alive
          /\ fields.socket = d /\ fields.attached = was.attached
      BY <1>4
    <3>2. SetObject(o, fields)
      BY <2>2
    <3> HIDE DEF fields
    <3> QED
      BY <1>8, <3>1, <3>2, KeepsDescriptor
  <2> QED
    BY <1>8, <2>1, <2>2
<1>9. CASE BindSocket(o) \/ ListenSocket(o) \/ ConnectSocket(o)
  BY <1>6, <1>8, <1>9 DEF BindSocket, ListenSocket, ConnectSocket
<1>10. CASE AcceptSocket(o)
  <2>1. WinsockUp'
    BY <1>2, <1>10 DEF AcceptSocket, WinsockUp, LivingSockets
  <2> QED
    BY <1>10, <2>1, OpensDescriptor DEF AcceptSocket
<1>11. CASE DetachSocket(o)
  <2> DEFINE fields == [was EXCEPT !.socket = NoDescriptor]
  <2>1. fields \in SocketObjectType /\ fields.alive = was.alive /\ fields.socket = NoDescriptor
    BY <1>5
  <2>2. SetObject(o, fields) /\ dropped' = dropped \union Forgotten(o) /\ UNCHANGED <<winsockUps, descriptor, callerHas>>
    BY <1>11 DEF DetachSocket
  <2> HIDE DEF fields
  <2>3. WinsockUp'
    BY <1>2, <2>1, <2>2, WinsockKept
  <2> QED
    BY <2>1, <2>2, <2>3, ForgetsDescriptor
<1>12. CASE CloseSocketObject(o)
  <2> DEFINE fields == [was EXCEPT !.socket = NoDescriptor]
  <2>1. fields \in SocketObjectType /\ fields.alive = was.alive /\ fields.socket = NoDescriptor
    BY <1>5
  <2>2. /\ SetObject(o, fields) /\ IsOpen(d) /\ descriptor' = ClosedTable(d) /\ callerHas' = callerHas \ {d}
        /\ dropped' = dropped \ {d} /\ UNCHANGED winsockUps
    BY <1>12 DEF CloseSocketObject
  <2> HIDE DEF fields
  <2>3. WinsockUp'
    BY <1>2, <2>1, <2>2, WinsockKept
  <2> QED
    BY <2>1, <2>2, <2>3, ClosesDescriptor
<1>13. CASE DestroySocket(o)
  <2>1. was.alive /\ SetObject(o, NoSocketObject)
    BY <1>13 DEF DestroySocket
  <2>2. CASE was.attached
    <3>1. dropped' = dropped \union Forgotten(o) /\ UNCHANGED <<winsockUps, descriptor, callerHas>>
      BY <1>13, <2>2 DEF DestroySocket
    <3>2. WinsockUp'
      BY <1>2, <1>3, <2>1, <3>1, WinsockKept
    <3> QED
      BY <1>3, <2>1, <3>1, <3>2, ForgetsDescriptor
  <2>3. CASE ~ was.attached
    <3>1. /\ winsockUps' = winsockUps - 1 /\ UNCHANGED <<callerHas, dropped>>
          /\ descriptor' = IF IsOpen(d) THEN ClosedTable(d) ELSE descriptor
      BY <1>13, <2>3 DEF DestroySocket
    <3>2. WinsockUp'
      BY <1>2, <1>3, <2>1, <3>1, WinsockKept
    <3>3. CASE IsOpen(d)
      <4>1. d # NoDescriptor
        BY <1>2, <3>3, SocketAssumption DEF IsOpen, SocketParts, NoDescriptor
      <4>2. callerHas = callerHas \ {d} /\ dropped = dropped \ {d}
        BY <1>2, <2>3, <4>1 DEF OnesOwn
      <4> QED
        BY <1>3, <2>1, <3>1, <3>2, <3>3, <4>2, ClosesDescriptor
    <3>4. CASE ~ IsOpen(d)
      <4>1. Forgotten(o) = {}
        BY <3>4 DEF Forgotten
      <4> QED
        BY <1>3, <2>1, <3>1, <3>2, <3>4, <4>1, ForgetsDescriptor
    <3> QED
      BY <3>3, <3>4
  <2> QED
    BY <2>2, <2>3
<1>14. ASSUME NEW e \in Descriptors, AttachSocket(o, e) PROVE SocketInv'
  <2> DEFINE fields == [was EXCEPT !.socket = e, !.attached = TRUE]
  <2>1. /\ was.alive /\ e \in callerHas /\ \A p \in SocketObjects \ {o} : socketOf[p].socket # e
        /\ SetObject(o, fields) /\ dropped' = dropped \union Forgotten(o)
        /\ UNCHANGED <<winsockUps, descriptor, callerHas>>
    BY <1>14 DEF AttachSocket
  <2>2. fields \in SocketObjectType /\ fields.alive = was.alive /\ fields.socket = e /\ fields.attached = TRUE
    BY <1>1 DEF SocketObjectType
  <2> HIDE DEF fields
  <2>3. WinsockUp'
    BY <1>2, <2>1, <2>2, WinsockKept
  <2> QED
    BY <1>1, <2>1, <2>2, <2>3, ForgetsDescriptor
<1> QED
  BY <1>7, <1>9, <1>10, <1>11, <1>12, <1>13, <1>14

LEMMA SocketInvariant == SocketSpec => []SocketInv
<1>1. ASSUME SocketInv, [SocketNext]_socketVars PROVE SocketInv'
  <2>1. CASE UNCHANGED socketVars
    BY <1>1, <2>1 DEF socketVars, SocketInv, SocketParts, WinsockUp, LivingSockets, NoneLost, OnesOwn
  <2> QED
    BY <1>1, <2>1, SocketStep, Zenon DEF SocketNext
<1> QED
  BY <1>1, SocketInitInv, PTL DEF SocketSpec

\* Winsock is up while an object lives, an object that was never attached has an open descriptor
\* of its own, and every open descriptor is of an object, of the program or counted as dropped,
\* for any number of objects and descriptors.
THEOREM SocketsKept == SocketSpec => []SocketsAccountedFor
<1>1. ASSUME SocketInv PROVE SocketsAccountedFor
  <2>1. winsockUps >= Cardinality({o \in SocketObjects : socketOf[o].alive})
    BY <1>1 DEF SocketInv, WinsockUp, LivingSockets
  <2>2. ASSUME NEW o \in SocketObjects, Available(o), ~ socketOf[o].attached
        PROVE  /\ IsOpen(socketOf[o].socket) /\ socketOf[o].socket \notin callerHas \union dropped
               /\ \A p \in SocketObjects \ {o} : socketOf[p].socket # socketOf[o].socket
    <3>1. OnesOwn(o)
      BY <1>1 DEF SocketInv
    <3> QED
      BY <2>2, <3>1 DEF OnesOwn, Available, IsOpen
  <2>3. DOMAIN descriptor = callerHas \union dropped
          \union {socketOf[o].socket : o \in {p \in SocketObjects : Available(p) /\ IsOpen(socketOf[p].socket)}}
    <3>1. \A o \in SocketObjects : IsOpen(socketOf[o].socket) => Available(o)
      BY <1>1, SocketAssumption DEF SocketInv, SocketParts, OnesOwn, Available, IsOpen, NoDescriptor
    <3> QED
      BY <1>1, <3>1 DEF SocketInv, SocketParts, NoneLost, IsOpen
  <2> QED
    BY <2>1, <2>2, <2>3, Zenon DEF SocketsAccountedFor
<1> QED
  BY <1>1, SocketInvariant, PTL

-----------------------------------------------------------------------------
(* Numbering a finite set *)

\* How many members of a set are below a number.
RankIn(S, k) == Cardinality({c \in S : c < k})

\* The members of a finite set of numbers are numbered from 0 by what is below them.
LEMMA RanksNumber ==
  ASSUME NEW S \in SUBSET Nat, IsFiniteSet(S)
  PROVE  /\ Cardinality(S) \in Nat
         /\ \A k \in S : RankIn(S, k) \in 0 .. Cardinality(S) - 1
         /\ \A k, l \in S : k < l => RankIn(S, k) < RankIn(S, l)
         /\ \A i \in 0 .. Cardinality(S) - 1 : \E k \in S : RankIn(S, k) = i
<1> DEFINE below(k) == {c \in S : c < k}
           n == Cardinality(S)
<1>1. \A k \in S : IsFiniteSet(below(k)) /\ RankIn(S, k) = Cardinality(below(k)) /\ RankIn(S, k) \in Nat
  BY FS_Subset, FS_CardinalityType DEF RankIn
<1>2. n \in Nat
  BY FS_CardinalityType
<1>3. ASSUME NEW k \in S PROVE RankIn(S, k) < n
  <2>1. below(k) \in SUBSET S /\ below(k) # S
    BY DEF RankIn
  <2> HIDE DEF below
  <2>2. Cardinality(below(k)) <= n /\ Cardinality(below(k)) # n
    BY <2>1, FS_Subset
  <2> QED
    BY <1>1, <1>2, <2>2
<1>4. ASSUME NEW k \in S, NEW l \in S, k < l PROVE RankIn(S, k) < RankIn(S, l)
  <2>1. below(k) \union {k} \in SUBSET below(l) /\ k \notin below(k)
    <3>1. \A c \in S : c \in Nat
      OBVIOUS
    <3>2. \A c \in S : c < k => c < l
      BY <1>4, <3>1
    <3>3. ~ (k < k)
      BY <3>1
    <3>4. \A c \in S : c < k \/ c = k => c < l
      BY <1>4, <3>2
    <3> QED
      BY <1>4, <3>3, <3>4, Zenon
  <2>2. IsFiniteSet(below(k)) /\ IsFiniteSet(below(l))
    BY <1>1
  <2> HIDE DEF below
  <2>3. Cardinality(below(k) \union {k}) = Cardinality(below(k)) + 1
    BY <2>1, <2>2, FS_AddElement
  <2>4. Cardinality(below(k) \union {k}) <= Cardinality(below(l))
    BY <2>1, <2>2, FS_Subset
  <2> QED
    BY <1>1, <2>3, <2>4
<1>5. ASSUME NEW i \in 0 .. n - 1 PROVE \E k \in S : RankIn(S, k) = i
  <2> DEFINE T == {j \in 0 .. n - 1 : \E k \in S : RankIn(S, k) = j}
  <2>1. n - 1 \in Nat
    BY <1>2, <1>5
  <2>2. 0 \in T
    <3>1. S # {}
      BY <2>1, FS_EmptySet
    <3>2. PICK k \in S : \A y \in S : k <= y
      BY <3>1, LeastNumber
    <3>3. below(k) = {}
      <4>1. \A y \in S : y \in Nat
        OBVIOUS
      <4>2. \A y \in S : ~ (y < k)
        BY <3>2, <4>1
      <4> QED
        BY <4>2
    <3>4. RankIn(S, k) = 0
      BY <1>1, <3>3, FS_EmptySet
    <3> QED
      BY <2>1, <3>4
  <2>3. ASSUME NEW j \in 0 .. (n - 1) - 1, j \in T PROVE j + 1 \in T
    <3>1. PICK k \in S : RankIn(S, k) = j
      BY <2>3
    <3> DEFINE above == {c \in S : k < c}
    <3>2. above # {}
      <4> SUFFICES ASSUME above = {} PROVE FALSE
        OBVIOUS
      <4>1. S = below(k) \union {k} /\ k \notin below(k)
        <5>1. \A c \in S : c \in Nat
          OBVIOUS
        <5>2. \A c \in S : c < k \/ c = k \/ k < c
          BY <5>1
        <5>3. ~ (k < k)
          BY <5>1
        <5> QED
          BY <5>2, <5>3
      <4> HIDE DEF below
      <4>2. n = Cardinality(below(k)) + 1
        BY <1>1, <4>1, FS_AddElement
      <4> QED
        BY <1>1, <1>2, <2>3, <3>1, <4>2
    <3>3. above \in SUBSET Nat
      OBVIOUS
    <3>4. PICK l \in above : \A y \in above : l <= y
      <4> HIDE DEF above
      <4> QED
        BY <3>2, <3>3, LeastNumber
    <3>5. below(l) = below(k) \union {k} /\ k \notin below(k) /\ l \in S
      <4>1. \A c \in S : c \in Nat
        OBVIOUS
      <4>2. l \in S /\ k < l /\ \A c \in S : k < c => l <= c
        BY <3>4
      <4> HIDE DEF above
      <4>3. \A c \in S : c < l <=> (c < k \/ c = k)
        BY <4>1, <4>2
      <4>4. ~ (k < k)
        BY <4>1
      <4> QED
        BY <4>2, <4>3, <4>4
    <3> HIDE DEF below
    <3>6. Cardinality(below(l)) = j + 1
      <4>1. IsFiniteSet(below(k)) /\ Cardinality(below(k)) = j
        BY <1>1, <3>1
      <4> QED
        BY <3>5, <4>1, FS_AddElement
    <3> QED
      BY <1>1, <2>1, <2>3, <3>5, <3>6
  <2> HIDE DEF T
  <2>4. \A j \in 0 .. n - 1 : j \in T
    BY <2>1, <2>2, <2>3, IntervalInduction
  <2> QED
    BY <2>4 DEF T
<1>6. ASSUME NEW k \in S PROVE RankIn(S, k) \in 0 .. n - 1
  <2>1. RankIn(S, k) \in Nat /\ RankIn(S, k) < n
    BY <1>1, <1>3
  <2> HIDE DEF n
  <2> QED
    BY <1>2, <2>1
<1> QED
  BY <1>2, <1>4, <1>5, <1>6

-----------------------------------------------------------------------------
(* RegistryKey: the keys and the listings, for any names, objects and handles *)

\* What the handles that are open, and those the objects keep, may be.
HandleParts ==
  /\ DOMAIN regOpen \subseteq 1 .. MaxKeyHandles
  /\ regOpen \in [DOMAIN regOpen -> regKeys \union {NoPath}]
  /\ registry \in [Registries -> [root : Seq(KeyNames), sub : 0 .. MaxKeyHandles,
                                  on : Seq(KeyNames) \union {NoPath}, asked : BOOLEAN]]
  /\ \A o \in Registries \ WideRegistries : registry[o].root = <<>>

KeyParts ==
  /\ regKeys \in SUBSET Seq(KeyNames) /\ IsFiniteSet(regKeys)
  /\ \A path \in regKeys : Len(path) <= MaxKeyDepth + 1
  /\ HandleParts
  /\ keyList \in [by : Registries \union {NullKey}, count : Nat, names : Seq(KeyNames \union {NoPath}),
                  changed : BOOLEAN]
  /\ Len(keyList.names) <= keyList.count

\* What is listed so far are the first names of the key that was counted: the object still
\* has it open, and no other object can close it.
ListedSoFar ==
  keyList.count > 0 =>
    /\ keyList.by \in Registries /\ registry[keyList.by].on # NoPath
    /\ ~keyList.changed =>
         /\ Listed \in regKeys
         /\ keyList.count = Cardinality(Children(Listed))
         /\ \A i \in 1 .. Len(keyList.names) : keyList.names[i] = NameAt(Listed, i)

\* Whoever opened a key holds a handle that is open, its own and of that key; after key_exists
\* of the key asked for, or none.
HandlesHeld ==
  \A o \in Registries : registry[o].on # NoPath =>
    /\ registry[o].sub \in DOMAIN regOpen \/ (registry[o].asked /\ registry[o].sub = NullKey)
    /\ registry[o].asked \/ regOpen[registry[o].sub] \in {registry[o].on, NoPath}
    /\ \A p \in Registries \ {o} :
         registry[p].on # NoPath /\ registry[p].sub = registry[o].sub => registry[o].sub = NullKey

KeyInv == KeyParts /\ HandlesHeld /\ ListedSoFar

\* The names below a key are finitely many.
LEMMA ChildrenFinite ==
  ASSUME regKeys \in SUBSET Seq(KeyNames), IsFiniteSet(regKeys), NEW path \in Seq(KeyNames)
  PROVE  Children(path) \in SUBSET Nat /\ IsFiniteSet(Children(path)) /\ Cardinality(Children(path)) \in Nat
<1> DEFINE below == [k \in Children(path) |-> Append(path, k)]
<1>1. Children(path) \in SUBSET KeyNames
  BY DEF Children
<1>2. below \in Injection(Children(path), regKeys)
  <2>1. below \in [Children(path) -> regKeys]
    BY DEF Children, Exists
  <2>2. ASSUME NEW k \in Children(path), NEW l \in Children(path), below[k] = below[l] PROVE k = l
    <3>1. k \in KeyNames /\ l \in KeyNames /\ Append(path, k) = Append(path, l)
      BY <1>1, <2>2
    <3> QED
      BY <3>1, AppendInjective
  <2> HIDE DEF below
  <2> QED
    BY <2>1, <2>2 DEF Injection, IsInjective
<1> QED
  BY <1>1, <1>2, FS_Injection, FS_CardinalityType, RegistryAssumption

\* The name the registry gives for an index is the one with as many names before it.
LEMMA NameIsRanked ==
  ASSUME regKeys \in SUBSET Seq(KeyNames), IsFiniteSet(regKeys), NEW path \in Seq(KeyNames),
         NEW i \in 1 .. Cardinality(Children(path))
  PROVE  NameAt(path, i) \in Children(path) /\ RankIn(Children(path), NameAt(path, i)) = i - 1
<1>1. /\ Children(path) \in SUBSET Nat /\ IsFiniteSet(Children(path))
      /\ Cardinality(Children(path)) \in Nat
  BY ChildrenFinite
<1>2. i - 1 \in 0 .. Cardinality(Children(path)) - 1 /\ ~ (i > Cardinality(Children(path)))
  BY <1>1
<1>3. PICK k \in Children(path) : RankIn(Children(path), k) = i - 1
  BY <1>1, <1>2, RanksNumber
<1>4. path # NoPath
  BY RegistryAssumption
<1>5. NameAt(path, i) = CHOOSE l \in Children(path) : RankIn(Children(path), l) = i - 1
  BY <1>2, <1>4, Zenon DEF NameAt, RankIn
<1> QED
  BY <1>3, <1>5, Zenon

\* A listing of all indices names every key once, in order.
LEMMA AllNamesListed ==
  ASSUME KeyParts, HandlesHeld, ListedSoFar
  PROVE  ListingComplete
<1> SUFFICES ASSUME keyList.count > 0, Len(keyList.names) = keyList.count, ~keyList.changed
             PROVE  /\ ToSet(keyList.names) = Children(Listed)
                    /\ \A i, j \in DOMAIN keyList.names : i < j => keyList.names[i] < keyList.names[j]
                    /\ ~registry[keyList.by].asked => Listed = registry[keyList.by].on
  BY DEF ListingComplete
<1> DEFINE names == keyList.names
           children == Children(Listed)
<1>1. /\ Listed \in Seq(KeyNames) /\ Len(names) = Cardinality(children)
      /\ \A i \in 1 .. Len(names) : names[i] = NameAt(Listed, i)
  BY DEF KeyParts, HandleParts, ListedSoFar
<1>2. DOMAIN names = 1 .. Len(names)
  BY LenProperties DEF KeyParts, HandleParts
<1>3. regKeys \in SUBSET Seq(KeyNames) /\ IsFiniteSet(regKeys)
  BY DEF KeyParts, HandleParts
<1> HIDE DEF names
<1>4. children \in SUBSET Nat /\ IsFiniteSet(children) /\ Cardinality(children) \in Nat
  BY <1>1, <1>3, ChildrenFinite
<1>5. \A i \in 1 .. Len(names) : names[i] \in children /\ RankIn(children, names[i]) = i - 1
  BY <1>1, <1>3, NameIsRanked
<1> HIDE DEF children
<1>6. ASSUME NEW i \in 1 .. Len(names), NEW j \in 1 .. Len(names), i < j PROVE names[i] < names[j]
  <2>1. names[i] \in children /\ names[j] \in children /\ RankIn(children, names[i]) < RankIn(children, names[j])
    BY <1>1, <1>4, <1>5, <1>6
  <2>2. names[i] \in Nat /\ names[j] \in Nat /\ names[i] # names[j]
    <3>1. RankIn(children, names[i]) \in Nat
      BY <1>1, <1>4, <1>5
    <3>2. ~ (RankIn(children, names[i]) < RankIn(children, names[i]))
      BY <3>1
    <3>3. names[i] # names[j]
      BY <2>1, <3>2, Zenon
    <3> QED
      BY <1>4, <2>1, <3>3
  <2>3. CASE names[j] < names[i]
    <3>1. RankIn(children, names[j]) < RankIn(children, names[i])
      BY <1>4, <2>1, <2>3, RanksNumber
    <3>2. RankIn(children, names[j]) = j - 1 /\ RankIn(children, names[i]) = i - 1
      BY <1>5
    <3> QED
      BY <1>1, <1>4, <1>6, <3>1, <3>2
  <2> QED
    BY <2>2, <2>3
<1>7. ASSUME NEW k \in children PROVE \E i \in 1 .. Len(names) : names[i] = k
  <2> DEFINE i == RankIn(children, k) + 1
  <2>1. RankIn(children, k) \in 0 .. Cardinality(children) - 1
    BY <1>4, RanksNumber
  <2>2. i \in 1 .. Len(names) /\ i - 1 = RankIn(children, k)
    BY <1>1, <1>4, <2>1
  <2> HIDE DEF i
  <2>3. names[i] \in children /\ RankIn(children, names[i]) = RankIn(children, k)
    BY <1>5, <2>2
  <2>4. names[i] \in Nat /\ k \in Nat
    BY <1>4, <2>3
  <2>5. ~ (RankIn(children, k) < RankIn(children, k))
    BY <1>4, <2>1
  <2>6. ~ (names[i] < k) /\ ~ (k < names[i])
    BY <1>4, <2>3, <2>5, RanksNumber
  <2> QED
    BY <2>2, <2>4, <2>6
<1>8. ToSet(names) = children
  BY <1>2, <1>5, <1>7, Zenon DEF ToSet
<1>9. ~registry[keyList.by].asked => Listed = registry[keyList.by].on
  <2>1. keyList.by \in Registries /\ registry[keyList.by].on # NoPath /\ Listed # NoPath
    BY <1>1, RegistryAssumption DEF ListedSoFar
  <2> QED
    BY <2>1 DEF HandlesHeld, Listed, KeyOf
<1> QED
  BY <1>2, <1>6, <1>8, <1>9 DEF names, children

\* There is no listing at first, and only the root key.
LEMMA InitKeyInv == RegistryInit => KeyInv
<1> SUFFICES ASSUME RegistryInit PROVE KeyInv
  OBVIOUS
<1>1. KeyParts
  <2>1. <<>> \in Seq(KeyNames) /\ <<>> \in Seq(KeyNames \union {NoPath}) /\ Len(<<>>) = 0
    OBVIOUS
  <2>2. IsFiniteSet(regKeys)
    BY FS_Singleton DEF RegistryInit
  <2>3. DOMAIN regOpen = {} /\ regOpen \in [DOMAIN regOpen -> regKeys \union {NoPath}]
    BY DEF RegistryInit
  <2>4. 0 \in 0 .. MaxKeyHandles /\ 0 <= MaxKeyDepth + 1
    BY RegistryAssumption
  <2>5. registry \in [Registries -> [root : Seq(KeyNames), sub : 0 .. MaxKeyHandles,
                                    on : Seq(KeyNames) \union {NoPath}, asked : BOOLEAN]]
    BY <2>1, <2>4 DEF RegistryInit, NullKey
  <2>6. keyList \in [by : Registries \union {NullKey}, count : Nat, names : Seq(KeyNames \union {NoPath}),
                    changed : BOOLEAN]
    BY <2>1 DEF RegistryInit, NoListing
  <2> QED
    BY <2>1, <2>2, <2>3, <2>4, <2>5, <2>6 DEF RegistryInit, NoListing, KeyParts, HandleParts
<1>2. HandlesHeld
  BY DEF RegistryInit, HandlesHeld
<1>3. ListedSoFar
  BY DEF RegistryInit, NoListing, ListedSoFar
<1> QED
  BY <1>1, <1>2, <1>3 DEF KeyInv

\* The handle that is given out is not open.
LEMMA FreeKeyIsFree ==
  ASSUME KeyParts, MayOpen
  PROVE  FreeKey \in 1 .. MaxKeyHandles /\ FreeKey \notin DOMAIN regOpen
<1> DEFINE free == 1 .. MaxKeyHandles \ DOMAIN regOpen
<1>1. free # {}
  <2> SUFFICES ASSUME free = {} PROVE FALSE
    OBVIOUS
  <2>1. DOMAIN regOpen = 1 .. MaxKeyHandles
    BY Zenon DEF KeyParts, HandleParts
  <2>2. Cardinality(1 .. MaxKeyHandles) = MaxKeyHandles
    BY RegistryAssumption, FS_Interval
  <2> QED
    BY <2>1, <2>2, RegistryAssumption DEF MayOpen
<1>2. free \in SUBSET Nat
  OBVIOUS
<1>3. FreeKey = Min(free)
  BY DEF FreeKey
<1> HIDE DEF free
<1>4. FreeKey \in free
  BY <1>1, <1>2, <1>3, LeastNumber, Zenon DEF Min
<1> QED
  BY <1>4 DEF free

\* A listing goes on as it was when neither the key that is listed nor its names change.
LEMMA ListedKeeps ==
  ASSUME KeyParts, ListedSoFar,
         keyList'.by = keyList.by, keyList'.count = keyList.count, keyList'.names = keyList.names,
         ~keyList'.changed => ~keyList.changed,
         keyList.count > 0 => registry'[keyList.by].on # NoPath,
         keyList.count > 0 /\ ~keyList'.changed =>
           Listed' = Listed /\ Children(Listed)' = Children(Listed) /\ Listed \in regKeys'
  PROVE  ListedSoFar'
<1> SUFFICES ASSUME keyList.count > 0
             PROVE  /\ keyList.by \in Registries /\ registry'[keyList.by].on # NoPath
                    /\ ~keyList'.changed =>
                         /\ Listed' \in regKeys'
                         /\ keyList.count = Cardinality(Children(Listed)')
                         /\ \A i \in 1 .. Len(keyList.names) : keyList.names[i] = NameAt(Listed, i)'
  BY DEF ListedSoFar
<1>1. keyList.by \in Registries /\ registry'[keyList.by].on # NoPath
  BY DEF ListedSoFar
<1>2. ASSUME ~keyList'.changed
      PROVE  /\ Listed' \in regKeys'
             /\ keyList.count = Cardinality(Children(Listed)')
             /\ \A i \in 1 .. Len(keyList.names) : keyList.names[i] = NameAt(Listed, i)'
  <2>1. /\ Children(Listed)' = Children(Listed) /\ Listed' = Listed /\ Listed \in regKeys'
        /\ ~keyList.changed
    BY <1>2
  <2> DEFINE Nth(p, S, i) == IF p = NoPath \/ i > Cardinality(S) THEN NoPath
                             ELSE CHOOSE k \in S : Cardinality({c \in S : c < k}) = i - 1
  <2>2. \A i : NameAt(Listed, i)' = NameAt(Listed, i)
    <3>1. \A i : /\ NameAt(Listed, i) = Nth(Listed, Children(Listed), i)
                 /\ NameAt(Listed, i)' = Nth(Listed', Children(Listed)', i)
      BY Zenon DEF NameAt
    <3> HIDE DEF Nth
    <3> QED
      BY <2>1, <3>1, Zenon
  <2> QED
    BY <2>1, <2>2 DEF ListedSoFar
<1> QED
  BY <1>1, <1>2

\* What a key that comes or goes makes of the listing.
LEMMA ChangeKeeps ==
  ASSUME KeyParts, ListedSoFar, NEW path \in Seq(KeyNames), path # <<>>,
         regKeys' = regKeys \union {path} \/ regKeys' = regKeys \ {path}, ListChanges(path),
         keyList.count > 0 => registry'[keyList.by].on # NoPath /\ (Listed # path => Listed' = Listed)
  PROVE  ListedSoFar'
<1> DEFINE touched == Listed \in {path, SubSeq(path, 1, Len(path) - 1)}
<1>1. keyList' = [keyList EXCEPT !.changed = keyList.changed \/ touched]
  BY DEF ListChanges
<1>2. /\ keyList'.by = keyList.by /\ keyList'.count = keyList.count /\ keyList'.names = keyList.names
      /\ keyList'.changed = (keyList.changed \/ touched)
  <2> HIDE DEF touched
  <2> QED
    BY <1>1 DEF KeyParts, HandleParts
<1>3. ASSUME keyList.count > 0, ~keyList'.changed
      PROVE  Listed' = Listed /\ Children(Listed)' = Children(Listed) /\ Listed \in regKeys'
  <2>1. ~keyList.changed /\ Listed # path /\ Listed # SubSeq(path, 1, Len(path) - 1)
    BY <1>2, <1>3
  <2>2. Listed' = Listed /\ Listed \in regKeys /\ Listed \in Seq(KeyNames)
    BY <1>3, <2>1 DEF ListedSoFar, KeyParts, HandleParts
  <2> HIDE DEF touched
  <2> DEFINE l == Listed
  <2>3. ASSUME NEW k \in KeyNames PROVE Append(l, k) # path
    <3> SUFFICES ASSUME Append(l, k) = path PROVE FALSE
      OBVIOUS
    <3>1. l \in Seq(KeyNames)
      BY <2>2
    <3>2. SubSeq(path, 1, Len(path) - 1) = l
      <4> HIDE DEF l
      <4>1. Len(path) = Len(l) + 1 /\ Len(l) \in Nat /\ path = l \o <<k>>
        BY <3>1
      <4> QED
        BY <3>1, <4>1
    <3> QED
      BY <2>1, <3>2
  <2>4. Children(Listed)' = Children(Listed)
    <3>1. Children(l) = {k \in KeyNames : Append(l, k) \in regKeys}
      BY DEF Children, Exists
    <3>2. Children(Listed)' = {k \in KeyNames : Append(l, k) \in regKeys'}
      BY <2>2, Zenon DEF Children, Exists
    <3>3. \A k \in KeyNames : Append(l, k) \in regKeys' <=> Append(l, k) \in regKeys
      <4> HIDE DEF l
      <4> QED
        BY <2>3, Zenon
    <3> QED
      BY <3>1, <3>2, <3>3
  <2> QED
    BY <2>1, <2>2, <2>4
<1> QED
  BY <1>2, <1>3, ListedKeeps

\* The handle that is given out names the key that was opened; the others name what they did.
LEMMA OpenedNames ==
  ASSUME KeyParts, MayOpen, NEW path \in regKeys', regKeys \subseteq regKeys', regOpen' = Opened(FreeKey, path)
  PROVE  /\ FreeKey \in 1 .. MaxKeyHandles /\ FreeKey \notin DOMAIN regOpen
         /\ DOMAIN regOpen' = DOMAIN regOpen \union {FreeKey}
         /\ regOpen' \in [DOMAIN regOpen' -> regKeys' \union {NoPath}]
         /\ regOpen'[FreeKey] = path
         /\ \A h \in DOMAIN regOpen : regOpen'[h] = regOpen[h]
<1>1. FreeKey \in 1 .. MaxKeyHandles /\ FreeKey \notin DOMAIN regOpen
  BY FreeKeyIsFree
<1> DEFINE free == FreeKey
<1>2. regOpen' = [g \in DOMAIN regOpen \union {free} |-> IF g = free THEN path ELSE regOpen[g]]
  BY DEF Opened
<1>3. regOpen \in [DOMAIN regOpen -> regKeys \union {NoPath}]
  BY DEF KeyParts, HandleParts
<1> HIDE DEF free
<1>4. /\ DOMAIN regOpen' = DOMAIN regOpen \union {free}
      /\ regOpen'[free] = path
  BY <1>2
<1>5. \A h \in DOMAIN regOpen : regOpen'[h] = regOpen[h]
  BY <1>1, <1>2 DEF free
<1>6. regOpen' \in [DOMAIN regOpen' -> regKeys' \union {NoPath}]
  BY <1>2, <1>3, <1>4
<1> QED
  BY <1>1, <1>4, <1>5, <1>6 DEF free

\* Keys that are made are as long as the bounds say, and finitely many.
LEMMA KeysGrow ==
  ASSUME KeyParts, NEW path \in Seq(KeyNames), Len(path) <= MaxKeyDepth + 1, regKeys' = regKeys \union {path}
  PROVE  /\ regKeys' \in SUBSET Seq(KeyNames) /\ IsFiniteSet(regKeys') /\ regKeys \subseteq regKeys'
         /\ \A p \in regKeys' : Len(p) <= MaxKeyDepth + 1
BY FS_AddElement DEF KeyParts, HandleParts

\* A handle names what it did.
HandleKeeps(h) ==
  /\ h \in DOMAIN regOpen' <=> h \in DOMAIN regOpen
  /\ h \in DOMAIN regOpen => regOpen'[h] = regOpen[h]

\* The listing under way keeps its key, and no name comes or goes.
LEMMA UntouchedKeeps ==
  ASSUME KeyParts, ListedSoFar, regKeys' = regKeys, UNCHANGED keyList,
         keyList.count > 0 =>
           registry'[keyList.by] = registry[keyList.by] /\ HandleKeeps(registry[keyList.by].sub)
  PROVE  ListedSoFar'
<1>1. ASSUME keyList.count > 0 PROVE registry'[keyList.by].on # NoPath /\ Listed' = Listed
  <2>1. registry[keyList.by].on # NoPath
    BY <1>1 DEF ListedSoFar
  <2> QED
    BY <1>1, <2>1 DEF Listed, KeyOf, HandleKeeps
<1>2. ASSUME keyList.count > 0 PROVE Children(Listed)' = Children(Listed)
  BY <1>1, <1>2, Zenon DEF Children, Exists
<1>3. ASSUME keyList.count > 0, ~keyList.changed PROVE Listed \in regKeys'
  BY <1>3 DEF ListedSoFar
<1> QED
  BY <1>1, <1>2, <1>3, ListedKeeps

\* What a step must leave of the object that lists.
ListerKeeps ==
  keyList.count > 0 => registry'[keyList.by] = registry[keyList.by] /\ HandleKeeps(registry[keyList.by].sub)

\* The objects when one of them gets another sub key.
Edited(o, h, on, asked) ==
  [p \in Registries |-> IF p = o THEN [root |-> registry[o].root, sub |-> h, on |-> on, asked |-> asked]
                       ELSE registry[p]]

\* An object that gets another sub key is an object still.
LEMMA EditedObject ==
  ASSUME HandleParts, NEW o \in Registries, NEW h \in 0 .. MaxKeyHandles,
         NEW on \in Seq(KeyNames) \union {NoPath}, NEW asked \in BOOLEAN
  PROVE  /\ Edited(o, h, on, asked) \in [Registries -> [root : Seq(KeyNames), sub : 0 .. MaxKeyHandles,
                                             on : Seq(KeyNames) \union {NoPath}, asked : BOOLEAN]]
         /\ Edited(o, h, on, asked)[o] = [root |-> registry[o].root, sub |-> h, on |-> on, asked |-> asked]
         /\ \A p \in Registries : p # o => Edited(o, h, on, asked)[p] = registry[p]
BY DEF HandleParts, Edited

\* The assignments of the calls are such edits.
LEMMA EditsOfCalls ==
  ASSUME HandleParts, NEW o \in Registries, NEW h, NEW on
  PROVE  /\ [registry EXCEPT ![o].sub = h, ![o].on = on, ![o].asked = FALSE] = Edited(o, h, on, FALSE)
         /\ [registry EXCEPT ![o].sub = h, ![o].asked = TRUE] = Edited(o, h, registry[o].on, TRUE)
<1> DEFINE taken == [registry EXCEPT ![o].sub = h, ![o].on = on, ![o].asked = FALSE]
           asked == [registry EXCEPT ![o].sub = h, ![o].asked = TRUE]
<1>1. registry \in [Registries -> [root : Seq(KeyNames), sub : 0 .. MaxKeyHandles,
                                   on : Seq(KeyNames) \union {NoPath}, asked : BOOLEAN]]
  BY DEF HandleParts
<1>2. taken = [p \in Registries |-> taken[p]] /\ asked = [p \in Registries |-> asked[p]]
  BY <1>1
<1>3. /\ taken[o] = [registry[o] EXCEPT !.sub = h, !.on = on, !.asked = FALSE]
      /\ asked[o] = [registry[o] EXCEPT !.sub = h, !.asked = TRUE]
      /\ \A p \in Registries : p # o => taken[p] = registry[p] /\ asked[p] = registry[p]
  BY <1>1
<1> HIDE DEF taken, asked
<1>4. /\ taken[o] = [root |-> registry[o].root, sub |-> h, on |-> on, asked |-> FALSE]
      /\ asked[o] = [root |-> registry[o].root, sub |-> h, on |-> registry[o].on, asked |-> TRUE]
  <2> DEFINE object == registry[o]
  <2>1. object \in [root : Seq(KeyNames), sub : 0 .. MaxKeyHandles, on : Seq(KeyNames) \union {NoPath}, asked : BOOLEAN]
    BY <1>1
  <2> HIDE DEF object
  <2>2. /\ [object EXCEPT !.sub = h, !.on = on, !.asked = FALSE]
             = [root |-> object.root, sub |-> h, on |-> on, asked |-> FALSE]
        /\ [object EXCEPT !.sub = h, !.asked = TRUE]
             = [root |-> object.root, sub |-> h, on |-> object.on, asked |-> TRUE]
    <3> DEFINE given == [root |-> object.root, sub |-> h, on |-> object.on, asked |-> object.asked]
               named == [root |-> object.root, sub |-> h, on |-> on, asked |-> object.asked]
    <3>1. [object EXCEPT !.sub = h] = given
      BY <2>1
    <3>2. [given EXCEPT !.on = on] = named
      OBVIOUS
    <3>3. /\ \A a : [given EXCEPT !.asked = a] = [root |-> object.root, sub |-> h, on |-> object.on, asked |-> a]
          /\ \A a : [named EXCEPT !.asked = a] = [root |-> object.root, sub |-> h, on |-> on, asked |-> a]
      OBVIOUS
    <3> HIDE DEF given, named
    <3>4. /\ [object EXCEPT !.sub = h, !.on = on, !.asked = FALSE] = [named EXCEPT !.asked = FALSE]
          /\ [object EXCEPT !.sub = h, !.asked = TRUE] = [given EXCEPT !.asked = TRUE]
      BY <3>1, <3>2, Zenon
    <3> QED
      BY <3>3, <3>4, Zenon
  <2> QED
    BY <1>3, <2>2 DEF object
<1>5. taken = Edited(o, h, on, FALSE)
  BY <1>2, <1>3, <1>4, Zenon DEF Edited
<1>6. asked = Edited(o, h, registry[o].on, TRUE)
  BY <1>2, <1>3, <1>4, Zenon DEF Edited
<1> QED
  BY <1>5, <1>6 DEF taken, asked

\* An object that is given the handle of a key that was opened: no other object has it, and the
\* handles there are name what they did.
LEMMA HandleGivenKeeps ==
  ASSUME KeyInv, MayOpen, NEW o \in Registries, ~Listing(o), NEW path \in regKeys', regKeys \subseteq regKeys',
         regOpen' = Opened(FreeKey, path),
         NEW on \in Seq(KeyNames) \union {NoPath}, NEW asked \in BOOLEAN, asked \/ on = path,
         registry' = Edited(o, FreeKey, on, asked)
  PROVE  HandleParts' /\ HandlesHeld' /\ ListerKeeps
<1> DEFINE free == FreeKey
<1>1. /\ free \in 1 .. MaxKeyHandles /\ free \notin DOMAIN regOpen
      /\ DOMAIN regOpen' = DOMAIN regOpen \union {free}
      /\ regOpen' \in [DOMAIN regOpen' -> regKeys' \union {NoPath}]
      /\ regOpen'[free] = path
      /\ \A h \in DOMAIN regOpen : regOpen'[h] = regOpen[h]
  BY OpenedNames DEF KeyInv
<1>2. registry' = Edited(o, free, on, asked) /\ free \in 0 .. MaxKeyHandles
  BY <1>1
<1> HIDE DEF free
<1>3. registry \in [Registries -> [root : Seq(KeyNames), sub : 0 .. MaxKeyHandles,
                                   on : Seq(KeyNames) \union {NoPath}, asked : BOOLEAN]]
  BY DEF KeyInv, KeyParts, HandleParts
<1>4. /\ registry' \in [Registries -> [root : Seq(KeyNames), sub : 0 .. MaxKeyHandles,
                                       on : Seq(KeyNames) \union {NoPath}, asked : BOOLEAN]]
      /\ registry'[o] = [root |-> registry[o].root, sub |-> free, on |-> on, asked |-> asked]
      /\ \A p \in Registries : p # o => registry'[p] = registry[p]
  BY <1>2, EditedObject DEF KeyInv, KeyParts
<1>5. /\ registry'[o] = [root |-> registry[o].root, sub |-> free, on |-> on, asked |-> asked]
      /\ \A p \in Registries : p # o => registry'[p] = registry[p]
  BY <1>4
<1>6. \A p \in Registries \ WideRegistries : registry'[p].root = <<>>
  <2>1. \A p \in Registries \ WideRegistries : registry[p].root = <<>>
    BY DEF KeyInv, KeyParts, HandleParts
  <2>2. \A p \in Registries : registry'[p].root = registry[p].root
    <3> TAKE p \in Registries
    <3>1. CASE p = o
      BY <1>5, <3>1
    <3>2. CASE p # o
      BY <1>5, <3>2
    <3> QED
      BY <3>1, <3>2
  <2> QED
    BY <2>1, <2>2
<1>7. registry'[o].sub = free /\ registry'[o].on = on /\ registry'[o].asked = asked
  BY <1>5
<1>8. HandleParts'
  BY <1>1, <1>4, <1>6 DEF KeyInv, KeyParts, HandleParts
<1>9. free # NullKey /\ NullKey \notin DOMAIN regOpen /\ NullKey \notin DOMAIN regOpen'
  BY <1>1 DEF NullKey, KeyInv, KeyParts, HandleParts
<1>10. \A p \in Registries : p # o /\ registry[p].on # NoPath => registry[p].sub # free /\ HandleKeeps(registry[p].sub)
  BY <1>1, <1>9 DEF KeyInv, HandlesHeld, HandleKeeps
<1>11. HandlesHeld'
  <2> SUFFICES ASSUME NEW p \in Registries, registry'[p].on # NoPath
               PROVE  /\ registry'[p].sub \in DOMAIN regOpen' \/ (registry'[p].asked /\ registry'[p].sub = NullKey)
                      /\ registry'[p].asked \/ regOpen'[registry'[p].sub] \in {registry'[p].on, NoPath}
                      /\ \A q \in Registries \ {p} :
                           registry'[q].on # NoPath /\ registry'[q].sub = registry'[p].sub => registry'[p].sub = NullKey
    BY DEF HandlesHeld
  <2>1. \A q \in Registries : q # o /\ registry'[q].on # NoPath => registry'[q].sub # free
    BY <1>5, <1>10
  <2>2. CASE p = o
    BY <1>1, <1>7, <2>1, <2>2
  <2>3. CASE p # o
    <3>1. registry'[p] = registry[p] /\ registry[p].on # NoPath /\ HandleKeeps(registry[p].sub)
      BY <1>5, <1>10, <2>3
    <3>2. /\ registry[p].sub \in DOMAIN regOpen \/ (registry[p].asked /\ registry[p].sub = NullKey)
          /\ registry[p].asked \/ regOpen[registry[p].sub] \in {registry[p].on, NoPath}
          /\ \A q \in Registries \ {p} :
               registry[q].on # NoPath /\ registry[q].sub = registry[p].sub => registry[p].sub = NullKey
      BY <3>1 DEF KeyInv, HandlesHeld
    <3>3. ASSUME NEW q \in Registries \ {p}, registry'[q].on # NoPath, registry'[q].sub = registry'[p].sub
          PROVE  registry'[p].sub = NullKey
      <4>1. q # o
        BY <1>7, <2>1, <2>3, <3>3
      <4> QED
        BY <1>5, <3>1, <3>2, <3>3, <4>1
    <3> QED
      BY <3>1, <3>2, <3>3 DEF HandleKeeps
  <2> QED
    BY <2>2, <2>3
<1>12. ListerKeeps
  <2> SUFFICES ASSUME keyList.count > 0
               PROVE  registry'[keyList.by] = registry[keyList.by] /\ HandleKeeps(registry[keyList.by].sub)
    BY DEF ListerKeeps
  <2>1. keyList.by \in Registries /\ registry[keyList.by].on # NoPath /\ keyList.by # o
    BY DEF KeyInv, ListedSoFar, Listing
  <2> QED
    BY <1>5, <1>10, <2>1
<1> QED
  BY <1>8, <1>11, <1>12

\* An object that opens a key.
LEMMA OpenIntoKeeps ==
  ASSUME KeyInv, MayOpen, NEW o \in Registries, ~Listing(o), NEW path \in Seq(KeyNames),
         path \in regKeys', regKeys \subseteq regKeys', OpenInto(o, path)
  PROVE  HandleParts' /\ HandlesHeld' /\ ListerKeeps
<1>1. regOpen' = Opened(FreeKey, path) /\ registry' = Edited(o, FreeKey, path, FALSE)
  BY EditsOfCalls DEF OpenInto, KeyInv, KeyParts
<1> QED
  BY <1>1, HandleGivenKeeps

\* open_key of a key there is.
LEMMA OpenKeyKeeps ==
  ASSUME KeyInv, NEW o \in Registries, ~Listing(o), NEW k \in KeyNames, OpenKey(o, k)
  PROVE  KeyInv'
<1> DEFINE path == Append(registry[o].root, k)
<1>1. path \in regKeys /\ path \in Seq(KeyNames)
  BY DEF KeyInv, KeyParts, OpenKey, Exists
<1>2. MayOpen /\ OpenInto(o, path) /\ regKeys' = regKeys /\ keyList' = keyList
  BY DEF OpenKey
<1> HIDE DEF path
<1>3. HandleParts' /\ HandlesHeld' /\ ListerKeeps
  BY <1>1, <1>2, OpenIntoKeeps
<1>4. KeyParts'
  BY <1>2, <1>3 DEF KeyInv, KeyParts
<1>5. ListedSoFar'
  BY <1>2, <1>3, UntouchedKeeps DEF ListerKeeps, KeyInv
<1> QED
  BY <1>3, <1>4, <1>5 DEF KeyInv

\* A key there is not: the handle of the object is left or cleared.
LEMMA NotFoundKeeps ==
  ASSUME KeyInv, NEW o \in Registries, ~Listing(o), regKeys' = regKeys, regOpen' = regOpen, keyList' = keyList,
         NEW sub \in {registry[o].sub, NullKey}, NEW on \in {registry[o].on, NoPath}, NEW asked \in BOOLEAN,
         on = NoPath \/ asked,
         registry' = Edited(o, sub, on, asked)
  PROVE  KeyInv'
<1>1. registry \in [Registries -> [root : Seq(KeyNames), sub : 0 .. MaxKeyHandles,
                                   on : Seq(KeyNames) \union {NoPath}, asked : BOOLEAN]]
  BY DEF KeyInv, KeyParts, HandleParts
<1>2. sub \in 0 .. MaxKeyHandles /\ on \in Seq(KeyNames) \union {NoPath}
  BY <1>1, RegistryAssumption DEF NullKey
<1>3. /\ registry' \in [Registries -> [root : Seq(KeyNames), sub : 0 .. MaxKeyHandles,
                                       on : Seq(KeyNames) \union {NoPath}, asked : BOOLEAN]]
      /\ registry'[o] = [root |-> registry[o].root, sub |-> sub, on |-> on, asked |-> asked]
      /\ \A p \in Registries : p # o => registry'[p] = registry[p]
  BY <1>2, EditedObject DEF KeyInv, KeyParts
<1>4. /\ \A p \in Registries : registry'[p].root = registry[p].root
      /\ \A p \in Registries : p # o => registry'[p] = registry[p]
      /\ registry'[o].sub = sub /\ registry'[o].on = on /\ registry'[o].asked = asked
  BY <1>3
<1>5. KeyParts'
  BY <1>3, <1>4 DEF KeyInv, KeyParts, HandleParts
<1>6. HandlesHeld'
  <2> SUFFICES ASSUME NEW p \in Registries, registry'[p].on # NoPath
               PROVE  /\ registry'[p].sub \in DOMAIN regOpen' \/ (registry'[p].asked /\ registry'[p].sub = NullKey)
                      /\ registry'[p].asked \/ regOpen'[registry'[p].sub] \in {registry'[p].on, NoPath}
                      /\ \A q \in Registries \ {p} :
                           registry'[q].on # NoPath /\ registry'[q].sub = registry'[p].sub => registry'[p].sub = NullKey
    BY DEF HandlesHeld
  <2>1. \A q \in Registries : registry'[q].on # NoPath =>
          registry[q].on # NoPath /\ registry'[q].sub \in {registry[q].sub, NullKey}
    BY <1>4
  <2>2. /\ registry[p].sub \in DOMAIN regOpen \/ (registry[p].asked /\ registry[p].sub = NullKey)
        /\ registry[p].asked \/ regOpen[registry[p].sub] \in {registry[p].on, NoPath}
        /\ \A q \in Registries \ {p} :
             registry[q].on # NoPath /\ registry[q].sub = registry[p].sub => registry[p].sub = NullKey
    BY <2>1 DEF KeyInv, HandlesHeld
  <2>3. \A q \in Registries \ {p} :
          registry'[q].on # NoPath /\ registry'[q].sub = registry'[p].sub => registry'[p].sub = NullKey
    BY <2>1, <2>2
  <2>4. CASE p = o
    BY <1>4, <2>2, <2>3, <2>4
  <2>5. CASE p # o
    BY <1>4, <2>2, <2>3, <2>5
  <2> QED
    BY <2>4, <2>5
<1>7. ListedSoFar'
  <2>1. keyList.count > 0 => registry'[keyList.by] = registry[keyList.by] /\ HandleKeeps(registry[keyList.by].sub)
    BY <1>4 DEF KeyInv, ListedSoFar, Listing, HandleKeeps
  <2> QED
    BY <2>1, UntouchedKeeps DEF KeyInv
<1> QED
  BY <1>5, <1>6, <1>7 DEF KeyInv

\* open_key of a key there is not: the object gives up its handle at most.
LEMMA OpenFailsKeeps ==
  ASSUME KeyInv, NEW o \in Registries, ~Listing(o), NEW k \in KeyNames, OpenFails(o, k)
  PROVE  KeyInv'
<1>1. regKeys' = regKeys /\ regOpen' = regOpen /\ keyList' = keyList
  BY DEF OpenFails
<1>2. CASE registry' = registry
  <2>1. KeyParts' /\ HandlesHeld'
    BY <1>1, <1>2 DEF KeyInv, KeyParts, HandleParts, HandlesHeld
  <2>2. ListedSoFar'
    BY <1>1, <1>2, UntouchedKeeps DEF KeyInv, HandleKeeps
  <2> QED
    BY <2>1, <2>2 DEF KeyInv
<1>3. CASE registry' = [registry EXCEPT ![o].sub = NullKey, ![o].on = NoPath, ![o].asked = FALSE]
  <2>1. registry' = Edited(o, NullKey, NoPath, FALSE)
    BY <1>3, EditsOfCalls DEF KeyInv, KeyParts
  <2> QED
    BY <1>1, <2>1, NotFoundKeeps
<1> QED
  BY <1>2, <1>3 DEF OpenFails

\* key_exists leaves what the program opened and takes the handle.
LEMMA KeyExistsKeeps ==
  ASSUME KeyInv, NEW o \in Registries, ~Listing(o), NEW k \in KeyNames, KeyExists(o, k)
  PROVE  KeyInv'
<1> DEFINE path == Append(registry[o].root, k)
           asks(h) == [registry EXCEPT ![o].sub = h, ![o].asked = TRUE]
           on == registry[o].on
<1>1. registry \in [Registries -> [root : Seq(KeyNames), sub : 0 .. MaxKeyHandles,
                                   on : Seq(KeyNames) \union {NoPath}, asked : BOOLEAN]]
  BY DEF KeyInv, KeyParts, HandleParts
<1>2. \A h : asks(h) = Edited(o, h, on, TRUE)
  BY EditsOfCalls DEF KeyInv, KeyParts
<1>3. on \in Seq(KeyNames) \union {NoPath}
  BY <1>1
<1>4. CASE MayOpen /\ path \in regKeys /\ regOpen' = Opened(FreeKey, path) /\ registry' = asks(FreeKey)
           /\ regKeys' = regKeys /\ keyList' = keyList
  <2> HIDE DEF path, asks, on
  <2>1. registry' = Edited(o, FreeKey, on, TRUE)
    BY <1>2, <1>4
  <2>2. HandleParts' /\ HandlesHeld' /\ ListerKeeps
    BY <1>3, <1>4, <2>1, HandleGivenKeeps
  <2>3. KeyParts'
    BY <1>4, <2>2 DEF KeyInv, KeyParts
  <2>4. ListedSoFar'
    BY <1>4, <2>2, UntouchedKeeps DEF ListerKeeps, KeyInv
  <2> QED
    BY <2>2, <2>3, <2>4 DEF KeyInv
<1>5. CASE registry' \in {asks(registry[o].sub), asks(NullKey)}
           /\ regKeys' = regKeys /\ regOpen' = regOpen /\ keyList' = keyList
  <2> HIDE DEF asks
  <2>1. PICK sub \in {registry[o].sub, NullKey} : registry' = Edited(o, sub, on, TRUE)
    BY <1>2, <1>5
  <2>2. on \in {registry[o].on, NoPath}
    OBVIOUS
  <2> HIDE DEF on
  <2> QED
    BY <1>5, <2>1, <2>2, NotFoundKeeps
<1> QED
  BY <1>4, <1>5, Zenon DEF KeyExists, Exists

\* A key that comes or goes is noted in the listing.
LEMMA ListChangesType ==
  ASSUME KeyParts, NEW path, ListChanges(path)
  PROVE  /\ keyList' \in [by : Registries \union {NullKey}, count : Nat, names : Seq(KeyNames \union {NoPath}),
                          changed : BOOLEAN]
         /\ Len(keyList'.names) <= keyList'.count
         /\ keyList'.by = keyList.by /\ keyList'.count = keyList.count
<1> DEFINE touched == Listed \in {path, SubSeq(path, 1, Len(path) - 1)}
<1>1. keyList' = [keyList EXCEPT !.changed = keyList.changed \/ touched]
  BY DEF ListChanges
<1> HIDE DEF touched
<1>2. (keyList.changed \/ touched) \in BOOLEAN
  OBVIOUS
<1> QED
  BY <1>1, <1>2 DEF KeyParts

\* A name is added to a path.
LEMMA LongerPath ==
  ASSUME NEW path \in Seq(KeyNames), NEW k \in KeyNames
  PROVE  /\ Append(path, k) \in Seq(KeyNames) /\ Append(path, k) # <<>>
         /\ Len(Append(path, k)) = Len(path) + 1 /\ Len(path) \in Nat
<1>1. Append(path, k) \in Seq(KeyNames) /\ Len(Append(path, k)) = Len(path) + 1 /\ Len(path) \in Nat
  OBVIOUS
<1>2. Len(path) + 1 # 0
  BY <1>1
<1> QED
  BY <1>1, <1>2, EmptySeq

\* create_key of RegistryA: the key is open in the object, and there.
LEMMA CreateKeyKeeps ==
  ASSUME KeyInv, NEW o \in Registries, ~Listing(o), NEW k \in KeyNames, CreateKey(o, k)
  PROVE  KeyInv'
<1> DEFINE path == Append(registry[o].root, k)
<1>1. registry[o].root = <<>> /\ registry[o].root \in Seq(KeyNames)
  BY DEF KeyInv, KeyParts, HandleParts, CreateKey
<1>2. path \in Seq(KeyNames) /\ path # <<>> /\ Len(path) <= MaxKeyDepth + 1
  <2>1. Len(path) = 1
    BY <1>1
  <2> QED
    BY <1>1, <2>1, LongerPath, RegistryAssumption
<1>3. /\ MayOpen /\ OpenInto(o, path) /\ regKeys' = regKeys \union {path}
      /\ IF regKeys' = regKeys THEN UNCHANGED keyList ELSE ListChanges(path)
  BY DEF CreateKey
<1> HIDE DEF path
<1>4. /\ regKeys' \in SUBSET Seq(KeyNames) /\ IsFiniteSet(regKeys') /\ regKeys \subseteq regKeys'
      /\ \A p \in regKeys' : Len(p) <= MaxKeyDepth + 1
  BY <1>2, <1>3, KeysGrow DEF KeyInv
<1>5. HandleParts' /\ HandlesHeld' /\ ListerKeeps
  BY <1>2, <1>3, <1>4, OpenIntoKeeps
<1>6. CASE regKeys' = regKeys
  <2>1. keyList' = keyList
    BY <1>3, <1>6
  <2>2. KeyParts'
    BY <1>4, <1>5, <2>1 DEF KeyInv, KeyParts
  <2>3. ListedSoFar'
    BY <1>5, <1>6, <2>1, UntouchedKeeps DEF ListerKeeps, KeyInv
  <2> QED
    BY <1>5, <2>2, <2>3 DEF KeyInv
<1>7. CASE regKeys' # regKeys
  <2>1. ListChanges(path)
    BY <1>3, <1>7
  <2>2. KeyParts'
    BY <1>4, <1>5, <2>1, ListChangesType DEF KeyInv, KeyParts
  <2>3. ASSUME keyList.count > 0 PROVE registry'[keyList.by].on # NoPath /\ Listed' = Listed
    <3>1. keyList'.by = keyList.by /\ keyList'.count = keyList.count
      BY <2>1, ListChangesType DEF KeyInv
    <3>2. registry[keyList.by].on # NoPath
      BY <2>3 DEF KeyInv, ListedSoFar
    <3> QED
      BY <1>5, <2>3, <3>1, <3>2 DEF ListerKeeps, Listed, KeyOf, HandleKeeps
  <2>4. ListedSoFar'
    BY <1>2, <1>3, <2>1, <2>3, ChangeKeeps DEF KeyInv
  <2> QED
    BY <1>5, <2>2, <2>4 DEF KeyInv
<1> QED
  BY <1>6, <1>7

\* create_key of RegistryW: the key becomes the root of the object.
LEMMA CreateKeyWKeeps ==
  ASSUME KeyInv, NEW o \in Registries, ~Listing(o), NEW k \in KeyNames, CreateKeyW(o, k)
  PROVE  KeyInv'
<1> DEFINE path == Append(registry[o].root, k)
<1>1. registry \in [Registries -> [root : Seq(KeyNames), sub : 0 .. MaxKeyHandles,
                                   on : Seq(KeyNames) \union {NoPath}, asked : BOOLEAN]]
  BY DEF KeyInv, KeyParts, HandleParts
<1>2. path \in Seq(KeyNames) /\ path # <<>> /\ Len(path) <= MaxKeyDepth + 1
  <2>1. registry[o].root \in Seq(KeyNames) /\ Len(registry[o].root) + 1 < MaxKeyDepth
    BY <1>1 DEF CreateKeyW
  <2>2. /\ path \in Seq(KeyNames) /\ path # <<>> /\ Len(path) = Len(registry[o].root) + 1
        /\ Len(registry[o].root) \in Nat
    BY <2>1, LongerPath
  <2> HIDE DEF path
  <2> QED
    BY <2>1, <2>2, RegistryAssumption
<1>3. /\ MayOpen /\ regOpen' = Opened(FreeKey, path) /\ regKeys' = regKeys \union {path}
      /\ registry' = [registry EXCEPT ![o].root = path] /\ o \in WideRegistries
      /\ IF regKeys' = regKeys THEN UNCHANGED keyList ELSE ListChanges(path)
  BY Zenon DEF CreateKeyW
<1> HIDE DEF path
<1>4. /\ regKeys' \in SUBSET Seq(KeyNames) /\ IsFiniteSet(regKeys') /\ regKeys \subseteq regKeys'
      /\ \A p \in regKeys' : Len(p) <= MaxKeyDepth + 1
  BY <1>2, <1>3, KeysGrow DEF KeyInv
<1>5. /\ FreeKey \in 1 .. MaxKeyHandles /\ FreeKey \notin DOMAIN regOpen
      /\ DOMAIN regOpen' = DOMAIN regOpen \union {FreeKey}
      /\ regOpen' \in [DOMAIN regOpen' -> regKeys' \union {NoPath}]
      /\ \A h \in DOMAIN regOpen : regOpen'[h] = regOpen[h]
  BY <1>2, <1>3, <1>4, OpenedNames DEF KeyInv
<1>6. /\ registry' \in [Registries -> [root : Seq(KeyNames), sub : 0 .. MaxKeyHandles,
                                       on : Seq(KeyNames) \union {NoPath}, asked : BOOLEAN]]
      /\ \A p \in Registries : p # o => registry'[p] = registry[p]
      /\ \A p \in Registries : /\ registry'[p].sub = registry[p].sub /\ registry'[p].on = registry[p].on
                               /\ registry'[p].asked = registry[p].asked
  BY <1>1, <1>2, <1>3
<1>7. HandleParts'
  <2>1. DOMAIN regOpen \subseteq 1 .. MaxKeyHandles
    BY DEF KeyInv, KeyParts, HandleParts
  <2>2. \A p \in Registries \ WideRegistries : registry'[p].root = <<>>
    BY <1>3, <1>6 DEF KeyInv, KeyParts, HandleParts
  <2> QED
    BY <1>5, <1>6, <2>1, <2>2 DEF HandleParts
<1>8. HandlesHeld'
  <2>1. \A h \in DOMAIN regOpen : h \in DOMAIN regOpen' /\ regOpen'[h] = regOpen[h]
    BY <1>5
  <2>2. NullKey \notin DOMAIN regOpen
    BY DEF NullKey, KeyInv, KeyParts, HandleParts
  <2> SUFFICES ASSUME NEW p \in Registries, registry'[p].on # NoPath
               PROVE  /\ registry'[p].sub \in DOMAIN regOpen' \/ (registry'[p].asked /\ registry'[p].sub = NullKey)
                      /\ registry'[p].asked \/ regOpen'[registry'[p].sub] \in {registry'[p].on, NoPath}
                      /\ \A q \in Registries \ {p} :
                           registry'[q].on # NoPath /\ registry'[q].sub = registry'[p].sub => registry'[p].sub = NullKey
    BY DEF HandlesHeld
  <2>3. /\ registry[p].sub \in DOMAIN regOpen \/ (registry[p].asked /\ registry[p].sub = NullKey)
        /\ registry[p].asked \/ regOpen[registry[p].sub] \in {registry[p].on, NoPath}
        /\ \A q \in Registries \ {p} :
             registry[q].on # NoPath /\ registry[q].sub = registry[p].sub => registry[p].sub = NullKey
    BY <1>6 DEF KeyInv, HandlesHeld
  <2> QED
    BY <1>6, <2>1, <2>2, <2>3
<1>9. ListerKeeps
  <2> SUFFICES ASSUME keyList.count > 0
               PROVE  registry'[keyList.by] = registry[keyList.by] /\ HandleKeeps(registry[keyList.by].sub)
    BY DEF ListerKeeps
  <2>1. keyList.by \in Registries /\ registry[keyList.by].on # NoPath /\ keyList.by # o
    BY DEF KeyInv, ListedSoFar, Listing
  <2>2. registry[keyList.by].sub \in DOMAIN regOpen \/ registry[keyList.by].sub = NullKey
    BY <2>1 DEF KeyInv, HandlesHeld
  <2>3. NullKey \notin 1 .. MaxKeyHandles
    BY DEF NullKey
  <2> QED
    BY <1>5, <1>6, <2>1, <2>2, <2>3 DEF HandleKeeps, KeyInv, KeyParts, HandleParts
<1>10. CASE regKeys' = regKeys
  <2>1. keyList' = keyList
    BY <1>3, <1>10
  <2>2. KeyParts'
    BY <1>4, <1>7, <2>1 DEF KeyInv, KeyParts
  <2>3. ListedSoFar'
    BY <1>9, <1>10, <2>1, UntouchedKeeps DEF ListerKeeps, KeyInv
  <2> QED
    BY <1>8, <2>2, <2>3 DEF KeyInv
<1>11. CASE regKeys' # regKeys
  <2>1. ListChanges(path)
    BY <1>3, <1>11
  <2>2. KeyParts'
    BY <1>4, <1>7, <2>1, ListChangesType DEF KeyInv, KeyParts
  <2>3. ASSUME keyList.count > 0 PROVE registry'[keyList.by].on # NoPath /\ Listed' = Listed
    <3>1. keyList'.by = keyList.by /\ keyList'.count = keyList.count
      BY <2>1, ListChangesType DEF KeyInv
    <3>2. registry[keyList.by].on # NoPath
      BY <2>3 DEF KeyInv, ListedSoFar
    <3> QED
      BY <1>9, <2>3, <3>1, <3>2 DEF ListerKeeps, Listed, KeyOf, HandleKeeps
  <2>4. ListedSoFar'
    BY <1>2, <1>3, <2>1, <2>3, ChangeKeeps DEF KeyInv
  <2> QED
    BY <1>8, <2>2, <2>4 DEF KeyInv
<1> QED
  BY <1>10, <1>11

\* close_key: the handle is the object's own, so what the others opened stays open.
LEMMA CloseKeyKeeps ==
  ASSUME KeyInv, NEW o \in Registries, ~Listing(o), CloseKey(o)
  PROVE  KeyInv'
<1>1. /\ registry[o].on # NoPath /\ regKeys' = regKeys /\ keyList' = keyList
      /\ regOpen' = [h \in DOMAIN regOpen \ {registry[o].sub} |-> regOpen[h]]
      /\ registry' = [registry EXCEPT ![o].on = NoPath, ![o].asked = FALSE]
  BY DEF CloseKey
<1>2. /\ registry \in [Registries -> [root : Seq(KeyNames), sub : 0 .. MaxKeyHandles,
                                      on : Seq(KeyNames) \union {NoPath}, asked : BOOLEAN]]
      /\ regOpen \in [DOMAIN regOpen -> regKeys \union {NoPath}]
  BY DEF KeyInv, KeyParts, HandleParts
<1>3. /\ DOMAIN regOpen' = DOMAIN regOpen \ {registry[o].sub}
      /\ \A h \in DOMAIN regOpen \ {registry[o].sub} : regOpen'[h] = regOpen[h]
      /\ regOpen' \in [DOMAIN regOpen' -> regKeys' \union {NoPath}]
  BY <1>1, <1>2
<1>4. /\ registry' \in [Registries -> [root : Seq(KeyNames), sub : 0 .. MaxKeyHandles,
                                       on : Seq(KeyNames) \union {NoPath}, asked : BOOLEAN]]
      /\ \A p \in Registries : registry'[p].root = registry[p].root
      /\ \A p \in Registries : p # o => registry'[p] = registry[p]
      /\ registry'[o].on = NoPath
  BY <1>1, <1>2
<1>5. KeyParts'
  <2>1. HandleParts'
    BY <1>3, <1>4 DEF KeyInv, KeyParts, HandleParts
  <2> QED
    BY <1>1, <2>1 DEF KeyInv, KeyParts
<1>6. \A p \in Registries : p # o /\ registry[p].on # NoPath => HandleKeeps(registry[p].sub)
  <2>1. NullKey \notin DOMAIN regOpen
    BY DEF NullKey, KeyInv, KeyParts, HandleParts
  <2> QED
    BY <1>1, <1>3, <2>1 DEF KeyInv, HandlesHeld, HandleKeeps
<1>7. HandlesHeld'
  <2>1. \A p \in Registries : registry'[p].on # NoPath => p # o /\ registry'[p] = registry[p]
    BY <1>4
  <2> QED
    BY <1>6, <2>1 DEF KeyInv, HandlesHeld, HandleKeeps
<1>8. ListedSoFar'
  <2>1. ASSUME keyList.count > 0
        PROVE  registry'[keyList.by] = registry[keyList.by] /\ HandleKeeps(registry[keyList.by].sub)
    <3>1. keyList.by \in Registries /\ registry[keyList.by].on # NoPath /\ keyList.by # o
      BY <2>1 DEF KeyInv, ListedSoFar, Listing
    <3> QED
      BY <1>4, <1>6, <3>1
  <2> QED
    BY <1>1, <2>1, UntouchedKeeps DEF KeyInv
<1> QED
  BY <1>5, <1>7, <1>8 DEF KeyInv

\* delete_key: the handles of the key answer with errors from now on, the others as before.
LEMMA DeleteKeyKeeps ==
  ASSUME KeyInv, NEW path \in regKeys, DeleteKey(path)
  PROVE  KeyInv'
<1>1. /\ path # <<>> /\ regKeys' = regKeys \ {path} /\ ListChanges(path) /\ registry' = registry
      /\ regOpen' = [h \in DOMAIN regOpen |-> IF regOpen[h] = path THEN NoPath ELSE regOpen[h]]
  BY Zenon DEF DeleteKey
<1>2. /\ regKeys \in SUBSET Seq(KeyNames) /\ IsFiniteSet(regKeys)
      /\ regOpen \in [DOMAIN regOpen -> regKeys \union {NoPath}]
  BY DEF KeyInv, KeyParts, HandleParts
<1>3. /\ DOMAIN regOpen' = DOMAIN regOpen
      /\ \A h \in DOMAIN regOpen : regOpen'[h] \in {regOpen[h], NoPath}
      /\ \A h \in DOMAIN regOpen : regOpen[h] # path => regOpen'[h] = regOpen[h]
      /\ regOpen' \in [DOMAIN regOpen' -> regKeys' \union {NoPath}]
  BY <1>1, <1>2
<1>4. KeyParts'
  <2>1. HandleParts'
    BY <1>1, <1>3 DEF KeyInv, KeyParts, HandleParts
  <2>2. IsFiniteSet(regKeys')
    BY <1>1, <1>2, FS_Subset
  <2> QED
    BY <1>1, <2>1, <2>2, ListChangesType DEF KeyInv, KeyParts
<1>5. HandlesHeld'
  <2>1. \A on : \A h \in DOMAIN regOpen : regOpen[h] \in {on, NoPath} => regOpen'[h] \in {on, NoPath}
    BY <1>3
  <2> QED
    BY <1>1, <1>3, <2>1 DEF KeyInv, HandlesHeld
<1>6. ListedSoFar'
  <2>1. ASSUME keyList.count > 0
        PROVE  registry'[keyList.by].on # NoPath /\ (Listed # path => Listed' = Listed)
    <3>1. registry[keyList.by].on # NoPath
      BY <2>1 DEF KeyInv, ListedSoFar
    <3>2. keyList'.by = keyList.by /\ keyList'.count = keyList.count
      BY <1>1, ListChangesType DEF KeyInv
    <3> DEFINE h == registry[keyList.by].sub
    <3>3. /\ Listed = IF h \in DOMAIN regOpen THEN regOpen[h] ELSE NoPath
          /\ Listed' = IF h \in DOMAIN regOpen' THEN regOpen'[h] ELSE NoPath
      BY <1>1, <2>1, <3>2 DEF Listed, KeyOf
    <3> HIDE DEF h
    <3> QED
      BY <1>1, <1>3, <3>1, <3>3
  <2> QED
    BY <1>1, <1>2, <2>1, ChangeKeeps DEF KeyInv
<1> QED
  BY <1>4, <1>5, <1>6 DEF KeyInv

\* A key of another program.
LEMMA OtherCreatesKeyKeeps ==
  ASSUME KeyInv, NEW path \in regKeys, NEW k \in KeyNames, OtherCreatesKey(path, k)
  PROVE  KeyInv'
<1> DEFINE made == Append(path, k)
<1>1. /\ Len(path) < MaxKeyDepth /\ regKeys' = regKeys \union {made} /\ ListChanges(made)
      /\ regOpen' = regOpen /\ registry' = registry
  BY DEF OtherCreatesKey
<1>2. made \in Seq(KeyNames) /\ made # <<>> /\ Len(made) <= MaxKeyDepth + 1
  <2>1. path \in Seq(KeyNames)
    BY DEF KeyInv, KeyParts
  <2>2. made \in Seq(KeyNames) /\ made # <<>> /\ Len(made) = Len(path) + 1 /\ Len(path) \in Nat
    BY <2>1, LongerPath
  <2> HIDE DEF made
  <2> QED
    BY <1>1, <2>2, RegistryAssumption
<1> HIDE DEF made
<1>3. /\ regKeys' \in SUBSET Seq(KeyNames) /\ IsFiniteSet(regKeys') /\ regKeys \subseteq regKeys'
      /\ \A p \in regKeys' : Len(p) <= MaxKeyDepth + 1
  BY <1>1, <1>2, KeysGrow DEF KeyInv
<1>4. KeyParts'
  <2>1. HandleParts'
    BY <1>1, <1>3 DEF KeyInv, KeyParts, HandleParts
  <2> QED
    BY <1>1, <1>3, <2>1, ListChangesType DEF KeyInv, KeyParts
<1>5. HandlesHeld'
  BY <1>1 DEF KeyInv, HandlesHeld
<1>6. ListedSoFar'
  <2>1. ASSUME keyList.count > 0 PROVE registry'[keyList.by].on # NoPath /\ Listed' = Listed
    <3>1. keyList'.by = keyList.by /\ keyList'.count = keyList.count
      BY <1>1, ListChangesType DEF KeyInv
    <3>2. registry[keyList.by].on # NoPath
      BY <2>1 DEF KeyInv, ListedSoFar
    <3> QED
      BY <1>1, <2>1, <3>1, <3>2 DEF Listed, KeyOf
  <2> QED
    BY <1>1, <1>2, <2>1, ChangeKeeps DEF KeyInv
<1> QED
  BY <1>4, <1>5, <1>6 DEF KeyInv

\* enum_keys asks how many names there are.
LEMMA CountKeysKeeps ==
  ASSUME KeyInv, NEW o \in Registries, CountKeys(o)
  PROVE  KeyInv'
<1> DEFINE path == KeyOf(registry[o].sub)
           begun == [by |-> o, count |-> Cardinality(Children(path)), names |-> <<>>, changed |-> FALSE]
<1>1. /\ registry[o].on # NoPath /\ regKeys' = regKeys /\ regOpen' = regOpen /\ registry' = registry
      /\ keyList' = IF path = NoPath \/ Children(path) = {} THEN NoListing
                    ELSE [NoListing EXCEPT !.by = o, !.count = Cardinality(Children(path))]
  BY DEF CountKeys
<1>2. keyList' = NoListing \/ (keyList' = begun /\ path # NoPath)
  BY <1>1 DEF NoListing
<1>3. path \in regKeys \union {NoPath}
  BY DEF KeyInv, KeyParts, HandleParts, KeyOf
<1>4. keyList'.count > 0 => Listed' = path \/ keyList' = NoListing
  <2>1. keyList' = begun => keyList'.by = o
    OBVIOUS
  <2> HIDE DEF begun
  <2> QED
    BY <1>1, <1>2, <2>1 DEF Listed, KeyOf
<1>5. HandlesHeld'
  BY <1>1 DEF KeyInv, HandlesHeld
<1>6. HandleParts'
  BY <1>1 DEF KeyInv, KeyParts, HandleParts
<1>7. regKeys \in SUBSET Seq(KeyNames) /\ IsFiniteSet(regKeys)
  BY DEF KeyInv, KeyParts
<1>8. <<>> \in Seq(KeyNames \union {NoPath}) /\ Len(<<>>) = 0
  OBVIOUS
<1>9. CASE keyList' = NoListing
  <2>1. KeyParts'
    <3>1. keyList' = [by |-> NullKey, count |-> 0, names |-> <<>>, changed |-> FALSE]
      BY <1>9 DEF NoListing
    <3>2. /\ keyList' \in [by : Registries \union {NullKey}, count : Nat, names : Seq(KeyNames \union {NoPath}),
                            changed : BOOLEAN]
          /\ Len(keyList'.names) <= keyList'.count
      <4> HIDE DEF path, begun
      <4> QED
        BY ONLY <1>8, <3>1
    <3> HIDE DEF path, begun
    <3> QED
      BY <1>1, <1>6, <3>2 DEF KeyInv, KeyParts
  <2>2. ListedSoFar'
    BY <1>9 DEF NoListing, ListedSoFar
  <2> QED
    BY <1>5, <2>1, <2>2 DEF KeyInv
<1>10. CASE keyList' = begun /\ path # NoPath
  <2>1. path \in regKeys /\ path \in Seq(KeyNames)
    BY <1>3, <1>7, <1>10
  <2>2. Cardinality(Children(path)) \in Nat
    <3> HIDE DEF path
    <3> QED
      BY <1>7, <2>1, ChildrenFinite
  <2> DEFINE n == Cardinality(Children(path))
  <2>3. keyList'.by = o /\ keyList'.count = n /\ keyList'.names = <<>> /\ keyList'.changed = FALSE
    BY <1>10
  <2>4. keyList' \in [by : Registries \union {NullKey}, count : Nat, names : Seq(KeyNames \union {NoPath}),
                      changed : BOOLEAN]
    <3> HIDE DEF n
    <3>1. keyList' = [by |-> o, count |-> n, names |-> <<>>, changed |-> FALSE]
      BY <1>10 DEF n
    <3> QED
      BY <1>8, <2>2, <3>1 DEF n
  <2> HIDE DEF n, path, begun
  <2>5. KeyParts'
    BY <1>1, <1>6, <1>8, <2>2, <2>3, <2>4 DEF n, KeyInv, KeyParts
  <2>6. ListedSoFar'
    <3> SUFFICES ASSUME keyList'.count > 0
                 PROVE  /\ keyList'.by \in Registries /\ registry'[keyList'.by].on # NoPath
                        /\ Listed' \in regKeys'
                        /\ keyList'.count = Cardinality(Children(Listed)')
                        /\ \A i \in 1 .. Len(keyList'.names) : keyList'.names[i] = NameAt(Listed, i)'
      BY DEF ListedSoFar
    <3>1. Listed' = path
      BY <1>4, <2>3 DEF NoListing
    <3>2. Children(Listed)' = Children(path)
      BY <1>1, <3>1, Zenon DEF Children, Exists
    <3>3. 1 .. Len(keyList'.names) = {}
      BY <1>8, <2>3
    <3> QED
      BY <1>1, <2>1, <2>3, <3>1, <3>2, <3>3 DEF n
  <2> QED
    BY <1>5, <2>5, <2>6 DEF KeyInv
<1> HIDE DEF path, begun
<1> QED
  BY <1>2, <1>9, <1>10

\* enum_keys asks for the next name.
LEMMA ListKeyKeeps ==
  ASSUME KeyInv, ListKey
  PROVE  KeyInv'
<1> DEFINE names == keyList.names
           next == NameAt(Listed, Len(names) + 1)
<1>1. /\ Len(names) < keyList.count /\ keyList' = [keyList EXCEPT !.names = Append(names, next)]
      /\ regKeys' = regKeys /\ regOpen' = regOpen /\ registry' = registry
  BY DEF ListKey
<1>2. /\ names \in Seq(KeyNames \union {NoPath}) /\ Len(names) \in Nat /\ keyList.count \in Nat
      /\ keyList \in [by : Registries \union {NullKey}, count : Nat, names : Seq(KeyNames \union {NoPath}),
                      changed : BOOLEAN]
  BY LenProperties DEF KeyInv, KeyParts
<1>3. regKeys \in SUBSET Seq(KeyNames) /\ IsFiniteSet(regKeys)
  BY DEF KeyInv, KeyParts
<1>4. Listed \in regKeys \union {NoPath}
  BY DEF KeyInv, KeyParts, HandleParts, Listed, KeyOf
<1>5. next \in KeyNames \union {NoPath}
  <2> HIDE DEF names
  <2>1. CASE Listed = NoPath
    BY <2>1 DEF NameAt
  <2>2. CASE Listed \in regKeys
    <3>1. Listed \in Seq(KeyNames)
      BY <1>3, <2>2
    <3>2. Cardinality(Children(Listed)) \in Nat
      BY <1>3, <3>1, ChildrenFinite
    <3>3. CASE Len(names) + 1 > Cardinality(Children(Listed))
      BY <3>3 DEF NameAt
    <3>4. CASE ~ (Len(names) + 1 > Cardinality(Children(Listed)))
      <4>1. Len(names) + 1 \in 1 .. Cardinality(Children(Listed))
        BY <1>2, <3>2, <3>4
      <4>2. next \in Children(Listed)
        BY <1>3, <3>1, <4>1, NameIsRanked
      <4> QED
        BY <4>2 DEF Children
    <3> QED
      BY <3>3, <3>4
  <2> QED
    BY <1>4, <2>1, <2>2
<1> HIDE DEF next, names
<1>6. /\ Append(names, next) \in Seq(KeyNames \union {NoPath})
      /\ Len(Append(names, next)) = Len(names) + 1
      /\ \A i \in 1 .. Len(names) : Append(names, next)[i] = names[i]
      /\ Append(names, next)[Len(names) + 1] = next
  BY <1>2, <1>5
<1>7. /\ keyList' \in [by : Registries \union {NullKey}, count : Nat, names : Seq(KeyNames \union {NoPath}),
                       changed : BOOLEAN]
      /\ keyList'.by = keyList.by /\ keyList'.count = keyList.count /\ keyList'.changed = keyList.changed
      /\ keyList'.names = Append(names, next)
  BY <1>1, <1>2, <1>6
<1>8. KeyParts'
  <2>1. HandleParts'
    BY <1>1 DEF KeyInv, KeyParts, HandleParts
  <2>2. Len(keyList'.names) <= keyList'.count
    BY <1>1, <1>2, <1>6, <1>7
  <2> QED
    BY <1>1, <1>7, <2>1, <2>2 DEF KeyInv, KeyParts
<1>9. HandlesHeld'
  BY <1>1 DEF KeyInv, HandlesHeld
<1>10. ListedSoFar'
  <2>1. Listed' = Listed
    BY <1>1, <1>7 DEF Listed, KeyOf
  <2>2. Children(Listed)' = Children(Listed)
    BY <1>1, <2>1, Zenon DEF Children, Exists
  <2> DEFINE Nth(p, S, i) == IF p = NoPath \/ i > Cardinality(S) THEN NoPath
                             ELSE CHOOSE k \in S : Cardinality({c \in S : c < k}) = i - 1
  <2>3. \A i : NameAt(Listed, i)' = NameAt(Listed, i)
    <3>1. \A i : /\ NameAt(Listed, i) = Nth(Listed, Children(Listed), i)
                 /\ NameAt(Listed, i)' = Nth(Listed', Children(Listed)', i)
      BY Zenon DEF NameAt
    <3> HIDE DEF Nth
    <3> QED
      BY <2>1, <2>2, <3>1, Zenon
  <2>4. ASSUME keyList.count > 0, ~keyList.changed
        PROVE  /\ Listed \in regKeys /\ keyList.count = Cardinality(Children(Listed))
               /\ \A i \in 1 .. Len(names) + 1 : Append(names, next)[i] = NameAt(Listed, i)
    <3>1. /\ Listed \in regKeys /\ keyList.count = Cardinality(Children(Listed))
          /\ \A i \in 1 .. Len(names) : names[i] = NameAt(Listed, i)
      BY <2>4 DEF KeyInv, ListedSoFar, names
    <3>2. \A i \in 1 .. Len(names) + 1 : i \in 1 .. Len(names) \/ i = Len(names) + 1
      BY <1>2
    <3> QED
      BY <1>6, <3>1, <3>2, Zenon DEF next
  <2>5. keyList.count > 0 => keyList.by \in Registries /\ registry[keyList.by].on # NoPath
    BY DEF KeyInv, ListedSoFar
  <2>6. 1 .. Len(keyList'.names) = 1 .. Len(names) + 1
    BY <1>6, <1>7
  <2> SUFFICES ASSUME keyList'.count > 0
               PROVE  /\ keyList'.by \in Registries /\ registry'[keyList'.by].on # NoPath
                      /\ ~keyList'.changed =>
                           /\ Listed' \in regKeys'
                           /\ keyList'.count = Cardinality(Children(Listed)')
                           /\ \A i \in 1 .. Len(keyList'.names) : keyList'.names[i] = NameAt(Listed, i)'
    BY DEF ListedSoFar
  <2>7. ASSUME ~keyList'.changed
        PROVE  /\ Listed' \in regKeys' /\ keyList'.count = Cardinality(Children(Listed)')
               /\ \A i \in 1 .. Len(keyList'.names) : keyList'.names[i] = NameAt(Listed, i)'
    <3>1. keyList.count > 0 /\ ~keyList.changed
      BY <1>7, <2>7
    <3>2. Listed' \in regKeys'
      BY <1>1, <2>1, <2>4, <3>1
    <3>3. keyList'.count = Cardinality(Children(Listed)')
      BY <1>7, <2>2, <2>4, <3>1
    <3>4. \A i \in 1 .. Len(keyList'.names) : keyList'.names[i] = NameAt(Listed, i)'
      <4>1. keyList'.names = Append(names, next)
        BY <1>7
      <4> QED
        BY <2>3, <2>4, <2>6, <3>1, <4>1, Zenon
    <3> QED
      BY <3>2, <3>3, <3>4
  <2> QED
    BY <1>1, <1>7, <2>5, <2>7
<1> QED
  BY <1>8, <1>9, <1>10 DEF KeyInv

\* The names are returned: no listing is under way.
LEMMA ReturnKeysKeeps ==
  ASSUME KeyInv, ReturnKeys
  PROVE  KeyInv'
<1>1. keyList' = NoListing /\ regKeys' = regKeys /\ regOpen' = regOpen /\ registry' = registry
  BY DEF ReturnKeys
<1>2. KeyParts'
  <2>1. <<>> \in Seq(KeyNames \union {NoPath}) /\ Len(<<>>) = 0
    OBVIOUS
  <2>2. HandleParts'
    BY <1>1 DEF KeyInv, KeyParts, HandleParts
  <2> QED
    BY <1>1, <2>1, <2>2 DEF NoListing, KeyInv, KeyParts
<1>3. HandlesHeld'
  BY <1>1 DEF KeyInv, HandlesHeld
<1>4. ListedSoFar'
  BY <1>1 DEF NoListing, ListedSoFar
<1> QED
  BY <1>2, <1>3, <1>4 DEF KeyInv

\* Every step keeps the invariant.
LEMMA NextKeyInv == KeyInv /\ [RegistryNext]_registryVars => KeyInv'
<1> SUFFICES ASSUME KeyInv, [RegistryNext]_registryVars PROVE KeyInv'
  OBVIOUS
<1>1. ASSUME NEW o \in Registries, ~Listing(o), NEW k \in KeyNames, KeyExists(o, k) PROVE KeyInv'
  BY <1>1, KeyExistsKeeps
<1>2. ASSUME NEW o \in Registries, ~Listing(o), NEW k \in KeyNames, CreateKey(o, k) PROVE KeyInv'
  BY <1>2, CreateKeyKeeps
<1>3. ASSUME NEW o \in Registries, ~Listing(o), NEW k \in KeyNames, CreateKeyW(o, k) PROVE KeyInv'
  BY <1>3, CreateKeyWKeeps
<1>4. ASSUME NEW o \in Registries, ~Listing(o), CloseKey(o) PROVE KeyInv'
  BY <1>4, CloseKeyKeeps
<1>5. ASSUME NEW o \in Registries, CountKeys(o) PROVE KeyInv'
  BY <1>5, CountKeysKeeps
<1>6. ASSUME NEW path \in regKeys, DeleteKey(path) PROVE KeyInv'
  BY <1>6, DeleteKeyKeeps
<1>7. ASSUME NEW path \in regKeys, NEW k \in KeyNames, OtherCreatesKey(path, k) PROVE KeyInv'
  BY <1>7, OtherCreatesKeyKeeps
<1>8. CASE ListKey
  BY <1>8, ListKeyKeeps
<1>9. CASE ReturnKeys
  BY <1>9, ReturnKeysKeeps
<1>10. ASSUME NEW o \in Registries, ~Listing(o), NEW k \in KeyNames, OpenKey(o, k) \/ OpenFails(o, k) PROVE KeyInv'
  BY <1>10, OpenKeyKeeps, OpenFailsKeeps
<1>11. CASE UNCHANGED registryVars
  <2>1. regKeys' = regKeys /\ regOpen' = regOpen /\ registry' = registry /\ keyList' = keyList
    BY <1>11 DEF registryVars
  <2>2. KeyParts' /\ HandlesHeld'
    BY <2>1 DEF KeyInv, KeyParts, HandleParts, HandlesHeld
  <2>3. ListedSoFar'
    BY <2>1, UntouchedKeeps DEF KeyInv, HandleKeeps
  <2> QED
    BY <2>2, <2>3 DEF KeyInv
<1> QED
  BY <1>1, <1>2, <1>3, <1>4, <1>5, <1>6, <1>7, <1>8, <1>9, <1>10, <1>11 DEF RegistryNext

LEMMA RegistryInvariant == RegistrySpec => []KeyInv
BY InitKeyInv, NextKeyInv, PTL DEF RegistrySpec

\* Between open_key and close_key the handle of an object names the key the program opened
\* with it, unless the program asked key_exists with it since, and is no other object's, for
\* any objects, names and handles.
THEOREM RegistryHandlesNamed == RegistrySpec => []SubKeyNamesPath
<1>1. KeyInv => SubKeyNamesPath
  BY DEF KeyInv, HandlesHeld, SubKeyNamesPath
<1> QED
  BY <1>1, RegistryInvariant, PTL

\* A listing that is done, of a key that did not change, names every sub key once, in order; the
\* key is the one the program opened unless it asked key_exists since.
THEOREM RegistryListsAll == RegistrySpec => []ListingComplete
<1>1. KeyInv => ListingComplete
  BY AllNamesListed DEF KeyInv
<1> QED
  BY <1>1, RegistryInvariant, PTL

\* The keys, handles, objects and listings are what their types say.
THEOREM RegistryTyped == RegistrySpec => []RegistryTypeOK
<1>1. KeyInv => RegistryTypeOK
  <2> SUFFICES ASSUME KeyInv PROVE RegistryTypeOK
    OBVIOUS
  <2>1. ASSUME NEW path \in regKeys
        PROVE  path \in UNION {[1 .. n -> KeyNames] : n \in 0 .. MaxKeyDepth + 1}
    <3>1. path \in Seq(KeyNames) /\ Len(path) <= MaxKeyDepth + 1
      BY DEF KeyInv, KeyParts
    <3>2. path \in [1 .. Len(path) -> KeyNames] /\ Len(path) \in 0 .. MaxKeyDepth + 1
      BY <3>1, LenProperties, RegistryAssumption
    <3> QED
      BY <3>2
  <2> QED
    BY <2>1 DEF KeyInv, KeyParts, HandleParts, RegistryTypeOK
<1> QED
  BY <1>1, RegistryInvariant, PTL
-----------------------------------------------------------------------------
(* SingleInstance *)

\* A process asks whether another one runs only when it has been initialized.
AskersNamed ==
  \A p \in Instances : instanceAt[p] \in {"ask", "exists", "told"} => instanceNamed[p]

InstanceInv == InstanceTypeOK /\ AskersNamed /\ OneEventOwner

\* No process runs at first.
LEMMA InitInstanceInv == InstanceInit => InstanceInv
  BY DEF InstanceInit, InstanceInv, InstanceTypeOK, AskersNamed, OneEventOwner

\* Each step of a process, its exit or crash included, keeps the invariant.
LEMMA NextInstanceInv == InstanceInv /\ [InstanceNext]_instanceVars => InstanceInv'
<1> SUFFICES ASSUME InstanceInv, [InstanceNext]_instanceVars PROVE InstanceInv'
  OBVIOUS
<1> USE DEF InstanceInv, InstanceTypeOK, AskersNamed, OneEventOwner, MoveInstance
<1>1. ASSUME NEW p \in Instances, StartInstance(p) PROVE InstanceInv'
  BY <1>1 DEF StartInstance
<1>2. ASSUME NEW p \in Instances, Initialize(p) PROVE InstanceInv'
  BY <1>2 DEF Initialize
<1>3. ASSUME NEW p \in Instances, AskRunning(p) PROVE InstanceInv'
  <2>1. CASE EventExists
    BY <1>3, <2>1 DEF AskRunning
  <2>2. CASE ~EventExists
    <3>1. eventOwned = {} /\ eventOwned' = {p} /\ instanceNamed[p]
      BY <1>3, <2>2 DEF AskRunning, EventExists
    <3> QED BY <1>3, <2>2, <3>1 DEF AskRunning
  <2> QED BY <2>1, <2>2
<1>4. ASSUME NEW p \in Instances, CloseProbe(p) PROVE InstanceInv'
  BY <1>4 DEF CloseProbe
<1>5. ASSUME NEW p \in Instances, GoOnBeside(p) PROVE InstanceInv'
  BY <1>5 DEF GoOnBeside
<1>6. ASSUME NEW p \in Instances, AskAgain(p) PROVE InstanceInv'
  BY <1>6 DEF AskAgain
<1>7. ASSUME NEW p \in Instances, Finalize(p) PROVE InstanceInv'
  <2>1. eventOwned = {p} /\ eventOwned' = {}
    BY <1>7 DEF Finalize
  <2> QED BY <1>7, <2>1 DEF Finalize
<1>8. ASSUME NEW p \in Instances, ExitInstance(p) PROVE InstanceInv'
  BY <1>8 DEF ExitInstance
<1>9. CASE UNCHANGED instanceVars
  BY <1>9 DEF instanceVars
<1> QED
  BY <1>1, <1>2, <1>3, <1>4, <1>5, <1>6, <1>7, <1>8, <1>9 DEF InstanceNext

\* At most one process owns the event of the program, through exits, crashes and
\* restarts, and it is alive and initialized: for any number of processes.
THEOREM OneOwner == InstanceSpec => []OneEventOwner
<1>1. InstanceInit => InstanceInv
  BY InitInstanceInv
<1>2. InstanceInv /\ [InstanceNext]_instanceVars => InstanceInv'
  BY NextInstanceInv
<1>3. InstanceInv => OneEventOwner
  BY DEF InstanceInv
<1> QED BY <1>1, <1>2, <1>3, PTL DEF InstanceSpec

-----------------------------------------------------------------------------
(* Singleton *)

\* An object is numbered when it is begun; the pointer never goes back to null.
ObjectsNumbered ==
  /\ instance <= instances
  /\ \A t \in SingletonThreads :
       /\ instanceOf[t].object <= instances
       /\ instanceOf[t].at = "making" => instanceOf[t].object # 0
       /\ instanceOf[t].at = "made" => instance # 0
       /\ instanceOf[t].at = "has" => instanceOf[t].object # 0

\* Without a race one call at most is making the object, and while it does nobody else
\* has found anything; afterwards there is the one object, and it is complete.
OneMaker ==
  ~raced =>
    /\ instances \in {0, 1} /\ instance = instances
    /\ \A t, u \in Making : t = u
    /\ \A t \in SingletonThreads :
         /\ instanceOf[t].at = "missing" => instances = 0
         /\ instanceOf[t].at = "making" => instances = 1 /\ instanceOf[t].object = 1
         /\ instanceOf[t].at \in {"made", "has"} => instances = 1 /\ 1 \in complete
         /\ instanceOf[t].at = "has" => instanceOf[t].object = 1
    /\ instances = 1 /\ Making = {} => 1 \in complete

SingletonInv == SingletonTypeOK /\ ObjectsNumbered /\ OneMaker

\* There is no object at first.
LEMMA InitSingletonInv == SingletonInit => SingletonInv
<1> SUFFICES ASSUME SingletonInit PROVE SingletonInv
  OBVIOUS
<1> USE SingletonAssumption DEF SingletonInit, NotCalling
<1>1. SingletonTypeOK
  <2>1. 0 \in 0..MaxInstances
    OBVIOUS
  <2>2. NotCalling \in [at : {"out", "missing", "making", "made", "has"}, object : 0..MaxInstances]
    BY <2>1
  <2>3. instanceOf \in [SingletonThreads -> [at : {"out", "missing", "making", "made", "has"},
                                             object : 0..MaxInstances]]
    BY <2>2
  <2> QED BY <2>1, <2>3 DEF SingletonTypeOK
<1>2. ObjectsNumbered
  BY DEF ObjectsNumbered
<1>3. OneMaker
  BY DEF OneMaker, Making
<1> QED BY <1>1, <1>2, <1>3 DEF SingletonInv

\* Each step of a call keeps the invariant.
LEMMA NextSingletonInv == SingletonInv /\ [SingletonNext]_singletonVars => SingletonInv'
<1> SUFFICES ASSUME SingletonInv, [SingletonNext]_singletonVars PROVE SingletonInv'
  OBVIOUS
<1> USE SingletonAssumption DEF SingletonInv, Calling, NotCalling
<1>1. ASSUME NEW t \in SingletonThreads, TestInstance(t) PROVE SingletonInv'
  <2>1. SingletonTypeOK'
    BY <1>1 DEF TestInstance, SingletonTypeOK
  <2>2. ObjectsNumbered'
    BY <1>1 DEF TestInstance, SingletonTypeOK, ObjectsNumbered
  <2>3. OneMaker'
    <3>1. CASE raced'
      BY <3>1 DEF OneMaker
    <3>2. CASE ~raced'
      <4>1. ~raced /\ Making = {}
        BY <1>1, <3>2 DEF TestInstance, SingletonTypeOK
      <4>2. Making' \subseteq {t}
        BY <1>1, <4>1 DEF TestInstance, SingletonTypeOK, Making
      <4> QED BY <1>1, <4>1, <4>2 DEF TestInstance, SingletonTypeOK, OneMaker, Making
    <3> QED BY <3>1, <3>2
  <2> QED BY <2>1, <2>2, <2>3
<1>2. ASSUME NEW t \in SingletonThreads, BeginInstance(t) PROVE SingletonInv'
  <2>1. SingletonTypeOK'
    BY <1>2 DEF BeginInstance, SingletonTypeOK
  <2>2. ObjectsNumbered'
    BY <1>2 DEF BeginInstance, SingletonTypeOK, ObjectsNumbered
  <2>3. OneMaker'
    <3>1. Making' = Making /\ t \in Making
      BY <1>2 DEF BeginInstance, SingletonTypeOK, Making
    <3> QED BY <1>2, <3>1 DEF BeginInstance, SingletonTypeOK, OneMaker, Making
  <2> QED BY <2>1, <2>2, <2>3
<1>3. ASSUME NEW t \in SingletonThreads, EndInstance(t) PROVE SingletonInv'
  <2>1. SingletonTypeOK'
    BY <1>3 DEF EndInstance, SingletonTypeOK, ObjectsNumbered
  <2>2. ObjectsNumbered'
    BY <1>3 DEF EndInstance, SingletonTypeOK, ObjectsNumbered
  <2>3. OneMaker'
    <3>1. Making' = Making \ {t} /\ t \in Making
      BY <1>3 DEF EndInstance, SingletonTypeOK, Making
    <3> QED BY <1>3, <3>1 DEF EndInstance, SingletonTypeOK, OneMaker, Making
  <2> QED BY <2>1, <2>2, <2>3
<1>4. ASSUME NEW t \in SingletonThreads, AnswerInstance(t) PROVE SingletonInv'
  <2>1. SingletonTypeOK'
    BY <1>4 DEF AnswerInstance, SingletonTypeOK
  <2>2. ObjectsNumbered'
    BY <1>4 DEF AnswerInstance, SingletonTypeOK, ObjectsNumbered
  <2>3. OneMaker'
    <3>1. Making' = Making
      BY <1>4 DEF AnswerInstance, SingletonTypeOK, Making
    <3> QED BY <1>4, <3>1 DEF AnswerInstance, SingletonTypeOK, OneMaker
  <2> QED BY <2>1, <2>2, <2>3
<1>5. ASSUME NEW t \in SingletonThreads, ForgetInstance(t) PROVE SingletonInv'
  <2>1. SingletonTypeOK'
    BY <1>5 DEF ForgetInstance, SingletonTypeOK
  <2>2. ObjectsNumbered'
    BY <1>5 DEF ForgetInstance, SingletonTypeOK, ObjectsNumbered
  <2>3. OneMaker'
    <3>1. Making' = Making
      BY <1>5 DEF ForgetInstance, SingletonTypeOK, Making
    <3> QED BY <1>5, <3>1 DEF ForgetInstance, SingletonTypeOK, OneMaker
  <2> QED BY <2>1, <2>2, <2>3
<1>6. CASE UNCHANGED singletonVars
  BY <1>6 DEF singletonVars, SingletonTypeOK, ObjectsNumbered, OneMaker, Making
<1> QED
  BY <1>1, <1>2, <1>3, <1>4, <1>5, <1>6 DEF SingletonNext

\* All callers of instance() get the same complete object unless a call came while
\* another was making it: for any number of threads and objects.
THEOREM OneInstance == SingletonSpec => []OneInstanceUnlessRaced
<1>1. SingletonInit => SingletonInv
  BY InitSingletonInv
<1>2. SingletonInv /\ [SingletonNext]_singletonVars => SingletonInv'
  BY NextSingletonInv
<1>3. SingletonInv => OneInstanceUnlessRaced
  BY DEF SingletonInv, SingletonTypeOK, ObjectsNumbered, OneMaker, OneInstanceUnlessRaced
<1> QED BY <1>1, <1>2, <1>3, PTL DEF SingletonSpec

-----------------------------------------------------------------------------
(* GlobalLock *)

MadeLocks == {l \in Locks : lockOwner[l] # "unmade"}

GuardRecord == [at : GuardSteps, id : LockIds, lock : 0..MaxLocks]

\* Locks are numbered in the order they are made, and no id has more than there are.
LocksNumbered ==
  \E n \in 0..MaxLocks : MadeLocks = 1..n /\ \A i \in LockIds : lockMade[i] <= n

\* The table names made locks, a different one for each id, and a lock somebody waits for or
\* entered is not another id's; whatever races.
TableApart ==
  /\ \A i \in LockIds : lockTable[i] \in Locks => lockTable[i] \in MadeLocks
  /\ \A i, j \in LockIds : lockTable[i] = lockTable[j] /\ lockTable[i] \in Locks => i = j
  /\ \A t \in LockThreads : guards[t].at \in {"wait"} \union InSection =>
       guards[t].lock \in MadeLocks /\ \A i \in LockIds \ {guards[t].id} : lockTable[i] # guards[t].lock

\* An id used before has its one lock, and nobody makes another.
WarmKept ==
  \A i \in WarmIds :
    /\ lockMade[i] = 1 /\ lockTable[i] \in Locks /\ i \notin firstsMet
    /\ \A t \in LockThreads : guards[t].id = i => guards[t].at \notin MakingLock

\* A null entry is that of a thread about to fill it; no lock is made twice.
EntryKept(i) ==
  /\ lockTable[i] = NullEntry => \E t \in LockThreads : guards[t].id = i /\ guards[t].at = "make"
  /\ lockMade[i] = IF lockTable[i] \in Locks THEN 1 ELSE 0

\* One thread at a time makes the lock of an id, which has none yet.
MakersKept(i) ==
  /\ \A t \in LockThreads : guards[t].id = i =>
       /\ guards[t].at \in {"missed", "insert"} => lockTable[i] = NoEntry
       /\ guards[t].at = "make" => lockTable[i] = NullEntry
  /\ \A t, u \in LockThreads :
       guards[t].id = i /\ guards[u].id = i /\ guards[t].at \in MakingLock /\ guards[u].at \in MakingLock
         => t = u

\* Who is past the table uses the lock it names, and who is inside owns it.
UsersKept(i) ==
  \A t \in LockThreads : guards[t].id = i =>
    /\ guards[t].at # "crashed"
    /\ guards[t].at \in {"found", "look", "wait"} \union InSection => lockTable[i] \in Locks
    /\ guards[t].at \in {"wait"} \union InSection => guards[t].lock = lockTable[i]
    /\ guards[t].at \in InSection => lockOwner[lockTable[i]] = t

UnmetKept == \A i \in LockIds \ firstsMet : EntryKept(i) /\ MakersKept(i) /\ UsersKept(i)

LockInv ==
  /\ LockTypeOK /\ LocksNumbered /\ TableApart
  /\ ~mapRaced => WarmKept /\ UnmetKept

\* The steps of a guard are different ones.
LEMMA GuardStepsApart ==
  /\ InMap = {"find", "insert", "look", "leave"} /\ MakingLock = {"missed", "insert", "make"}
  /\ InSection = {"inside", "leave"}
  /\ GuardSteps = {"find", "insert", "look", "leave", "missed", "make", "inside", "none", "found", "wait", "crashed"}
  BY DEF InMap, MakingLock, InSection, GuardSteps

\* The number of locks made is the number of the last one.
LEMMA LastLock == ASSUME NEW n \in Nat, MadeLocks = 1..n PROVE LocksMade = n
<1>1. Cardinality(1..n) = n
  BY FS_Interval
<1> QED BY <1>1 DEF LocksMade, MadeLocks

\* At first there are the locks of the ids already used, and nobody holds one.
LEMMA InitLockInv == LockInit => LockInv
<1> SUFFICES ASSUME LockInit PROVE LockInv
  OBVIOUS
<1> USE GlobalLockAssumption DEF LockInit
<1> DEFINE c == Cardinality(WarmIds)
<1>1. c \in Nat
  BY FS_CardinalityType
<1>2. c <= MaxLocks
  <2>1. CASE c = 0
    BY <2>1
  <2>2. CASE c # 0
    <3>1. c \in {lockTable[i] : i \in WarmIds}
      BY <1>1, <2>2 DEF WarmTable
    <3> QED BY <3>1, <1>1 DEF NoEntry
  <2> QED BY <2>1, <2>2
<1>3. MadeLocks = 1..c
  BY <1>1, <1>2 DEF MadeLocks, Locks
<1>4. NoGuard \in GuardRecord /\ NoGuard.at = "none"
  BY DEF NoGuard, GuardRecord, GuardSteps
<1>5. \A i \in LockIds : /\ lockMade[i] = IF i \in WarmIds THEN 1 ELSE 0
                         /\ lockTable[i] \in NoEntry..MaxLocks /\ (lockTable[i] = NoEntry <=> i \notin WarmIds)
  BY DEF WarmTable
<1>6. \A i \in WarmIds : lockTable[i] \in 1..c
  BY DEF WarmTable
<1>7. \A i \in LockIds : lockMade[i] <= c
  <2>1. SUFFICES ASSUME NEW i \in WarmIds PROVE 1 <= c
    BY <1>1, <1>5
  <2> QED BY <1>1, <1>6
<1>8. LockTypeOK
  <2>1. lockMade \in [LockIds -> 0..MaxLocks]
    BY <1>1, <1>2, <1>5, <1>7
  <2>2. lockOwner \in [Locks -> LockThreads \union {NoThread, "unmade"}]
    OBVIOUS
  <2>3. guards \in [LockThreads -> [at : GuardSteps, id : LockIds, lock : 0..MaxLocks]]
    BY <1>4 DEF GuardRecord
  <2> QED BY <2>1, <2>2, <2>3 DEF LockTypeOK
<1>9. LocksNumbered
  BY <1>1, <1>2, <1>3, <1>7 DEF LocksNumbered
<1>10. \A t \in LockThreads : guards[t].at = "none"
  BY <1>4
<1>11. \A i \in LockIds : lockTable[i] \in Locks <=> i \in WarmIds
  BY <1>1, <1>2, <1>5, <1>6 DEF Locks, NoEntry
<1>12. TableApart
  BY <1>3, <1>6, <1>10, <1>11, GuardStepsApart DEF TableApart, WarmTable
<1>13. WarmKept
  BY <1>5, <1>10, <1>11, GuardStepsApart DEF WarmKept
<1>14. \A i \in LockIds : lockTable[i] # NullEntry
  BY <1>1, <1>5, <1>6 DEF NoEntry, NullEntry
<1>15. UnmetKept
  BY <1>5, <1>10, <1>11, <1>14, GuardStepsApart DEF UnmetKept, EntryKept, MakersKept, UsersKept
<1> QED BY <1>8, <1>9, <1>12, <1>13, <1>15 DEF LockInv

\* A call of the map begins: nothing of the table changes, and who calls stays where it was.
LEMMA CallMapKeeps ==
  ASSUME LockInv, NEW t \in LockThreads,
         (\E i \in LockIds : CallFind(t, i)) \/ CallInsert(t) \/ CallLook(t) \/ CallLeave(t)
  PROVE  LockInv'
<1> USE GlobalLockAssumption DEF LockInv
<1>1. PICK at \in InMap, i \in LockIds :
        /\ CallMap(t, at, i)
        /\ \/ at = "find" /\ guards[t].at = "none"
           \/ i = guards[t].id /\ <<guards[t].at, at>> \in {<<"missed", "insert">>, <<"found", "look">>, <<"inside", "leave">>}
  BY GuardStepsApart DEF CallFind, CallInsert, CallLook, CallLeave, LockTypeOK
<1>2. /\ UNCHANGED <<lockTable, lockMade, lockOwner, firstsMet>>
      /\ mapRaced' \in BOOLEAN /\ (mapRaced => mapRaced')
      /\ \A u \in LockThreads \ {t} : guards'[u] = guards[u]
      /\ guards'[t].at = at /\ guards'[t].id = i /\ guards'[t].lock = guards[t].lock
      /\ guards' \in [LockThreads -> [at : GuardSteps, id : LockIds, lock : 0..MaxLocks]]
  BY <1>1, GuardStepsApart DEF CallMap, LockTypeOK
<1> HIDE DEF LockInv
<1>3. LockTypeOK'
  BY <1>2 DEF LockInv, LockTypeOK
<1>4. MadeLocks' = MadeLocks
  BY <1>2 DEF MadeLocks
<1>5. LocksNumbered'
  BY <1>2, <1>4 DEF LockInv, LocksNumbered
<1>6. TableApart'
  BY <1>1, <1>2, <1>4, GuardStepsApart DEF LockInv, TableApart
<1>7. ASSUME ~mapRaced' PROVE WarmKept'
  BY <1>1, <1>2, <1>7, GuardStepsApart DEF LockInv, WarmKept
<1>8. ASSUME ~mapRaced', NEW j \in LockIds \ firstsMet
      PROVE  EntryKept(j)' /\ MakersKept(j)' /\ UsersKept(j)'
  <2>1. EntryKept(j) /\ MakersKept(j) /\ UsersKept(j)
    BY <1>2, <1>8 DEF LockInv, UnmetKept
  <2>2. EntryKept(j)'
    <3>1. \A u \in LockThreads : guards[u].at = "make" => guards'[u] = guards[u]
      BY <1>1, <1>2 DEF CallMap, CallFind
    <3> QED BY <1>2, <2>1, <3>1 DEF EntryKept
  <2>3. MakersKept(j)'
    BY <1>1, <1>2, <2>1, GuardStepsApart DEF MakersKept
  <2>4. UsersKept(j)'
    BY <1>1, <1>2, <2>1, GuardStepsApart DEF UsersKept
  <2> QED BY <2>2, <2>3, <2>4
<1>9. ASSUME ~mapRaced' PROVE UnmetKept'
  BY <1>2, <1>8, <1>9 DEF UnmetKept
<1> QED BY <1>3, <1>5, <1>6, <1>7, <1>9 DEF LockInv

\* A thread that finds no entry is the only one to make it, or the id is one of those met.
LEMMA FindLockKeeps ==
  ASSUME LockInv, NEW t \in LockThreads, FindLock(t)
  PROVE  LockInv'
<1> USE GlobalLockAssumption
<1> DEFINE i == guards[t].id
<1>1. PICK at \in {"missed", "found"} :
        /\ guards' = [guards EXCEPT ![t].at = at]
        /\ ~mapRaced => (at = "missed" <=> lockTable[i] = NoEntry)
  BY DEF FindLock, MoveGuard, SeenEntry
<1>2. /\ UNCHANGED <<lockTable, lockMade, lockOwner, mapRaced>>
      /\ firstsMet' = IF SomeoneMaking(t, i) THEN firstsMet \union {i} ELSE firstsMet
      /\ guards[t].at = "find" /\ i \in LockIds
      /\ \A u \in LockThreads \ {t} : guards'[u] = guards[u]
      /\ guards'[t].at = at /\ guards'[t].id = i /\ guards'[t].lock = guards[t].lock
      /\ guards' \in [LockThreads -> [at : GuardSteps, id : LockIds, lock : 0..MaxLocks]]
      /\ firstsMet' \subseteq LockIds
  BY <1>1, GuardStepsApart DEF FindLock, LockInv, LockTypeOK
<1> HIDE DEF i
<1>3. LockTypeOK'
  BY <1>2 DEF LockInv, LockTypeOK
<1>4. MadeLocks' = MadeLocks
  BY <1>2 DEF MadeLocks
<1>5. LocksNumbered'
  BY <1>2, <1>4 DEF LockInv, LocksNumbered
<1>6. TableApart'
  BY <1>1, <1>2, <1>4, GuardStepsApart DEF LockInv, TableApart
<1>7. ASSUME ~mapRaced PROVE WarmKept'
  <2>1. i \in WarmIds => lockTable[i] # NoEntry /\ ~SomeoneMaking(t, i)
    BY <1>7 DEF LockInv, WarmKept, SomeoneMaking, Locks, NoEntry
  <2> QED
    BY <1>1, <1>2, <1>7, <2>1, GuardStepsApart DEF LockInv, WarmKept
<1>8. ASSUME ~mapRaced, NEW j \in LockIds \ firstsMet'
      PROVE  EntryKept(j)' /\ MakersKept(j)' /\ UsersKept(j)'
  <2>1. EntryKept(j) /\ MakersKept(j) /\ UsersKept(j) /\ (j = i => ~SomeoneMaking(t, i))
    BY <1>2, <1>8 DEF LockInv, UnmetKept
  <2>2. EntryKept(j)'
    BY <1>2, <2>1 DEF EntryKept
  <2>3. MakersKept(j)'
    BY <1>1, <1>2, <1>8, <2>1, GuardStepsApart DEF MakersKept, SomeoneMaking
  <2>4. j = i => lockTable[i] # NullEntry
    BY <1>2, <2>1, GuardStepsApart DEF EntryKept, SomeoneMaking
  <2>5. j = i /\ at = "found" => lockTable[i] \in Locks
    BY <1>1, <1>2, <1>8, <2>4 DEF LockInv, LockTypeOK, Locks, NoEntry, NullEntry
  <2>6. UsersKept(j)'
    BY <1>1, <1>2, <2>1, <2>5, GuardStepsApart DEF UsersKept
  <2> QED BY <2>2, <2>3, <2>6
<1>9. ASSUME ~mapRaced PROVE UnmetKept'
  BY <1>8, <1>9 DEF UnmetKept
<1> QED BY <1>2, <1>3, <1>5, <1>6, <1>7, <1>9 DEF LockInv

\* The entry that is inserted is null until the thread that inserted it fills it.
LEMMA InsertEntryKeeps ==
  ASSUME LockInv, NEW t \in LockThreads, InsertEntry(t)
  PROVE  LockInv'
<1> USE GlobalLockAssumption
<1> DEFINE i == guards[t].id
<1>1. /\ UNCHANGED <<lockMade, lockOwner, mapRaced, firstsMet>>
      /\ guards[t].at = "insert" /\ i \in LockIds /\ guards[t].id = i
      /\ \A u \in LockThreads \ {t} : guards'[u] = guards[u]
      /\ guards'[t].at = "make" /\ guards'[t].id = i /\ guards'[t].lock = guards[t].lock
      /\ guards' \in [LockThreads -> [at : GuardSteps, id : LockIds, lock : 0..MaxLocks]]
  BY GuardStepsApart DEF InsertEntry, MoveGuard, LockInv, LockTypeOK
<1>2. /\ lockTable' \in [LockIds -> NoEntry..MaxLocks] /\ \A j \in LockIds \ {i} : lockTable'[j] = lockTable[j]
      /\ lockTable'[i] \in {lockTable[i], NullEntry}
      /\ ~mapRaced => lockTable'[i] = IF lockTable[i] = NoEntry THEN NullEntry ELSE lockTable[i]
  BY <1>1 DEF InsertEntry, Indexed, SeenEntry, LockInv, LockTypeOK, NullEntry, NoEntry
<1> HIDE DEF i
<1>3. LockTypeOK'
  BY <1>1, <1>2 DEF LockInv, LockTypeOK
<1>4. MadeLocks' = MadeLocks
  BY <1>1 DEF MadeLocks
<1>5. LocksNumbered'
  BY <1>1, <1>4 DEF LockInv, LocksNumbered
<1>6. NullEntry \notin Locks /\ NoEntry \notin Locks /\ NullEntry \notin MadeLocks /\ NoEntry # NullEntry
  BY DEF NullEntry, NoEntry, Locks, MadeLocks
<1>7. TableApart'
  <2>1. \A j \in LockIds : lockTable'[j] = lockTable[j] \/ lockTable'[j] = NullEntry
    BY <1>2
  <2>2. TableApart
    BY DEF LockInv
  <2>3. \A u \in LockThreads : guards'[u].at \in {"wait"} \union InSection => guards'[u] = guards[u]
    BY <1>1, GuardStepsApart
  <2>4. /\ \A j \in LockIds : lockTable'[j] \in Locks => lockTable'[j] \in MadeLocks
        /\ \A j, k \in LockIds : lockTable'[j] = lockTable'[k] /\ lockTable'[j] \in Locks => j = k
    BY <1>6, <2>1, <2>2 DEF TableApart
  <2>5. ASSUME NEW u \in LockThreads, guards'[u].at \in {"wait"} \union InSection
        PROVE  /\ guards'[u].lock \in MadeLocks
               /\ \A j \in LockIds \ {guards'[u].id} : lockTable'[j] # guards'[u].lock
    BY <1>6, <2>1, <2>2, <2>3, <2>5 DEF TableApart
  <2> QED BY <1>4, <2>4, <2>5 DEF TableApart
<1>8. ASSUME ~mapRaced PROVE WarmKept'
  BY <1>1, <1>2, <1>8, GuardStepsApart DEF LockInv, WarmKept
<1>9. ASSUME ~mapRaced, NEW j \in LockIds \ firstsMet
      PROVE  EntryKept(j)' /\ MakersKept(j)' /\ UsersKept(j)'
  <2>1. EntryKept(j) /\ MakersKept(j) /\ UsersKept(j)
    BY <1>9 DEF LockInv, UnmetKept
  <2>2. j = i => lockTable[i] = NoEntry /\ lockTable'[i] = NullEntry
    BY <1>1, <1>2, <1>9, <2>1 DEF MakersKept
  <2>3. EntryKept(j)'
    BY <1>1, <1>2, <1>6, <2>1, <2>2 DEF EntryKept
  <2>4. MakersKept(j)'
    BY <1>1, <1>2, <2>1, <2>2, GuardStepsApart DEF MakersKept
  <2>5. UsersKept(j)'
    BY <1>1, <1>2, <1>6, <2>1, <2>2, GuardStepsApart DEF UsersKept
  <2> QED BY <2>3, <2>4, <2>5
<1>10. ASSUME ~mapRaced PROVE UnmetKept'
  BY <1>1, <1>9, <1>10 DEF UnmetKept
<1> QED BY <1>1, <1>3, <1>5, <1>7, <1>8, <1>10 DEF LockInv

\* The lock that is made is a new one, and the entry of its id names it from then on.
LEMMA MakeLockKeeps ==
  ASSUME LockInv, NEW t \in LockThreads, MakeLock(t)
  PROVE  LockInv'
<1> USE GlobalLockAssumption
<1> DEFINE i == guards[t].id
<1>1. PICK n \in 0..MaxLocks : MadeLocks = 1..n /\ \A j \in LockIds : lockMade[j] <= n
  BY DEF LockInv, LocksNumbered
<1>2. /\ UNCHANGED <<mapRaced, firstsMet>>
      /\ i \in LockIds /\ guards[t].id = i /\ guards[t].at = "make" /\ n + 1 \in Locks
      /\ lockTable' = [lockTable EXCEPT ![i] = n + 1]
      /\ lockMade' = [lockMade EXCEPT ![i] = @ + 1]
      /\ lockOwner' = [lockOwner EXCEPT ![n + 1] = NoThread]
      /\ guards' = [guards EXCEPT ![t].at = "found"]
  <2>1. LocksMade = n
    BY <1>1, LastLock
  <2> QED BY <2>1 DEF MakeLock, MoveGuard, LockInv, LockTypeOK
<1>3. n \in Nat /\ n + 1 <= MaxLocks
  BY <1>2 DEF Locks
<1>4. MadeLocks' = 1..n + 1
  BY <1>1, <1>2, <1>3 DEF MadeLocks, LockInv, LockTypeOK, Locks
<1>5. /\ \A j \in LockIds : lockMade'[j] = IF j = i THEN lockMade[j] + 1 ELSE lockMade[j]
      /\ \A j \in LockIds : lockTable'[j] = IF j = i THEN n + 1 ELSE lockTable[j]
      /\ \A j \in LockIds : lockMade[j] \in Nat /\ lockMade[j] <= n
      /\ \A l \in Locks \ {n + 1} : lockOwner'[l] = lockOwner[l]
  BY <1>1, <1>2 DEF LockInv, LockTypeOK
<1>6. /\ \A u \in LockThreads \ {t} : guards'[u] = guards[u]
      /\ guards'[t].at = "found" /\ guards'[t].id = i /\ guards'[t].lock = guards[t].lock
      /\ guards' \in [LockThreads -> [at : GuardSteps, id : LockIds, lock : 0..MaxLocks]]
  BY <1>2, GuardStepsApart DEF LockInv, LockTypeOK
<1> HIDE DEF i
<1>7. LockTypeOK'
  <2>1. lockTable' \in [LockIds -> NoEntry..MaxLocks]
    BY <1>2, <1>3 DEF LockInv, LockTypeOK, NoEntry
  <2>2. lockMade' \in [LockIds -> 0..MaxLocks]
    BY <1>2, <1>3, <1>5 DEF LockInv, LockTypeOK
  <2>3. lockOwner' \in [Locks -> LockThreads \union {NoThread, "unmade"}]
    BY <1>2 DEF LockInv, LockTypeOK, Locks
  <2> QED BY <1>2, <1>6, <2>1, <2>2, <2>3 DEF LockInv, LockTypeOK, Locks
<1>8. LocksNumbered'
  <2>1. \A j \in LockIds : lockMade'[j] <= n + 1
    BY <1>3, <1>5
  <2>2. n + 1 \in 0..MaxLocks
    BY <1>3
  <2> QED BY <1>4, <2>1, <2>2 DEF LocksNumbered
<1>9. \A j \in LockIds : lockTable[j] # n + 1 /\ (lockTable[j] \in Locks => lockTable[j] \in 1..n)
  BY <1>1, <1>2, <1>3 DEF LockInv, TableApart
<1>10. TableApart'
  <2>1. TableApart
    BY DEF LockInv
  <2>2. \A j \in LockIds : lockTable'[j] \in Locks => lockTable'[j] \in 1..n + 1
    BY <1>3, <1>5, <1>9
  <2>3. \A j, k \in LockIds : lockTable'[j] = lockTable'[k] /\ lockTable'[j] \in Locks => j = k
    BY <1>5, <1>9, <2>1 DEF TableApart
  <2>4. ASSUME NEW u \in LockThreads, guards'[u].at \in {"wait"} \union InSection
        PROVE  /\ guards'[u].lock \in 1..n + 1
               /\ \A j \in LockIds \ {guards'[u].id} : lockTable'[j] # guards'[u].lock
    <3>1. guards'[u] = guards[u]
      BY <1>6, <2>4, GuardStepsApart
    <3>2. guards[u].lock \in 1..n /\ \A j \in LockIds \ {guards[u].id} : lockTable[j] # guards[u].lock
      BY <1>1, <2>1, <2>4, <3>1 DEF TableApart
    <3> QED BY <1>3, <1>5, <3>1, <3>2
  <2> QED BY <1>4, <2>2, <2>3, <2>4 DEF TableApart
<1>11. Locks = 1..MaxLocks /\ n + 1 \in Locks
  BY <1>2 DEF Locks
<1>12. ASSUME ~mapRaced PROVE WarmKept'
  <2>1. i \notin WarmIds
    BY <1>2, <1>12, GuardStepsApart DEF LockInv, WarmKept
  <2> QED
    BY <1>2, <1>5, <1>6, <1>12, <2>1, GuardStepsApart DEF LockInv, WarmKept
<1>13. ASSUME ~mapRaced, NEW j \in LockIds \ firstsMet
      PROVE  EntryKept(j)' /\ MakersKept(j)' /\ UsersKept(j)'
  <2>1. EntryKept(j) /\ MakersKept(j) /\ UsersKept(j)
    BY <1>13 DEF LockInv, UnmetKept
  <2>2. j = i => lockTable[i] = NullEntry /\ lockMade[i] = 0
    BY <1>2, <2>1 DEF MakersKept, EntryKept, NullEntry, Locks
  <2>3. EntryKept(j)'
    <3>1. CASE j = i
      BY <1>3, <1>5, <1>11, <2>2, <3>1 DEF EntryKept, NullEntry
    <3>2. CASE j # i
      BY <1>2, <1>5, <1>6, <1>11, <2>1, <3>2 DEF EntryKept
    <3> QED BY <3>1, <3>2
  <2>4. MakersKept(j)'
    <3>1. CASE j = i
      BY <1>2, <1>6, <2>1, <3>1, GuardStepsApart DEF MakersKept
    <3>2. CASE j # i
      BY <1>2, <1>5, <1>6, <2>1, <3>2, GuardStepsApart DEF MakersKept
    <3> QED BY <3>1, <3>2
  <2>5. UsersKept(j)'
    <3>1. CASE j = i
      BY <1>5, <1>6, <1>11, <2>1, <2>2, <3>1, GuardStepsApart DEF UsersKept, NullEntry
    <3>2. CASE j # i
      BY <1>2, <1>5, <1>6, <1>9, <1>11, <2>1, <3>2, GuardStepsApart DEF UsersKept
    <3> QED BY <3>1, <3>2
  <2> QED BY <2>3, <2>4, <2>5
<1>14. ASSUME ~mapRaced PROVE UnmetKept'
  BY <1>2, <1>13, <1>14 DEF UnmetKept
<1> QED BY <1>2, <1>7, <1>8, <1>10, <1>12, <1>14 DEF LockInv

\* Entering a lock nobody is in, or a deleted one, takes none from a thread inside.
LEMMA EnterLockKeeps ==
  ASSUME LockInv, NEW t \in LockThreads, EnterLock(t)
  PROVE  LockInv'
<1> USE GlobalLockAssumption
<1> DEFINE l == guards[t].lock
           i == guards[t].id
<1>1. /\ guards[t].at = "wait" /\ l \in MadeLocks /\ l \in Locks /\ i \in LockIds
      /\ guards[t].lock = l /\ guards[t].id = i
      /\ lockOwner' = [lockOwner EXCEPT ![l] = t]
      /\ UNCHANGED <<lockTable, lockMade, mapRaced, firstsMet>>
      /\ lockOwner[l] = NoThread \/ Deleted(l)
      /\ \A j \in LockIds \ {i} : lockTable[j] # l
  BY DEF EnterLock, LockInv, LockTypeOK, TableApart, MadeLocks
<1>2. /\ \A u \in LockThreads \ {t} : guards'[u] = guards[u]
      /\ guards'[t].at = "inside" /\ guards'[t].id = i /\ guards'[t].lock = l
      /\ guards' \in [LockThreads -> [at : GuardSteps, id : LockIds, lock : 0..MaxLocks]]
  BY <1>1, GuardStepsApart DEF EnterLock, MoveGuard, LockInv, LockTypeOK
<1> HIDE DEF l, i
<1>3. /\ lockOwner'[l] = t /\ \A k \in Locks \ {l} : lockOwner'[k] = lockOwner[k]
      /\ lockOwner' \in [Locks -> LockThreads \union {NoThread, "unmade"}]
  BY <1>1 DEF LockInv, LockTypeOK
<1>4. MadeLocks' = MadeLocks
  BY <1>1, <1>3 DEF MadeLocks
<1>5. LockTypeOK' /\ LocksNumbered'
  BY <1>1, <1>2, <1>3, <1>4 DEF LockInv, LockTypeOK, LocksNumbered
<1>6. TableApart'
  BY <1>1, <1>2, <1>4, GuardStepsApart DEF LockInv, TableApart
<1>7. ASSUME ~mapRaced PROVE WarmKept'
  BY <1>1, <1>2, <1>7, GuardStepsApart DEF LockInv, WarmKept
<1>8. ASSUME ~mapRaced, NEW j \in LockIds \ firstsMet
      PROVE  EntryKept(j)' /\ MakersKept(j)' /\ UsersKept(j)'
  <2>1. EntryKept(j) /\ MakersKept(j) /\ UsersKept(j)
    BY <1>8 DEF LockInv, UnmetKept
  <2>2. EntryKept(j)'
    BY <1>1, <1>2, <2>1 DEF EntryKept
  <2>3. MakersKept(j)'
    BY <1>1, <1>2, <2>1, GuardStepsApart DEF MakersKept
  <2>4. UsersKept(j)'
    <3>1. CASE j = i
      <4>1. lockTable[i] = l /\ lockTable[i] \in Locks /\ lockOwner[l] = NoThread
        BY <1>1, <2>1, <3>1, GuardStepsApart DEF UsersKept, Deleted
      <4>2. \A u \in LockThreads : guards[u].id = i => guards[u].at \notin InSection
        BY <2>1, <3>1, <4>1 DEF UsersKept
      <4> QED BY <1>1, <1>2, <1>3, <2>1, <3>1, <4>1, <4>2, GuardStepsApart DEF UsersKept
    <3>2. CASE j # i
      BY <1>1, <1>2, <1>3, <2>1, <3>2, GuardStepsApart DEF UsersKept
    <3> QED BY <3>1, <3>2
  <2> QED BY <2>2, <2>3, <2>4
<1>9. ASSUME ~mapRaced PROVE UnmetKept'
  BY <1>1, <1>8, <1>9 DEF UnmetKept
<1> QED BY <1>1, <1>5, <1>6, <1>7, <1>9 DEF LockInv

\* What operator[] makes of the table: a missing entry is null, and nothing else changes.
LEMMA IndexedKeeps ==
  ASSUME LockInv, NEW i \in LockIds, NEW e \in SeenEntry(i), Indexed(i, e)
  PROVE  /\ lockTable' \in [LockIds -> NoEntry..MaxLocks] /\ \A j \in LockIds \ {i} : lockTable'[j] = lockTable[j]
         /\ e \in Locks => e = lockTable[i] /\ lockTable' = lockTable
         /\ lockTable'[i] \in {lockTable[i], NullEntry}
         /\ ~mapRaced => e = lockTable[i]
         /\ NullEntry \notin Locks /\ NullEntry \notin MadeLocks
  BY GlobalLockAssumption DEF Indexed, SeenEntry, LockInv, LockTypeOK, NullEntry, NoEntry, Locks, MadeLocks

\* The table and the guards stay apart when an entry becomes null and one guard moves to where
\* it neither waits nor is inside, or waits for the lock of its entry.
LEMMA ApartKeeps ==
  ASSUME LockInv, NEW t \in LockThreads, MadeLocks' = MadeLocks,
         \A j \in LockIds : lockTable'[j] \in {lockTable[j], NullEntry},
         \A u \in LockThreads \ {t} : guards'[u] = guards[u],
         \/ guards'[t].at \notin {"wait"} \union InSection
         \/ /\ guards'[t].id \in LockIds /\ guards'[t].lock \in Locks
            /\ lockTable[guards'[t].id] = guards'[t].lock
  PROVE  TableApart'
<1>1. TableApart /\ NullEntry \notin Locks /\ NullEntry \notin MadeLocks
  BY DEF LockInv, NullEntry, Locks, MadeLocks
<1>2. /\ \A j \in LockIds : lockTable'[j] \in Locks => lockTable'[j] \in MadeLocks
      /\ \A j, k \in LockIds : lockTable'[j] = lockTable'[k] /\ lockTable'[j] \in Locks => j = k
  BY <1>1 DEF TableApart
<1>3. ASSUME NEW u \in LockThreads, guards'[u].at \in {"wait"} \union InSection
      PROVE  /\ guards'[u].lock \in MadeLocks
             /\ \A j \in LockIds \ {guards'[u].id} : lockTable'[j] # guards'[u].lock
  <2>1. CASE u = t
    BY <1>1, <1>3, <2>1 DEF TableApart
  <2>2. CASE u # t
    BY <1>1, <1>3, <2>2 DEF TableApart
  <2> QED BY <2>1, <2>2
<1> QED BY <1>2, <1>3 DEF TableApart

\* Who reaches the lock of an id nobody met at waits for the one of the table.
LEMMA ReachLockKeeps ==
  ASSUME LockInv, NEW t \in LockThreads, ReachLock(t)
  PROVE  LockInv'
<1> USE GlobalLockAssumption
<1> DEFINE i == guards[t].id
<1>1. /\ UNCHANGED <<lockMade, lockOwner, mapRaced, firstsMet>>
      /\ guards[t].at = "look" /\ i \in LockIds /\ guards[t].id = i
  BY DEF ReachLock, LockInv, LockTypeOK
<1>2. PICK e \in SeenEntry(i) :
        /\ Indexed(i, e)
        /\ IF e \in Locks THEN guards' = [guards EXCEPT ![t] = [at |-> "wait", id |-> i, lock |-> e]]
           ELSE CrashGuard(t)
  BY DEF ReachLock
<1>3. /\ \A u \in LockThreads \ {t} : guards'[u] = guards[u]
      /\ guards'[t].id = i
      /\ \/ guards'[t].at = "wait" /\ guards'[t].lock = e /\ e \in Locks
         \/ guards'[t].at = "crashed" /\ e \notin Locks
      /\ guards' \in [LockThreads -> [at : GuardSteps, id : LockIds, lock : 0..MaxLocks]]
  <2>1. CASE e \in Locks
    <3>1. e \in 0..MaxLocks
      BY <2>1 DEF Locks
    <3> QED
      BY <1>1, <1>2, <2>1, <3>1, GuardStepsApart DEF LockInv, LockTypeOK
  <2>2. CASE e \notin Locks
    BY <1>1, <1>2, <2>2, GuardStepsApart DEF CrashGuard, MoveGuard, LockInv, LockTypeOK
  <2> QED BY <2>1, <2>2
<1> HIDE DEF i
<1>4. /\ lockTable' \in [LockIds -> NoEntry..MaxLocks] /\ \A j \in LockIds \ {i} : lockTable'[j] = lockTable[j]
      /\ e \in Locks => e = lockTable[i] /\ lockTable' = lockTable
      /\ lockTable'[i] \in {lockTable[i], NullEntry}
      /\ ~mapRaced => e = lockTable[i]
  BY <1>1, <1>2, IndexedKeeps
<1>5. MadeLocks' = MadeLocks
  BY <1>1 DEF MadeLocks
<1>6. LockTypeOK' /\ LocksNumbered'
  BY <1>1, <1>3, <1>4, <1>5 DEF LockInv, LockTypeOK, LocksNumbered
<1>7. TableApart'
  <2>1. \A j \in LockIds : lockTable'[j] \in {lockTable[j], NullEntry}
    BY <1>4
  <2> QED BY <1>1, <1>3, <1>4, <1>5, <2>1, ApartKeeps, GuardStepsApart
<1>8. ASSUME ~mapRaced PROVE WarmKept'
  <2>1. WarmKept /\ (i \in WarmIds => lockTable' = lockTable)
    BY <1>4, <1>8 DEF LockInv, WarmKept
  <2>2. \A w \in WarmIds : lockTable'[w] = lockTable[w] /\ w \in LockIds
    BY <1>4, <2>1
  <2> QED BY <1>1, <1>3, <2>1, <2>2, GuardStepsApart DEF WarmKept
<1>9. ASSUME ~mapRaced, NEW j \in LockIds \ firstsMet
      PROVE  EntryKept(j)' /\ MakersKept(j)' /\ UsersKept(j)'
  <2>1. EntryKept(j) /\ MakersKept(j) /\ UsersKept(j)
    BY <1>9 DEF LockInv, UnmetKept
  <2>2. j = i => e \in Locks
    BY <1>1, <1>4, <1>9, <2>1 DEF UsersKept
  <2>3. lockTable'[j] = lockTable[j]
    BY <1>4, <2>2
  <2>4. EntryKept(j)'
    <3>1. \A u \in LockThreads : guards[u].at = "make" => guards'[u] = guards[u]
      BY <1>1, <1>3
    <3> QED BY <1>1, <2>1, <2>3, <3>1 DEF EntryKept
  <2>5. MakersKept(j)'
    BY <1>1, <1>3, <2>1, <2>3, GuardStepsApart DEF MakersKept
  <2>6. UsersKept(j)'
    BY <1>1, <1>3, <1>4, <2>1, <2>2, <2>3, GuardStepsApart DEF UsersKept
  <2> QED BY <2>4, <2>5, <2>6
<1>10. ASSUME ~mapRaced PROVE UnmetKept'
  BY <1>1, <1>9, <1>10 DEF UnmetKept
<1> QED BY <1>1, <1>6, <1>7, <1>8, <1>10 DEF LockInv

\* Who leaves the lock of an id nobody met at leaves its own.
LEMMA LeaveLockKeeps ==
  ASSUME LockInv, NEW t \in LockThreads, LeaveLock(t)
  PROVE  LockInv'
<1> USE GlobalLockAssumption
<1> DEFINE i == guards[t].id
<1>1. /\ UNCHANGED <<lockMade, mapRaced, firstsMet>>
      /\ guards[t].at = "leave" /\ i \in LockIds /\ guards[t].id = i
  BY DEF LeaveLock, LockInv, LockTypeOK
<1>2. PICK e \in SeenEntry(i) :
        /\ Indexed(i, e)
        /\ IF e \in Locks
           THEN lockOwner' = [lockOwner EXCEPT ![e] = NoThread] /\ guards' = [guards EXCEPT ![t] = NoGuard]
           ELSE CrashGuard(t) /\ UNCHANGED lockOwner
  BY DEF LeaveLock
<1>3. NoGuard \in [at : GuardSteps, id : LockIds, lock : 0..MaxLocks] /\ NoGuard.at = "none"
  BY GuardStepsApart DEF NoGuard
<1>4. /\ \A u \in LockThreads \ {t} : guards'[u] = guards[u]
      /\ \/ guards'[t].at = "none" /\ e \in Locks
         \/ guards'[t].at = "crashed" /\ guards'[t].id = i /\ e \notin Locks
      /\ guards' \in [LockThreads -> [at : GuardSteps, id : LockIds, lock : 0..MaxLocks]]
  <2>1. CASE e \in Locks
    BY <1>1, <1>2, <1>3, <2>1 DEF LockInv, LockTypeOK
  <2>2. CASE e \notin Locks
    BY <1>1, <1>2, <2>2, GuardStepsApart DEF CrashGuard, MoveGuard, LockInv, LockTypeOK
  <2> QED BY <2>1, <2>2
<1> HIDE DEF i
<1>5. /\ lockTable' \in [LockIds -> NoEntry..MaxLocks] /\ \A j \in LockIds \ {i} : lockTable'[j] = lockTable[j]
      /\ e \in Locks => e = lockTable[i] /\ lockTable' = lockTable
      /\ lockTable'[i] \in {lockTable[i], NullEntry}
      /\ ~mapRaced => e = lockTable[i]
  BY <1>1, <1>2, IndexedKeeps
<1>6. /\ \A l \in Locks \ {e} : lockOwner'[l] = lockOwner[l]
      /\ lockOwner' \in [Locks -> LockThreads \union {NoThread, "unmade"}]
      /\ e \in Locks => lockOwner'[e] = NoThread
      /\ e \notin Locks => lockOwner' = lockOwner
  BY <1>2 DEF LockInv, LockTypeOK
<1>7. MadeLocks' = MadeLocks
  <2>1. e \in Locks => lockOwner[e] # "unmade"
    BY <1>1, <1>5 DEF LockInv, TableApart, MadeLocks
  <2> QED BY <1>6, <2>1 DEF MadeLocks
<1>8. LockTypeOK' /\ LocksNumbered'
  BY <1>1, <1>4, <1>5, <1>6, <1>7 DEF LockInv, LockTypeOK, LocksNumbered
<1>9. TableApart'
  <2>1. \A j \in LockIds : lockTable'[j] \in {lockTable[j], NullEntry}
    BY <1>5
  <2> QED BY <1>4, <1>7, <2>1, ApartKeeps, GuardStepsApart
<1>10. ASSUME ~mapRaced PROVE WarmKept'
  <2>1. WarmKept /\ (i \in WarmIds => lockTable' = lockTable)
    BY <1>5, <1>10 DEF LockInv, WarmKept
  <2>2. \A w \in WarmIds : lockTable'[w] = lockTable[w] /\ w \in LockIds
    BY <1>5, <2>1
  <2> QED BY <1>1, <1>4, <2>1, <2>2, GuardStepsApart DEF WarmKept
<1>11. ASSUME ~mapRaced, NEW j \in LockIds \ firstsMet
      PROVE  EntryKept(j)' /\ MakersKept(j)' /\ UsersKept(j)'
  <2>1. EntryKept(j) /\ MakersKept(j) /\ UsersKept(j)
    BY <1>11 DEF LockInv, UnmetKept
  <2>2. j = i => e \in Locks /\ lockTable[i] = e /\ lockOwner[e] = t
    BY <1>1, <1>5, <1>11, <2>1, GuardStepsApart DEF UsersKept
  <2>3. lockTable'[j] = lockTable[j]
    BY <1>5, <2>2
  <2>4. EntryKept(j)'
    <3>1. \A u \in LockThreads : guards[u].at = "make" => guards'[u] = guards[u]
      BY <1>1, <1>4
    <3> QED BY <1>1, <2>1, <2>3, <3>1 DEF EntryKept
  <2>5. MakersKept(j)'
    BY <1>1, <1>4, <2>1, <2>3, GuardStepsApart DEF MakersKept
  <2>6. UsersKept(j)'
    <3>1. CASE j = i
      <4>1. \A u \in LockThreads \ {t} : guards[u].id = i => guards[u].at \notin InSection
        BY <2>1, <2>2, <3>1 DEF UsersKept
      <4> QED BY <1>1, <1>4, <2>1, <2>2, <2>3, <3>1, <4>1, GuardStepsApart DEF UsersKept
    <3>2. CASE j # i
      <4>1. lockTable[j] \in Locks => lockTable[j] # e
        BY <1>1, <1>5, <3>2 DEF LockInv, TableApart
      <4> QED BY <1>1, <1>4, <1>6, <2>1, <2>3, <3>2, <4>1, GuardStepsApart DEF UsersKept
    <3> QED BY <3>1, <3>2
  <2> QED BY <2>4, <2>5, <2>6
<1>12. ASSUME ~mapRaced PROVE UnmetKept'
  BY <1>1, <1>11, <1>12 DEF UnmetKept
<1> QED BY <1>1, <1>8, <1>9, <1>10, <1>12 DEF LockInv

\* A crash in a torn map disturbs nothing that is still promised.
LEMMA CrashKeeps ==
  ASSUME LockInv, NEW t \in LockThreads, CrashInMap(t)
  PROVE  LockInv'
<1>1. /\ UNCHANGED <<lockTable, lockMade, lockOwner, mapRaced, firstsMet>> /\ mapRaced
      /\ \A u \in LockThreads \ {t} : guards'[u] = guards[u]
      /\ guards'[t].at = "crashed"
      /\ guards' \in [LockThreads -> [at : GuardSteps, id : LockIds, lock : 0..MaxLocks]]
  BY GuardStepsApart DEF CrashInMap, CrashGuard, MoveGuard, LockInv, LockTypeOK
<1>2. MadeLocks' = MadeLocks
  BY <1>1 DEF MadeLocks
<1>3. LockTypeOK' /\ LocksNumbered'
  BY <1>1, <1>2 DEF LockInv, LockTypeOK, LocksNumbered
<1>4. TableApart'
  BY <1>1, <1>2, ApartKeeps, GuardStepsApart
<1> QED BY <1>1, <1>3, <1>4 DEF LockInv

\* Each step of a guard keeps the invariant.
LEMMA NextLockInv == LockInv /\ [LockNext]_lockVars => LockInv'
<1> SUFFICES ASSUME LockInv, [LockNext]_lockVars PROVE LockInv'
  OBVIOUS
<1>1. CASE UNCHANGED lockVars
  BY <1>1 DEF lockVars, LockInv, LockTypeOK, MadeLocks, LocksNumbered, TableApart, WarmKept, UnmetKept,
              EntryKept, MakersKept, UsersKept
<1>2. CASE LockNext
  <2>1. PICK t \in LockThreads :
          \/ \E i \in LockIds : CallFind(t, i)
          \/ FindLock(t) \/ CallInsert(t) \/ InsertEntry(t) \/ MakeLock(t)
          \/ CallLook(t) \/ ReachLock(t) \/ EnterLock(t) \/ CallLeave(t) \/ LeaveLock(t) \/ CrashInMap(t)
    BY <1>2, Zenon DEF LockNext
  <2> QED
    BY <2>1, CallMapKeeps, FindLockKeeps, InsertEntryKeeps, MakeLockKeeps, ReachLockKeeps, EnterLockKeeps,
       LeaveLockKeeps, CrashKeeps, Zenon
<1> QED
  BY <1>1, <1>2

\* As long as no call of the map overlapped an insertion, threads exclude each other and none
\* meets a null lock in the sections of all ids but those looked for while another thread was
\* making their lock, and an id used before is never one of these: for any number of threads,
\* ids and locks.
THEOREM LockExclusive == LockSpec => []ExclusiveUnlessFirstsMeet
<1>1. LockInit => LockInv
  BY InitLockInv
<1>2. LockInv /\ [LockNext]_lockVars => LockInv'
  BY NextLockInv
<1>3. LockInv => ExclusiveUnlessFirstsMeet
  <2> SUFFICES ASSUME LockInv, ~mapRaced PROVE ExclusiveUnlessFirstsMeet
    BY DEF ExclusiveUnlessFirstsMeet
  <2>1. \A i \in WarmIds : lockMade[i] = 1 /\ i \notin firstsMet
    BY DEF LockInv, WarmKept
  <2>2. ASSUME NEW i \in LockIds \ firstsMet
        PROVE  /\ lockMade[i] <= 1
               /\ \A t \in LockThreads : guards[t].id = i =>
                    /\ guards[t].at # "crashed"
                    /\ guards[t].at \in InSection => lockOwner[lockTable[i]] = t
    BY DEF LockInv, UnmetKept, EntryKept, UsersKept
  <2> QED BY <2>1, <2>2 DEF ExclusiveUnlessFirstsMeet
<1> QED BY <1>1, <1>2, <1>3, PTL DEF LockSpec

\* What is made on first use, the lock of an id or the object of a singleton, is one for every
\* thread unless two of them came first together, for any number of threads and ids.
THEOREM MadeOnce == LockSpec /\ SingletonSpec => []MadeOnceUnlessRaced
<1>1. ExclusiveUnlessFirstsMeet /\ OneInstanceUnlessRaced => MadeOnceUnlessRaced
  BY DEF MadeOnceUnlessRaced
<1> QED
  BY <1>1, LockExclusive, OneInstance, PTL

-----------------------------------------------------------------------------
(* Process *)

HandleName == [kind : {"process", "thread"}, pid : Pids]
ObjectFields == [pid : Pids \union {NoPid}, bit : {"x86", "x64"},
                 handle : -1..MaxHandles, attached : BOOLEAN, alive : BOOLEAN]

\* An object that is not attached has no handle that a destructor could close.
UnattachedHoldNothing ==
  \A o \in ProcessObjects :
    ~objects[o].attached => objects[o].handle \in {NullHandle, PseudoHandle}

HandlesInv ==
  /\ DOMAIN handles \subseteq 1..MaxHandles
  /\ handles \in [DOMAIN handles -> HandleName]
  /\ callerOwns \subseteq DOMAIN handles
  /\ objects \in [ProcessObjects -> ObjectFields]

ProcessInv == HandlesInv /\ UnattachedHoldNothing /\ AttachedHandleLive

\* Nothing is open and no object lives at first.
LEMMA InitProcessInv == ProcessInit => ProcessInv
<1> SUFFICES ASSUME ProcessInit PROVE ProcessInv
  OBVIOUS
<1> USE ProcessAssumption DEF ProcessInit
<1>1. Gone \in ObjectFields
  BY DEF Gone, ObjectFields, NullHandle
<1>2. DOMAIN handles = {}
  OBVIOUS
<1>3. HandlesInv
  BY <1>1, <1>2 DEF HandlesInv
<1>4. UnattachedHoldNothing /\ AttachedHandleLive
  BY DEF UnattachedHoldNothing, AttachedHandleLive, Gone
<1> QED BY <1>3, <1>4 DEF ProcessInv

\* Each field of an object keeps its type when it is constructed, attached or detached.
LEMMA FieldTypes ==
  ASSUME NEW r \in ObjectFields, NEW p \in Pids, NEW h \in 1..MaxHandles \union {PseudoHandle}
  PROVE  /\ Fresh \in ObjectFields /\ ~Fresh.attached /\ Fresh.handle = NullHandle
         /\ Detached(r) \in ObjectFields /\ ~Detached(r).attached /\ Detached(r).handle = PseudoHandle
         /\ [r EXCEPT !.pid = p, !.handle = h, !.attached = TRUE, !.bit = Bit(p)] \in ObjectFields
<1> USE ProcessAssumption
<1>1. 0 \in -1..MaxHandles /\ h \in -1..MaxHandles /\ -1 \in -1..MaxHandles
  BY DEF PseudoHandle
<1>2. Gone \in ObjectFields
  BY <1>1 DEF Gone, ObjectFields, NullHandle
<1>3. Fresh \in ObjectFields
  BY <1>2 DEF Fresh, ObjectFields
<1>4. ~Fresh.attached /\ Fresh.handle = NullHandle
  BY DEF Fresh, Gone
<1>5. Detached(r) \in ObjectFields
  BY <1>1 DEF Detached, ObjectFields, PseudoHandle
<1>6. ~Detached(r).attached /\ Detached(r).handle = PseudoHandle
  BY DEF Detached, ObjectFields
<1>7. [r EXCEPT !.pid = p, !.handle = h, !.attached = TRUE, !.bit = Bit(p)] \in ObjectFields
  BY <1>1 DEF ObjectFields, Bit
<1> QED BY <1>3, <1>4, <1>5, <1>6, <1>7

\* A handle the system gives is new, and names what it was made for.
LEMMA NewHandleIsFree == ASSUME FreeHandles # {} PROVE NewHandle \in 1..MaxHandles \ DOMAIN handles
  BY DEF NewHandle, FreeHandles

\* An attached object has the fields attach gives it.
LEMMA AttachedFields ==
  ASSUME HandlesInv, NEW o \in ProcessObjects, NEW h \in 1..MaxHandles \union {PseudoHandle},
         NEW open, Attached(o, open, h), PidOf(open, h) \in Pids
  PROVE  objects' \in [ProcessObjects -> ObjectFields]
<1> DEFINE r == [objects[o] EXCEPT !.pid = PidOf(open, h), !.handle = h, !.attached = TRUE,
                                   !.bit = Bit(PidOf(open, h))]
<1>1. objects[o] \in ObjectFields
  BY DEF HandlesInv
<1>2. r \in ObjectFields
  BY <1>1, FieldTypes
<1>3. objects' = [objects EXCEPT ![o] = r]
  BY DEF Attached
<1> QED BY <1>2, <1>3 DEF HandlesInv

\* What attach leaves is an object that works on the process of its handle.
LEMMA AttachedInv ==
  ASSUME ProcessInv, NEW o \in ProcessObjects, NEW h \in 1..MaxHandles \union {PseudoHandle},
         HandlesInv', Attached(o, handles', h),
         h # PseudoHandle => h \in DOMAIN handles' /\ handles'[h].kind = "process",
         \A g \in DOMAIN handles : g \in DOMAIN handles' /\ handles'[g] = handles[g]
  PROVE  ProcessInv'
<1> USE ProcessAssumption DEF ProcessInv
<1> DEFINE p == PidOf(handles', h)
<1>1. \A q \in ProcessObjects : q # o => objects'[q] = objects[q]
  BY DEF Attached, HandlesInv
<1>2. /\ objects'[o].pid = p /\ objects'[o].handle = h /\ objects'[o].attached
      /\ objects'[o].bit = Bit(p)
  BY DEF Attached, HandlesInv, ObjectFields
<1>3. UnattachedHoldNothing'
  BY <1>1, <1>2 DEF UnattachedHoldNothing
<1>4. AttachedHandleLive'
  <2> SUFFICES ASSUME NEW q \in ProcessObjects, objects'[q].attached
      PROVE LET g == objects'[q].handle IN
            /\ g # PseudoHandle => g \in DOMAIN handles' /\ handles'[g].kind = "process"
            /\ PidOf(handles', g) = objects'[q].pid
            /\ objects'[q].bit = Bit(objects'[q].pid)
    BY DEF AttachedHandleLive
  <2>1. CASE q = o
    BY <1>2, <2>1
  <2>2. CASE q # o
    BY <1>1, <2>2 DEF AttachedHandleLive, PidOf
  <2> QED BY <2>1, <2>2
<1> QED BY <1>3, <1>4

\* Handles that nobody uses may come and go.
LEMMA HandlesMayChange ==
  ASSUME ProcessInv, HandlesInv', objects' = objects,
         \A o \in ProcessObjects : objects[o].attached /\ objects[o].handle # PseudoHandle =>
           objects[o].handle \in DOMAIN handles' /\ handles'[objects[o].handle] = handles[objects[o].handle]
  PROVE  ProcessInv'
  BY DEF ProcessInv, UnattachedHoldNothing, AttachedHandleLive, PidOf

\* What stays open when a handle is closed.
LEMMA WithoutKeeps ==
  ASSUME HandlesInv, NEW h
  PROVE  /\ DOMAIN HandlesWithout(handles, h) = DOMAIN handles \ {h}
         /\ HandlesWithout(handles, h) \in [DOMAIN handles \ {h} -> HandleName]
         /\ \A g \in DOMAIN handles \ {h} : HandlesWithout(handles, h)[g] = handles[g]
  BY DEF HandlesWithout, Without, HandlesInv

\* One more handle is opened, for the program or for nobody.
LEMMA OpenInv ==
  ASSUME ProcessInv, FreeHandles # {}, NEW what \in HandleName,
         handles' = With(handles, NewHandle, what), objects' = objects,
         callerOwns' \in {callerOwns, callerOwns \union {NewHandle}}
  PROVE  ProcessInv'
<1>1. NewHandle \in 1..MaxHandles \ DOMAIN handles
  BY NewHandleIsFree
<1>2. /\ DOMAIN handles' = DOMAIN handles \union {NewHandle}
      /\ handles' \in [DOMAIN handles' -> HandleName]
      /\ \A g \in DOMAIN handles : handles'[g] = handles[g]
  BY <1>1 DEF With, ProcessInv, HandlesInv
<1>3. HandlesInv'
  BY <1>1, <1>2 DEF ProcessInv, HandlesInv
<1> QED BY <1>2, <1>3, HandlesMayChange DEF ProcessInv, AttachedHandleLive

\* Each operation of an object, and of the program on its own handles, keeps the invariant.
LEMMA NextProcessInv == ProcessInv /\ [ProcessNext]_processVars => ProcessInv'
<1> SUFFICES ASSUME ProcessInv, [ProcessNext]_processVars PROVE ProcessInv'
  OBVIOUS
<1> USE ProcessAssumption
<1>1. ASSUME NEW o \in ProcessObjects, ConstructProcess(o) PROVE ProcessInv'
  <2>0. objects[o] \in ObjectFields /\ OwnPid \in Pids /\ PseudoHandle \in 1..MaxHandles \union {PseudoHandle}
    BY DEF ProcessInv, HandlesInv
  <2>1. Fresh \in ObjectFields /\ ~Fresh.attached /\ Fresh.handle = NullHandle
    BY FieldTypes, <2>0
  <2> QED BY <1>1, <2>1
    DEF ConstructProcess, ProcessInv, HandlesInv, UnattachedHoldNothing, AttachedHandleLive
<1>2. ASSUME NEW o \in ProcessObjects, ExecuteCodeAt(o) PROVE ProcessInv'
  <2>1. objects[o].pid \in Pids
    BY <1>2 DEF ExecuteCodeAt, ProcessInv, HandlesInv, AttachedHandleLive, PidOf, HandleName
  <2>2. Names("thread", objects[o].pid) \in HandleName
    BY <2>1 DEF Names, HandleName
  <2> QED BY <1>2, <2>2, OpenInv DEF ExecuteCodeAt
<1>3. ASSUME NEW o \in ProcessObjects, DetachProcess(o) PROVE ProcessInv'
  <2>1. objects[o] \in ObjectFields /\ OwnPid \in Pids /\ PseudoHandle \in 1..MaxHandles \union {PseudoHandle}
    BY DEF ProcessInv, HandlesInv
  <2>2. /\ Detached(objects[o]) \in ObjectFields
        /\ ~Detached(objects[o]).attached /\ Detached(objects[o]).handle = PseudoHandle
    BY <2>1, FieldTypes
  <2> QED BY <1>3, <2>2
    DEF DetachProcess, ProcessInv, HandlesInv, UnattachedHoldNothing, AttachedHandleLive
<1>4. ASSUME NEW o \in ProcessObjects, DestroyProcess(o) PROVE ProcessInv'
  <2>1. Gone \in ObjectFields /\ ~Gone.attached /\ Gone.handle = NullHandle
    BY DEF Gone, ObjectFields, NullHandle
  <2>2. handles' = handles
    BY <1>4 DEF DestroyProcess, HandlesWithout, ProcessInv, HandlesInv, UnattachedHoldNothing,
                NullHandle, PseudoHandle
  <2> QED BY <1>4, <2>1, <2>2
    DEF DestroyProcess, ProcessInv, HandlesInv, UnattachedHoldNothing, AttachedHandleLive
<1>5. ASSUME NEW o \in ProcessObjects, NEW h \in 1..MaxHandles \union {PseudoHandle}, AttachHandle(o, h)
      PROVE ProcessInv'
  <2>1. handles' = handles /\ callerOwns' = callerOwns /\ Attached(o, handles', h)
    BY <1>5 DEF AttachHandle
  <2>2. h # PseudoHandle => h \in DOMAIN handles /\ handles[h].kind = "process"
    BY <1>5 DEF AttachHandle, ProcessInv, HandlesInv
  <2>3. PidOf(handles, h) \in Pids
    BY <2>2 DEF PidOf, ProcessInv, HandlesInv, HandleName
  <2>4. HandlesInv'
    <3>1. objects' \in [ProcessObjects -> ObjectFields]
      BY <2>1, <2>3, AttachedFields DEF ProcessInv
    <3> QED BY <2>1, <3>1 DEF ProcessInv, HandlesInv
  <2> QED BY <2>1, <2>2, <2>4, AttachedInv
<1>6. ASSUME NEW o \in ProcessObjects, NEW p \in Pids, AttachPid(o, p) PROVE ProcessInv'
  <2>1. Names("process", p) \in HandleName
    BY DEF Names, HandleName
  <2>2. NewHandle \in 1..MaxHandles \ DOMAIN handles
    BY <1>6, NewHandleIsFree DEF AttachPid
  <2>3. /\ DOMAIN handles' = DOMAIN handles \union {NewHandle}
        /\ handles' \in [DOMAIN handles' -> HandleName]
        /\ \A g \in DOMAIN handles : handles'[g] = handles[g]
        /\ handles'[NewHandle] = Names("process", p)
    BY <1>6, <2>1, <2>2 DEF AttachPid, With, ProcessInv, HandlesInv
  <2>4. PidOf(handles', NewHandle) = p
    BY <2>2, <2>3 DEF PidOf, Names, PseudoHandle
  <2>5. HandlesInv'
    <3>1. objects' \in [ProcessObjects -> ObjectFields]
      BY <1>6, <2>2, <2>4, AttachedFields DEF AttachPid, ProcessInv
    <3> QED BY <1>6, <2>2, <2>3, <3>1 DEF AttachPid, ProcessInv, HandlesInv
  <2>6. Attached(o, handles', NewHandle) /\ handles'[NewHandle].kind = "process"
    BY <1>6, <2>3 DEF AttachPid, Names
  <2> QED BY <2>2, <2>3, <2>5, <2>6, AttachedInv
<1>7. ASSUME NEW o \in ProcessObjects, NEW p \in Pids, NEW asked \in BOOLEAN, CreateProcess(o, p, asked)
      PROVE ProcessInv'
  <2> DEFINE h == NewHandle
             t == CHOOSE g \in FreeHandles \ {h} : TRUE
             one == With(handles, h, Names("process", p))
  <2>1. /\ handles' = With(one, t, Names("thread", p))
        /\ callerOwns' \in {callerOwns, callerOwns \union {h, t}} /\ Attached(o, handles', h)
    BY <1>7 DEF CreateProcess
  <2>2. h \in 1..MaxHandles \ DOMAIN handles
    BY <1>7, NewHandleIsFree DEF CreateProcess
  <2>3. t \in 1..MaxHandles \ DOMAIN handles /\ t # h
    BY <1>7 DEF CreateProcess, FreeHandles
  <2> HIDE DEF h, t
  <2>4. Names("process", p) \in HandleName /\ Names("thread", p) \in HandleName
    BY DEF Names, HandleName
  <2>5. /\ DOMAIN one = DOMAIN handles \union {h} /\ one \in [DOMAIN one -> HandleName]
        /\ \A g \in DOMAIN handles : one[g] = handles[g]
        /\ one[h] = Names("process", p)
    BY <2>2, <2>4 DEF With, ProcessInv, HandlesInv
  <2> HIDE DEF one
  <2>6. t \in 1..MaxHandles \ DOMAIN one /\ DOMAIN one \subseteq 1..MaxHandles
    BY <2>2, <2>3, <2>5 DEF ProcessInv, HandlesInv
  <2>7. /\ DOMAIN handles' = DOMAIN one \union {t}
        /\ handles' \in [DOMAIN handles' -> HandleName]
        /\ \A g \in DOMAIN one : handles'[g] = one[g]
    BY <2>1, <2>4, <2>5, <2>6 DEF With
  <2>8. PidOf(handles', h) = p /\ handles'[h].kind = "process"
    BY <2>2, <2>5, <2>7 DEF PidOf, Names, PseudoHandle
  <2>9. HandlesInv'
    <3>1. objects' \in [ProcessObjects -> ObjectFields]
      BY <2>1, <2>2, <2>8, AttachedFields DEF ProcessInv
    <3> QED BY <2>1, <2>2, <2>3, <2>5, <2>7, <3>1 DEF ProcessInv, HandlesInv
  <2> QED BY <2>1, <2>2, <2>5, <2>7, <2>8, <2>9, AttachedInv
<1>8. ASSUME NEW o \in ProcessObjects, NEW right \in ProcessObjects, CopyProcess(o, right) PROVE ProcessInv'
  BY <1>8 DEF CopyProcess, ProcessInv, HandlesInv, UnattachedHoldNothing, AttachedHandleLive
<1>9. ASSUME NEW p \in Pids, Is64Bits(p) \/ CallerOpens(p) PROVE ProcessInv'
  <2>1. Names("process", p) \in HandleName
    BY DEF Names, HandleName
  <2> QED BY <1>9, <2>1, OpenInv DEF Is64Bits, CallerOpens
<1>10. ASSUME NEW h \in 1..MaxHandles, CallerCloses(h) PROVE ProcessInv'
  <2>1. /\ DOMAIN handles' = DOMAIN handles \ {h}
        /\ handles' \in [DOMAIN handles' -> HandleName]
        /\ \A g \in DOMAIN handles' : handles'[g] = handles[g]
    BY <1>10, WithoutKeeps DEF CallerCloses, ProcessInv
  <2>2. HandlesInv' /\ objects' = objects /\ \A o \in ProcessObjects : objects[o].handle # h
    BY <1>10, <2>1 DEF CallerCloses, ProcessInv, HandlesInv
  <2> QED BY <2>1, <2>2, HandlesMayChange DEF ProcessInv, AttachedHandleLive
<1>11. CASE UNCHANGED processVars
  BY <1>11 DEF processVars, ProcessInv, HandlesInv, UnattachedHoldNothing, AttachedHandleLive, PidOf
<1> QED
  BY <1>1, <1>2, <1>3, <1>4, <1>5, <1>6, <1>7, <1>8, <1>9, <1>10, <1>11 DEF ProcessNext

\* An attached object works on the process it says, through copies that share a handle,
\* destructions, and handle values given out again: for any number of objects and handles.
THEOREM ObjectsOnTheirProcess == ProcessSpec => []AttachedHandleLive
<1>1. ProcessInit => ProcessInv
  BY InitProcessInv
<1>2. ProcessInv /\ [ProcessNext]_processVars => ProcessInv'
  BY NextProcessInv
<1>3. ProcessInv => AttachedHandleLive
  BY DEF ProcessInv
<1> QED BY <1>1, <1>2, <1>3, PTL DEF ProcessSpec
-----------------------------------------------------------------------------
(* What the types say beside what the properties need *)

HooksLoaded == {o \in HookObjects : hookObjects[o].loaded}
HookFields == [target : HookTargets \union {"none"}, loaded : BOOLEAN]
\* The loads of a DLL are those of the objects that hold it.
HookCounts ==
  /\ hookTargets \subseteq HookTargets /\ quickAddress \in {"none", "live", "dangling"}
  /\ hookObjects \in [HookObjects -> HookFields]
  /\ IsFiniteSet(HooksLoaded) /\ dllLoads = Cardinality(HooksLoaded)

LEMMA HookCountsKept == HookCounts /\ [HookNext]_hookVars => HookCounts'
<1> SUFFICES ASSUME HookCounts, [HookNext]_hookVars PROVE HookCounts'
  OBVIOUS
<1> DEFINE loads == Cardinality(HooksLoaded)
<1>0. loads \in Nat /\ dllLoads = loads /\ IsFiniteSet(HooksLoaded)
  BY FS_CardinalityType DEF HookCounts
<1>1. ASSUME NEW o \in HookObjects, NEW t \in HookTargets, MakeHooking(o, t) PROVE HookCounts'
  <2>1. PICK loaded \in BOOLEAN :
          /\ hookObjects' = [hookObjects EXCEPT ![o] = [target |-> t, loaded |-> loaded]]
          /\ dllLoads' = dllLoads + (IF loaded THEN 1 ELSE 0)
    BY <1>1 DEF MakeHooking
  <2>2. o \notin HooksLoaded
    BY <1>1 DEF MakeHooking, HooksLoaded, NoHookObject
  <2>3. hookObjects' \in [HookObjects -> HookFields]
    BY <2>1 DEF HookCounts, HookFields
  <2>4. IsFiniteSet(HooksLoaded') /\ dllLoads' = Cardinality(HooksLoaded')
    <3>1. CASE loaded
      <4>1. HooksLoaded' = HooksLoaded \union {o}
        BY <2>1, <3>1 DEF HookCounts, HooksLoaded
      <4> QED
        BY <1>0, <2>1, <2>2, <3>1, <4>1, FS_AddElement
    <3>2. CASE ~ loaded
      <4>1. HooksLoaded' = HooksLoaded
        BY <2>1, <2>2, <3>2 DEF HookCounts, HooksLoaded
      <4> QED
        BY <1>0, <2>1, <3>2, <4>1
    <3> QED
      BY <3>1, <3>2
  <2> QED
    BY <1>1, <2>3, <2>4 DEF MakeHooking, HookCounts
<1>2. ASSUME NEW o \in HookObjects, DestroyHooking(o) PROVE HookCounts'
  <2>1. /\ hookObjects' = [hookObjects EXCEPT ![o] = NoHookObject]
        /\ dllLoads' = dllLoads - (IF hookObjects[o].loaded THEN 1 ELSE 0)
    BY <1>2 DEF DestroyHooking
  <2>2. hookObjects' \in [HookObjects -> HookFields] /\ HooksLoaded' = HooksLoaded \ {o}
    BY <2>1 DEF HookCounts, HookFields, HooksLoaded, NoHookObject
  <2>3. IsFiniteSet(HooksLoaded') /\ dllLoads' = Cardinality(HooksLoaded')
    <3>1. CASE o \in HooksLoaded
      <4>1. hookObjects[o].loaded
        BY <3>1 DEF HooksLoaded
      <4> QED
        BY <1>0, <2>1, <2>2, <3>1, <4>1, FS_RemoveElement
    <3>2. CASE o \notin HooksLoaded
      <4>1. ~ hookObjects[o].loaded /\ HooksLoaded' = HooksLoaded
        BY <2>2, <3>2 DEF HooksLoaded
      <4> QED
        BY <1>0, <2>1, <4>1
    <3> QED
      BY <3>1, <3>2
  <2> QED
    BY <1>2, <2>2, <2>3 DEF DestroyHooking, HookCounts
<1>3. ASSUME UNCHANGED <<hookObjects, dllLoads>>, hookTargets' \subseteq hookTargets,
             quickAddress' \in {"none", "live", "dangling"}
      PROVE  HookCounts'
  <2>1. HooksLoaded' = HooksLoaded
    BY <1>3 DEF HooksLoaded
  <2> QED
    BY <1>3, <2>1 DEF HookCounts
<1>4. ASSUME NEW o \in HookObjects, NEW type \in AcceptedTypes, SetWindowsHook(o, type) PROVE HookCounts'
  BY <1>3, <1>4 DEF SetWindowsHook, AddHook, HookCounts
<1>5. ASSUME NEW type \in AcceptedTypes, UninstallHook(type) PROVE HookCounts'
  BY <1>3, <1>5 DEF UninstallHook, HookCounts
<1>6. ASSUME NEW t \in HookTargets, TargetExits(t) PROVE HookCounts'
  BY <1>3, <1>6 DEF TargetExits, HookCounts
<1>7. CASE QuickProcAddress
  BY <1>3, <1>7 DEF QuickProcAddress
<1>8. CASE UNCHANGED hookVars
  BY <1>3, <1>8 DEF hookVars, HookCounts
<1> QED
  BY <1>1, <1>2, <1>4, <1>5, <1>6, <1>7, <1>8, Zenon DEF HookNext

LEMMA HooksTyped == HookSpec => []HookTypeOK
<1>1. HookInit => HookCounts
  <2> SUFFICES ASSUME HookInit PROVE HookCounts
    OBVIOUS
  <2>1. HooksLoaded = {} /\ hookObjects \in [HookObjects -> HookFields]
    BY DEF HookInit, HooksLoaded, HookFields, NoHookObject
  <2> QED
    BY <2>1, FS_EmptySet DEF HookInit, HookCounts
<1>2. HookInv /\ HookCounts => HookTypeOK
  BY DEF HookInv, HookParts, HookCounts, HooksLoaded, HookTypeOK
<1> QED
  BY <1>1, <1>2, HookCountsKept, HookInvariant, PTL DEF HookSpec

\* A handle that is held was opened, and serials are of handles that were.
ScopedBounds ==
  /\ opened <= MaxSerial /\ copied \subseteq 1 .. opened
  /\ \A o \in ScopedObjects : /\ scoped[o].value \in -1 .. MaxSerial
                              /\ Holds(o) => scoped[o].serial \in 1 .. opened

LEMMA ScopedBoundsKept == ScopedInv /\ ScopedBounds /\ [ScopedNext]_scopedVars => ScopedBounds'
<1> SUFFICES ASSUME ScopedInv, ScopedBounds, [ScopedNext]_scopedVars PROVE ScopedBounds'
  OBVIOUS
<1>0. opened \in Nat /\ MaxSerial \in Nat /\ scoped \in [ScopedObjects -> [value : Int, serial : Nat]]
      /\ DOMAIN scopedOpen \subseteq 1 .. opened
  BY ScopedAssumption DEF ScopedInv, ScopedParts
<1>1. ASSUME NEW o \in ScopedObjects, NEW v \in {NoHandle, NotMade}, UNCHANGED <<opened, copied>>,
             scoped' = [scoped EXCEPT ![o] = v]
      PROVE  ScopedBounds'
  <2>1. scoped'[o] = v /\ ~ Holds(o)' /\ v.value \in -1 .. MaxSerial
    BY <1>0, <1>1 DEF Holds, NoHandle, NotMade
  <2>2. \A p \in ScopedObjects \ {o} : scoped'[p] = scoped[p] /\ (Holds(p)' <=> Holds(p))
    BY <1>0, <1>1 DEF Holds
  <2> QED
    BY <1>1, <2>1, <2>2 DEF ScopedBounds
<1>2. ASSUME NEW o \in ScopedObjects, ConstructScoped(o) \/ CloseScoped(o) \/ DestroyScoped(o) PROVE ScopedBounds'
  <2>1. \E v \in {NoHandle, NotMade} : UNCHANGED <<opened, copied>> /\ scoped' = [scoped EXCEPT ![o] = v]
    BY <1>2 DEF ConstructScoped, CloseScoped, DestroyScoped, Closes
  <2> QED
    BY <1>1, <2>1
<1>3. ASSUME NEW o \in ScopedObjects, TakeHandle(o) PROVE ScopedBounds'
  <2> DEFINE h == Min(1 .. MaxSerial \ DOMAIN scopedOpen)
             k == opened + 1
             new == [value |-> h, serial |-> k]
  <2>1. opened < MaxSerial /\ opened' = k /\ copied' = copied /\ scoped' = [scoped EXCEPT ![o] = new]
    BY <1>3 DEF TakeHandle
  <2>2. h \in 1 .. MaxSerial
    <3> DEFINE used == DOMAIN scopedOpen
    <3>1. MaxSerial \in 1 .. MaxSerial /\ MaxSerial \notin used /\ used \subseteq 1 .. MaxSerial
      BY <1>0, <2>1
    <3> HIDE DEF used
    <3>2. Min(1 .. MaxSerial \ used) \in 1 .. MaxSerial \ used
      BY <1>0, <3>1, NewIsFree
    <3> QED
      BY <3>2 DEF used
  <2>3. new.value = h /\ new.serial = k
    OBVIOUS
  <2> HIDE DEF h, new
  <2>4. scoped'[o].value \in -1 .. MaxSerial /\ scoped'[o].serial \in 1 .. opened'
    BY <1>0, <2>1, <2>2, <2>3
  <2>5. \A p \in ScopedObjects \ {o} : scoped'[p] = scoped[p] /\ (Holds(p)' <=> Holds(p))
    BY <1>0, <2>1 DEF Holds
  <2>6. \A n \in 1 .. opened : n \in 1 .. opened'
    BY <1>0, <2>1
  <2>7. opened' <= MaxSerial
    BY <1>0, <2>1
  <2> QED
    BY <2>1, <2>4, <2>5, <2>6, <2>7 DEF ScopedBounds
<1>4. ASSUME NEW o \in ScopedObjects, NEW right \in ScopedObjects, CopyScoped(o, right) PROVE ScopedBounds'
  <2>1. /\ opened' = opened /\ o # right /\ scoped' = [scoped EXCEPT ![o] = scoped[right]]
        /\ copied' = IF Holds(right) THEN copied \union {scoped[right].serial} ELSE copied
    BY <1>4 DEF CopyScoped
  <2>2. scoped'[o] = scoped[right] /\ (Holds(o)' <=> Holds(right))
    BY <1>0, <2>1 DEF Holds
  <2>3. \A p \in ScopedObjects \ {o} : scoped'[p] = scoped[p] /\ (Holds(p)' <=> Holds(p))
    BY <1>0, <2>1 DEF Holds
  <2> QED
    BY <2>1, <2>2, <2>3 DEF ScopedBounds
<1>5. CASE UNCHANGED scopedVars
  BY <1>5 DEF scopedVars, ScopedBounds, Holds
<1> QED
  BY <1>2, <1>3, <1>4, <1>5, Zenon DEF ScopedNext

LEMMA ScopedTyped == ScopedSpec => []ScopedTypeOK
<1>1. ScopedInit => ScopedBounds
  <2> SUFFICES ASSUME ScopedInit PROVE ScopedBounds
    OBVIOUS
  <2>1. \A o \in ScopedObjects : scoped[o] = NotMade /\ ~ Holds(o)
    BY DEF ScopedInit, Holds
  <2> QED
    BY <2>1, ScopedAssumption DEF ScopedInit, ScopedBounds, NotMade
<1>2. ScopedInv /\ ScopedBounds => ScopedTypeOK
  <2> SUFFICES ASSUME ScopedInv, ScopedBounds PROVE ScopedTypeOK
    OBVIOUS
  <2>1. opened \in 0 .. MaxSerial /\ DOMAIN scopedOpen \subseteq 1 .. MaxSerial
    BY ScopedAssumption DEF ScopedInv, ScopedParts, ScopedBounds
  <2>2. ASSUME NEW o \in ScopedObjects PROVE scoped[o] \in [value : -1 .. MaxSerial, serial : 0 .. MaxSerial]
    <3>1. /\ scoped[o] \in [value : Int, serial : Nat] /\ scoped[o].serial <= opened
          /\ scoped[o].value \in -1 .. MaxSerial
      BY DEF ScopedInv, ScopedParts, ScopedBounds
    <3>2. scoped[o].serial \in 0 .. MaxSerial
      BY <2>1, <3>1, ScopedAssumption
    <3> QED
      BY <3>1, <3>2
  <2>3. scoped \in [ScopedObjects -> [value : -1 .. MaxSerial, serial : 0 .. MaxSerial]]
    BY <2>2 DEF ScopedInv, ScopedParts
  <2>4. strayClose \in BOOLEAN
    BY Zenon DEF ScopedInv, ScopedParts
  <2> QED
    BY <2>1, <2>3, <2>4, Zenon DEF ScopedTypeOK, ScopedBounds
<1> QED
  BY <1>1, <1>2, ScopedBoundsKept, ScopedInvariant, PTL DEF ScopedSpec

\* The pages keep the layout they were given.
LEMMA MemoryTyped == MemorySpec => []MemoryTypeOK
<1>1. MemoryInit => layout \in Layouts /\ spoiled \subseteq Pages
  BY DEF MemoryInit
<1>2. MemoryInv /\ layout \in Layouts /\ spoiled \subseteq Pages /\ [MemoryNext]_memoryVars
      => (layout \in Layouts /\ spoiled \subseteq Pages)'
  <2> SUFFICES ASSUME MemoryInv, layout \in Layouts, spoiled \subseteq Pages, [MemoryNext]_memoryVars
               PROVE  layout' \in Layouts /\ spoiled' \subseteq Pages
    OBVIOUS
  <2>1. ASSUME NEW t \in MemoryThreads, NEW range \in Ranges, NEW write \in BOOLEAN, NEW force \in BOOLEAN,
               BeginAccess(t, range, write, force)
        PROVE  layout' = layout /\ spoiled' \subseteq Pages
    <3>1. layout' = layout
      BY <2>1 DEF BeginAccess
    <3>2. range \subseteq Pages
      <4>1. PICK p \in Pages, q \in Pages : range = p .. q
        BY DEF Ranges
      <4> QED
        BY <4>1, RemoteMemoryAssumption DEF Pages
    <3>3. Mixed(range) \subseteq range
      BY DEF Mixed
    <3>4. Shared(t, range) \subseteq Pages
      BY DEF Shared, MemoryInv, MemoryParts
    <3>5. spoiled' \subseteq spoiled \union Mixed(range) \union range \union Shared(t, range)
      BY <2>1, Zenon DEF BeginAccess
    <3> QED
      BY <3>1, <3>2, <3>3, <3>4, <3>5
  <2>2. ASSUME NEW t \in MemoryThreads, Transfer(t) \/ Restore(t) PROVE UNCHANGED <<layout, spoiled>>
    BY <2>2 DEF Transfer, Restore
  <2>3. CASE UNCHANGED memoryVars
    BY <2>3 DEF memoryVars
  <2> QED
    BY <2>1, <2>2, <2>3, Zenon DEF MemoryNext
<1>3. MemoryInv /\ layout \in Layouts /\ spoiled \subseteq Pages => MemoryTypeOK
  BY DEF MemoryInv, MemoryParts, MemoryTypeOK
<1> QED
  BY <1>1, <1>2, <1>3, MemoryInvariant, PTL DEF MemorySpec

LEMMA InjectTyped == InjectSpec => []InjectTypeOK
<1>1. InjectInit => overlapped \subseteq Dlls
  BY DEF InjectInit
<1>2. overlapped \subseteq Dlls /\ [InjectNext]_injectVars => (overlapped \subseteq Dlls)'
  <2> SUFFICES ASSUME overlapped \subseteq Dlls, [InjectNext]_injectVars PROVE overlapped' \subseteq Dlls
    OBVIOUS
  <2>1. ASSUME NEW i \in Injectors, NEW d \in Dlls, NEW wait \in BOOLEAN, CheckTarget(i, d, wait)
        PROVE  overlapped' \subseteq Dlls
    BY <2>1 DEF CheckTarget
  <2>2. ASSUME NEW i \in Injectors, AllocateBlock(i) \/ WritePath(i) \/ StartLoader(i) \/ WaitAndFree(i)
        PROVE  overlapped' = overlapped
    BY <2>2 DEF AllocateBlock, WritePath, StartLoader, WaitAndFree, ReturnLeaving
  <2>3. ASSUME \/ \E b \in 1 .. MaxBlocks : LoadDll(b)
               \/ TargetEnds
               \/ UNCHANGED injectVars
        PROVE  overlapped' = overlapped
    BY <2>3 DEF LoadDll, TargetEnds, injectVars
  <2> QED
    BY <2>1, <2>2, <2>3, Zenon DEF InjectNext
<1>3. InjectInv /\ overlapped \subseteq Dlls => InjectTypeOK
  BY DEF InjectInv, InjectParts, InjectorType, LoadersRead, InjectTypeOK
<1> QED
  BY <1>1, <1>2, <1>3, InjectInvariant, PTL DEF InjectSpec

\* Winsock is brought up by constructors only, and what is open is in one of four states.
SocketBounds ==
  /\ constructed \in 0 .. MaxSocketObjects /\ winsockUps <= constructed
  /\ \A d \in DOMAIN descriptor : descriptor[d] \in {"fresh", "bound", "listening", "connected"}

LEMMA SocketBoundsKept == SocketInv /\ SocketBounds /\ [SocketNext]_socketVars => SocketBounds'
<1> SUFFICES ASSUME SocketInv, SocketBounds, [SocketNext]_socketVars PROVE SocketBounds'
  OBVIOUS
<1>0. constructed \in Nat /\ winsockUps \in Int /\ MaxSocketObjects \in Nat
  BY SocketAssumption DEF SocketInv, WinsockUp, SocketBounds
<1>1. ASSUME NEW d, NEW state \in {"fresh", "bound", "listening", "connected"}
      PROVE  \A e \in DOMAIN WithDescriptor(descriptor, d, state) :
               WithDescriptor(descriptor, d, state)[e] \in {"fresh", "bound", "listening", "connected"}
  BY DEF WithDescriptor, SocketBounds
<1>2. \A d : \A e \in DOMAIN ClosedTable(d) : ClosedTable(d)[e] \in {"fresh", "bound", "listening", "connected"}
  BY DEF ClosedTable, SocketBounds
<1>3. ASSUME NEW o \in SocketObjects, ConstructSocket(o) PROVE SocketBounds'
  <2>1. constructed < MaxSocketObjects /\ constructed' = constructed + 1 /\ winsockUps' = winsockUps + 1
        /\ (descriptor' = WithDescriptor(descriptor, NextDescriptor, "fresh") \/ descriptor' = descriptor)
    BY <1>3 DEF ConstructSocket
  <2> QED
    BY <1>0, <1>1, <2>1 DEF SocketBounds
<1>4. ASSUME NEW o \in SocketObjects, BindSocket(o) \/ ListenSocket(o) \/ ConnectSocket(o) \/ AcceptSocket(o)
      PROVE  SocketBounds'
  <2>1. /\ UNCHANGED <<constructed, winsockUps>>
        /\ \/ descriptor' = descriptor
           \/ \E d : \E state \in {"fresh", "bound", "listening", "connected"} :
                descriptor' = WithDescriptor(descriptor, d, state)
    BY <1>4 DEF BindSocket, ListenSocket, ConnectSocket, AcceptSocket
  <2> QED
    BY <1>1, <2>1 DEF SocketBounds
<1>5. ASSUME NEW o \in SocketObjects, DetachSocket(o) \/ \E d \in Descriptors : AttachSocket(o, d)
      PROVE  SocketBounds'
  BY <1>5 DEF DetachSocket, AttachSocket, SocketBounds
<1>6. ASSUME NEW o \in SocketObjects, CloseSocketObject(o) PROVE SocketBounds'
  BY <1>2, <1>6 DEF CloseSocketObject, SocketBounds
<1>7. ASSUME NEW o \in SocketObjects, DestroySocket(o) PROVE SocketBounds'
  <2>1. /\ constructed' = constructed /\ winsockUps' \in {winsockUps, winsockUps - 1}
        /\ (descriptor' = descriptor \/ \E d : descriptor' = ClosedTable(d))
    BY <1>7 DEF DestroySocket
  <2> QED
    BY <1>0, <1>2, <2>1 DEF SocketBounds
<1>8. CASE UNCHANGED socketVars
  BY <1>8 DEF socketVars, SocketBounds
<1> QED
  BY <1>3, <1>4, <1>5, <1>6, <1>7, <1>8, Zenon DEF SocketNext

LEMMA SocketsTyped == SocketSpec => []SocketTypeOK
<1>1. SocketInit => SocketBounds
  BY SocketAssumption DEF SocketInit, SocketBounds
<1>2. SocketInv /\ SocketBounds => SocketTypeOK
  <2> SUFFICES ASSUME SocketInv, SocketBounds PROVE SocketTypeOK
    OBVIOUS
  <2>1. winsockUps \in 0 .. MaxSocketObjects
    <3>1. Cardinality(LivingSockets) \in Nat /\ winsockUps >= Cardinality(LivingSockets)
      BY FS_CardinalityType DEF SocketInv, WinsockUp
    <3> QED
      BY <3>1, SocketAssumption DEF SocketInv, WinsockUp, SocketBounds
  <2> QED
    BY <2>1 DEF SocketInv, SocketParts, SocketObjectType, SocketBounds, SocketTypeOK
<1> QED
  BY <1>1, <1>2, SocketBoundsKept, SocketInvariant, PTL DEF SocketSpec

\* The thread handles and process objects are what their types say.
LEMMA ProcessTyped == ProcessSpec => []ProcessTypeOK
<1>1. ProcessInv => ProcessTypeOK
  BY DEF ProcessInv, HandlesInv, HandleName, ObjectFields, ProcessTypeOK
<1> QED
  BY <1>1, InitProcessInv, NextProcessInv, PTL DEF ProcessSpec

LEMMA InstanceTyped == InstanceSpec => []InstanceTypeOK
<1>1. InstanceInv => InstanceTypeOK
  BY DEF InstanceInv
<1> QED
  BY <1>1, InitInstanceInv, NextInstanceInv, PTL DEF InstanceSpec

LEMMA SingletonTyped == SingletonSpec => []SingletonTypeOK
<1>1. SingletonInv => SingletonTypeOK
  BY DEF SingletonInv
<1> QED
  BY <1>1, InitSingletonInv, NextSingletonInv, PTL DEF SingletonSpec

LEMMA LocksTyped == LockSpec => []LockTypeOK
<1>1. LockInv => LockTypeOK
  BY DEF LockInv
<1> QED
  BY <1>1, InitLockInv, NextLockInv, PTL DEF LockSpec

LEMMA MappingTyped == MappingSpec => []MappingTypeOK
<1>1. MappingInv => MappingTypeOK
  BY DEF MappingInv
<1> QED
  BY <1>1, MappingInvariant, PTL
=============================================================================
