---- MODULE RegistryKey ----
(* vu::RegistryA and RegistryW: the key handles an object keeps (m_hk_root_key, *)
(* m_hk_sub_key), which no destructor closes, and the two-step listing of names  *)
(* while other programs create and delete keys.                                  *)
EXTENDS Integers, Sequences, FiniteSets, FiniteSetsExt, SequencesExt

CONSTANTS KeyNames,          \* names of keys, integers in the order of the registry
          Registries, WideRegistries,  \* objects; those of class RegistryW
          NoPath,            \* the program has no sub key open through the object
          MaxKeyDepth, MaxKeyHandles   \* bounds on nesting and on handles open at once

ASSUME RegistryAssumption ==
  /\ KeyNames \subseteq Nat /\ WideRegistries \subseteq Registries /\ NoPath \notin Seq(KeyNames)
  /\ MaxKeyDepth \in Nat /\ MaxKeyHandles \in Nat

VARIABLES regKeys,   \* paths that exist
          regOpen,   \* open handle -> path, or NoPath once the key was deleted
          registry,  \* object -> root: path of the root key; sub: m_hk_sub_key; on: the path
                     \* the program opened or created with it last and has not closed;
                     \* asked: key_exists was called with it since
          keyList    \* the listing under way: by which object, the count, the names, and
                     \* whether the key listed, or what is below it, has changed since

registryVars == <<regKeys, regOpen, registry, keyList>>

NullKey == 0
NoListing == [by |-> NullKey, count |-> 0, names |-> <<>>, changed |-> FALSE]

RegistryInit ==
  /\ regKeys = {<<>>}
  /\ regOpen = [h \in {} |-> <<>>]
  /\ registry = [o \in Registries |-> [root |-> <<>>, sub |-> NullKey, on |-> NoPath, asked |-> FALSE]]
  /\ keyList = NoListing

Exists(path) == path \in regKeys
Children(path) == {k \in KeyNames : Exists(Append(path, k))}
FreeKey == Min(1..MaxKeyHandles \ DOMAIN regOpen)
MayOpen == Cardinality(DOMAIN regOpen) < MaxKeyHandles
Opened(h, path) == [g \in DOMAIN regOpen \union {h} |-> IF g = h THEN path ELSE regOpen[g]]
\* The key a handle names; the key that is listed; and what becomes of the listing when a
\* key comes or goes.
KeyOf(h) == IF h \in DOMAIN regOpen THEN regOpen[h] ELSE NoPath
Listed == IF keyList.count > 0 THEN KeyOf(registry[keyList.by].sub) ELSE NoPath
ListChanges(path) ==
  keyList' = [keyList EXCEPT !.changed = @ \/ Listed \in {path, SubSeq(path, 1, Len(path) - 1)}]

\* The handle held before is overwritten, open or not.
OpenInto(o, path) ==
  /\ regOpen' = Opened(FreeKey, path)
  /\ registry' = [registry EXCEPT ![o].sub = FreeKey, ![o].on = path, ![o].asked = FALSE]

\* An open_key that closes what the object held, and takes a closed handle for a held one.
OpenKeyClosesHeld(o, k) ==
  /\ MayOpen /\ Exists(Append(registry[o].root, k))
  /\ LET held == registry[o].sub
         open == [h \in DOMAIN regOpen \ {held} |-> regOpen[h]]
         new == Min(1..MaxKeyHandles \ DOMAIN open)
         path == Append(registry[o].root, k)
     IN /\ regOpen' = [h \in DOMAIN open \union {new} |-> IF h = new THEN path ELSE open[h]]
        /\ registry' = [registry EXCEPT ![o].sub = new, ![o].on = path, ![o].asked = FALSE]
  /\ UNCHANGED <<regKeys, keyList>>

OpenKey(o, k) ==
  /\ MayOpen /\ Exists(Append(registry[o].root, k))
  /\ OpenInto(o, Append(registry[o].root, k))
  /\ UNCHANGED <<regKeys, keyList>>

\* open_key of a missing key: the system may leave the handle or clear it.
OpenFails(o, k) ==
  /\ ~Exists(Append(registry[o].root, k))
  /\ registry' \in {registry, [registry EXCEPT ![o].sub = NullKey, ![o].on = NoPath, ![o].asked = FALSE]}
  /\ UNCHANGED <<regKeys, regOpen, keyList>>

\* key_exists asks by opening: the key it was asked for, and not the one the program opened,
\* is then in m_hk_sub_key, or none is.
KeyExists(o, k) ==
  LET path == Append(registry[o].root, k)
      Asked(h) == [registry EXCEPT ![o].sub = h, ![o].asked = TRUE]
  IN \/ /\ MayOpen /\ Exists(path)
        /\ regOpen' = Opened(FreeKey, path) /\ registry' = Asked(FreeKey)
        /\ UNCHANGED <<regKeys, keyList>>
     \/ /\ ~Exists(path)
        /\ registry' \in {Asked(registry[o].sub), Asked(NullKey)}
        /\ UNCHANGED <<regKeys, regOpen, keyList>>

CreateKey(o, k) ==
  /\ o \notin WideRegistries /\ MayOpen /\ Exists(registry[o].root)
  /\ OpenInto(o, Append(registry[o].root, k))
  /\ regKeys' = regKeys \union {Append(registry[o].root, k)}
  /\ IF regKeys' = regKeys THEN UNCHANGED keyList ELSE ListChanges(Append(registry[o].root, k))

\* RegistryW stores the new handle in m_hk_root_key: the next names are relative to it.
CreateKeyW(o, k) ==
  /\ o \in WideRegistries /\ MayOpen /\ Exists(registry[o].root)
  /\ Len(registry[o].root) + 1 < MaxKeyDepth
  /\ LET path == Append(registry[o].root, k)
     IN /\ registry' = [registry EXCEPT ![o].root = path]
        /\ regOpen' = Opened(FreeKey, path)
        /\ regKeys' = regKeys \union {path}
        /\ IF regKeys' = regKeys THEN UNCHANGED keyList ELSE ListChanges(path)

\* Another program creates a key below one there is.
OtherCreatesKey(path, k) ==
  /\ Len(path) < MaxKeyDepth /\ ~Exists(Append(path, k))
  /\ regKeys' = regKeys \union {Append(path, k)}
  /\ ListChanges(Append(path, k))
  /\ UNCHANGED <<regOpen, registry>>

\* delete_key, by an object or another program: never a key that has sub keys. Handles
\* of a deleted key stay open and answer with an error.
DeleteKey(path) ==
  /\ path \in regKeys \ {<<>>} /\ Children(path) = {}
  /\ regKeys' = regKeys \ {path}
  /\ regOpen' = [h \in DOMAIN regOpen |-> IF regOpen[h] = path THEN NoPath ELSE regOpen[h]]
  /\ ListChanges(path)
  /\ UNCHANGED registry

\* close_key: m_hk_sub_key keeps the closed handle. The program closes what it opened.
CloseKey(o) ==
  /\ registry[o].on # NoPath
  /\ regOpen' = [h \in DOMAIN regOpen \ {registry[o].sub} |-> regOpen[h]]
  /\ registry' = [registry EXCEPT ![o].on = NoPath, ![o].asked = FALSE]
  /\ UNCHANGED <<regKeys, keyList>>

\* enum_keys, first half: RegQueryInfoKey; nothing to list gives an empty list. One listing
\* at a time is modelled.
CountKeys(o) ==
  /\ keyList.count = 0
  /\ registry[o].on # NoPath
  /\ LET path == KeyOf(registry[o].sub)
     IN keyList' = IF path = NoPath \/ Children(path) = {} THEN NoListing
                   ELSE [NoListing EXCEPT !.by = o, !.count = Cardinality(Children(path))]
  /\ UNCHANGED <<regKeys, regOpen, registry>>

\* RegEnumKey by index, from 1 here and in the order of the names: an index past the end,
\* or a deleted key, gives an empty name.
NameAt(path, i) ==
  IF path = NoPath \/ i > Cardinality(Children(path)) THEN NoPath
  ELSE CHOOSE k \in Children(path) : Cardinality({c \in Children(path) : c < k}) = i - 1

\* A loop that starts at 1 where the registry counts from 0.
ListKeyFromOne ==
  /\ Len(keyList.names) < keyList.count
  /\ keyList' = [keyList EXCEPT !.names = Append(@, NameAt(Listed, Len(@) + 2))]
  /\ UNCHANGED <<regKeys, regOpen, registry>>

\* enum_keys and enum_values, the loop: the error of a name is recorded and an empty one listed.
ListKey ==
  /\ Len(keyList.names) < keyList.count
  /\ keyList' = [keyList EXCEPT !.names = Append(@, NameAt(Listed, Len(@) + 1))]
  /\ UNCHANGED <<regKeys, regOpen, registry>>

ReturnKeys ==
  /\ keyList.count > 0 /\ Len(keyList.names) = keyList.count
  /\ keyList' = NoListing
  /\ UNCHANGED <<regKeys, regOpen, registry>>

Listing(o) == keyList.count > 0 /\ keyList.by = o

RegistryNext ==
  \/ \E o \in Registries : ~Listing(o) /\
       \/ \E k \in KeyNames : OpenKey(o, k) \/ OpenFails(o, k) \/ KeyExists(o, k) \/ CreateKey(o, k) \/ CreateKeyW(o, k)
       \/ CloseKey(o) \/ CountKeys(o)
  \/ \E path \in regKeys : DeleteKey(path) \/ \E k \in KeyNames : OtherCreatesKey(path, k)
  \/ ListKey \/ ReturnKeys

RegistrySpec == RegistryInit /\ [][RegistryNext]_registryVars

RegistryTypeOK ==
  /\ regKeys \subseteq UNION {[1..n -> KeyNames] : n \in 0..MaxKeyDepth + 1}
  /\ DOMAIN regOpen \subseteq 1..MaxKeyHandles
  /\ \A h \in DOMAIN regOpen : regOpen[h] = NoPath \/ regOpen[h] \in regKeys
  /\ \A o \in Registries : registry[o].sub \in 0..MaxKeyHandles
  /\ keyList.by \in Registries \union {NullKey} /\ Len(keyList.names) <= keyList.count

\* From open_key or create_key to close_key the handle of an object is open and names the key
\* the program opened with it (or a key deleted since), unless the program asked key_exists
\* meanwhile, after which the object works on the key asked for; and no two objects share a
\* handle, although closed ones stay in the objects and their values are given out again.
SubKeyNamesPath ==
  \A o \in Registries : registry[o].on # NoPath =>
    /\ ~registry[o].asked => /\ registry[o].sub \in DOMAIN regOpen
                            /\ regOpen[registry[o].sub] \in {registry[o].on, NoPath}
    /\ \A p \in Registries \ {o} :
         registry[p].on # NoPath /\ registry[p].sub = registry[o].sub => registry[o].sub = NullKey

\* A listing that is done, of a key that did not change meanwhile, names every sub key once,
\* in order, whatever else was opened, closed, created or deleted; the key is the one the
\* program opened unless it asked key_exists since.
ListingComplete ==
  keyList.count > 0 /\ Len(keyList.names) = keyList.count /\ ~keyList.changed =>
    /\ ToSet(keyList.names) = Children(Listed)
    /\ \A i, j \in DOMAIN keyList.names : i < j => keyList.names[i] < keyList.names[j]
    /\ ~registry[keyList.by].asked => Listed = registry[keyList.by].on
====
