---- MODULE FileMapping ----
(* vu::FileMappingX: objects with a file handle, a mapping handle and a view.   *)
(* Creating again overwrites what is held; only close(), which the destructor   *)
(* calls, gives anything back. Handles and addresses are used again once free.   *)
EXTENDS Integers, FiniteSets, FiniteSetsExt

CONSTANTS MappingObjects,
          MappingNames, NoName,      \* names of shared memory; the empty name
          EmptyFiles, FullFiles,     \* files: an empty one cannot be mapped whole
          MaxMapHandles, MaxViews    \* bounds on what is open and mapped at once

ASSUME MappingAssumption == MaxMapHandles \in Nat /\ MaxViews \in Nat

VARIABLES mapHandles,   \* open handle -> kind "file" or "map", name or file it is of, backing
          views,        \* mapped address -> the backing it shows
          mappings      \* object -> m_file_handle, m_map_handle, m_ptr_data

mappingVars == <<mapHandles, views, mappings>>

Invalid == 0            \* INVALID_HANDLE_VALUE and null: valid() takes them as one
Nothing == [file |-> Invalid, map |-> Invalid, data |-> Invalid]

MappingInit ==
  /\ mapHandles = [h \in {} |-> NoName]
  /\ views = [a \in {} |-> NoName]
  /\ mappings = [o \in MappingObjects |-> Nothing]

MapHandle(kind, name, backing) == [kind |-> kind, name |-> name, backing |-> backing]
Added(table, limit, what) ==
  LET new == Min(1..limit \ DOMAIN table)
  IN [x \in DOMAIN table \union {new} |-> IF x = new THEN what ELSE table[x]]
NewIn(table, limit) == Min(1..limit \ DOMAIN table)
Room(table, limit) == DOMAIN table # 1..limit
Dropped(table, x) == [y \in DOMAIN table \ {x} |-> table[y]]

\* A section lives in the system while a handle of it is open.
Named(table, name) == {h \in DOMAIN table : table[h].kind = "map" /\ name # NoName /\ table[h].name = name}

\* CreateFileMapping: a name in use gives the section there is, else a new one of the file
\* the object has, or of the paging file; a file without content cannot be mapped.
NewSection(table, o, file, name) ==
  IF Named(table, name) # {} THEN {table[CHOOSE h \in Named(table, name) : TRUE].backing}
  ELSE IF file = Invalid THEN {name}
  ELSE {table[file].backing} \ EmptyFiles

\* create_named_shared_memory, also the second half of create_within_file: the handle held
\* before is overwritten, by null when the call fails.
CreateShared(o, table, file, name) ==
  LET backings == NewSection(table, o, file, name)
  IN IF backings = {}
     THEN /\ mapHandles' = table
          /\ mappings' = [mappings EXCEPT ![o].file = file, ![o].map = Invalid]
     ELSE /\ Room(table, MaxMapHandles)
          /\ \E b \in backings : mapHandles' = Added(table, MaxMapHandles, MapHandle("map", name, b))
          /\ mappings' = [mappings EXCEPT ![o].file = file, ![o].map = NewIn(table, MaxMapHandles)]

CreateNamed(o, name) ==
  /\ mappings[o].file # Invalid \/ name # NoName
  /\ CreateShared(o, mapHandles, mappings[o].file, name)
  /\ UNCHANGED views

\* create_within_file: when the mapping fails the file stays open in the object, and a
\* mapping created later, named or not, will be one of that file.
CreateWithinFile(o, f) ==
  /\ Room(mapHandles, MaxMapHandles)
  /\ CreateShared(o, Added(mapHandles, MaxMapHandles, MapHandle("file", NoName, f)),
                  NewIn(mapHandles, MaxMapHandles), NoName)
  /\ UNCHANGED views

FileNotOpened(o) ==
  /\ mappings' = [mappings EXCEPT ![o].file = Invalid]
  /\ UNCHANGED <<mapHandles, views>>

OpenNamed(o, name) ==
  /\ name # NoName
  /\ IF Named(mapHandles, name) = {}
     THEN mappings' = [mappings EXCEPT ![o].map = Invalid] /\ UNCHANGED mapHandles
     ELSE /\ Room(mapHandles, MaxMapHandles)
          /\ mapHandles' = Added(mapHandles, MaxMapHandles, mapHandles[CHOOSE h \in Named(mapHandles, name) : TRUE])
          /\ mappings' = [mappings EXCEPT ![o].map = NewIn(mapHandles, MaxMapHandles)]
  /\ UNCHANGED views

\* view: the view held before stays mapped and is forgotten; the call may fail.
View(o) ==
  /\ mappings[o].map # Invalid
  /\ \/ /\ Room(views, MaxViews)
        /\ views' = Added(views, MaxViews, mapHandles[mappings[o].map].backing)
        /\ mappings' = [mappings EXCEPT ![o].data = NewIn(views, MaxViews)]
     \/ /\ mappings' = [mappings EXCEPT ![o].data = Invalid]
        /\ UNCHANGED views
  /\ UNCHANGED mapHandles

\* A close that leaves the closed file handle in the object.
CloseKeepsFile(o) ==
  /\ views' = Dropped(views, mappings[o].data)
  /\ mapHandles' = Dropped(Dropped(mapHandles, mappings[o].map), mappings[o].file)
  /\ mappings' = [mappings EXCEPT ![o] = [Nothing EXCEPT !.file = mappings[o].file]]

\* close, and the destructor: any number of times, and the object may be used again.
CloseMapping(o) ==
  /\ views' = Dropped(views, mappings[o].data)
  /\ mapHandles' = Dropped(Dropped(mapHandles, mappings[o].map), mappings[o].file)
  /\ mappings' = [mappings EXCEPT ![o] = Nothing]

MappingNext == \E o \in MappingObjects :
  \/ \E name \in MappingNames \union {NoName} : CreateNamed(o, name)
  \/ \E name \in MappingNames : OpenNamed(o, name)
  \/ \E f \in EmptyFiles \union FullFiles : CreateWithinFile(o, f)
  \/ FileNotOpened(o) \/ View(o) \/ CloseMapping(o)

MappingSpec == MappingInit /\ [][MappingNext]_mappingVars

MappingTypeOK ==
  /\ DOMAIN mapHandles \subseteq 1..MaxMapHandles
  /\ \A h \in DOMAIN mapHandles : mapHandles[h].kind \in {"file", "map"}
  /\ DOMAIN views \subseteq 1..MaxViews
  /\ mappings \in [MappingObjects -> [file : 0..MaxMapHandles, map : 0..MaxMapHandles, data : 0..MaxViews]]

\* What an object holds is open, of the right kind and held by no other object, although
\* creating again, failing and closing twice are all allowed, and the view of a closed
\* object is gone: so close() never takes away what another object uses.
MappingHoldsItsOwn ==
  \A o \in MappingObjects :
    /\ mappings[o].file # Invalid => mappings[o].file \in DOMAIN mapHandles /\ mapHandles[mappings[o].file].kind = "file"
    /\ mappings[o].map # Invalid => mappings[o].map \in DOMAIN mapHandles /\ mapHandles[mappings[o].map].kind = "map"
    /\ mappings[o].data # Invalid => mappings[o].data \in DOMAIN views
    /\ \A p \in MappingObjects \ {o} : \A field \in {"file", "map", "data"} :
         mappings[o][field] # Invalid => mappings[p][field] # mappings[o][field]
====
