---- MODULE ScopedHandle ----
(* vu::ScopedHandleT: an object closes the handle it holds when it is destroyed,   *)
(* but an assignment copies the handle and forgets the one held before. Values of  *)
(* closed handles are given out again; `serial` tells two handles of one value     *)
(* apart.                                                                          *)
EXTENDS Integers, FiniteSets, FiniteSetsExt

CONSTANTS ScopedObjects,
          MaxSerial         \* bound on the handles ever opened

ASSUME ScopedAssumption == MaxSerial \in Nat

VARIABLES scoped,       \* object -> m_h with its serial, Invalid, or NotMade
          scopedOpen,   \* open handle -> its serial
          opened,       \* handles ever opened
          copied,       \* serials two objects have held
          strayClose    \* a copy of a handle closed before was closed as well

scopedVars == <<scoped, scopedOpen, opened, copied, strayClose>>

NoHandle == [value |-> 0, serial |-> 0]
NotMade == [value |-> -1, serial |-> 0]
Made(o) == scoped[o] # NotMade
Holds(o) == scoped[o] \notin {NotMade, NoHandle}

ScopedInit ==
  /\ scoped = [o \in ScopedObjects |-> NotMade]
  /\ scopedOpen = [h \in {} |-> 0]
  /\ opened = 0 /\ copied = {} /\ strayClose = FALSE

\* The program opens a handle and gives it to an object, by construction or assignment;
\* a handle the object held before is forgotten and stays open.
TakeHandle(o) ==
  /\ opened < MaxSerial
  /\ LET h == Min(1..MaxSerial \ DOMAIN scopedOpen) n == opened + 1
     IN /\ scopedOpen' = [g \in DOMAIN scopedOpen \union {h} |-> IF g = h THEN n ELSE scopedOpen[g]]
        /\ scoped' = [scoped EXCEPT ![o] = [value |-> h, serial |-> n]]
        /\ opened' = n
  /\ UNCHANGED <<copied, strayClose>>

ConstructScoped(o) ==
  /\ ~Made(o)
  /\ scoped' = [scoped EXCEPT ![o] = NoHandle]
  /\ UNCHANGED <<scopedOpen, opened, copied, strayClose>>

\* operator= and the implicit copy constructor: both objects hold the one handle.
CopyScoped(o, right) ==
  /\ Made(right) /\ o # right
  /\ scoped' = [scoped EXCEPT ![o] = scoped[right]]
  /\ copied' = IF Holds(right) THEN copied \union {scoped[right].serial} ELSE copied
  /\ UNCHANGED <<scopedOpen, opened, strayClose>>

Stray(o) ==
  Holds(o) /\ (scoped[o].value \in DOMAIN scopedOpen => scopedOpen[scoped[o].value] # scoped[o].serial)

\* traits::close of the value, whatever it names by now.
Closes(o) ==
  /\ scopedOpen' = [h \in DOMAIN scopedOpen \ {scoped[o].value} |-> scopedOpen[h]]
  /\ strayClose' = (strayClose \/ Stray(o))
  /\ UNCHANGED <<opened, copied>>

\* A close() that leaves the handle in the object.
CloseScopedKeeps(o) == Holds(o) /\ Closes(o) /\ UNCHANGED scoped

CloseScoped(o) ==
  /\ Holds(o) /\ Closes(o)
  /\ scoped' = [scoped EXCEPT ![o] = NoHandle]

DestroyScoped(o) ==
  /\ Made(o) /\ Closes(o)
  /\ scoped' = [scoped EXCEPT ![o] = NotMade]

ScopedNext == \E o \in ScopedObjects :
  \/ ConstructScoped(o) \/ TakeHandle(o) \/ CloseScoped(o) \/ DestroyScoped(o)
  \/ \E right \in ScopedObjects : CopyScoped(o, right)

ScopedSpec == ScopedInit /\ [][ScopedNext]_scopedVars

ScopedTypeOK ==
  /\ scoped \in [ScopedObjects -> [value : -1..MaxSerial, serial : 0..MaxSerial]]
  /\ DOMAIN scopedOpen \subseteq 1..MaxSerial
  /\ copied \subseteq 1..opened /\ opened \in 0..MaxSerial /\ strayClose \in BOOLEAN

\* The handle an object holds is open and is the one it was given, whatever the order of
\* assignments, closes and destructions, unless that handle was copied into another object;
\* and a copy closed twice is the only way to lose a handle that was never copied.
ScopedHoldsItsOwn ==
  \A o \in ScopedObjects : Stray(o) => scoped[o].serial \in copied \/ strayClose
====
