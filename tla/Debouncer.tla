----------------------------- MODULE Debouncer -----------------------------
(***************************************************************************)
(* Debouncer (src/details/debouncer.cpp): a map from the program's ids to  *)
(* Win32 timers.  All calls, and the timer procedure, run in one thread    *)
(* that pumps messages.  SetTimer without a window makes a new timer,      *)
(* which fires again and again until it is killed; a call of debounce is   *)
(* known by its number, which stands for the timer and the function of     *)
(* that call.  Callbacks neither pump messages nor remove timers.          *)
(***************************************************************************)
EXTENDS Naturals

CONSTANTS
  DebounceIds,
  MaxDebounces, MaxFires     \* bounds: calls of debounce, runs of functions

\* 0 stands for no id in usingId.
ASSUME DebouncerAssumption ==
  /\ 0 \notin DebounceIds /\ MaxDebounces \in Nat /\ MaxFires \in Nat

DebounceCalls == 1 .. MaxDebounces

VARIABLES
  usingId,             \* m_using_timer_id: id of the last debounce, 0 before it
  timers,              \* m_timers: id -> the call it holds, 0 when absent
  alive,               \* timers the system will still fire
  inside,              \* id whose function is running, 0 when none
  ran,                 \* call -> times its function ran
  debounces            \* calls of debounce

debounceVars == <<usingId, timers, alive, inside, ran, debounces>>

DebounceInit ==
  /\ usingId = 0 /\ timers = [i \in DebounceIds |-> 0] /\ alive = {}
  /\ inside = 0 /\ ran = [c \in DebounceCalls |-> 0] /\ debounces = 0

\* Mutant of Debounce: the timer of the id goes on.
DebounceNoKill(id) ==
  /\ debounces < MaxDebounces
  /\ debounces' = debounces + 1
  /\ usingId' = id
  /\ timers' = [timers EXCEPT ![id] = debounces']
  /\ alive' = alive \cup {debounces'}
  /\ UNCHANGED <<inside, ran>>

\* The timer of the id is killed and replaced.  A function may debounce too.
Debounce(id) ==
  /\ debounces < MaxDebounces
  /\ debounces' = debounces + 1
  /\ usingId' = id
  /\ timers' = [timers EXCEPT ![id] = debounces']
  /\ alive' = (alive \ {timers[id]}) \cup {debounces'}
  /\ UNCHANGED <<inside, ran>>

RemoveTimer(id) ==
  /\ inside = 0 /\ timers[id] # 0
  /\ timers' = [timers EXCEPT ![id] = 0]
  /\ alive' = alive \ {timers[id]}
  /\ UNCHANGED <<usingId, inside, ran, debounces>>

CleanupTimers ==
  /\ inside = 0
  /\ timers' = [i \in DebounceIds |-> 0]
  /\ alive' = {c \in alive : \A i \in DebounceIds : timers[i] # c}
  /\ UNCHANGED <<usingId, inside, ran, debounces>>

\* fn_timer_proc runs the function of the id debounced last, whichever timer fired.
FireTimer(c) ==
  /\ inside = 0 /\ c \in alive
  /\ usingId # 0 /\ timers[usingId] # 0 /\ ran[timers[usingId]] < MaxFires
  /\ inside' = usingId
  /\ ran' = [ran EXCEPT ![timers[usingId]] = @ + 1]
  /\ UNCHANGED <<usingId, timers, alive, debounces>>

\* ... and kills the timer that id has when the function returns.
ReturnFromTimer ==
  /\ inside # 0
  /\ alive' = alive \ {timers[inside]} /\ inside' = 0
  /\ UNCHANGED <<usingId, timers, ran, debounces>>

DebounceNext ==
  \/ \E id \in DebounceIds : Debounce(id) \/ RemoveTimer(id)
  \/ CleanupTimers \/ ReturnFromTimer
  \/ \E c \in DebounceCalls : FireTimer(c)

DebounceSpec == DebounceInit /\ [][DebounceNext]_debounceVars

-----------------------------------------------------------------------------
(* Properties. *)

DebounceTypeOK ==
  /\ usingId \in DebounceIds \cup {0}
  /\ timers \in [DebounceIds -> DebounceCalls \cup {0}]
  /\ alive \subseteq DebounceCalls
  /\ inside \in DebounceIds \cup {0}
  /\ ran \in [DebounceCalls -> 0 .. MaxFires]
  /\ debounces \in 0 .. MaxDebounces

\* Every timer that still fires is in the map, under one id, so that remove,
\* cleanup or the next debounce of the id can kill it: no timer fires for ever
\* behind the program's back.
NoOrphanTimer ==
  \A c \in alive : \E id \in DebounceIds :
    timers[id] = c /\ \A i \in DebounceIds \ {id} : timers[i] # c

\* "This message printed once by Debouncer after 1 second passed"
\* (Sample.Misc.h:164): the function of a call runs at most once.
PrintedOnce == \A c \in DebounceCalls : ran[c] <= 1
=============================================================================
