---- MODULE SingleInstance ----
(* vu::SingleProcess in several processes of one program: running() creates a  *)
(* named event and takes "already exists" for "another instance runs". The     *)
(* name lives in the system as long as any process has a handle of it.         *)
EXTENDS FiniteSets

CONSTANTS Instances  \* processes that may be started, exit, crash and be started again

VARIABLES instanceAt,    \* process -> where it is
          instanceNamed, \* process -> m_name is not empty
          eventOwned,    \* m_handle of the process is a handle of the event
          eventProbe     \* processes between CreateEvent and CloseHandle in running()

instanceVars == <<instanceAt, instanceNamed, eventOwned, eventProbe>>

InstanceInit ==
  /\ instanceAt = [p \in Instances |-> "down"]
  /\ instanceNamed = [p \in Instances |-> FALSE]
  /\ eventOwned = {}
  /\ eventProbe = {}

EventExists == eventOwned \union eventProbe # {}
MoveInstance(p, at) == instanceAt' = [instanceAt EXCEPT ![p] = at]

StartInstance(p) ==
  /\ instanceAt[p] = "down"
  /\ MoveInstance(p, "started")
  /\ UNCHANGED <<instanceNamed, eventOwned, eventProbe>>

\* initialize: a second one throws while the name is kept, which leaves all as it is.
Initialize(p) ==
  /\ instanceAt[p] \in {"started", "running"}
  /\ ~instanceNamed[p]
  /\ instanceNamed' = [instanceNamed EXCEPT ![p] = TRUE]
  /\ MoveInstance(p, "ask")
  /\ UNCHANGED <<eventOwned, eventProbe>>

\* A running() that keeps its handle before it looks whether the event was there.
AskRunningKeepsHandle(p) ==
  /\ instanceAt[p] = "ask"
  /\ eventOwned' = eventOwned \union {p}
  /\ IF EventExists THEN eventProbe' = eventProbe \union {p} /\ MoveInstance(p, "exists")
                    ELSE UNCHANGED eventProbe /\ MoveInstance(p, "running")
  /\ UNCHANGED instanceNamed

\* running: CreateEventW gives a handle either way; it is kept only when the event is new.
AskRunning(p) ==
  /\ instanceAt[p] = "ask"
  /\ IF EventExists THEN /\ eventProbe' = eventProbe \union {p}
                         /\ UNCHANGED eventOwned
                         /\ MoveInstance(p, "exists")
                    ELSE /\ eventOwned' = eventOwned \union {p}
                         /\ UNCHANGED eventProbe
                         /\ MoveInstance(p, "running")
  /\ UNCHANGED instanceNamed

CloseProbe(p) ==
  /\ instanceAt[p] = "exists"
  /\ eventProbe' = eventProbe \ {p}
  /\ MoveInstance(p, "told")
  /\ UNCHANGED <<instanceNamed, eventOwned>>

\* fn(true): the user says no, or only one instance is allowed, and the process exits;
\* or the program goes on beside the other one.
GoOnBeside(p) ==
  /\ instanceAt[p] = "told"
  /\ MoveInstance(p, "running")
  /\ UNCHANGED <<instanceNamed, eventOwned, eventProbe>>

\* running() called by the program itself: its own event answers as well.
AskAgain(p) ==
  /\ instanceAt[p] = "running" /\ instanceNamed[p]
  /\ MoveInstance(p, "ask")
  /\ UNCHANGED <<instanceNamed, eventOwned, eventProbe>>

\* finalize: without a handle the name stays, and with it the throw of initialize.
Finalize(p) ==
  /\ instanceAt[p] = "running" /\ p \in eventOwned
  /\ eventOwned' = eventOwned \ {p}
  /\ instanceNamed' = [instanceNamed EXCEPT ![p] = FALSE]
  /\ UNCHANGED <<instanceAt, eventProbe>>

\* ExitProcess, or a crash at any point: the system closes the handles.
ExitInstance(p) ==
  /\ instanceAt[p] # "down"
  /\ MoveInstance(p, "down")
  /\ instanceNamed' = [instanceNamed EXCEPT ![p] = FALSE]
  /\ eventOwned' = eventOwned \ {p}
  /\ eventProbe' = eventProbe \ {p}

InstanceNext == \E p \in Instances :
  \/ StartInstance(p) \/ Initialize(p) \/ AskRunning(p) \/ CloseProbe(p)
  \/ GoOnBeside(p) \/ AskAgain(p) \/ Finalize(p) \/ ExitInstance(p)

InstanceSpec == InstanceInit /\ [][InstanceNext]_instanceVars

InstanceTypeOK ==
  /\ instanceAt \in [Instances -> {"down", "started", "ask", "exists", "told", "running"}]
  /\ instanceNamed \in [Instances -> BOOLEAN]
  /\ eventOwned \subseteq Instances
  /\ eventProbe \subseteq Instances

\* At most one process holds the event as its own, through exits, crashes, restarts and
\* running() asked again; whoever holds it is alive and cannot initialize a second time.
OneEventOwner ==
  /\ \A p, q \in eventOwned : p = q
  /\ \A p \in eventOwned : instanceNamed[p] /\ instanceAt[p] # "down"
====
