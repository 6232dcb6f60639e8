-------------------------- MODULE ServiceManager --------------------------
(***************************************************************************)
(* ServiceManagerA/W (src/details/service.cpp): a list of all services and *)
(* their states, taken from the service control manager (SCM) when the     *)
(* object is made and after each operation, on which every later operation *)
(* decides.  One thread calls the object; each Win32 call is a step; the   *)
(* SCM brings services from pending to final states in its own time, a     *)
(* service may die, and others, programs and the SCM by trigger or as      *)
(* recovery, install, start, stop and delete services at any moment.       *)
(***************************************************************************)
EXTENDS FiniteSets, FiniteSetsExt, Naturals

CONSTANTS
  Services,
  MaxServiceOps        \* bound: operations called

ASSUME ServiceAssumption == IsFiniteSet(Services) /\ MaxServiceOps \in Nat

VARIABLES
  scm, marked,         \* the SCM: state of each service, those marked for deletion
  cache,               \* m_services
  spc, sop, target,    \* the calling thread: step, operation, service,
  resume,              \* ... and step after the list was refreshed
  needed,              \* services counted by the first EnumServicesStatusEx
  answer, serviceOps,  \* result of the last operation, operations called
  touched, meddled     \* history: services others acted on since the list was taken,
                       \* ... and whether on the target since the list the operation decided on

historyVars == <<touched, meddled>>

serviceVars == <<scm, marked, cache, spc, sop, target, resume, needed, answer, serviceOps, historyVars>>

ServiceStates == {"absent", "stopped", "starting", "running", "stopping"}

Present == {s \in Services : scm[s] # "absent"}

NoServices == [s \in Services |-> "absent"]

ServiceInit ==
  /\ scm \in [Services -> {"absent", "stopped", "running"}] /\ marked = {}
  /\ cache = NoServices
  /\ spc = "size" /\ sop = "new" /\ target \in Services /\ resume = "idle"
  /\ needed = 0 /\ answer = "none" /\ serviceOps = 0
  /\ touched = {} /\ meddled = FALSE

-----------------------------------------------------------------------------
(* The SCM and the other programs (environment). *)

\* Where a service gets without anybody asking: to its final state, or it dies.
ScmMoves == {<<"starting", "running">>, <<"starting", "stopped">>, <<"running", "stopped">>,
             <<"stopping", "stopped">>}

\* Where others take it: they install, start and stop it.
ForeignMoves == {<<"absent", "stopped">>, <<"stopped", "starting">>, <<"running", "stopping">>}

\* What is marked for deletion disappears once it is stopped.
ScmStep(s) ==
  /\ \E b \in ServiceStates :
       /\ <<scm[s], b>> \in ScmMoves
       /\ scm' = [scm EXCEPT ![s] = IF s \in marked /\ b = "stopped" THEN "absent" ELSE b]
  /\ marked' = IF scm'[s] = "absent" THEN marked \ {s} ELSE marked
  /\ UNCHANGED <<cache, spc, sop, target, resume, needed, answer, serviceOps, historyVars>>

\* The SCM after DeleteService: a service that is not stopped is only marked.
ScmWithout(s) == IF scm[s] = "stopped" THEN [scm EXCEPT ![s] = "absent"] ELSE scm
MarkedWith(s) == IF scm[s] = "stopped" THEN marked ELSE marked \cup {s}

OthersAct(s) ==
  /\ \/ /\ \E b \in ServiceStates :
            /\ <<scm[s], b>> \in ForeignMoves /\ (b = "starting" => s \notin marked)
            /\ scm' = [scm EXCEPT ![s] = b]
       /\ UNCHANGED marked
     \/ scm[s] # "absent" /\ s \notin marked /\ scm' = ScmWithout(s) /\ marked' = MarkedWith(s)
  /\ touched' = touched \cup {s} /\ meddled' = (meddled \/ s = target)
  /\ UNCHANGED <<cache, spc, sop, target, resume, needed, answer, serviceOps>>

-----------------------------------------------------------------------------
(* The operations. *)

Answer(a) == answer' = a /\ spc' = "idle"

\* refresh and initialize: the list is emptied, then filled by two calls, one for
\* the size and one for the services that fit into it.
RefreshThen(next) == spc' = "size" /\ resume' = next /\ cache' = NoServices

\* Mutant of EnumSize: the padding of the vector is counted as a service.
EnumSizePadded ==
  /\ spc = "size"
  /\ needed' = Cardinality(Present) + 1 /\ spc' = "list"
  /\ UNCHANGED <<scm, marked, cache, sop, target, resume, answer, serviceOps, historyVars>>

EnumSize ==
  /\ spc = "size"
  /\ needed' = Cardinality(Present) /\ spc' = "list"
  /\ UNCHANGED <<scm, marked, cache, sop, target, resume, answer, serviceOps, historyVars>>

EnumList ==
  /\ spc = "list"
  /\ \E listed \in kSubset(IF needed < Cardinality(Present) THEN needed ELSE Cardinality(Present),
                           Present) :
       cache' = [s \in Services |-> IF s \in listed THEN scm[s] ELSE "absent"]
  /\ touched' = {}
  /\ IF resume = "idle" THEN Answer("ok") ELSE spc' = resume /\ UNCHANGED answer
  /\ UNCHANGED <<scm, marked, sop, target, resume, needed, serviceOps, meddled>>

\* The next operation is called.
CallService(op, s) ==
  /\ spc = "idle" /\ serviceOps < MaxServiceOps
  /\ sop' = op /\ target' = s /\ spc' = "query" /\ serviceOps' = serviceOps + 1
  /\ meddled' = FALSE
  /\ UNCHANGED <<scm, marked, cache, resume, needed, answer, touched>>

\* Where an operation goes after the query of the list.
AfterQuery(op, state) ==
  CASE op = "start" /\ state = "running" -> "ok"
    [] op = "start" /\ state = "stopped" -> "start"
    [] op = "stop" /\ state = "stopped" -> "ok"
    [] op = "stop" /\ state = "running" -> "control"
    [] op = "uninstall" /\ state = "running" -> "control"
    [] op = "uninstall" /\ state \notin {"absent", "running"} -> "delete"
    [] op = "install" /\ state = "absent" -> "create"
    [] OTHER -> "failed"

Query ==
  /\ spc = "query"
  /\ LET next == AfterQuery(sop, cache[target]) IN
       IF next \in {"ok", "failed"} THEN Answer(next) ELSE spc' = next /\ UNCHANGED answer
  /\ meddled' = (target \in touched)
  /\ UNCHANGED <<scm, marked, cache, sop, target, resume, needed, serviceOps, touched>>

\* Mutant of Carry: the list is not refreshed.
CarryNoRefresh(step, can, scmNext, markedNext) ==
  /\ spc = step
  /\ IF can THEN scm' = scmNext /\ marked' = markedNext /\ Answer("ok")
     ELSE Answer("failed") /\ UNCHANGED <<scm, marked>>
  /\ UNCHANGED <<cache, resume, sop, target, needed, serviceOps, historyVars>>

\* The last call of an operation: what it does to the SCM when it succeeds, then
\* the refresh.
Carry(step, can, scmNext, markedNext) ==
  /\ spc = step
  /\ IF can THEN scm' = scmNext /\ marked' = markedNext /\ RefreshThen("idle") /\ UNCHANGED answer
     ELSE Answer("failed") /\ UNCHANGED <<scm, marked, cache, resume>>
  /\ UNCHANGED <<sop, target, needed, serviceOps, historyVars>>

StartService ==
  Carry("start", scm[target] = "stopped" /\ target \notin marked,
        [scm EXCEPT ![target] = "starting"], marked)

DeleteService ==
  Carry("delete", scm[target] # "absent" /\ target \notin marked, ScmWithout(target), MarkedWith(target))

CreateService ==
  Carry("create", scm[target] = "absent", [scm EXCEPT ![target] = "stopped"], marked)

\* control(SERVICE_CONTROL_STOP).  uninstall stops first, refresh included, and
\* deletes whatever came of it.
ControlStop ==
  /\ spc = "control"
  /\ LET next == IF sop = "uninstall" THEN "delete" ELSE "idle" IN
       IF scm[target] = "running"
       THEN scm' = [scm EXCEPT ![target] = "stopping"] /\ RefreshThen(next) /\ UNCHANGED answer
       ELSE /\ IF next = "idle" THEN Answer("failed") ELSE spc' = next /\ UNCHANGED answer
            /\ UNCHANGED <<scm, cache, resume>>
  /\ UNCHANGED <<marked, sop, target, needed, serviceOps, historyVars>>

ServiceNext ==
  \/ \E s \in Services : ScmStep(s) \/ OthersAct(s)
  \/ \E s \in Services, op \in {"start", "stop", "uninstall", "install"} : CallService(op, s)
  \/ EnumSize \/ EnumList \/ Query
  \/ StartService \/ ControlStop \/ DeleteService \/ CreateService

-----------------------------------------------------------------------------
(* Properties. *)

ServiceTypeOK ==
  /\ scm \in [Services -> ServiceStates] /\ marked \subseteq Present
  /\ cache \in [Services -> ServiceStates]
  /\ spc \in {"idle", "size", "list", "query", "start", "control", "delete", "create"}
  /\ sop \in {"new", "start", "stop", "uninstall", "install"} /\ target \in Services
  /\ resume \in {"idle", "delete"}
  /\ needed \in 0 .. Cardinality(Services)
  /\ answer \in {"none", "ok", "failed"} /\ serviceOps \in 0 .. MaxServiceOps
  /\ touched \subseteq Services /\ meddled \in BOOLEAN

\* Where the SCM may have moved a service by itself since it was in the state.
Later(state) ==
  CASE state = "starting" -> {"starting", "running", "stopped", "absent"}
    [] state = "running" -> {"running", "stopped", "absent"}
    [] state = "stopping" -> {"stopping", "stopped", "absent"}
    [] state = "stopped" -> {"stopped"}

\* Between operations, what the list says of a service is where it was before it moved on
\* by itself, unless others acted on it since the list was taken: all this object did is in
\* the list.  A stop that was answered VU_OK left its service stopped or stopping, unless
\* others acted on the service since the list the answer was decided on, which a stop that
\* finds "stopped" there never looks behind.
ListLagsByScmMoves ==
  spc = "idle" =>
    /\ \A s \in Services \ touched : cache[s] # "absent" => scm[s] \in Later(cache[s])
    /\ sop = "stop" /\ answer = "ok" /\ ~meddled
         => scm[target] \notin {"starting", "running"}
=============================================================================
