------------------------ MODULE ThreadPoolRefinement ------------------------
(***************************************************************************)
(* ThreadPool implements TaskPool: a task is pending from add_task to the  *)
(* moment a worker enters work(), and discarded when joinAll has wiped it  *)
(* out or left it in the slot of a worker that was told to terminate.      *)
(***************************************************************************)
EXTENDS ThreadPool

Running(t) == \E w \in Workers : wpc[w] = "run" /\ work[w] = t

StageOf(t) ==
  IF t \notin added THEN "new"
  ELSE IF Running(t) THEN "running"
  ELSE IF ran[t] > 0 THEN "finished"
  ELSE IF dpc = "gone" THEN "discarded" ELSE "pending"

Promise == INSTANCE TaskPool WITH
  Limit <- NumWorkers,
  stage <- [t \in Tasks |-> StageOf(t)],
  open  <- dpc = "open"

\* The pool keeps the promise of TaskPool: each task runs at most once and not
\* on two workers, no more of them at a time than there are workers, and none
\* is given up before the destructor has joined every thread.
ImplementsTaskPool == Promise!Spec
=============================================================================
