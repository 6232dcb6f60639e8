------------------------------ MODULE TaskPool ------------------------------
(***************************************************************************)
(* What a pool of threads promises about the tasks given to it, whatever   *)
(* its threads, queue and locks: a task runs at most once, at most Limit   *)
(* tasks run at a time, a pool that is being closed takes no more tasks,   *)
(* and only a closed pool with no task running may discard what is left.   *)
(***************************************************************************)
EXTENDS Naturals, FiniteSets

CONSTANTS Tasks, Limit

VARIABLES stage, open

Stages == {"new", "pending", "running", "finished", "discarded"}

At(s) == {t \in Tasks : stage[t] = s}

Init == stage = [t \in Tasks |-> "new"] /\ open = TRUE

Submit(t) ==
  /\ open /\ stage[t] = "new"
  /\ stage' = [stage EXCEPT ![t] = "pending"]
  /\ UNCHANGED open

Start(t) ==
  /\ stage[t] = "pending" /\ Cardinality(At("running")) < Limit
  /\ stage' = [stage EXCEPT ![t] = "running"]
  /\ UNCHANGED open

Finish(t) ==
  /\ stage[t] = "running"
  /\ stage' = [stage EXCEPT ![t] = "finished"]
  /\ UNCHANGED open

Close == open /\ open' = FALSE /\ UNCHANGED stage

Discard ==
  /\ ~open /\ At("running") = {}
  /\ stage' = [t \in Tasks |-> IF stage[t] = "pending" THEN "discarded" ELSE stage[t]]
  /\ UNCHANGED open

Next ==
  \/ \E t \in Tasks : Submit(t) \/ Start(t) \/ Finish(t)
  \/ Close \/ Discard

Spec == Init /\ [][Next]_<<stage, open>>
=============================================================================
