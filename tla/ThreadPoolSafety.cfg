SPECIFICATION FairSpec
CONSTANTS
  NumWorkers = 2
  Clients = {c1, c2}
  Tasks = {t1, t2, t3}
  NoTask = NoTask
INVARIANTS TypeOK ActiveCountExact ClaimedWorkerIsParking TasksAccounted
PROPERTIES FlagUpMeansWorkersDone ImplementsTaskPool HandedTaskRuns CallsReturn DestroyEndsWhenIdle
CHECK_DEADLOCK FALSE
