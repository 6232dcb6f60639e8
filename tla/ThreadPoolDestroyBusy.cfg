SPECIFICATION FairSpec
CONSTANTS
  NumWorkers = 1
  Clients = {c1}
  Tasks = {t1}
  NoTask = NoTask
PROPERTIES DestroyEnds
CHECK_DEADLOCK FALSE
