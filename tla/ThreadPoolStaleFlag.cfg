SPECIFICATION Spec
CONSTANTS
  NumWorkers = 2
  Clients = {c1}
  Tasks = {t1, t2}
  NoTask = NoTask
PROPERTIES LaunchWaitsForHanded
CHECK_DEADLOCK FALSE
