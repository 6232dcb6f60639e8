SPECIFICATION Spec
CONSTANTS
  Sides = {TRUE}
  MaxEvents = 2
  Handles = {h1, h2}
  Own = own
  NoSocket = NoSocket
  Events = {e1, e2, e3}
  NoEvent = NoEvent
  MaxPeers = 2
  MaxSends = 0
  MaxRuns = 1
  MayFail = FALSE
  StopWhenRunning = TRUE
INVARIANTS TableFits
CHECK_DEADLOCK FALSE
