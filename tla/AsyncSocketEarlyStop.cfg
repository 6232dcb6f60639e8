SPECIFICATION FairSpec
CONSTANTS
  Sides = {TRUE}
  MaxEvents = 2
  Handles = {h1}
  Own = own
  NoSocket = NoSocket
  Events = {e1, e2}
  NoEvent = NoEvent
  MaxPeers = 1
  MaxSends = 0
  MaxRuns = 1
  MayFail = FALSE
  StopWhenRunning = FALSE
PROPERTIES StopEndsLoop
CHECK_DEADLOCK FALSE
