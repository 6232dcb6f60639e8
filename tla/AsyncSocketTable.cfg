SPECIFICATION FairSpec
CONSTANTS
  Sides = {TRUE, FALSE}
  MaxEvents = 3
  Handles = {h1, h2}
  Own = own
  NoSocket = NoSocket
  Events = {e1, e2, e3}
  NoEvent = NoEvent
  MaxPeers = 2
  MaxSends = 1
  MaxRuns = 1
  MayFail = TRUE
  StopWhenRunning = FALSE
INVARIANTS TypeOK LiveListed ServerKeepsSlotZero
PROPERTIES CallbackOrder CloseNoticed PeerAccepted
CHECK_DEADLOCK FALSE
