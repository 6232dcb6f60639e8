CONSTANTS
  Layout <- EarlyRelative
  Uses <- OneObject
  TrampolineSlots = {t1, t2}
  NoSlot = NoSlot
  MaxAttach = 4
  Services <- TwoServices
  MaxServiceOps = 3
  DebounceIds <- TwoIds
  MaxDebounces = 4
  MaxFires = 3
  Imports <- TwoImports
  NotImported <- OneMissing
  Replacements <- TwoReplacements
  Null = Null
  MaxInstalls = 4
  NumItems = 7
  Requested = 3
  Hardware = 8
  s1 = s1
  s2 = s2
  f1 = f1
  f2 = f2
  f3 = f3
  r1 = r1
  r2 = r2
SPECIFICATION ObjectsSpec
INVARIANTS TrampolineFaithful
CHECK_DEADLOCK FALSE
