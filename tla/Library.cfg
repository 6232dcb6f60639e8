CONSTANTS
  LockThreads = {t1, t2}
  LockIds = {k1, k2}
  WarmIds = {k1}
  NoThread = NoThread
  MaxLocks = 3
  SignalThreads = {t1, t2}
  Signals = {g1, g2}
  Instances = {a1, a2, a3}
  Pids <- TwoPids
  OwnPid = p1
  Wow64Pids <- OneWow64
  NoPid = NoPid
  ProcessObjects = {o1, o2}
  MaxHandles = 3
  MemoryThreads = {t1, t2}
  Layouts <- TwoLayouts
  LastPage = 1
  Injectors = {t1, t2}
  Dlls = {d1, d2}
  LongNames = {d2}
  NoDll = NoDll
  MaxBlocks = 2
  HookObjects = {o1, o2}
  HookTargets <- TwoPids
  MaxHook = 1
  MaxHookHandles = 2
  SocketObjects = {o1, o2}
  Descriptors <- ThreeDescriptors
  MaxSocketObjects = 3
  Messages <- TwoMessages
  BlockSize = 2
  StackRoom = 3
  MaxRecvAlls = 2
  KeyNames <- TwoKeyNames
  Registries = {ra, rw}
  WideRegistries = {rw}
  NoPath = NoPath
  MaxKeyDepth = 2
  MaxKeyHandles = 2
  ValueTexts <- FourTexts
  ValueLists <- FiveLists
  ValueBytes <- FourData
  Absent = Absent
  MappingObjects = {o1, o2}
  MappingNames = {n1}
  NoName = NoName
  EmptyFiles = {f0}
  FullFiles = {f1}
  MaxMapHandles = 3
  MaxViews = 2
  FileObjects = {o1, o2}
  FileBytes <- OneByte
  MaxFile = 2
  Buffers = {b1, b2}
  Bytes <- TwoBytes
  Unknown = Unknown
  MaxBytes = 3
  MaxClock = 6
  MaxLaps = 3
  Variants = {v1, v2}
  Digits <- TwoDigits
  Letters <- OneLetter
  MaxText = 2
  SingletonThreads = {t1, t2, t3}
  MaxInstances = 3
  ScopedObjects = {o1, o2, o3}
  MaxSerial = 3
  p1 = p1
  p2 = p2
SPECIFICATION LibrarySpec
INVARIANTS LibraryTypeOK MadeOnceUnlessRaced OneEventOwner AttachedHandleLive RemoteRestored SocketsAccountedFor StreamIntact HeldByItsOwn BufferAsMeant TotalIsElapsed TextsLawful AlgorithmsLawful
PROPERTIES AnswerConsumesNothing RegistryFaithful QuickReadWhole VariantReadsOnce
CHECK_DEADLOCK FALSE
