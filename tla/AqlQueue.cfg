\* Two host threads that take turns, every call, a ring that wraps.
SPECIFICATION FairSpec
CONSTANTS
  t1 = t1
  t2 = t2
  Threads <- TwoThreads
  Calls <- AllCalls
  Slots = 3
  Headroom = 1
  MaxPackets = 4
  BatchLimit = 2
  Serialized = TRUE
  SlowGpu = FALSE
INVARIANTS
  TypeOK
  NoOverwrite
  LaunchedWhole
  ExecutedInOrder
  OkMeansDone
  TimeoutMeansHung
  DropLosesNothing
PROPERTIES
  ImplementsCommandQueue
  CallsReturn
  DoorbellRuns
CHECK_DEADLOCK FALSE
