SPECIFICATION FairSpec
CONSTANTS
  t1 = t1
  t2 = t2
  Threads <- BothThreads
  Setups <- Sound
INVARIANTS
  ArgsIntact
  ReadComplete
  FailureIsFinal
  QueueBounded
PROPERTIES
  CallsReturn
\* A host that has nothing left to do stops.
CHECK_DEADLOCK FALSE
