\* Two threads, every call; UNMAP invalidates the TLB.
SPECIFICATION Spec
CONSTANTS
  t1 = t1
  t2 = t2
  a1 = a1
  a2 = a2
  a3 = a3
  Threads <- TwoThreads
  Addresses <- TwoAddresses
  Calls <- AllCalls
  Requests <- OneAndThree
  Page = 2
  MaxBuffers = 2
  MaxLeases = 3
  MaxQueue = 1
  MayFail = TRUE
  StaleTlb = FALSE
  WaitsFirst = TRUE
INVARIANTS
  KernelsTouchOwnBuffer
  CachedBytesRight
  MappedToItself
  LeaksOnlyOnFailure
  FreshStaysZero
  BigEnough
SYMMETRY Symmetry
CHECK_DEADLOCK FALSE
