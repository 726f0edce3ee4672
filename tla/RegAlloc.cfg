\* Both allocators over a register file of 8 numbers, 5 of which can be used.
SPECIFICATION Spec
CONSTANTS
  Kinds = {"ssa", "legacy"}
  Declarations <- SmallKernels
  Horizon = 3
  MaxUsed = 4
  U8 = 8
  Limit = 6
  LegacyLimit = 7
INVARIANTS
  TypeOK
  TrustedNeverClash
  GroupsTogether
  NothingLost
  KernelFits
CHECK_DEADLOCK FALSE
