\* Two losses that share no operation, walked one after the other.
SPECIFICATION Spec
CONSTANTS
  LeafValues <- TwoLeaves
  Ops = {"add", "mul"}
  GuardKinds = {}
  MaxTensors = 4
  MaxPasses = 2
  MaxGuards = 0
INVARIANTS
  LossesAccumulate
CHECK_DEADLOCK FALSE
