\* add hands one buffer to both operands.
SPECIFICATION Spec
CONSTANTS
  LeafValues <- TwoLeaves
  Ops = {"add", "scale"}
  GuardKinds = {}
  MaxTensors = 5
  MaxPasses = 1
  MaxGuards = 0
INVARIANTS
  AddPassesThrough
CHECK_DEADLOCK FALSE
