\* Two parameters, two operations of any kind, two passes.
SPECIFICATION Spec
CONSTANTS
  LeafValues <- TwoLeaves
  Ops <- PassOps
  GuardKinds = {"NoGrad"}
  MaxTensors = 4
  MaxPasses = 2
  MaxGuards = 2
INVARIANTS
  GradsRight
  HeldGradStable
PROPERTIES
  GuardsNest
CHECK_DEADLOCK FALSE
