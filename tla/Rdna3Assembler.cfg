CONSTANTS
    Scenarios <- MCScenarios
    MaxCode = 6
SPECIFICATION Spec
INVARIANTS
    BranchesLand
    LanesRight
CHECK_DEADLOCK FALSE
