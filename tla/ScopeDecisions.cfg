CONSTANTS
    Files <- MCFiles
    attr <- MCAttr
    policies <- MCPolicies
    MaxContent = 1
    MaxHeads = 3
    MaxDeaths = 1
    MaxAnswers = 2
SPECIFICATION Spec
INVARIANT ApprovedSnapshotOnly
INVARIANT ReviewBudget
INVARIANT ShownAgreesWithGate
PROPERTY CharterFrozen
CHECK_DEADLOCK FALSE
