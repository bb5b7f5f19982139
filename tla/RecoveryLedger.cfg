CONSTANTS
    c1 = c1
    c2 = c2
    a1 = a1
    a2 = a2
    Callers <- TwoCallers
    Steps <- OneStep
    Verbs <- TwoVerbs
    Results <- TwoResults
    Snapshots <- TwoSnapshots
    MaxAttempts = 2
SPECIFICATION Spec
INVARIANT EpochNamesAttempt
INVARIANT LedgerConsistent
INVARIANT AnswerIsNewer
INVARIANT OperationExclusive
PROPERTY LedgerSpec
SYMMETRY CallerSymmetry
