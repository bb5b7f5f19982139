CONSTANTS
    d1 = d1
    d2 = d2
    i1 = i1
    i2 = i2
    Daemons <- TwoDaemons
    Issues <- OneIssue
    MaxClaims = 2
    MaxSuspensions = 2
    MaxPolls = 1
    MaxCrashes = 1
    ConfigLimit = 1
    GlobalLimit = 2
    ResumeRefusals = TRUE
    LongSteps = TRUE
    WaitsAtNewSteps = TRUE
SPECIFICATION Spec
INVARIANT TypeOK
INVARIANT SingleExecutor
INVARIANT LeaseAgreesWithRun
INVARIANT PendingIsListed
PROPERTY LeaseMovesForward
PROPERTY WorkingLeaseKept
SYMMETRY DaemonSymmetry
