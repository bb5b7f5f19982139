CONSTANTS
    d1 = d1
    d2 = d2
    i1 = i1
    i2 = i2
    Daemons <- TwoDaemons
    Issues <- TwoIssues
    MaxClaims = 2
    MaxSuspensions = 0
    MaxPolls = 0
    MaxCrashes = 0
    ConfigLimit = 2
    GlobalLimit = 2
    ResumeRefusals = TRUE
    LongSteps = FALSE
    WaitsAtNewSteps = TRUE
SPECIFICATION Spec
PROPERTY RunningLeaseHeld
CONSTRAINT FirstRuns
SYMMETRY BothSymmetry
