CONSTANTS
    d1 = d1
    d2 = d2
    i1 = i1
    i2 = i2
    Daemons <- TwoDaemons
    Issues <- TwoIssues
    MaxClaims = 1
    MaxSuspensions = 1
    MaxPolls = 0
    MaxCrashes = 0
    ConfigLimit = 1
    GlobalLimit = 1
    ResumeRefusals = TRUE
    LongSteps = TRUE
    WaitsAtNewSteps = TRUE
SPECIFICATION Spec
INVARIANT LaunchCapacity
SYMMETRY BothSymmetry
