CONSTANTS
    d1 = d1
    d2 = d2
    i1 = i1
    i2 = i2
    Daemons <- TwoDaemons
    Issues <- OneIssue
    MaxClaims = 2
    MaxSuspensions = 2
    MaxPolls = 1
    MaxCrashes = 0
    ConfigLimit = 1
    GlobalLimit = 1
    ResumeRefusals = FALSE
    LongSteps = FALSE
    WaitsAtNewSteps = FALSE
SPECIFICATION FairSpec
INVARIANT IssueExclusive
PROPERTY CommittedWaitResolves
PROPERTY ReadyRunsAndEnds
