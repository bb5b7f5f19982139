CONSTANTS
    Children <- MCChildren
    FirstSubs <- MCFirstSubs
    BodyRefs <- MCFirstSubs
    Listed <- MCListed
    WaitForHumanMerge = TRUE
    MaxRuns <- MCMaxRuns
    MaxFaults = 1
SPECIFICATION Spec
INVARIANT OneChildExecution
INVARIANT ParentClosedIsMerged
PROPERTY CleanupStays
CHECK_DEADLOCK FALSE
