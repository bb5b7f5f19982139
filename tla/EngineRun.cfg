CONSTANTS
    StepSeq <- FourSteps
    Transitions <- SmallWorkflow
    CleanupSteps <- Cleanup
    SafeSteps <- Watch
    RetryableSteps <- Watch
    OutcomesOf <- SmallOutcomes
    MaxLoops = 1
    MergeRequired = TRUE
    Launchers = {"daemon"}
    MaxResumes = 2
    MaxDeaths = 1
SPECIFICATION FairSpec
INVARIANT EdgeBudget
INVARIANT CleanupHasProvenance
INVARIANT MergedIsProved
PROPERTY ExecutionEnds
CHECK_DEADLOCK FALSE
