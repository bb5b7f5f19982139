SPECIFICATION Spec
CONSTANTS
    Executions = {e1, e2}
    Configs <- TwoConfigs
    Answers = {"good", "malformed", "stale", "wrapper"}
    MaxLaunches = 2
    MaxStarts = 3
    MaxFaults = 1
    MaxHead = 2
    MaxPlan = 2
    RetuneLive = FALSE
SYMMETRY Symmetry
INVARIANT LaunchBudget
INVARIANT CrashLoads
INVARIANT TerminalOnce
PROPERTY PromotionIsNewest
CHECK_DEADLOCK FALSE
