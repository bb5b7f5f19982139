SPECIFICATION Spec
CONSTANTS
    Procs <- MCProcs
    run_of <- MCrun_of
    DaemonRuns = {"daemon"}
    Legacy = {"legacy"}
    Files <- MCFiles
    FirstVersion = "authored"
    Requests <- MCRequests
    MaxDirs = 2
    MaxDeaths = 1
    MaxChanges = 1
INVARIANT OneOwner
INVARIANT AuthorizedIsExclusive
INVARIANT MigrationLeavesRecord
CHECK_DEADLOCK FALSE
