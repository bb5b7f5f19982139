CONSTANTS
    Kinds <- AllKinds
    Groups <- MCGroups
    AgentConfigs <- MCAgents
    Paths <- MCPaths
    Codes <- MCCodes
    CodeMap <- MCCodeMap
    OnStdout <- MCOnStdout
    DetectionFails = FALSE
    MaxEdits = 1
SPECIFICATION FairSpec
INVARIANT NothingHoldsOutput
INVARIANT GatedSuccess
 
CHECK_DEADLOCK FALSE
