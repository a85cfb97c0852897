CONSTANTS
    Ips = {a}
    StartLevels = {"balanced-secure", "relaxed", "other"}
    Requests <- MCRequests
    Penalty <- MCPenalty
    MediumAt = 3
    HighAt = 4
    BlockAt = 5
    LowWait = 5
    MediumWait = 3
    HighWait = 4
    MaxQuiet = 5
    BlockTime = 2
    Grace = 3
    RequireCloudflare = TRUE
    MaxScore = 5
SPECIFICATION GateFairSpec
INVARIANTS
    GraceExcuses
PROPERTIES
    BlockLevelIsFinal
    ServedInTheEnd
