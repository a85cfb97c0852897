CONSTANTS
    Workers = {w1}
    Ips = {a, b}
    Penalties = {1, 2}
    MaxGiven = 4
    MaxCrashes = 2
    MediumAt = 2
    HighAt = 3
    BlockAt = 4
    LowWait = 2
    MediumWait = 1
    HighWait = 2
    MaxQuiet = 2
SPECIFICATION FairSpec
PROPERTIES
    ImplementsLedger
    Forgiveness
