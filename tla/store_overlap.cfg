CONSTANTS
    Workers = {w1, w2}
    Ips = {a, b}
    Penalties = {1, 2}
    MaxGiven = 3
    MaxCrashes = 1
    MediumAt = 1
    HighAt = 2
    BlockAt = 3
    LowWait = 2
    MediumWait = 1
    HighWait = 2
    MaxQuiet = 2
SPECIFICATION Spec
SYMMETRY Symmetry
INVARIANTS
    NoInflation
PROPERTIES
    BlockLevelStays
