CONSTANTS
    MonthStart <- MCMonthStart
    Dates <- MCDates
    Cycles <- MCCycles
    Instants <- MCInstants
    ZoneAhead <- MCWest
    Calls = {c1, c2}
    MaxIds = 1
    MaxWrites = 3
SPECIFICATION Spec
INVARIANTS
    TypeOK
    OnSchedule
    ListFollows
PROPERTY RenewalCatchesUp
CHECK_DEADLOCK FALSE
SYMMETRY Symmetry
