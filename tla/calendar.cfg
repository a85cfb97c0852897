CONSTANTS
    early = early
    late = late
    demo = demo
    Entries = {early, late}
    Known = {late}
    Demo = demo
    DateOf <- DateOfDef
    RankOf <- RankOfDef
    Calls = {c1, c2}
    FirstDay = 6
    LastDate = 31
    Dates = {29, 30}
    OpenedOn = 29
    LastDay = 30
    None = None
SPECIFICATION FairSpec
INVARIANTS
    ListFollows
    LinesFollow
PROPERTIES
    DayTurns
