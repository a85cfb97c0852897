CONSTANTS
    Regions = {tokyo, osaka}
    Positions = {0, 1}
    Fetches = {f1, f2}
    Null = null
SPECIFICATION WeatherFairSpec
INVARIANTS
    ValuesInPlace
PROPERTIES
    KnowledgeKept
    TitleCatchesUp
