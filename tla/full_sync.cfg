CONSTANTS
    ann = ann
    bob = bob
    rent = rent
    Users = {ann, bob}
    NoUser = nobody
    Payments = {rent}
    Owner <- OwnerDef
    PayDay <- PayDayDef
    Calls = {c1, c2}
    LastTick = 4
SPECIFICATION FairSpec
INVARIANTS
    OneTimerEach
    
    AnnouncedInTime
    OneSyncAtATime
PROPERTY SyncEnds
