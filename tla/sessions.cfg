CONSTANTS
    Users = {ann, bob}
    Calls = {c1, c2}
    None = none
    SessionTTL = 1
    RestoreTTL = 2
    DeviceTTL = 3
    MaxNow = 4
    MaxDevices = 2
    MaxRestarts = 1
    MaxCalls = 3
SPECIFICATION Spec
INVARIANTS
    TypeOK
    TokenFitsDevice
    ShownAloneIsServed
    LogoutStays
PROPERTY AbsenceEndsSession
CHECK_DEADLOCK FALSE
SYMMETRY Symmetry
