CONSTANTS
    Users = {ann}
    Devices = {phone, key}
    Workers = {w1, w2}
    None = none
    TTL = 1
    MaxIssued = 3
    MaxRestarts = 1
SPECIFICATION Spec
INVARIANTS
    SpentOnce
    LoginByOwnPasskey
PROPERTY NeverTakenLate
SYMMETRY Symmetry
