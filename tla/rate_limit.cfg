CONSTANTS
    Ips = {a, b}
    Limit = 2
    Window = 2
    Keep = 4
    MaxAsked = 3
SPECIFICATION Spec
INVARIANTS
    Throttled
    RefusedForCause
PROPERTY ImplementsWindow
