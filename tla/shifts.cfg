CONSTANTS
    Users = {ann}
    Workers = {w1, w2}
    early = early
    late = late
    Shift <- MCShift
    Batches <- MCBatches
    MaxFiles = 1
SPECIFICATION Spec
SYMMETRY Symmetry
INVARIANTS
    CalendarFollows
    CreatedMeansStored
    CalendarBacked
    AttachmentsWhole
PROPERTY OwnEntriesStay
