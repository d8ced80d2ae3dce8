SPECIFICATION Spec
CONSTANTS
    Procs = {p1, p2}
    MaxFaults = 3
    NoSession = NoSession
INVARIANTS
    KeyHasSession
    ResignedNeverRenews
PROPERTIES
    Retired
    ReadyAgain
CHECK_DEADLOCK FALSE
