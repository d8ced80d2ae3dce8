\* One node name, two processes of it, two overlapping calls.
CONSTANTS
    Names = {n1}
    Pids = {p1, p2}
    Calls = {c1, c2}
    All = All
    None = None

SPECIFICATION Spec

INVARIANTS
    QuitLeavesNone
PROPERTIES
    CallsReturn
CHECK_DEADLOCK FALSE
