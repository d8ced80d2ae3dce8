\* One node name, registered up to twice, and two removals at a time.
CONSTANTS
    Names = {n1}
    Ids = {i1, i2}
    Wallets = {w1}
    Calls = {c1, c2}
    None = None

SPECIFICATION Spec

INVARIANTS
    RegisteredHasFiles
PROPERTIES
    RegisterEnds
    RemoveReturns
CHECK_DEADLOCK FALSE
