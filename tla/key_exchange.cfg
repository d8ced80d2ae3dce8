SPECIFICATION Spec
CONSTANTS
    Nodes = {n1, n2}
    GraceRounds = 3
    GateRounds = 5
    MaxRestarts = 1
    MaxLost = 1
INVARIANTS TypeOK HandledIsFresh
PROPERTIES
    MeshHeals
    CeremonyHeals
CHECK_DEADLOCK FALSE
