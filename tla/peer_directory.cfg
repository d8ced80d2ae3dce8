CONSTANTS
    p1 = p1
    p2 = p2
    k1 = k1
    k2 = k2
    Peers <- MCPeers
    Keys = {k1, k2}
    NoKey = NoKey
    Garbled = Garbled
    AnyKey = AnyKey
    Nothing = Nothing
    DirValues <- MCDirValues
    WlValues <- MCWlValues
    Threshold = 1
    MaxEdits = 2
    MaxFaults = 1
SPECIFICATION Spec
INVARIANTS TypeOK MembersWhitelisted ReadyCounted GateSound
PROPERTIES Joins Departs
CHECK_DEADLOCK FALSE
