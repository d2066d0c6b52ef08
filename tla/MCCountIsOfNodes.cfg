CONSTANTS
    p1 = p1
    p2 = p2
    p3 = p3
    Peers <- MCPeers
    Versions = {1, 2}
    Factor = 2
    MaxClosest = 2
    Busy = {p1}
    MaxLate = 1
    Nobody = Nobody
SPECIFICATION ReplicationSpec
SYMMETRY MCSymmetry
INVARIANT
    CountIsOfNodes
CHECK_DEADLOCK FALSE
