\* leaderless_test.go LL3 with two coordinators of one key.
CONSTANTS
    n1 = n1
    n2 = n2
    n3 = n3
    k1 = k1
    k2 = k2
    forged = forged
    Nodes = {n1, n2, n3}
    WriteReqs = {w1, w2}
    Keys = {k1, k2}
    Values = {a, b}
    NoValue = none
    Own = own
    Refused = refused
    Wire <- PlainWire
    WireKey <- PlainKey
    PeerLists <- Lists
    MayWrite <- AnyNode
    MaxFailures = 0
    MaxReconfigs = 0
SPECIFICATION Spec
SYMMETRY Symmetry
INVARIANT AckedOnAllNodes
CHECK_DEADLOCK FALSE
