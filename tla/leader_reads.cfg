\* The leader as a linearizable register: a read against two writes.
CONSTANTS
    f1 = f1
    f2 = f2
    f3 = f3
    Leader = leader
    Followers = {f1, f2, f3}
    WriteReqs = {w1, w2}
    ReadReqs = {r1}
    Keys = {k1}
    Values = {a}
    NoValue = none
    Own = own
    Refused = refused
    FollowerLists <- OneList
    Strategies = {"w5r1", "w1r5", "w3r3"}
    Wire <- PlainWire
    WireKey <- PlainKey
    MaxFailures = 1
    MaxReconfigs = 0
    DirectWriters = {}
    MaxDirect = 0
SPECIFICATION Spec
SYMMETRY Symmetry
PROPERTY RegisterSpec
CHECK_DEADLOCK FALSE
