\* Every request is answered and the replicas catch up.
CONSTANTS
    f1 = f1
    f2 = f2
    f3 = f3
    Leader = leader
    Followers = {f1, f2, f3}
    WriteReqs = {w1}
    ReadReqs = {r1}
    Keys = {"k"}
    Values = {"a"}
    NoValue = none
    Own = own
    Refused = refused
    FollowerLists <- TwoLists
    Strategies = {"w5r1", "w1r5", "w3r3", "other"}
    Wire <- PlainWire
    WireKey <- PlainKey
    MaxFailures = 1
    MaxReconfigs = 1
    DirectWriters = {}
    MaxDirect = 0
SPECIFICATION FairSpec
PROPERTIES EveryRequestAnswered ReplicasCatchUp
CHECK_DEADLOCK FALSE
