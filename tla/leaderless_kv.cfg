\* Three writes of a key of one coordinator, of a key of two, and of a key that is
\* another one with a version behind it; one failing call, a list installed again.
CONSTANTS
    n1 = n1
    n2 = n2
    n3 = n3
    k1 = k1
    k2 = k2
    Nodes = {n1, n2, n3}
    WriteReqs = {w1, w2, w3}
    forged = forged
    Keys = {k1, k2, forged}
    Values = {a}
    NoValue = none
    Own = own
    Refused = refused
    Wire <- Unescaped
    WireKey <- PlainKey
    PeerLists <- ShortLists
    MayWrite <- Mixed
    MaxFailures = 1
    MaxReconfigs = 1
SPECIFICATION FairSpec
INVARIANTS TypeOK CoordinatorReadsOwnWrites AckedEverywhere ErrorLeavesPrefix
PROPERTIES OnlyOwnSetGoesBackward SingleKeysConverge
CHECK_DEADLOCK FALSE
