\* Batches of two for one worker, which is not enough, and for two.
CONSTANTS
    s1 = s1
    s2 = s2
    o1 = o1
    o2 = o2
    o3 = o3
    Syncs = {s1, s2}
    Asyncs = {o1, o2, o3}
    Mixes <- BothOrBurst
    Pools = {1, 2}
    BatchSize = 2
    PayTime = 1
    Visibility = 3
    MaxFaults = 1
SPECIFICATION FairSpec
INVARIANTS TypeOK ChargedOnce
PROPERTIES EveryOrderServed
CHECK_DEADLOCK FALSE
