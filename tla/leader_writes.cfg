\* Writes under reconfiguration, failing calls, a follower written directly
\* and values that the replication URL cuts short or gives another version.
CONSTANTS
    f1 = f1
    f2 = f2
    f3 = f3
    Leader = leader
    Followers = {f1, f2, f3}
    WriteReqs = {w1, w2}
    ReadReqs = {}
    Keys = {"k"}
    Values = {"a", "a#", "a&version=9"}
    NoValue = none
    Own = own
    Refused = refused
    FollowerLists <- AllLists
    Strategies = {"w5r1", "w1r5", "w3r3", "other"}
    Wire <- Unescaped
    WireKey <- PlainKey
    MaxFailures = 1
    MaxReconfigs = 1
    DirectWriters = {f3}
    MaxDirect = 1
SPECIFICATION Spec
SYMMETRY Symmetry
INVARIANTS TypeOK Provenance LeaderAhead AckedReplicated ErrorJustified
PROPERTY NeverBackward
CHECK_DEADLOCK FALSE
