\* Two posts against a delete and a post against two deletes, failing calls and exits.
CONSTANTS
    p1 = p1
    p2 = p2
    d1 = d1
    d2 = d2
    Photos = {p1, p2}
    Deletes = {d1, d2}
    Mixes <- PostsAndDeletes
    Tasks = {t1, t2}
    Albums = {a1}
    MaxFaults = 2
SPECIFICATION FairSpec
INVARIANTS TypeOK SeqFollowsRealTime DeletedStaysDeleted CompletedHasFile OrphanJustified
PROPERTY Settles
CHECK_DEADLOCK FALSE
