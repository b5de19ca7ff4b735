\* README's delete order: a delete on another task than the upload.
CONSTANTS
    p1 = p1
    p2 = p2
    d1 = d1
    d2 = d2
    Photos = {p1}
    Deletes = {d1}
    Mixes <- OneOfEach
    Tasks = {t1, t2}
    Albums = {a1}
    MaxFaults = 0
SPECIFICATION Spec
INVARIANT NoOrphans
CHECK_DEADLOCK FALSE
