\* One photo delivered three times to two workers of one slot, failing calls, an exit.
CONSTANTS
    Photos = {p1}
    Workers = {w1, w2}
    Slots = 1
    BatchSize = 1
    MaxReceives = 3
    MaxFailures = 2
    MaxExits = 1
SPECIFICATION FairSpec
INVARIANTS TypeOK FileNotLost RecordTruthful OrphanJustified
PROPERTY Settles
CHECK_DEADLOCK FALSE
