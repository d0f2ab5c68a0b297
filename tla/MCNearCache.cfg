SPECIFICATION FairSpec
CONSTANTS
    k1 = k1
    s1 = s1
    Threads = {t1, t2}
    Keys = {k1}
    Slots = {s1}
    getSlot <- MCgetSlot
    maxSize = 1
    evictionPolicy = "LRU"
    MaxVersion = 1
    MaxLosses = 1
    ALL = ALL
    NULL = NULL
INVARIANTS
    TypeOK
    RecordsFresh
    MarksGuardRecords
PROPERTY FreshInTheEnd
