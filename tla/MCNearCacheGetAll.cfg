SPECIFICATION GetAllSpec
CONSTANTS
    k1 = k1
    s1 = s1
    Threads = {t1, t2}
    Keys = {k1}
    Slots = {s1}
    getSlot <- MCgetSlot
    maxSize = 1
    evictionPolicy = "NONE"
    MaxVersion = 1
    MaxLosses = 0
    ALL = ALL
    NULL = NULL
INVARIANT RecordsFresh
