SPECIFICATION Spec
CONSTANTS
    k1 = k1
    s1 = s1
    Threads = {t1, t2}
    Keys = {k1, k2}
    Slots = {s1}
    getSlot <- MCgetSlot
    maxSize = 2
    evictionPolicy = "LRU"
    MaxVersion = 1
    MaxLosses = 0
    ALL = ALL
    NULL = NULL
INVARIANT InvalidationsWin
