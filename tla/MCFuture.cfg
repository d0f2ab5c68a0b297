SPECIFICATION FairSpec
CONSTANTS
    c1 = c1
    c2 = c2
    Getters = {g}
    TimedGetters = {t1}
    Callbacks = {k}
    OtherCallbacks = {}
    Completers = {c1, c2}
    Offer <- MCOffer
    FAILED = FAILED
    NULL = NULL
INVARIANTS
    TypeOK
    WaitersReachable
    FirstAnswerWins
PROPERTIES
    ImplementsFuture
    LastWaiterTriggered
    TimedGetsReturn
CHECK_DEADLOCK FALSE
