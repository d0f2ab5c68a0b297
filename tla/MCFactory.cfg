SPECIFICATION Spec
CONSTANTS
    Workers = {w1, w2}
    MaxCaches = 3
    MaxClients = 4
    NULL = NULL
INVARIANTS
    ConnectionsOwned
    CallsOnLiveClients
    ServesUntilReplaced
CHECK_DEADLOCK FALSE
