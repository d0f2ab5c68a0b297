SPECIFICATION FairSpec
CONSTANTS
    r0 = r0
    r2 = r2
    r3 = r3
    r4 = r4
    w1 = w1
    w2 = w2
    Workers = {w1, w2}
    body_partition_size = 0
    DEFAULT_PARTITION_SIZE = 3
    INT_MAX = 3
    UINT64 = 128
    BodyLen <- MCBodyLen
    JUNK = JUNK
    NULL = NULL
    Hashes = {7}
    Responses = {r4}
    Origin <- MCOrigin
INVARIANTS
    TypeOK
    ReadsAreExact
PROPERTIES
    ImplementsResponseCache
    HandlersReturn
