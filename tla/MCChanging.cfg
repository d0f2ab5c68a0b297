SPECIFICATION Spec
CONSTANTS
    r0 = r0
    r2 = r2
    r3 = r3
    r4 = r4
    w1 = w1
    w2 = w2
    Workers = {w1, w2}
    body_partition_size = 2
    DEFAULT_PARTITION_SIZE = 16
    INT_MAX = 3
    UINT64 = 128
    BodyLen <- MCBodyLen
    JUNK = JUNK
    NULL = NULL
    Hashes = {7}
    Responses = {r0, r2, r3}
    Origin <- MCOrigin
SYMMETRY Symmetry
INVARIANTS
    InsertProgress
    HeaderDescribesResponse
    PartitionsAreSlices
    PublishedBodiesPresent
