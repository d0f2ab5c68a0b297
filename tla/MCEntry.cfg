SPECIFICATION Spec
CONSTANTS
    UINT64 = 128
    Hashes = {1, 11, 63, 64, 99, 110, 111}
    Indexes = {0, 1, 10}
    Texts = {a, b}
    MinHeaders = 0
    MaxHeaders = 2
    Sizes = {0, 64}
    Buffers = {b0, b1}
    MaxPuts = 2
    NULL = NULL
INVARIANTS
    KeysTellEntriesApart
    EntriesSurviveTheMap
CHECK_DEADLOCK FALSE
