SPECIFICATION Spec
CONSTANTS
    UINT64 = 128
    Hashes = {1}
    Indexes = {0}
    Texts = {a, b}
    MinHeaders = 1
    MaxHeaders = 1
    Sizes = {0}
    Buffers = {b0}
    MaxPuts = 1
    NULL = NULL
INVARIANT CopiesAreEqual
CHECK_DEADLOCK FALSE
