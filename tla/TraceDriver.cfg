\* Three pages of three words, four request ids, sizes that fill a page, that do
\* not, and one that is a word too large: frees in any order, the pool given up
\* and renewed, and the pages run out.  The program stops at its verdict.
CONSTANTS
    NumPages = 3
    PageWords = 3
    NumReq = 4
    Sizes = {1, 2, 3}
    NumValues = 3
SPECIFICATION TraceSpec
INVARIANTS
    FreeListIntact
    PoolReturned
    ContentsKept
    BytesCounted
    VerdictRight
PROPERTIES
    ImplementsStack
CHECK_DEADLOCK FALSE
