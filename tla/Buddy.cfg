\* Six pages: the root page, two bookkeeping pages of two entries, three data
\* pages of three size classes.  The model ends where the pages run out.
CONSTANTS
    NumPages = 6
    PageSize = 16
    AllocHeader = 1
    FreeHeader = 3
    EntriesPerPage = 2
    Sizes = {1, 7, 8}
    MaxLive = 3
SPECIFICATION Spec
INVARIANTS
    PagesTiled
    FreeListsRight
    BuddiesMerged
    PagesAccounted
    AllFreed
PROPERTIES
    ImplementsHeap
CHECK_DEADLOCK FALSE
