\* Three pages of ten units: a page holds up to three blocks, or one.
\* The model ends where the list is broken or the pages run out.
CONSTANTS
    NumPages = 3
    PageSize = 10
    ControlBlock = 1
    AllocHeader = 1
    FreeHeader = 3
    Sizes = {1, 4, 8}
SPECIFICATION Spec
INVARIANTS
    PagesTiled
    ListOrdered
    FullyCoalesced
PROPERTIES
    ImplementsHeap
CHECK_DEADLOCK FALSE
