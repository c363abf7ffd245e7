\* Two pages, the second filled by one block, and the block in the root freed.
CONSTANTS
    NumPages = 2
    PageSize = 10
    ControlBlock = 1
    AllocHeader = 1
    FreeHeader = 3
    Sizes = {1, 4, 8}
SPECIFICATION Spec
INVARIANTS
    RootServes
CHECK_DEADLOCK FALSE
