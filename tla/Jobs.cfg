CONSTANTS
    NumPids = 3
    MaxCmds = 3
    MaxKeys = 2
    Commands <- AllCommands
    ForkMayFail = TRUE
SPECIFICATION FairSpec
INVARIANTS
    TypeOK
    ChildrenAccounted
    ZombieNoticed
    StatusTruth
    AwaitedListed
PROPERTIES
    LowestJid
    PromptReturns
CHECK_DEADLOCK FALSE
