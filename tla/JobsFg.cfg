\* A background job, and fg for it, with no keyboard signal and no failing fork.
CONSTANTS
    NumPids = 1
    MaxCmds = 2
    MaxKeys = 0
    Commands <- FgCommands
    ForkMayFail = FALSE
SPECIFICATION FairSpec
PROPERTIES
    FgEnds
CHECK_DEADLOCK FALSE
