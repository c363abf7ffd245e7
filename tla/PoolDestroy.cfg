\* No client at all, so that only the pool can be what hangs.
CONSTANTS
    NumThreads = 2
    QueueSize = 2
    MaxConn = 0
    MaxSpurious = 0
    SigAt <- InAccept
SPECIFICATION FairSpec
PROPERTIES
    DestroyEnds
CHECK_DEADLOCK FALSE
