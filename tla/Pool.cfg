\* Three workers, a ring of two slots, four connections, so that the ring fills,
\* wraps and main waits; a spurious wake-up; SIGINT anywhere or never.
\* The system rests when the clients have no more connections: no deadlock check.
CONSTANTS
    NumThreads = 3
    QueueSize = 2
    MaxConn = 4
    MaxSpurious = 1
    SigAt <- Anywhere
SPECIFICATION FairSpec
INVARIANTS
    HandedOutOnce
    NoLostWakeup
    NoUseAfterFree
PROPERTIES
    ImplementsFairQueue
    EveryConnectionHandled
    QuietShutdownEnds
CHECK_DEADLOCK FALSE
