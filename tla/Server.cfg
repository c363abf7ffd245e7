\* Two workers, a queue of one, two clients and three returns of accept, so that
\* it fails for want of a descriptor; a listing that just fits its buffer.
\* The system rests when the clients have no more to say: no deadlock check.
CONSTANTS
    Workers = {w1, w2}
    Capacity = 1
    MaxTasks = 3
    MaxConn = 2
    MaxGone = 1
    NumFds = 2
    SendBuf = 2
    Scripts <- MCScripts
    Files <- MCFiles
    SeatCounts = {6}
    FileMax = 9
    LineMax = 1023
    BufSize = 24
SPECIFICATION Spec
INVARIANTS
    OwnReplies
    EachFdOwned
PROPERTIES
    WaitsOnlyForClients
CHECK_DEADLOCK FALSE
