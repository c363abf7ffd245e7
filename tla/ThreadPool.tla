----------------------------- MODULE ThreadPool -----------------------------
(* The thread pool of the seat-reservation server (server/skeleton/         *)
(* thread_pool.c), driven as http_server.c drives it: the main thread       *)
(* accepts connections and adds a task for each, NumThreads workers run     *)
(* them, and SIGINT makes the main thread run pool_destroy on top of        *)
(* whatever it was doing.                                                    *)
(*                                                                           *)
(* One action is one stretch of a thread's code between two points where    *)
(* another thread or the signal can be seen: taking the mutex, reading or    *)
(* writing shared state, broadcasting, giving the mutex back.                *)
EXTENDS Integers, Sequences, FiniteSets

CONSTANTS NumThreads,    \* pool->num_threads
          QueueSize,     \* pool->queue_size
          MaxConn,       \* bound: how many connections are ever accepted
          MaxSpurious,   \* bound: how many spurious wake-ups there are
          SigAt          \* the points of the main thread where SIGINT may come

MainPcs == {"accept", "lock", "check", "waiting", "relock", "insert",
            "signal", "unlock"}

ASSUME NumThreadsAssumption  == NumThreads \in Nat \ {0}
ASSUME QueueSizeAssumption   == QueueSize \in Nat \ {0}
ASSUME MaxConnAssumption     == MaxConn \in Nat
ASSUME MaxSpuriousAssumption == MaxSpurious \in Nat
ASSUME SigAtAssumption       == SigAt \subseteq MainPcs

Workers    == 0 .. NumThreads - 1
MainThread == NumThreads
Nobody     == -1
Threads    == Workers \cup {MainThread}

WorkerPcs  == {"loop", "lock", "check", "waiting", "relock", "woken", "take",
               "signal", "unlock", "run", "quit", "exited"}
HandlerPcs == {"none", "stop", "broadcast", "join", "free", "exited"}

VARIABLES
    lock,      \* the thread that holds pool->lock, or Nobody
    queue,     \* pool->queue: the connection in each slot, 0 if never written
    head,      \* pool->head
    length,    \* pool->length
    stop,      \* pool->stop
    mpc,       \* where the main thread is: http_server main and pool_add_task
    wpc,       \* where each worker is: thread_do_work
    arg,       \* the argument each worker took from the queue, 0 when none
    hpc, hidx, \* where the SIGINT handler is in pool_destroy, and its loop index
    accepted,  \* how many connections were accepted; the last is main's connfd
    done,      \* the connections whose handle_connection returned
    spurious   \* how many spurious wake-ups there were

poolVars == <<queue, head, length>>
vars == <<lock, queue, head, length, stop, mpc, wpc, arg, hpc, hidx,
          accepted, done, spurious>>

-----------------------------------------------------------------------------
(* The shapes the actions share.  A definition whose name begins with Wrong  *)
(* is a plausible mistake in the definition that follows it; no action uses  *)
(* it, it serves to see that a property notices the mistake.                 *)

Init ==
    /\ lock = Nobody
    /\ queue = [i \in 0 .. QueueSize - 1 |-> 0]
    /\ head = 0
    /\ length = 0
    /\ stop = 0
    /\ mpc = "accept"
    /\ wpc = [w \in Workers |-> "loop"]
    /\ arg = [w \in Workers |-> 0]
    /\ hpc = "none"
    /\ hidx = 0
    /\ accepted = 0
    /\ done = {}
    /\ spurious = 0

\* pthread_mutex_lock returns in thread t.
Acquire(t) == lock = Nobody /\ lock' = t

\* pthread_mutex_unlock, or the first half of pthread_cond_wait.
Release == lock' = Nobody

\* The program counters after a broadcast: who waits now wants the mutex back.
Wake(pc) == IF pc = "waiting" THEN "relock" ELSE pc
WrongBroadcastAdded(pcs) == pcs
BroadcastAdded(pcs) == [w \in Workers |-> Wake(pcs[w])]
WrongBroadcastRemoved(pc) == pc
BroadcastRemoved(pc) == Wake(pc)

\* The tests of the two wait loops.
WrongQueueFull == length > QueueSize
QueueFull  == length >= QueueSize
QueueEmpty == length <= 0

\* Slots of the ring.
WrongTailSlot == length % QueueSize
TailSlot == (head + length) % QueueSize
NextSlot == (head + 1) % QueueSize

-----------------------------------------------------------------------------
(* The main thread: the accept loop of http_server.c and pool_add_task.      *)
(* While the signal handler runs on it, the code below it does not.          *)

MainAt(pc) == hpc = "none" /\ mpc = pc

\* connfd = malloc; *connfd = accept(...)
Accept ==
    /\ MainAt("accept")
    /\ accepted < MaxConn
    /\ accepted' = accepted + 1
    /\ mpc' = "lock"
    /\ UNCHANGED <<lock, poolVars, stop, wpc, arg, hpc, hidx, done, spurious>>

\* pool_add_task takes the mutex, on entry or inside pthread_cond_wait.
AddLock ==
    /\ MainAt("lock") \/ MainAt("relock")
    /\ Acquire(MainThread)
    /\ mpc' = "check"
    /\ UNCHANGED <<poolVars, stop, wpc, arg, hpc, hidx, accepted, done,
                   spurious>>

\* while (length >= queue_size) pthread_cond_wait(&removed, &lock)
AddCheck ==
    /\ MainAt("check")
    /\ \/ QueueFull  /\ mpc' = "waiting" /\ Release
       \/ ~QueueFull /\ mpc' = "insert"  /\ UNCHANGED lock
    /\ UNCHANGED <<poolVars, stop, wpc, arg, hpc, hidx, accepted, done,
                   spurious>>

\* The task is written behind the last one and counted.
AddInsert ==
    /\ MainAt("insert")
    /\ queue' = [queue EXCEPT ![TailSlot] = accepted]
    /\ length' = length + 1
    /\ mpc' = "signal"
    /\ UNCHANGED <<lock, head, stop, wpc, arg, hpc, hidx, accepted, done,
                   spurious>>

\* pthread_cond_broadcast(&pool->added)
AddSignal ==
    /\ MainAt("signal")
    /\ wpc' = BroadcastAdded(wpc)
    /\ mpc' = "unlock"
    /\ UNCHANGED <<lock, poolVars, stop, arg, hpc, hidx, accepted, done,
                   spurious>>

AddUnlock ==
    /\ MainAt("unlock")
    /\ Release
    /\ mpc' = "accept"
    /\ UNCHANGED <<poolVars, stop, wpc, arg, hpc, hidx, accepted, done,
                   spurious>>

AddTask == AddLock \/ AddCheck \/ AddInsert \/ AddSignal \/ AddUnlock

-----------------------------------------------------------------------------
(* A worker: thread_do_work.                                                 *)

WorkerGoes(w, from, to) ==
    /\ wpc[w] = from
    /\ wpc' = [wpc EXCEPT ![w] = to]

\* while (pool->stop == 0): the flag is read without the mutex.
WorkLoop(w) ==
    /\ \/ stop = 0 /\ WorkerGoes(w, "loop", "lock")
       \/ stop # 0 /\ WorkerGoes(w, "loop", "exited")
    /\ UNCHANGED <<lock, poolVars, stop, mpc, arg, hpc, hidx, accepted, done,
                   spurious>>

\* The mutex, on entry to the loop body or inside pthread_cond_wait.
WorkLock(w) ==
    /\ \/ WorkerGoes(w, "lock", "check")
       \/ WorkerGoes(w, "relock", "woken")
    /\ Acquire(w)
    /\ UNCHANGED <<poolVars, stop, mpc, arg, hpc, hidx, accepted, done,
                   spurious>>

\* while (length <= 0) pthread_cond_wait(&added, &lock)
WorkCheck(w) ==
    /\ \/ QueueEmpty  /\ WorkerGoes(w, "check", "waiting") /\ Release
       \/ ~QueueEmpty /\ WorkerGoes(w, "check", "take")    /\ UNCHANGED lock
    /\ UNCHANGED <<poolVars, stop, mpc, arg, hpc, hidx, accepted, done,
                   spurious>>

\* A worker that woke up looks at stop before it looks at the queue again.
WrongSeesStop == FALSE
SeesStop == stop # 0
WorkWoken(w) ==
    /\ \/ SeesStop  /\ WorkerGoes(w, "woken", "quit")
       \/ ~SeesStop /\ WorkerGoes(w, "woken", "check")
    /\ UNCHANGED <<lock, poolVars, stop, mpc, arg, hpc, hidx, accepted, done,
                   spurious>>

\* unlock and return NULL
WorkQuit(w) ==
    /\ WorkerGoes(w, "quit", "exited")
    /\ Release
    /\ UNCHANGED <<poolVars, stop, mpc, arg, hpc, hidx, accepted, done,
                   spurious>>

\* The oldest task leaves the ring.
WorkTake(w) ==
    /\ WorkerGoes(w, "take", "signal")
    /\ arg' = [arg EXCEPT ![w] = queue[head]]
    /\ head' = NextSlot
    /\ length' = length - 1
    /\ UNCHANGED <<lock, queue, stop, mpc, hpc, hidx, accepted, done, spurious>>

\* pthread_cond_broadcast(&pool->removed)
WorkSignal(w) ==
    /\ WorkerGoes(w, "signal", "unlock")
    /\ mpc' = BroadcastRemoved(mpc)
    /\ UNCHANGED <<lock, poolVars, stop, arg, hpc, hidx, accepted, done,
                   spurious>>

WorkUnlock(w) ==
    /\ WorkerGoes(w, "unlock", "run")
    /\ Release
    /\ UNCHANGED <<poolVars, stop, mpc, arg, hpc, hidx, accepted, done,
                   spurious>>

\* function(argument) returns: the connection is handled.  It may never do so:
\* handle_connection reads from and writes to a client without a timeout.
WorkRun(w) ==
    /\ WorkerGoes(w, "run", "loop")
    /\ done' = done \cup {arg[w]}
    /\ arg' = [arg EXCEPT ![w] = 0]
    /\ UNCHANGED <<lock, poolVars, stop, mpc, hpc, hidx, accepted, spurious>>

\* What a worker does on its own, without a client.
InPool(w) ==
    \/ WorkLoop(w)  \/ WorkLock(w) \/ WorkCheck(w)  \/ WorkWoken(w)
    \/ WorkQuit(w)  \/ WorkTake(w) \/ WorkSignal(w) \/ WorkUnlock(w)

Work(w) == InPool(w) \/ WorkRun(w)

-----------------------------------------------------------------------------
(* pthread_cond_wait may return though nobody signalled.                     *)

SpuriousWakeup ==
    /\ spurious < MaxSpurious
    /\ spurious' = spurious + 1
    /\ \/ /\ mpc = "waiting"
          /\ mpc' = "relock"
          /\ UNCHANGED wpc
       \/ /\ \E w \in Workers : WorkerGoes(w, "waiting", "relock")
          /\ UNCHANGED mpc
    /\ UNCHANGED <<lock, poolVars, stop, arg, hpc, hidx, accepted, done>>

-----------------------------------------------------------------------------
(* SIGINT: shutdown_server of http_server.c runs pool_destroy on the main    *)
(* thread, without the mutex, wherever the main thread is.                   *)

HandlerAt(pc) == hpc = pc

SigInt ==
    /\ hpc = "none"
    /\ mpc \in SigAt
    /\ hpc' = "stop"
    /\ UNCHANGED <<lock, poolVars, stop, mpc, wpc, arg, hidx, accepted, done,
                   spurious>>

\* pool->stop = 1
DestroyStop ==
    /\ HandlerAt("stop")
    /\ stop' = 1
    /\ hpc' = "broadcast"
    /\ UNCHANGED <<lock, poolVars, mpc, wpc, arg, hidx, accepted, done,
                   spurious>>

\* A for loop of pool_destroy reached its last round.
WrongLastRound == hidx + 2 >= NumThreads
LastRound == hidx + 1 = NumThreads
AfterRound(this, next) ==
    /\ hpc'  = IF LastRound THEN next ELSE this
    /\ hidx' = IF LastRound THEN 0 ELSE hidx + 1

\* One of the num_threads broadcasts.
DestroyBroadcast ==
    /\ HandlerAt("broadcast")
    /\ wpc' = BroadcastAdded(wpc)
    /\ AfterRound("broadcast", "join")
    /\ UNCHANGED <<lock, poolVars, stop, mpc, arg, accepted, done, spurious>>

\* pthread_join(pool->threads[i]) returns once that thread has.
Joinable(w) == wpc[w] = "exited"
DestroyJoin ==
    /\ HandlerAt("join")
    /\ Joinable(hidx)
    /\ AfterRound("join", "free")
    /\ UNCHANGED <<lock, poolVars, stop, mpc, wpc, arg, accepted, done,
                   spurious>>

\* The mutex, the conditions, the queue and the pool are freed; the handler
\* unloads the seats, closes the socket and leaves with exit(0).
DestroyFree ==
    /\ HandlerAt("free")
    /\ hpc' = "exited"
    /\ UNCHANGED <<lock, poolVars, stop, mpc, wpc, arg, hidx, accepted, done,
                   spurious>>

Destroy == DestroyStop \/ DestroyBroadcast \/ DestroyJoin \/ DestroyFree

Next ==
    \/ Accept
    \/ AddTask
    \/ \E w \in Workers : Work(w)
    \/ SpuriousWakeup
    \/ SigInt
    \/ Destroy

Spec == Init /\ [][Next]_vars

\* The kernel runs every thread that can run.  No fairness for accept and for
\* the end of handle_connection (clients), for spurious wake-ups or for SIGINT.
Fairness ==
    /\ WF_vars(AddTask)
    /\ \A w \in Workers : WF_vars(InPool(w))
    /\ WF_vars(Destroy)

FairSpec == Spec /\ Fairness

-----------------------------------------------------------------------------
(* Properties.                                                               *)

\* Type invariant: the ring's indices stay inside the malloc'd queue.
TypeOK ==
    /\ lock \in {Nobody} \cup Threads
    /\ queue \in [0 .. QueueSize - 1 -> 0 .. MaxConn]
    /\ head \in 0 .. QueueSize - 1
    /\ length \in 0 .. QueueSize
    /\ stop \in {0, 1}
    /\ mpc \in MainPcs
    /\ wpc \in [Workers -> WorkerPcs]
    /\ arg \in [Workers -> 0 .. MaxConn]
    /\ hpc \in HandlerPcs
    /\ hidx \in 0 .. NumThreads - 1
    /\ accepted \in 0 .. MaxConn
    /\ done \subseteq 1 .. MaxConn
    /\ spurious \in 0 .. MaxSpurious

\* How many connections pool_add_task has put into the ring.
Inserted ==
    IF mpc \in {"lock", "check", "waiting", "relock", "insert"}
    THEN accepted - 1 ELSE accepted

\* The connections in the ring, the oldest first.
RingItems == [i \in 1 .. length |-> queue[(head + i - 1) % QueueSize]]

\* No connection is lost, run twice or overwritten in the ring, whatever the
\* interleaving: those put into the ring and no longer in it are exactly the
\* ones a worker runs or has finished, no two workers run the same one, and
\* none runs again after it is done (pool_add_task against thread_do_work).
HandedOutOnce ==
    /\ done \cup {arg[w] : w \in {x \in Workers : arg[x] # 0}}
         = 1 .. Inserted - length
    /\ \A w \in Workers : arg[w] # 0 =>
          /\ arg[w] \notin done
          /\ \A x \in Workers \ {w} : arg[x] # arg[w]

\* No wake-up is lost: main sleeps on removed only while the ring is full, and
\* a worker sleeps on added only while it is empty, except between the change
\* of length and the broadcast that follows it.
NoLostWakeup ==
    /\ mpc = "waiting" =>
          length = QueueSize \/ \E w \in Workers : wpc[w] = "signal"
    /\ \A w \in Workers : wpc[w] = "waiting" =>
          length = 0 \/ mpc = "signal"

\* pool_destroy frees the pool, and shutdown_server the seats, only when no
\* worker can touch them again.
NoUseAfterFree ==
    hpc \in {"free", "exited"} => \A w \in Workers : wpc[w] = "exited"

\* The pool is the bounded FIFO queue of WorkQueue, up to when a task counts
\* as submitted (it is in the ring) and as started (it left the ring).
Queue == INSTANCE WorkQueue WITH
    Capacity  <- QueueSize,
    MaxTasks  <- MaxConn,
    submitted <- Inserted,
    items     <- RingItems,
    holding   <- arg,
    closed    <- hpc # "none"

\* Every step of the pool is a step of the abstract queue or none: tasks start
\* in the order they were accepted and never exceed the capacity.
ImplementsQueue == Queue!Spec

\* The abstract queue's fairness holds too: until SIGINT a queued task is not
\* left beside idle workers.
ImplementsFairQueue == Queue!FairSpec

\* Every accepted connection gets to its handle_connection in the end, unless
\* SIGINT comes or every worker is in one that never returns.
EveryConnectionHandled ==
    \A c \in 1 .. MaxConn :
        (accepted >= c) ~> (\/ c \in done \/ hpc # "none"
                            \/ \E w \in Workers : wpc[w] = "run" /\ arg[w] = c
                            \/ [](\A w \in Workers : wpc[w] = "run"))

\* pool_destroy ends unless, at the time stop is set, a worker is between its
\* unlocked look at stop and its wait, or main holds the mutex, or a worker is
\* in a handle_connection that never returns, so that its thread is not joined:
\* the pool can hang in these three ways only.
QuietShutdownEnds ==
    (/\ hpc = "broadcast" /\ hidx = 0
     /\ \A w \in Workers : wpc[w] \notin {"lock", "check"}
     /\ lock # MainThread)
       ~> (hpc = "exited" \/ [](\E w \in Workers : wpc[w] = "run"))

\* "Destroy the threadpool, free all memory, destroy threads, etc"
\* (thread_pool.c:97): once SIGINT is taken, pool_destroy returns.
DestroyEnds == (hpc = "stop") ~> (hpc = "exited")

-----------------------------------------------------------------------------
(* The inductive invariant behind the safety properties.                     *)

MainHolds   == {"check", "insert", "signal", "unlock"}
WorkerHolds == {"check", "woken", "take", "signal", "unlock", "quit"}
HasTask     == {"signal", "unlock", "run"}

\* pool->lock excludes: a thread is between lock and unlock iff it owns it.
LockInv ==
    /\ mpc \in MainHolds <=> lock = MainThread
    /\ \A w \in Workers : wpc[w] \in WorkerHolds <=> lock = w

\* What a wait loop's test found still holds when the ring is changed.
GuardInv ==
    /\ mpc = "insert" => length < QueueSize
    /\ mpc \in {"lock", "check", "waiting", "relock", "insert"} => accepted > 0
    /\ \A w \in Workers : wpc[w] = "take" => length > 0
    /\ \A w \in Workers : wpc[w] \in HasTask <=> arg[w] # 0

\* The ring holds the last length connections that were put into it, in order.
RingInv ==
    /\ length <= Inserted
    /\ \A i \in 0 .. length - 1 :
          queue[(head + i) % QueueSize] = Inserted - length + 1 + i

\* pool_destroy has joined the workers it has passed, and only after stop.
JoinInv ==
    /\ hpc = "join" => \A w \in Workers : w < hidx => wpc[w] = "exited"
    /\ NoUseAfterFree

\* All of it, and the properties that depend on it: inductive.
IInv ==
    /\ TypeOK
    /\ LockInv
    /\ GuardInv
    /\ RingInv
    /\ HandedOutOnce
    /\ NoLostWakeup
    /\ JoinInv
=============================================================================
