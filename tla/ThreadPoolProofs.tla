-------------------------- MODULE ThreadPoolProofs --------------------------
(* Proofs about ThreadPool for every number of threads, queue size, number  *)
(* of connections and spurious wake-ups, with SIGINT at any point.           *)
EXTENDS ThreadPool, SequenceTheorems, TLAPS

USE NumThreadsAssumption, QueueSizeAssumption, MaxConnAssumption,
    MaxSpuriousAssumption, SigAtAssumption

-----------------------------------------------------------------------------
(* The ring's arithmetic.                                                    *)

\* The slot k places behind slot h wraps at most once.
LEMMA SlotWraps ==
    ASSUME NEW h \in 0 .. QueueSize - 1, NEW k \in 0 .. QueueSize
    PROVE  /\ (h + k) % QueueSize =
                  IF h + k < QueueSize THEN h + k ELSE h + k - QueueSize
           /\ (h + k) % QueueSize \in 0 .. QueueSize - 1
  BY SMT

\* Places less than QueueSize apart are different slots.
LEMMA SlotsDiffer ==
    ASSUME NEW h \in 0 .. QueueSize - 1,
           NEW i \in 0 .. QueueSize - 1, NEW k \in 0 .. QueueSize - 1,
           i # k
    PROVE  (h + i) % QueueSize # (h + k) % QueueSize
  <1>1. i \in 0 .. QueueSize /\ k \in 0 .. QueueSize
    OBVIOUS
  <1>2. (h + i) % QueueSize = IF h + i < QueueSize THEN h + i ELSE h + i - QueueSize
    BY <1>1, SlotWraps
  <1>3. (h + k) % QueueSize = IF h + k < QueueSize THEN h + k ELSE h + k - QueueSize
    BY <1>1, SlotWraps
  <1> QED
    BY <1>2, <1>3

\* Advancing the head by one slot shifts every place by one.
LEMMA SlotShift ==
    ASSUME NEW h \in 0 .. QueueSize - 1, NEW i \in 0 .. QueueSize - 1
    PROVE  (((h + 1) % QueueSize) + i) % QueueSize = (h + (i + 1)) % QueueSize
  <1>1. (h + 1) % QueueSize = IF h + 1 < QueueSize THEN h + 1 ELSE h + 1 - QueueSize
    BY SlotWraps, 1 \in 0 .. QueueSize
  <1>2. i + 1 \in 0 .. QueueSize
    BY SMT
  <1>3. (h + (i + 1)) % QueueSize =
            IF h + (i + 1) < QueueSize THEN h + (i + 1) ELSE h + (i + 1) - QueueSize
    BY <1>2, SlotWraps
  <1>4. (h + 1) % QueueSize \in 0 .. QueueSize - 1
    BY SlotWraps, 1 \in 0 .. QueueSize
  <1>5. (((h + 1) % QueueSize) + i) % QueueSize =
            IF ((h + 1) % QueueSize) + i < QueueSize
            THEN ((h + 1) % QueueSize) + i
            ELSE ((h + 1) % QueueSize) + i - QueueSize
    BY <1>4, SlotWraps, i \in 0 .. QueueSize
  <1> QED
    BY <1>1, <1>3, <1>5

-----------------------------------------------------------------------------
(* Type correctness.                                                         *)

\* The types hold at first.
LEMMA TypeInit == Init => TypeOK
  BY DEF Init, TypeOK, Threads, Workers, MainThread, Nobody, MainPcs,
         WorkerPcs, HandlerPcs

\* Every step keeps the types.
LEMMA TypeStep ==
    ASSUME TypeOK, GuardInv, Next
    PROVE  TypeOK'
  <1> USE DEF TypeOK, Threads, Workers, MainThread, Nobody, MainPcs,
              WorkerPcs, HandlerPcs, poolVars
  <1>1. CASE Accept
    BY <1>1 DEF Accept, MainAt
  <1>2. CASE AddLock
    BY <1>2 DEF AddLock, MainAt, Acquire
  <1>3. CASE AddCheck
    BY <1>3 DEF AddCheck, MainAt, Release
  <1>4. CASE AddInsert
    <2>1. length + 1 \in 0 .. QueueSize
      BY <1>4 DEF AddInsert, MainAt, GuardInv
    <2> QED
      BY <1>4, <2>1 DEF AddInsert, MainAt
  <1>5. CASE AddSignal
    BY <1>5 DEF AddSignal, MainAt, BroadcastAdded, Wake
  <1>6. CASE AddUnlock
    BY <1>6 DEF AddUnlock, MainAt, Release
  <1>7. ASSUME NEW w \in Workers, WorkLoop(w) PROVE TypeOK'
    BY <1>7 DEF WorkLoop, WorkerGoes
  <1>8. ASSUME NEW w \in Workers, WorkLock(w) PROVE TypeOK'
    BY <1>8 DEF WorkLock, WorkerGoes, Acquire
  <1>9. ASSUME NEW w \in Workers, WorkCheck(w) PROVE TypeOK'
    BY <1>9 DEF WorkCheck, WorkerGoes, Release
  <1>10. ASSUME NEW w \in Workers, WorkWoken(w) PROVE TypeOK'
    BY <1>10 DEF WorkWoken, WorkerGoes
  <1>11. ASSUME NEW w \in Workers, WorkQuit(w) PROVE TypeOK'
    BY <1>11 DEF WorkQuit, WorkerGoes, Release
  <1>12. ASSUME NEW w \in Workers, WorkTake(w) PROVE TypeOK'
    <2>1. NextSlot \in 0 .. QueueSize - 1
      BY SlotWraps, 1 \in 0 .. QueueSize DEF NextSlot
    <2>2. length - 1 \in 0 .. QueueSize
      BY <1>12 DEF GuardInv, WorkTake, WorkerGoes
    <2> QED
      BY <1>12, <2>1, <2>2 DEF WorkTake, WorkerGoes
  <1>13. ASSUME NEW w \in Workers, WorkSignal(w) PROVE TypeOK'
    BY <1>13 DEF WorkSignal, WorkerGoes, BroadcastRemoved, Wake
  <1>14. ASSUME NEW w \in Workers, WorkUnlock(w) PROVE TypeOK'
    BY <1>14 DEF WorkUnlock, WorkerGoes, Release
  <1>15. ASSUME NEW w \in Workers, WorkRun(w) PROVE TypeOK'
    <2>1. arg[w] \in 1 .. MaxConn
      <3>1. arg[w] # 0
        BY <1>15 DEF WorkRun, WorkerGoes, GuardInv, HasTask
      <3>2. arg[w] \in 0 .. MaxConn
        OBVIOUS
      <3> QED
        BY <3>1, <3>2
    <2>2. done' \subseteq 1 .. MaxConn
      BY <1>15, <2>1 DEF WorkRun
    <2>3. arg' \in [Workers -> 0 .. MaxConn] /\ wpc' \in [Workers -> WorkerPcs]
      BY <1>15 DEF WorkRun, WorkerGoes
    <2> QED
      BY <1>15, <2>2, <2>3 DEF WorkRun
  <1>16. CASE SpuriousWakeup
    BY <1>16, SMTT(30) DEF SpuriousWakeup, WorkerGoes
  <1>17. CASE SigInt
    BY <1>17 DEF SigInt
  <1>18. CASE DestroyStop
    BY <1>18 DEF DestroyStop, HandlerAt
  <1>19. CASE DestroyBroadcast
    BY <1>19 DEF DestroyBroadcast, HandlerAt, AfterRound, LastRound,
                 BroadcastAdded, Wake
  <1>20. CASE DestroyJoin
    BY <1>20 DEF DestroyJoin, HandlerAt, AfterRound, LastRound
  <1>21. CASE DestroyFree
    BY <1>21 DEF DestroyFree, HandlerAt
  <1> QED
    BY <1>1, <1>2, <1>3, <1>4, <1>5, <1>6, <1>7, <1>8, <1>9, <1>10, <1>11,
       <1>12, <1>13, <1>14, <1>15, <1>16, <1>17, <1>18, <1>19, <1>20, <1>21
       DEF Next, AddTask, Work, InPool, Destroy

-----------------------------------------------------------------------------
(* The mutex excludes.                                                       *)

\* Every step keeps the mutexes and who holds them.
LEMMA LockStep ==
    ASSUME TypeOK, LockInv, Next
    PROVE  LockInv'
  <1> USE DEF TypeOK, LockInv, Threads, Workers, MainThread, Nobody, MainHolds,
              WorkerHolds, MainPcs, WorkerPcs, poolVars
  <1>1. CASE Accept
    BY <1>1 DEF Accept, MainAt
  <1>2. CASE AddLock
    BY <1>2 DEF AddLock, MainAt, Acquire
  <1>3. CASE AddCheck
    BY <1>3 DEF AddCheck, MainAt, Release
  <1>4. CASE AddInsert
    BY <1>4 DEF AddInsert, MainAt
  <1>5. CASE AddSignal
    BY <1>5 DEF AddSignal, MainAt, BroadcastAdded, Wake
  <1>6. CASE AddUnlock
    BY <1>6 DEF AddUnlock, MainAt, Release
  <1>7. ASSUME NEW w \in Workers, WorkLoop(w) PROVE LockInv'
    BY <1>7 DEF WorkLoop, WorkerGoes
  <1>8. ASSUME NEW w \in Workers, WorkLock(w) PROVE LockInv'
    BY <1>8 DEF WorkLock, WorkerGoes, Acquire
  <1>9. ASSUME NEW w \in Workers, WorkCheck(w) PROVE LockInv'
    BY <1>9 DEF WorkCheck, WorkerGoes, Release
  <1>10. ASSUME NEW w \in Workers, WorkWoken(w) PROVE LockInv'
    BY <1>10 DEF WorkWoken, WorkerGoes
  <1>11. ASSUME NEW w \in Workers, WorkQuit(w) PROVE LockInv'
    BY <1>11 DEF WorkQuit, WorkerGoes, Release
  <1>12. ASSUME NEW w \in Workers, WorkTake(w) PROVE LockInv'
    BY <1>12 DEF WorkTake, WorkerGoes
  <1>13. ASSUME NEW w \in Workers, WorkSignal(w) PROVE LockInv'
    BY <1>13 DEF WorkSignal, WorkerGoes, BroadcastRemoved, Wake
  <1>14. ASSUME NEW w \in Workers, WorkUnlock(w) PROVE LockInv'
    BY <1>14 DEF WorkUnlock, WorkerGoes, Release
  <1>15. ASSUME NEW w \in Workers, WorkRun(w) PROVE LockInv'
    BY <1>15 DEF WorkRun, WorkerGoes
  <1>16. CASE SpuriousWakeup
    BY <1>16 DEF SpuriousWakeup, WorkerGoes
  <1>17. CASE SigInt
    BY <1>17 DEF SigInt
  <1>18. CASE DestroyStop
    BY <1>18 DEF DestroyStop, HandlerAt
  <1>19. CASE DestroyBroadcast
    BY <1>19 DEF DestroyBroadcast, HandlerAt, AfterRound, LastRound, BroadcastAdded, Wake
  <1>20. CASE DestroyJoin
    BY <1>20 DEF DestroyJoin, HandlerAt, AfterRound, LastRound, Joinable
  <1>21. CASE DestroyFree
    BY <1>21 DEF DestroyFree, HandlerAt
  <1> QED
    BY <1>1, <1>2, <1>3, <1>4, <1>5, <1>6, <1>7, <1>8, <1>9, <1>10, <1>11, <1>12, <1>13, <1>14, <1>15, <1>16, <1>17, <1>18, <1>19, <1>20, <1>21
       DEF Next, AddTask, Work, InPool, Destroy

\* The slot at the head holds the oldest connection that was not handed out.
LEMMA HeadItem ==
    ASSUME TypeOK, GuardInv, RingInv, length > 0
    PROVE  /\ Inserted \in 0 .. MaxConn
           /\ queue[head] = Inserted - length + 1
           /\ queue[head] > 0
  <1>1. Inserted \in 0 .. MaxConn
    BY DEF TypeOK, GuardInv, Inserted
  <1>2. (head + 0) % QueueSize = head
    <2>1. head \in 0 .. QueueSize - 1 /\ 0 \in 0 .. QueueSize
      BY DEF TypeOK
    <2>2. (head + 0) % QueueSize =
              IF head + 0 < QueueSize THEN head + 0 ELSE head + 0 - QueueSize
      BY <2>1, SlotWraps
    <2> QED
      BY <2>1, <2>2
  <1>3. queue[(head + 0) % QueueSize] = Inserted - length + 1 + 0
    <2>1. 0 \in 0 .. length - 1
      BY DEF TypeOK
    <2> QED
      BY <2>1 DEF RingInv
  <1> QED
    BY <1>1, <1>2, <1>3 DEF RingInv, TypeOK

\* Every step keeps what a thread has checked while it holds the mutex.
LEMMA GuardStep ==
    ASSUME TypeOK, LockInv, GuardInv, RingInv, Next
    PROVE  GuardInv'
  <1> USE DEF TypeOK, LockInv, GuardInv, Threads, Workers, MainThread, Nobody,
              MainHolds, WorkerHolds, HasTask, poolVars, MainPcs, WorkerPcs
  <1>1. CASE Accept
    BY <1>1 DEF Accept, MainAt
  <1>2. CASE AddLock
    BY <1>2 DEF AddLock, MainAt, Acquire
  <1>3. CASE AddCheck
    BY <1>3 DEF AddCheck, MainAt, Release, QueueFull
  <1>4. CASE AddInsert
    BY <1>4 DEF AddInsert, MainAt
  <1>5. CASE AddSignal
    BY <1>5 DEF AddSignal, MainAt, BroadcastAdded, Wake
  <1>6. CASE AddUnlock
    BY <1>6 DEF AddUnlock, MainAt, Release
  <1>7. ASSUME NEW w \in Workers, WorkLoop(w) PROVE GuardInv'
    BY <1>7 DEF WorkLoop, WorkerGoes
  <1>8. ASSUME NEW w \in Workers, WorkLock(w) PROVE GuardInv'
    BY <1>8 DEF WorkLock, WorkerGoes, Acquire
  <1>9. ASSUME NEW w \in Workers, WorkCheck(w) PROVE GuardInv'
    <2>1. wpc'[w] = "take" => length > 0
      BY <1>9 DEF WorkCheck, WorkerGoes, QueueEmpty
    <2>2. \A x \in Workers : wpc'[x] = "take" => length > 0
      BY <1>9, <2>1 DEF WorkCheck, WorkerGoes
    <2>3. \A x \in Workers : wpc'[x] \in HasTask <=> arg[x] # 0
      BY <1>9 DEF WorkCheck, WorkerGoes
    <2> QED
      BY <1>9, <2>2, <2>3 DEF WorkCheck
  <1>10. ASSUME NEW w \in Workers, WorkWoken(w) PROVE GuardInv'
    BY <1>10 DEF WorkWoken, WorkerGoes
  <1>11. ASSUME NEW w \in Workers, WorkQuit(w) PROVE GuardInv'
    BY <1>11 DEF WorkQuit, WorkerGoes, Release
  <1>12. ASSUME NEW w \in Workers, WorkTake(w) PROVE GuardInv'
    <2>1. queue[head] # 0
      BY <1>12, HeadItem DEF WorkTake, WorkerGoes
    <2>2. mpc # "insert" /\ \A x \in Workers : wpc'[x] # "take"
      BY <1>12 DEF WorkTake, WorkerGoes
    <2>3. \A x \in Workers : wpc'[x] \in HasTask <=> arg'[x] # 0
      BY <1>12, <2>1 DEF WorkTake, WorkerGoes
    <2> QED
      BY <1>12, <2>2, <2>3 DEF WorkTake
  <1>13. ASSUME NEW w \in Workers, WorkSignal(w) PROVE GuardInv'
    BY <1>13 DEF WorkSignal, WorkerGoes, BroadcastRemoved, Wake
  <1>14. ASSUME NEW w \in Workers, WorkUnlock(w) PROVE GuardInv'
    BY <1>14 DEF WorkUnlock, WorkerGoes, Release
  <1>15. ASSUME NEW w \in Workers, WorkRun(w) PROVE GuardInv'
    BY <1>15 DEF WorkRun, WorkerGoes
  <1>16. CASE SpuriousWakeup
    BY <1>16 DEF SpuriousWakeup, WorkerGoes
  <1>17. CASE SigInt
    BY <1>17 DEF SigInt
  <1>18. CASE DestroyStop
    BY <1>18 DEF DestroyStop, HandlerAt
  <1>19. CASE DestroyBroadcast
    BY <1>19 DEF DestroyBroadcast, HandlerAt, AfterRound, LastRound, BroadcastAdded, Wake
  <1>20. CASE DestroyJoin
    BY <1>20 DEF DestroyJoin, HandlerAt, AfterRound, LastRound, Joinable
  <1>21. CASE DestroyFree
    BY <1>21 DEF DestroyFree, HandlerAt
  <1> QED
    BY <1>1, <1>2, <1>3, <1>4, <1>5, <1>6, <1>7, <1>8, <1>9, <1>10, <1>11, <1>12, <1>13, <1>14, <1>15, <1>16, <1>17, <1>18, <1>19, <1>20, <1>21
       DEF Next, AddTask, Work, InPool, Destroy

\* Every step keeps what pool_destroy knows of the workers it has joined.
LEMMA JoinStep ==
    ASSUME TypeOK, JoinInv, Next
    PROVE  JoinInv'
  <1> USE DEF TypeOK, JoinInv, NoUseAfterFree, Workers, MainPcs, WorkerPcs,
              HandlerPcs, poolVars
  <1>1. CASE Accept
    BY <1>1 DEF Accept, MainAt
  <1>2. CASE AddLock
    BY <1>2 DEF AddLock, MainAt, Acquire
  <1>3. CASE AddCheck
    BY <1>3 DEF AddCheck, MainAt, Release
  <1>4. CASE AddInsert
    BY <1>4 DEF AddInsert, MainAt
  <1>5. CASE AddSignal
    BY <1>5 DEF AddSignal, MainAt, BroadcastAdded, Wake
  <1>6. CASE AddUnlock
    BY <1>6 DEF AddUnlock, MainAt, Release
  <1>7. ASSUME NEW w \in Workers, WorkLoop(w) PROVE JoinInv'
    BY <1>7 DEF WorkLoop, WorkerGoes
  <1>8. ASSUME NEW w \in Workers, WorkLock(w) PROVE JoinInv'
    BY <1>8 DEF WorkLock, WorkerGoes, Acquire
  <1>9. ASSUME NEW w \in Workers, WorkCheck(w) PROVE JoinInv'
    BY <1>9 DEF WorkCheck, WorkerGoes, Release
  <1>10. ASSUME NEW w \in Workers, WorkWoken(w) PROVE JoinInv'
    BY <1>10 DEF WorkWoken, WorkerGoes
  <1>11. ASSUME NEW w \in Workers, WorkQuit(w) PROVE JoinInv'
    BY <1>11 DEF WorkQuit, WorkerGoes, Release
  <1>12. ASSUME NEW w \in Workers, WorkTake(w) PROVE JoinInv'
    BY <1>12 DEF WorkTake, WorkerGoes
  <1>13. ASSUME NEW w \in Workers, WorkSignal(w) PROVE JoinInv'
    BY <1>13 DEF WorkSignal, WorkerGoes, BroadcastRemoved, Wake
  <1>14. ASSUME NEW w \in Workers, WorkUnlock(w) PROVE JoinInv'
    BY <1>14 DEF WorkUnlock, WorkerGoes, Release
  <1>15. ASSUME NEW w \in Workers, WorkRun(w) PROVE JoinInv'
    BY <1>15 DEF WorkRun, WorkerGoes
  <1>16. CASE SpuriousWakeup
    BY <1>16 DEF SpuriousWakeup, WorkerGoes
  <1>17. CASE SigInt
    BY <1>17 DEF SigInt
  <1>18. CASE DestroyStop
    BY <1>18 DEF DestroyStop, HandlerAt
  <1>19. CASE DestroyBroadcast
    BY <1>19 DEF DestroyBroadcast, HandlerAt, AfterRound, LastRound, BroadcastAdded, Wake
  <1>20. CASE DestroyJoin
    BY <1>20 DEF DestroyJoin, HandlerAt, AfterRound, LastRound, Joinable
  <1>21. CASE DestroyFree
    BY <1>21 DEF DestroyFree, HandlerAt
  <1> QED
    BY <1>1, <1>2, <1>3, <1>4, <1>5, <1>6, <1>7, <1>8, <1>9, <1>10, <1>11, <1>12, <1>13, <1>14, <1>15, <1>16, <1>17, <1>18, <1>19, <1>20, <1>21
       DEF Next, AddTask, Work, InPool, Destroy

-----------------------------------------------------------------------------
(* The ring holds a window of the accepted connections.                      *)

\* Only AddInsert and WorkTake change the ring or the count of insertions.
RingUnchanged ==
    /\ queue' = queue
    /\ head' = head
    /\ length' = length
    /\ Inserted' = Inserted

HandsUnchanged == arg' = arg /\ done' = done

\* Only the insertion and a worker's taking change the ring, and only a
\* worker's taking and running change what workers have in hand.
LEMMA RingFrame ==
    ASSUME TypeOK, GuardInv, Next
    PROVE  \/ RingUnchanged /\ HandsUnchanged
           \/ AddInsert
           \/ \E w \in Workers : WorkTake(w)
           \/ \E w \in Workers : WorkRun(w) /\ RingUnchanged
  <1> USE DEF TypeOK, Workers, MainPcs, poolVars, RingUnchanged,
              HandsUnchanged, Inserted
  <1>1. CASE Accept
    BY <1>1 DEF Accept, MainAt
  <1>2. CASE AddLock
    BY <1>2 DEF AddLock, MainAt
  <1>3. CASE AddCheck
    BY <1>3 DEF AddCheck, MainAt
  <1>4. CASE AddSignal
    BY <1>4 DEF AddSignal, MainAt, Wake
  <1>5. CASE AddUnlock
    BY <1>5 DEF AddUnlock, MainAt
  <1>6. ASSUME NEW w \in Workers, WorkLoop(w) PROVE RingUnchanged /\ HandsUnchanged
    BY <1>6 DEF WorkLoop
  <1>7. ASSUME NEW w \in Workers, WorkLock(w) PROVE RingUnchanged /\ HandsUnchanged
    BY <1>7 DEF WorkLock
  <1>8. ASSUME NEW w \in Workers, WorkCheck(w) PROVE RingUnchanged /\ HandsUnchanged
    BY <1>8 DEF WorkCheck
  <1>9. ASSUME NEW w \in Workers, WorkWoken(w) PROVE RingUnchanged /\ HandsUnchanged
    BY <1>9 DEF WorkWoken
  <1>10. ASSUME NEW w \in Workers, WorkQuit(w) PROVE RingUnchanged /\ HandsUnchanged
    BY <1>10 DEF WorkQuit
  <1>11. ASSUME NEW w \in Workers, WorkSignal(w) PROVE RingUnchanged /\ HandsUnchanged
    BY <1>11 DEF WorkSignal, BroadcastRemoved, Wake
  <1>12. ASSUME NEW w \in Workers, WorkUnlock(w) PROVE RingUnchanged /\ HandsUnchanged
    BY <1>12 DEF WorkUnlock
  <1>13. ASSUME NEW w \in Workers, WorkRun(w) PROVE RingUnchanged
    BY <1>13 DEF WorkRun
  <1>14. CASE SpuriousWakeup
    BY <1>14 DEF SpuriousWakeup
  <1>15. CASE SigInt
    BY <1>15 DEF SigInt
  <1>16. CASE DestroyStop
    BY <1>16 DEF DestroyStop
  <1>17. CASE DestroyBroadcast
    BY <1>17 DEF DestroyBroadcast, Wake
  <1>18. CASE DestroyJoin
    BY <1>18 DEF DestroyJoin
  <1>19. CASE DestroyFree
    BY <1>19 DEF DestroyFree
  <1> QED
    BY <1>1, <1>2, <1>3, <1>4, <1>5, <1>6, <1>7, <1>8, <1>9, <1>10, <1>11, <1>12, <1>13, <1>14, <1>15, <1>16, <1>17, <1>18, <1>19
       DEF Next, AddTask, Work, InPool, Destroy

\* The ring keeps the last connections in order.
LEMMA RingStep ==
    ASSUME TypeOK, GuardInv, RingInv, Next
    PROVE  RingInv'
  <1>1. CASE RingUnchanged
    BY <1>1 DEF RingInv, RingUnchanged
  <1>2. CASE AddInsert
    <2>1. /\ length \in 0 .. QueueSize - 1
          /\ length' = length + 1
          /\ head' = head
          /\ head \in 0 .. QueueSize - 1
      BY <1>2 DEF AddInsert, MainAt, GuardInv, TypeOK
    <2>2. Inserted = accepted - 1 /\ Inserted' = accepted /\ accepted \in Nat
      BY <1>2 DEF AddInsert, MainAt, Inserted, TypeOK
    <2>3. length' <= Inserted'
      BY <2>1, <2>2 DEF RingInv
    <2>4. TailSlot \in 0 .. QueueSize - 1 /\ queue' = [queue EXCEPT ![TailSlot] = accepted]
      BY <1>2, <2>1, SlotWraps DEF AddInsert, TailSlot
    <2>5. ASSUME NEW i \in 0 .. length' - 1
          PROVE  queue'[(head' + i) % QueueSize] = Inserted' - length' + 1 + i
      <3>1. CASE i = length
        <4>1. queue'[TailSlot] = accepted
          BY <2>4 DEF TypeOK
        <4> QED
          BY <2>1, <2>2, <3>1, <4>1 DEF TailSlot
      <3>2. CASE i # length
        <4>1. i \in 0 .. length - 1 /\ i \in 0 .. QueueSize - 1
          BY <2>1, <2>5, <3>2
        <4>2. (head + i) % QueueSize # TailSlot
          BY <2>1, <3>2, <4>1, SlotsDiffer DEF TailSlot
        <4>3. (head + i) % QueueSize \in 0 .. QueueSize - 1
          BY <2>1, <4>1, SlotWraps, i \in 0 .. QueueSize
        <4>4. queue'[(head + i) % QueueSize] = queue[(head + i) % QueueSize]
          BY <2>4, <4>2, <4>3 DEF TypeOK
        <4>5. queue[(head + i) % QueueSize] = Inserted - length + 1 + i
          BY <4>1 DEF RingInv
        <4> QED
          BY <2>1, <2>2, <4>4, <4>5
      <3> QED
        BY <3>1, <3>2
    <2> QED
      BY <2>3, <2>5 DEF RingInv
  <1>3. ASSUME NEW w \in Workers, WorkTake(w) PROVE RingInv'
    <2>1. /\ length \in 1 .. QueueSize
          /\ length' = length - 1
          /\ head' = NextSlot
          /\ queue' = queue
          /\ head \in 0 .. QueueSize - 1
      BY <1>3 DEF WorkTake, WorkerGoes, GuardInv, TypeOK
    <2>2. Inserted' = Inserted /\ Inserted \in Int
      BY <1>3 DEF WorkTake, Inserted, TypeOK
    <2>3. ASSUME NEW i \in 0 .. length' - 1
          PROVE  queue'[(head' + i) % QueueSize] = Inserted' - length' + 1 + i
      <3>1. i \in 0 .. QueueSize - 1 /\ i + 1 \in 0 .. length - 1
        BY <2>1, <2>3
      <3>2. (head' + i) % QueueSize = (head + (i + 1)) % QueueSize
        BY <2>1, <3>1, SlotShift DEF NextSlot
      <3>3. queue[(head + (i + 1)) % QueueSize] = Inserted - length + 1 + (i + 1)
        BY <3>1 DEF RingInv
      <3> QED
        BY <2>1, <2>2, <3>2, <3>3
    <2>4. length' <= Inserted'
      BY <2>1, <2>2 DEF RingInv
    <2> QED
      BY <2>3, <2>4 DEF RingInv
  <1> QED
    BY <1>1, <1>2, <1>3, RingFrame

-----------------------------------------------------------------------------
(* Every connection is handed to one worker, once.                           *)

\* Every step hands out each connection at most once.
LEMMA HandedStep ==
    ASSUME TypeOK, GuardInv, RingInv, HandedOutOnce, Next
    PROVE  HandedOutOnce'
  <1> DEFINE Args == {arg[w] : w \in {x \in Workers : arg[x] # 0}}
             Out  == Inserted - length
  <1>1. CASE RingUnchanged /\ HandsUnchanged
    BY <1>1 DEF HandedOutOnce, RingUnchanged, HandsUnchanged
  <1>2. ASSUME NEW w \in Workers, WorkTake(w) PROVE HandedOutOnce'
    <2>1. /\ length > 0
          /\ length' = length - 1
          /\ Inserted' = Inserted
          /\ arg[w] = 0
          /\ done' = done
      BY <1>2 DEF WorkTake, WorkerGoes, GuardInv, HasTask, Inserted
    <2>2. /\ queue[head] = Out + 1
          /\ Inserted \in Nat /\ length \in Nat /\ Out \in Nat
      BY <2>1, HeadItem DEF TypeOK, RingInv
    <2>3. arg' = [arg EXCEPT ![w] = Out + 1]
      BY <1>2, <2>2 DEF WorkTake
    <2>4. Args' = Args \cup {Out + 1}
      BY <2>1, <2>2, <2>3, SMTT(30) DEF TypeOK
    <2>5. Out' = Out + 1 /\ 1 .. Out + 1 = (1 .. Out) \cup {Out + 1}
      BY <2>1, <2>2
    <2>6. (done \cup Args)' = 1 .. Out'
      BY <2>1, <2>4, <2>5 DEF HandedOutOnce
    <2>7. Out + 1 \notin done /\ \A x \in Workers : arg[x] # Out + 1
      BY <2>2 DEF HandedOutOnce
    <2>8. \A x \in Workers : arg'[x] # 0 =>
             /\ arg'[x] \notin done'
             /\ \A y \in Workers \ {x} : arg'[y] # arg'[x]
      BY <2>1, <2>2, <2>3, <2>7 DEF HandedOutOnce, TypeOK
    <2> QED
      BY <2>6, <2>8 DEF HandedOutOnce
  <1>3. ASSUME NEW w \in Workers, WorkRun(w), RingUnchanged PROVE HandedOutOnce'
    <2>1. /\ arg[w] # 0
          /\ done' = done \cup {arg[w]}
          /\ arg' = [arg EXCEPT ![w] = 0]
          /\ Out' = Out
      BY <1>3 DEF WorkRun, WorkerGoes, GuardInv, HasTask, RingUnchanged
    <2>2. Args = Args' \cup {arg[w]}
      BY <2>1 DEF TypeOK
    <2>3. (done \cup Args)' = 1 .. Out'
      BY <2>1, <2>2 DEF HandedOutOnce
    <2>4. \A x \in Workers : arg'[x] # 0 =>
             /\ arg'[x] \notin done'
             /\ \A y \in Workers \ {x} : arg'[y] # arg'[x]
      BY <2>1 DEF HandedOutOnce, TypeOK
    <2> QED
      BY <2>3, <2>4 DEF HandedOutOnce
  <1>4. CASE AddInsert
    <2>1. /\ Inserted' = Inserted + 1
          /\ length' = length + 1
          /\ Inserted \in Int /\ length \in Int
      BY <1>4 DEF AddInsert, MainAt, Inserted, TypeOK
    <2>2. Out' = Out /\ HandsUnchanged
      BY <1>4, <2>1 DEF AddInsert, HandsUnchanged
    <2> QED
      BY <2>2 DEF HandedOutOnce, HandsUnchanged
  <1> QED
    BY <1>1, <1>2, <1>3, <1>4, RingFrame

-----------------------------------------------------------------------------
(* No wake-up is lost.                                                       *)

\* Every step keeps the wakeups that are due.
LEMMA WakeStep ==
    ASSUME TypeOK, LockInv, GuardInv, NoLostWakeup, Next
    PROVE  NoLostWakeup'
  <1> USE DEF TypeOK, LockInv, GuardInv, NoLostWakeup, Threads, Workers,
              MainThread, Nobody, MainHolds, WorkerHolds, MainPcs, WorkerPcs, poolVars
  <1>1. CASE Accept
    BY <1>1 DEF Accept, MainAt
  <1>2. CASE AddLock
    BY <1>2 DEF AddLock, MainAt, Acquire
  <1>3. CASE AddCheck
    BY <1>3 DEF AddCheck, MainAt, Release, QueueFull
  <1>4. CASE AddInsert
    BY <1>4 DEF AddInsert, MainAt
  <1>5. CASE AddSignal
    BY <1>5 DEF AddSignal, MainAt, BroadcastAdded, Wake
  <1>6. CASE AddUnlock
    BY <1>6 DEF AddUnlock, MainAt, Release
  <1>7. ASSUME NEW w \in Workers, WorkLoop(w) PROVE NoLostWakeup'
    BY <1>7 DEF WorkLoop, WorkerGoes
  <1>8. ASSUME NEW w \in Workers, WorkLock(w) PROVE NoLostWakeup'
    BY <1>8 DEF WorkLock, WorkerGoes, Acquire
  <1>9. ASSUME NEW w \in Workers, WorkCheck(w) PROVE NoLostWakeup'
    BY <1>9 DEF WorkCheck, WorkerGoes, Release, QueueEmpty
  <1>10. ASSUME NEW w \in Workers, WorkWoken(w) PROVE NoLostWakeup'
    BY <1>10 DEF WorkWoken, WorkerGoes
  <1>11. ASSUME NEW w \in Workers, WorkQuit(w) PROVE NoLostWakeup'
    BY <1>11 DEF WorkQuit, WorkerGoes, Release
  <1>12. ASSUME NEW w \in Workers, WorkTake(w) PROVE NoLostWakeup'
    BY <1>12 DEF WorkTake, WorkerGoes
  <1>13. ASSUME NEW w \in Workers, WorkSignal(w) PROVE NoLostWakeup'
    BY <1>13 DEF WorkSignal, WorkerGoes, BroadcastRemoved, Wake
  <1>14. ASSUME NEW w \in Workers, WorkUnlock(w) PROVE NoLostWakeup'
    BY <1>14 DEF WorkUnlock, WorkerGoes, Release
  <1>15. ASSUME NEW w \in Workers, WorkRun(w) PROVE NoLostWakeup'
    BY <1>15 DEF WorkRun, WorkerGoes
  <1>16. CASE SpuriousWakeup
    BY <1>16 DEF SpuriousWakeup, WorkerGoes
  <1>17. CASE SigInt
    BY <1>17 DEF SigInt
  <1>18. CASE DestroyStop
    BY <1>18 DEF DestroyStop, HandlerAt
  <1>19. CASE DestroyBroadcast
    BY <1>19 DEF DestroyBroadcast, HandlerAt, AfterRound, LastRound, BroadcastAdded, Wake
  <1>20. CASE DestroyJoin
    BY <1>20 DEF DestroyJoin, HandlerAt, AfterRound, LastRound, Joinable
  <1>21. CASE DestroyFree
    BY <1>21 DEF DestroyFree, HandlerAt
  <1> QED
    BY <1>1, <1>2, <1>3, <1>4, <1>5, <1>6, <1>7, <1>8, <1>9, <1>10, <1>11, <1>12, <1>13, <1>14, <1>15, <1>16, <1>17, <1>18, <1>19, <1>20, <1>21
       DEF Next, AddTask, Work, InPool, Destroy

-----------------------------------------------------------------------------
(* The inductive invariant and the properties it gives.                      *)

\* The invariant holds at first.
LEMMA InvInit == Init => IInv
  <1> SUFFICES ASSUME Init PROVE IInv
    OBVIOUS
  <1>1. TypeOK
    BY TypeInit
  <1>2. LockInv /\ GuardInv /\ NoLostWakeup /\ JoinInv
    BY DEF Init, LockInv, GuardInv, NoLostWakeup, JoinInv, NoUseAfterFree,
           Workers, MainThread, Nobody, MainHolds, WorkerHolds, HasTask
  <1>3. RingInv
    BY DEF Init, RingInv, Inserted
  <1>4. HandedOutOnce
    BY DEF Init, HandedOutOnce, Inserted
  <1> QED
    BY <1>1, <1>2, <1>3, <1>4 DEF IInv

\* The invariant is inductive.
LEMMA InvStep == IInv /\ [Next]_vars => IInv'
  <1>1. ASSUME IInv, Next PROVE IInv'
    BY <1>1, TypeStep, LockStep, GuardStep, RingStep, HandedStep, WakeStep,
       JoinStep DEF IInv
  <1>2. ASSUME IInv, UNCHANGED vars PROVE IInv'
    BY <1>2 DEF IInv, vars, TypeOK, LockInv, GuardInv, RingInv, Inserted,
       HandedOutOnce, NoLostWakeup, JoinInv, NoUseAfterFree
  <1> QED
    BY <1>1, <1>2

\* The inductive invariant holds in every reachable state of the pool.
THEOREM Invariant == Spec => []IInv
  BY InvInit, InvStep, PTL DEF Spec

\* The ring's indices never leave the allocated queue, and every variable keeps
\* its type (thread_pool.c, all of it).
THEOREM TypeCorrect == Spec => []TypeOK
  <1>1. IInv => TypeOK
    BY DEF IInv
  <1> QED
    BY <1>1, Invariant, PTL

\* No accepted connection is lost, overwritten or handed to two workers, for
\* any number of threads and any size of the ring, SIGINT or not.
THEOREM HandedOut == Spec => []HandedOutOnce
  <1>1. IInv => HandedOutOnce
    BY DEF IInv
  <1> QED
    BY <1>1, Invariant, PTL

\* Nobody sleeps on a condition variable that should have woken it.
THEOREM WakeupsArrive == Spec => []NoLostWakeup
  <1>1. IInv => NoLostWakeup
    BY DEF IInv
  <1> QED
    BY <1>1, Invariant, PTL

\* pool_destroy frees nothing that a worker may still use.
THEOREM FreedLast == Spec => []NoUseAfterFree
  <1>1. IInv => NoUseAfterFree
    BY DEF IInv, JoinInv
  <1> QED
    BY <1>1, Invariant, PTL

-----------------------------------------------------------------------------
(* The pool implements the abstract bounded queue.                           *)

\* The ring read in order is the run of consecutive connection numbers that
\* ends at the last one inserted.
ItemsShape ==
    /\ RingItems = [i \in 1 .. length |-> Inserted - length + i]
    /\ RingItems \in Seq(Int)
    /\ Len(RingItems) = length
    /\ Inserted \in 0 .. MaxConn
    /\ length \in 0 .. QueueSize

\* The abstract queue's items are those between the ring's indices.
LEMMA ItemsAre == IInv => ItemsShape
  <1> SUFFICES ASSUME TypeOK, GuardInv, RingInv PROVE ItemsShape
    BY DEF IInv
  <1>1. /\ length \in 0 .. QueueSize
        /\ head \in 0 .. QueueSize - 1
        /\ Inserted \in 0 .. MaxConn
    BY DEF TypeOK, GuardInv, Inserted
  <1>2. ASSUME NEW i \in 1 .. length
        PROVE  queue[(head + i - 1) % QueueSize] = Inserted - length + i
    <2>1. i - 1 \in 0 .. length - 1 /\ head + i - 1 = head + (i - 1)
      BY <1>1
    <2>2. queue[(head + (i - 1)) % QueueSize] = Inserted - length + 1 + (i - 1)
      BY <2>1 DEF RingInv
    <2> QED
      BY <1>1, <2>1, <2>2
  <1>3. RingItems = [i \in 1 .. length |-> Inserted - length + i]
    BY <1>2 DEF RingItems
  <1> QED
    BY <1>1, <1>3 DEF ItemsShape

\* The pool begins as the empty queue.
LEMMA QueueInit == Init => Queue!Init
  BY DEF Init, Queue!Init, Inserted, RingItems

\* Every step of the pool is one of the queue, or none.
LEMMA QueueStep ==
    ASSUME IInv, IInv', [Next]_vars
    PROVE  [Queue!Next]_Queue!vars
  <1>0. ItemsShape /\ ItemsShape'
    BY ItemsAre, PTL
  <1> USE DEF IInv
  <1>1. CASE UNCHANGED vars
    BY <1>1 DEF vars, Queue!vars, Inserted, RingItems
  <1>2. CASE RingUnchanged /\ HandsUnchanged
    BY <1>2 DEF RingUnchanged, HandsUnchanged, Queue!vars, RingItems
  <1>3. CASE AddInsert
    <2>1. /\ Inserted' = Inserted + 1
          /\ length' = length + 1
          /\ length < QueueSize
          /\ arg' = arg /\ done' = done
      BY <1>3 DEF AddInsert, MainAt, Inserted, TypeOK, GuardInv
    <2>2. RingItems' = Append(RingItems, Inserted + 1)
      <3> DEFINE new == Append(RingItems, Inserted + 1)
      <3>1. /\ new \in Seq(Int)
            /\ Len(new) = length + 1
            /\ \A i \in 1 .. length : new[i] = RingItems[i]
            /\ new[length + 1] = Inserted + 1
        BY <1>0, AppendProperties, Inserted + 1 \in Int DEF ItemsShape
      <3>2. \A i \in 1 .. length + 1 : RingItems'[i] = Inserted - length + i
        BY <1>0, <2>1 DEF ItemsShape
      <3>3. \A i \in 1 .. length + 1 : new[i] = Inserted - length + i
        BY <1>0, <3>1 DEF ItemsShape
      <3>4. RingItems' \in Seq(Int) /\ Len(RingItems') = length + 1
        BY <1>0, <2>1 DEF ItemsShape
      <3> HIDE DEF new
      <3>5. RingItems' = new
        BY <3>1, <3>2, <3>3, <3>4, SeqEqual, SMTT(30)
      <3> QED
        BY <3>5 DEF new
    <2>3. Inserted < MaxConn
      BY <1>0, <2>1 DEF ItemsShape
    <2> QED
      BY <1>0, <2>1, <2>2, <2>3 DEF Queue!Next, Queue!Submit, ItemsShape
  <1>4. ASSUME NEW w \in Workers, WorkTake(w) PROVE Queue!Next
    <2>1. /\ Inserted' = Inserted
          /\ length' = length - 1
          /\ length > 0
          /\ arg[w] = 0
          /\ arg' = [arg EXCEPT ![w] = queue[head]]
          /\ done' = done
      BY <1>4 DEF WorkTake, WorkerGoes, Inserted, GuardInv, HasTask
    <2>2. RingItems # <<>>
      <3>1. Len(RingItems) # 0
        BY <1>0, <2>1 DEF ItemsShape
      <3> QED
        BY <3>1, EmptySeq
    <2>3. /\ Tail(RingItems) \in Seq(Int)
          /\ Len(Tail(RingItems)) = length - 1
          /\ \A i \in 1 .. length - 1 : Tail(RingItems)[i] = RingItems[i + 1]
      BY <1>0, <2>2, HeadTailProperties DEF ItemsShape
    <2>4. Head(RingItems) = queue[head]
      <3>1. Head(RingItems) = Inserted - length + 1
        BY <1>0, <2>1 DEF ItemsShape
      <3> QED
        BY <2>1, <3>1, HeadItem
    <2>5. RingItems' = Tail(RingItems)
      <3> DEFINE rest == Tail(RingItems)
      <3>1. \A i \in 1 .. length - 1 : RingItems'[i] = Inserted - length + (i + 1)
        BY <1>0, <2>1 DEF ItemsShape
      <3>2. \A i \in 1 .. length - 1 : rest[i] = Inserted - length + (i + 1)
        BY <1>0, <2>3 DEF ItemsShape
      <3>3. RingItems' \in Seq(Int) /\ Len(RingItems') = length - 1
        BY <1>0, <2>1 DEF ItemsShape
      <3>4. rest \in Seq(Int) /\ Len(rest) = length - 1
        BY <2>3
      <3> HIDE DEF rest
      <3>5. RingItems' = rest
        BY <3>1, <3>2, <3>3, <3>4, SeqEqual
      <3> QED
        BY <3>5 DEF rest
    <2> QED
      BY <2>1, <2>2, <2>4, <2>5 DEF Queue!Next, Queue!Start
  <1>5. ASSUME NEW w \in Workers, WorkRun(w), RingUnchanged PROVE Queue!Next
    <2>1. arg[w] # 0
      BY <1>5 DEF WorkRun, WorkerGoes, GuardInv, HasTask
    <2>2. RingItems' = RingItems /\ Inserted' = Inserted
      BY <1>5 DEF RingUnchanged, RingItems
    <2> QED
      BY <1>5, <2>1, <2>2 DEF WorkRun, Queue!Next, Queue!Finish
  <1> QED
    BY <1>1, <1>2, <1>3, <1>4, <1>5, RingFrame

\* Every behaviour of the pool, seen through the ring, is a behaviour of the
\* bounded first-in first-out queue of WorkQueue.
THEOREM PoolIsQueue == Spec => ImplementsQueue
  <1>1. IInv /\ IInv' /\ [Next]_vars => [Queue!Next]_Queue!vars
    BY QueueStep
  <1> QED
    BY <1>1, QueueInit, Invariant, PTL DEF Spec, ImplementsQueue, Queue!Spec
=============================================================================
