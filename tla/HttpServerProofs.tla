-------------------------- MODULE HttpServerProofs --------------------------
(* Proofs about HttpServer for any workers, numbers of descriptors, tasks    *)
(* and clients, scripts, files and seats.                                    *)
EXTENDS HttpServer, TLAPS, FiniteSetTheorems, SequenceTheorems,
        WellFoundedInduction

\* The tasks whose int is allocated: those that main and the queue hold.
Pending == ToSet(items) \cup (IF mpc = "add" THEN {submitted + 1} ELSE {})

Pcs == {"idle", "request", "headers", "operate", "reply", "left"}

TypeOK ==
    /\ submitted \in 0 .. MaxTasks
    /\ items \in Seq(1 .. submitted)
    /\ heap \in [1 .. MaxTasks -> Fds \cup {NoFd}]
    /\ mpc \in {"accept", "add"}
    /\ accepted \in 0 .. MaxConn
    /\ table \in [Fds -> {Free, AFile} \cup 1 .. accepted]
    /\ wpc \in [Workers -> Pcs]
    /\ connfd \in [Workers -> Fds \cup {NoFd}]
    /\ fd \in [Workers -> Fds \cup {NoFd}]

\* The queue: no task waits twice, main adds one that it may still add, and
\* only a pending task's int holds a descriptor.
QueueInv ==
    /\ \A i, k \in 1 .. Len(items) : items[i] = items[k] => i = k
    /\ mpc = "add" => submitted < MaxTasks
    /\ \A n \in 1 .. MaxTasks : heap[n] # NoFd => n \in Pending

\* A worker between two tasks has no connection, and a file only in a reply.
WorkerInv ==
    \A w \in Workers :
        /\ wpc[w] \in {"idle", "left"} => connfd[w] = NoFd
        /\ fd[w] # NoFd => wpc[w] = "reply"

\* No two that would close the same descriptor.
OwnedOnce ==
    /\ \A m, n \in 1 .. MaxTasks : heap[m] = heap[n] /\ heap[m] # NoFd => m = n
    /\ \A v, w \in Workers : connfd[v] = connfd[w] /\ connfd[v] # NoFd => v = w
    /\ \A v, w \in Workers : fd[v] = fd[w] /\ fd[v] # NoFd => v = w
    /\ \A n \in 1 .. MaxTasks, w \in Workers :
          heap[n] # NoFd => heap[n] # connfd[w]

\* What the descriptors are: a task's and a worker's connfd is a connection, its
\* fd a file, and no connection has two descriptors.
Kinds ==
    /\ \A n \in 1 .. MaxTasks : heap[n] # NoFd => table[heap[n]] \in Conns
    /\ \A w \in Workers : connfd[w] # NoFd => table[connfd[w]] \in Conns
    /\ \A w \in Workers : fd[w] # NoFd => table[fd[w]] = AFile
    /\ \A f, g \in Fds : table[f] = table[g] /\ table[f] \in Conns => f = g

\* Somebody will close each open descriptor.
AllOwned ==
    \A f \in Fds : table[f] # Free =>
        \/ \E n \in 1 .. MaxTasks : heap[n] = f
        \/ \E w \in Workers : connfd[w] = f \/ fd[w] = f

FdInv ==
    /\ TypeOK /\ QueueInv /\ WorkerInv
    /\ OwnedOnce /\ Kinds /\ AllOwned

-----------------------------------------------------------------------------
(* The descriptor table and the queue.                                       *)

\* A set of naturals has a least element.
LEMMA LeastNat ==
    ASSUME NEW S \in SUBSET Nat, S # {}
    PROVE  \E n \in S : \A k \in S : n <= k
  <1> DEFINE R == {ss \in Nat \X Nat : ss[1] < ss[2]}
  <1>1. IsWellFoundedOn(R, Nat)
    BY NatLessThanWellFounded DEF OpToRel
  <1>2. \A x, y \in Nat : x < y => <<x, y>> \in R
    OBVIOUS
  <1> HIDE DEF R
  <1>3. PICK x \in S : \A y \in S : ~ (<<y, x>> \in R)
    BY <1>1, WFMin
  <1>4. \A y \in S : ~ (y < x)
    BY <1>2, <1>3
  <1> QED BY <1>4

\* A new descriptor is one that was free.
LEMMA NewFdIsFree ==
    /\ NewFd \in Fds \cup {NoFd}
    /\ NewFd # NoFd => NewFd \in Fds /\ table[NewFd] = Free
  <1>1. CASE Unused = {}
    BY <1>1 DEF NewFd
  <1>2. CASE Unused # {}
    <2>1. Unused \in SUBSET Nat /\ Unused \subseteq Fds
      BY NumFdsAssumption DEF Unused, Fds
    <2>2. \E i \in Unused : \A k \in Unused : i <= k
      BY <1>2, <2>1, LeastNat
    <2>3. First(Unused) \in Unused
      BY <2>2 DEF First
    <2> QED BY <1>2, <2>1, <2>3 DEF NewFd, Unused
  <1> QED BY <1>1, <1>2

\* A failing call hands out no descriptor.
LEMMA NoFdIsNone == NoFd \notin Fds /\ NoFd \in Int /\ Free # NoFd
  BY NumFdsAssumption DEF NoFd, Fds, Free

\* The task that main adds was pending before it was in the queue.
LEMMA AddKeepsPending ==
    ASSUME TypeOK, QueueInv, Add
    PROVE  /\ items' \in Seq(1 .. submitted')
           /\ \A i, k \in 1 .. Len(items') : items'[i] = items'[k] => i = k
           /\ Pending' = Pending
  <1>1. /\ items' = Append(items, submitted + 1) /\ submitted' = submitted + 1
        /\ mpc = "add" /\ mpc' = "accept" /\ submitted \in Nat
    BY MaxTasksAssumption DEF TypeOK, Add, Pool!Submit
  <1>2. items \in Seq(1 .. submitted')
    BY <1>1, SeqMonotonic DEF TypeOK
  <1>3. /\ items' \in Seq(1 .. submitted')
        /\ Len(items') = Len(items) + 1
        /\ \A i \in 1 .. Len(items) : items'[i] = items[i]
        /\ items'[Len(items) + 1] = submitted + 1
    BY <1>1, <1>2, AppendProperties
  <1>4. \A i \in 1 .. Len(items) : items[i] \in 1 .. submitted
    BY DEF TypeOK
  <1>5. \A i, k \in 1 .. Len(items') : items'[i] = items'[k] => i = k
    BY <1>1, <1>2, <1>3, <1>4 DEF QueueInv
  <1>6. ToSet(items') = ToSet(items) \cup {submitted + 1}
    <2>1. DOMAIN items = 1 .. Len(items) /\ DOMAIN items' = 1 .. Len(items')
      BY <1>2, <1>3
    <2>2. Len(items) \in Nat /\ Len(items) + 1 \in 1 .. Len(items')
      BY <1>2, <1>3
    <2>3. \A i \in 1 .. Len(items') :
             i \in 1 .. Len(items) \/ i = Len(items) + 1
      BY <1>3, <2>2
    <2>4. \A i \in 1 .. Len(items) : i \in 1 .. Len(items')
      BY <1>3, <2>2
    <2> QED BY <1>3, <2>1, <2>2, <2>3, <2>4 DEF ToSet
  <1> QED BY <1>1, <1>3, <1>5, <1>6 DEF Pending

\* A worker takes the head of the queue, which is pending no more.
LEMMA TakeTakesPending ==
    ASSUME TypeOK, QueueInv, NEW w \in Workers, Take(w)
    PROVE  /\ items' \in Seq(1 .. submitted')
           /\ \A i, k \in 1 .. Len(items') : items'[i] = items'[k] => i = k
           /\ Head(items) \in 1 .. submitted
           /\ Pending' = Pending \ {Head(items)}
  <1>1. /\ items # <<>> /\ items' = Tail(items)
        /\ submitted' = submitted /\ mpc' = mpc
    BY DEF Take, Pool!Start
  <1>2. /\ items' \in Seq(1 .. submitted)
        /\ Head(items) \in 1 .. submitted /\ Head(items) = items[1]
        /\ Len(items) \in Nat \ {0}
        /\ Len(items') = Len(items) - 1
        /\ \A i \in 1 .. Len(items') : items'[i] = items[i + 1]
    BY <1>1, HeadTailProperties DEF TypeOK
  <1>3. \A i, k \in 1 .. Len(items') : items'[i] = items'[k] => i = k
    <2> SUFFICES ASSUME NEW i \in 1 .. Len(items'), NEW k \in 1 .. Len(items'),
                        items'[i] = items'[k]
                 PROVE  i = k
      OBVIOUS
    <2>1. i + 1 \in 1 .. Len(items) /\ k + 1 \in 1 .. Len(items)
      BY <1>2
    <2>2. i + 1 = k + 1
      BY <1>2, <2>1 DEF QueueInv
    <2> QED BY <2>2
  <1>4. ToSet(items') = ToSet(items) \ {Head(items)}
    <2>1. DOMAIN items = 1 .. Len(items) /\ DOMAIN items' = 1 .. Len(items')
      BY <1>2 DEF TypeOK
    <2>2. ASSUME NEW i \in 1 .. Len(items')
          PROVE  items'[i] \in ToSet(items) \ {Head(items)}
      <3>1. i + 1 \in 1 .. Len(items) /\ 1 \in 1 .. Len(items) /\ i + 1 # 1
        BY <1>2
      <3>2. items[i + 1] # items[1]
        BY <3>1 DEF QueueInv
      <3> QED BY <1>2, <2>1, <3>1, <3>2 DEF ToSet
    <2>3. ASSUME NEW i \in 1 .. Len(items), items[i] # Head(items)
          PROVE  items[i] \in ToSet(items')
      <3>1. i # 1
        BY <1>2, <2>3
      <3>2. i - 1 \in 1 .. Len(items') /\ items'[i - 1] = items[i]
        BY <1>2, <3>1
      <3> QED BY <2>1, <3>2 DEF ToSet
    <2> QED BY <2>1, <2>2, <2>3 DEF ToSet
  <1>5. ~ (submitted + 1 = Head(items))
    BY <1>2, MaxTasksAssumption DEF TypeOK
  <1> QED BY <1>1, <1>2, <1>3, <1>4, <1>5 DEF Pending

-----------------------------------------------------------------------------
(* The inductive invariant.                                                  *)

\* Before the first request no descriptor is open but the standing ones.
LEMMA FdInit == Init => FdInv
  <1> SUFFICES ASSUME Init PROVE FdInv
    OBVIOUS
  <1>1. /\ submitted = 0 /\ items = <<>> /\ mpc = "accept" /\ accepted = 0
        /\ heap = [n \in 1 .. MaxTasks |-> NoFd]
        /\ table = [f \in Fds |-> Free]
        /\ wpc = [w \in Workers |-> "idle"]
        /\ connfd = [w \in Workers |-> NoFd]
        /\ fd = [w \in Workers |-> NoFd]
    BY DEF Init, Pool!Init
  <1>2. items \in Seq(1 .. submitted) /\ Len(items) = 0
    BY <1>1, EmptySeq
  <1>3. TypeOK
    <2>1. submitted \in 0 .. MaxTasks /\ accepted \in 0 .. MaxConn
      BY <1>1, MaxTasksAssumption, MaxConnAssumption
    <2> QED BY <1>1, <1>2, <2>1 DEF TypeOK, Pcs
  <1>4. QueueInv
    BY <1>1, <1>2 DEF QueueInv
  <1>5. WorkerInv /\ OwnedOnce
    BY <1>1 DEF WorkerInv, OwnedOnce
  <1>6. Kinds
    BY <1>1, MaxConnAssumption DEF Kinds, Free, Conns
  <1>7. AllOwned
    BY <1>1 DEF AllOwned
  <1> QED BY <1>3, <1>4, <1>5, <1>6, <1>7 DEF FdInv

\* accept gives the next connection a new descriptor and main's task its owner.
LEMMA AcceptKeeps ==
    ASSUME FdInv, Accept
    PROVE  FdInv'
  <1> DEFINE n == submitted + 1
  <1>1. /\ n \in 1 .. MaxTasks /\ submitted' = submitted /\ items' = items
        /\ mpc = "accept" /\ mpc' = "add" /\ submitted < MaxTasks
        /\ heap' = [heap EXCEPT ![n] = NewFd]
        /\ UNCHANGED <<wpc, connfd, fd>>
    BY MaxTasksAssumption DEF FdInv, TypeOK, Accept, poolVars, localVars
  <1>2. /\ accepted' \in 0 .. MaxConn /\ accepted <= accepted'
        /\ \/ /\ NewFd \in Fds /\ table[NewFd] = Free
              /\ accepted' = accepted + 1 /\ accepted' \in Conns
              /\ table' = [table EXCEPT ![NewFd] = accepted']
           \/ /\ NewFd = NoFd
              /\ accepted' = accepted /\ table' = table
    BY NewFdIsFree, MaxConnAssumption DEF FdInv, TypeOK, Accept, Conns
  <1>3. Pending' = Pending \cup {n}
    BY <1>1 DEF Pending
  <1>4. n \notin Pending /\ heap[n] = NoFd
    <2>1. \A i \in DOMAIN items : items[i] # n
      BY MaxTasksAssumption DEF FdInv, TypeOK
    <2> QED BY <1>1, <2>1 DEF FdInv, QueueInv, Pending, ToSet
  <1> HIDE DEF n
  <1>5. \A m \in 1 .. MaxTasks : heap'[m] = IF m = n THEN NewFd ELSE heap[m]
    BY <1>1 DEF FdInv, TypeOK
  <1>6. TypeOK'
    BY <1>1, <1>2, NewFdIsFree, MaxConnAssumption
    DEF FdInv, TypeOK, AFile, Free
  <1>7. QueueInv'
    BY <1>1, <1>3, <1>4, <1>5 DEF FdInv, QueueInv
  <1>8. WorkerInv'
    BY <1>1 DEF FdInv, WorkerInv
  <1>9. CASE NewFd = NoFd
    <2>1. table' = table /\ \A m \in 1 .. MaxTasks : heap'[m] = heap[m]
      BY <1>2, <1>4, <1>5, <1>9, NoFdIsNone
    <2> QED BY <1>1, <1>6, <1>7, <1>8, <2>1
            DEF FdInv, OwnedOnce, Kinds, AllOwned
  <1>10. CASE NewFd \in Fds
    <2>1. /\ table[NewFd] = Free /\ accepted' = accepted + 1
          /\ accepted' \in Conns /\ accepted' # Free /\ accepted' # AFile
          /\ \A f \in Fds :
                table'[f] = IF f = NewFd THEN accepted' ELSE table[f]
      BY <1>2, <1>10, NoFdIsNone, MaxConnAssumption
      DEF FdInv, TypeOK, Conns, Free, AFile
    <2>2. Free \notin Conns /\ AFile # Free /\ AFile \notin Conns
      BY MaxConnAssumption DEF Free, Conns, AFile
    <2>3. \A m \in 1 .. MaxTasks : heap[m] # NewFd
      BY <1>10, <2>1, <2>2, NoFdIsNone DEF FdInv, Kinds
    <2>4. \A w \in Workers : connfd[w] # NewFd /\ fd[w] # NewFd
      BY <1>10, <2>1, <2>2, NoFdIsNone DEF FdInv, Kinds
    <2>5. \A f \in Fds : table[f] # accepted'
      BY <2>1, MaxConnAssumption DEF FdInv, TypeOK
    <2>6. OwnedOnce'
      BY <1>1, <1>5, <2>3, <2>4 DEF FdInv, OwnedOnce
    <2>7. Kinds'
      BY <1>1, <1>5, <1>10, <2>1, <2>3, <2>4, <2>5 DEF FdInv, Kinds, TypeOK
    <2>8. AllOwned'
      BY <1>1, <1>4, <1>5, <1>10, <2>1, NoFdIsNone DEF FdInv, AllOwned
    <2> QED BY <1>6, <1>7, <1>8, <2>6, <2>7, <2>8 DEF FdInv
  <1> QED BY <1>9, <1>10, NewFdIsFree

\* Main hands its task to the queue.
LEMMA AddKeeps ==
    ASSUME FdInv, Add
    PROVE  FdInv'
  <1>1. /\ submitted' = submitted + 1 /\ submitted' \in 0 .. MaxTasks
        /\ mpc' = "accept"
        /\ UNCHANGED <<heap, accepted, table, wpc, connfd, fd>>
    BY MaxTasksAssumption DEF FdInv, TypeOK, Add, Pool!Submit, localVars
  <1>2. TypeOK' /\ QueueInv'
    BY <1>1, AddKeepsPending DEF FdInv, TypeOK, QueueInv
  <1> QED BY <1>1, <1>2 DEF FdInv, WorkerInv, OwnedOnce, Kinds, AllOwned

\* The worker's connfd becomes the owner instead of the task.
LEMMA TakeKeeps ==
    ASSUME FdInv, NEW w \in Workers, Take(w)
    PROVE  FdInv'
  <1> DEFINE n == Head(items)
  <1>1. /\ wpc[w] = "idle" /\ wpc' = [wpc EXCEPT ![w] = "request"]
        /\ connfd' = [connfd EXCEPT ![w] = heap[n]]
        /\ heap' = [heap EXCEPT ![n] = NoFd]
        /\ UNCHANGED <<submitted, mpc, accepted, table, fd>>
    BY DEF Take, At, Goes, TakenFd, Pool!Start
  <1>2. /\ n \in 1 .. MaxTasks /\ Pending' = Pending \ {n}
        /\ items' \in Seq(1 .. submitted')
        /\ \A i, k \in 1 .. Len(items') : items'[i] = items'[k] => i = k
    BY TakeTakesPending, MaxTasksAssumption DEF FdInv, TypeOK
  <1> HIDE DEF n
  <1>3. heap[n] \in Fds \cup {NoFd} /\ connfd[w] = NoFd /\ fd[w] = NoFd
    BY <1>1, <1>2 DEF FdInv, TypeOK, WorkerInv
  <1>4. /\ \A m \in 1 .. MaxTasks : heap'[m] = IF m = n THEN NoFd ELSE heap[m]
        /\ \A v \in Workers :
              connfd'[v] = IF v = w THEN heap[n] ELSE connfd[v]
        /\ \A v \in Workers : wpc'[v] = IF v = w THEN "request" ELSE wpc[v]
    BY <1>1, <1>2 DEF FdInv, TypeOK
  <1>5. TypeOK'
    BY <1>1, <1>2, <1>3, NoFdIsNone DEF FdInv, TypeOK, Pcs
  <1>6. QueueInv'
    BY <1>1, <1>2, <1>4 DEF FdInv, QueueInv
  <1>7. WorkerInv'
    BY <1>1, <1>3, <1>4 DEF FdInv, WorkerInv
  <1>8. OwnedOnce'
    BY <1>1, <1>2, <1>3, <1>4 DEF FdInv, OwnedOnce
  <1>9. Kinds'
    BY <1>1, <1>2, <1>3, <1>4 DEF FdInv, Kinds
  <1>10. AllOwned'
    <2> SUFFICES ASSUME NEW f \in Fds, table[f] # Free
                 PROVE  \/ \E m \in 1 .. MaxTasks : heap'[m] = f
                        \/ \E v \in Workers : connfd'[v] = f \/ fd[v] = f
      BY <1>1 DEF AllOwned
    <2>1. CASE \E m \in 1 .. MaxTasks : heap[m] = f
      BY <1>2, <1>4, <2>1
    <2>2. CASE \E v \in Workers : connfd[v] = f \/ fd[v] = f
      BY <1>3, <1>4, <2>2, NoFdIsNone
    <2> QED BY <2>1, <2>2 DEF FdInv, AllOwned
  <1> QED BY <1>5, <1>6, <1>7, <1>8, <1>9, <1>10 DEF FdInv

\* A file that is opened is owned by the worker's fd.
LEMMA OperateKeeps ==
    ASSUME FdInv, NEW w \in Workers, Operate(w)
    PROVE  FdInv'
  <1>1. /\ wpc[w] = "operate" /\ wpc' = [wpc EXCEPT ![w] = "reply"]
        /\ UNCHANGED <<submitted, items, mpc, heap, accepted, connfd>>
    BY DEF Operate, At, Goes, poolVars, mainVars
  <1>2. \/ /\ NewFd \in Fds /\ table[NewFd] = Free
           /\ fd' = [fd EXCEPT ![w] = NewFd]
           /\ table' = [table EXCEPT ![NewFd] = AFile]
        \/ /\ fd' = [fd EXCEPT ![w] = NoFd] /\ table' = table
    BY NewFdIsFree DEF Operate
  <1>3. fd[w] = NoFd
    BY <1>1 DEF FdInv, WorkerInv
  <1>4. /\ \A v \in Workers : wpc'[v] = IF v = w THEN "reply" ELSE wpc[v]
        /\ \A v \in Workers : fd'[v] = IF v = w THEN fd'[w] ELSE fd[v]
    BY <1>1, <1>2 DEF FdInv, TypeOK
  <1>5. TypeOK' /\ QueueInv' /\ WorkerInv'
    <2>1. TypeOK'
      BY <1>1, <1>2 DEF FdInv, TypeOK, Pcs
    <2>2. QueueInv'
      BY <1>1 DEF FdInv, QueueInv, Pending
    <2>3. WorkerInv'
      BY <1>1, <1>3, <1>4 DEF FdInv, WorkerInv
    <2> QED BY <2>1, <2>2, <2>3
  <1>6. CASE fd' = [fd EXCEPT ![w] = NoFd] /\ table' = table
    <2>1. \A v \in Workers : fd'[v] = fd[v]
      BY <1>3, <1>4, <1>6 DEF FdInv, TypeOK
    <2> QED BY <1>1, <1>5, <1>6, <2>1
            DEF FdInv, OwnedOnce, Kinds, AllOwned
  <1>7. CASE /\ NewFd \in Fds /\ table[NewFd] = Free
             /\ fd' = [fd EXCEPT ![w] = NewFd]
             /\ table' = [table EXCEPT ![NewFd] = AFile]
    <2>1. fd'[w] = NewFd
      BY <1>7 DEF FdInv, TypeOK
    <2>2. \A f \in Fds : table'[f] = IF f = NewFd THEN AFile ELSE table[f]
      BY <1>7 DEF FdInv, TypeOK
    <2>3. Free \notin Conns /\ AFile # Free /\ AFile \notin Conns
      BY MaxConnAssumption DEF Free, Conns, AFile
    <2>4. \A m \in 1 .. MaxTasks : heap[m] # NewFd
      BY <1>7, <2>3, NoFdIsNone DEF FdInv, Kinds
    <2>5. \A v \in Workers : connfd[v] # NewFd /\ fd[v] # NewFd
      BY <1>7, <2>3, NoFdIsNone DEF FdInv, Kinds
    <2>6. OwnedOnce'
      BY <1>1, <1>4, <2>1, <2>5 DEF FdInv, OwnedOnce
    <2>7. Kinds'
      <3>1. \A v \in Workers : fd'[v] # NoFd => table'[fd'[v]] = AFile
        BY <1>4, <1>7, <2>1, <2>2, <2>5 DEF FdInv, Kinds, TypeOK
      <3>2. \A f, g \in Fds :
               table'[f] = table'[g] /\ table'[f] \in Conns => f = g
        BY <2>2, <2>3 DEF FdInv, Kinds
      <3> QED BY <1>1, <1>7, <2>2, <2>4, <2>5, <3>1, <3>2
              DEF FdInv, Kinds, TypeOK
    <2>8. AllOwned'
      BY <1>1, <1>3, <1>4, <1>7, <2>1, <2>2, NoFdIsNone DEF FdInv, AllOwned
    <2> QED BY <1>5, <2>6, <2>7, <2>8 DEF FdInv
  <1> QED BY <1>2, <1>6, <1>7

\* Closing the file takes its owner away.
LEMMA CloseFileKeeps ==
    ASSUME FdInv, NEW w \in Workers, CloseFile(w)
    PROVE  FdInv'
  <1>1. /\ fd[w] # NoFd /\ wpc[w] = "reply"
        /\ table' = [table EXCEPT ![fd[w]] = Free]
        /\ fd' = [fd EXCEPT ![w] = NoFd]
        /\ UNCHANGED <<submitted, items, mpc, heap, accepted, wpc, connfd>>
    BY DEF CloseFile, At, Closing, poolVars, mainVars
  <1>2. /\ fd[w] \in Fds
        /\ \A v \in Workers : fd'[v] = IF v = w THEN NoFd ELSE fd[v]
        /\ \A f \in Fds : table'[f] = IF f = fd[w] THEN Free ELSE table[f]
    BY <1>1 DEF FdInv, TypeOK
  <1>3. Free \notin Conns /\ AFile # Free /\ AFile \notin Conns
    BY MaxConnAssumption DEF Free, Conns, AFile
  <1>4. /\ \A m \in 1 .. MaxTasks : heap[m] # fd[w]
        /\ \A v \in Workers : connfd[v] # fd[w]
        /\ \A v \in Workers : v # w => fd[v] # fd[w]
    BY <1>1, <1>2, <1>3, NoFdIsNone DEF FdInv, Kinds, OwnedOnce
  <1>5. TypeOK' /\ QueueInv' /\ WorkerInv'
    BY <1>1, <1>2 DEF FdInv, TypeOK, QueueInv, Pending, WorkerInv
  <1>6. OwnedOnce'
    BY <1>1, <1>2 DEF FdInv, OwnedOnce
  <1>7. Kinds'
    BY <1>1, <1>2, <1>3, <1>4 DEF FdInv, Kinds, TypeOK
  <1>8. AllOwned'
    BY <1>1, <1>2, <1>4 DEF FdInv, AllOwned
  <1> QED BY <1>5, <1>6, <1>7, <1>8 DEF FdInv

\* Closing the connection does, too, if accept did not fail.
LEMMA CloseKeeps ==
    ASSUME FdInv, NEW w \in Workers, Close(w)
    PROVE  FdInv'
  <1>1. /\ fd[w] = NoFd /\ wpc[w] = "reply"
        /\ table' = IF connfd[w] = NoFd THEN table
                    ELSE [table EXCEPT ![connfd[w]] = Free]
        /\ connfd' = [connfd EXCEPT ![w] = NoFd]
        /\ wpc' = [wpc EXCEPT ![w] = "idle"]
        /\ UNCHANGED <<submitted, items, mpc, heap, accepted, fd>>
    BY DEF Close, At, Goes, Closing, Pool!Finish, mainVars
  <1>2. /\ connfd[w] \in Fds \cup {NoFd}
        /\ \A v \in Workers : connfd'[v] = IF v = w THEN NoFd ELSE connfd[v]
        /\ \A v \in Workers : wpc'[v] = IF v = w THEN "idle" ELSE wpc[v]
        /\ \A f \in Fds : table'[f] = IF f = connfd[w] THEN Free ELSE table[f]
    BY <1>1, NoFdIsNone DEF FdInv, TypeOK
  <1>3. Free \notin Conns /\ AFile # Free /\ AFile \notin Conns
    BY MaxConnAssumption DEF Free, Conns, AFile
  <1>4. /\ \A m \in 1 .. MaxTasks : heap[m] # NoFd => heap[m] # connfd[w]
        /\ \A v \in Workers : fd[v] # NoFd => fd[v] # connfd[w]
        /\ \A v \in Workers : v # w /\ connfd[v] # NoFd => connfd[v] # connfd[w]
    BY <1>3 DEF FdInv, Kinds, OwnedOnce
  <1>5. TypeOK' /\ QueueInv' /\ WorkerInv'
    BY <1>1, <1>2 DEF FdInv, TypeOK, QueueInv, Pending, WorkerInv, Pcs
  <1>6. OwnedOnce'
    BY <1>1, <1>2 DEF FdInv, OwnedOnce
  <1>7. Kinds'
    <2>1. \A m \in 1 .. MaxTasks : heap'[m] # NoFd => table'[heap'[m]] \in Conns
      BY <1>1, <1>2, <1>4 DEF FdInv, Kinds, TypeOK
    <2>2. \A v \in Workers : connfd'[v] # NoFd => table'[connfd'[v]] \in Conns
      BY <1>1, <1>2, <1>4 DEF FdInv, Kinds, TypeOK
    <2>3. \A v \in Workers : fd'[v] # NoFd => table'[fd'[v]] = AFile
      BY <1>1, <1>2, <1>4 DEF FdInv, Kinds, TypeOK
    <2>4. \A f, g \in Fds :
             table'[f] = table'[g] /\ table'[f] \in Conns => f = g
      BY <1>2, <1>3 DEF FdInv, Kinds
    <2> QED BY <2>1, <2>2, <2>3, <2>4 DEF Kinds
  <1>8. AllOwned'
    BY <1>1, <1>2, <1>4 DEF FdInv, AllOwned
  <1> QED BY <1>5, <1>6, <1>7, <1>8 DEF FdInv

\* The other steps leave the descriptors and their owners alone; a worker may
\* go on, but not to or from a place where it has none.
LEMMA QuietKeeps ==
    ASSUME FdInv,
           \/ UNCHANGED vars
           \/ \E w \in Workers :
                 ReadRequest(w) \/ ReadHeader(w) \/ Write(w) \/ Leave(w)
           \/ \E c \in Conns : Send(c) \/ Receive(c) \/ GoAway(c)
           \/ ShutdownBegins \/ UnloadSeats \/ Exit
    PROVE  FdInv'
  <1>1. UNCHANGED <<submitted, items, heap, mpc, accepted, table, connfd, fd>>
    BY DEF vars, poolVars, mainVars, localVars, ReadRequest, ReadHeader, Write,
           Leave, Send, Receive, GoAway, ShutdownBegins, UnloadSeats, Exit
  <1>2. \/ wpc' = wpc
        \/ \E w \in Workers :
              /\ wpc[w] \in {"request", "headers"}
              /\ \E pc \in {"headers", "operate", "reply"} :
                    wpc' = [wpc EXCEPT ![w] = pc]
        \/ \E w \in Workers :
              wpc[w] = "idle" /\ wpc' = [wpc EXCEPT ![w] = "left"]
    <2>1. CASE \/ UNCHANGED vars
               \/ \E w \in Workers : Write(w)
               \/ \E c \in Conns : Send(c) \/ Receive(c) \/ GoAway(c)
               \/ ShutdownBegins \/ UnloadSeats \/ Exit
      BY <2>1 DEF vars, Write, Send, Receive, GoAway, ShutdownBegins, UnloadSeats, Exit
    <2>2. CASE \E w \in Workers : ReadRequest(w)
      BY <2>2 DEF ReadRequest, At, Goes
    <2>3. CASE \E w \in Workers : ReadHeader(w)
      BY <2>3 DEF ReadHeader, At, Goes
    <2>4. CASE \E w \in Workers : Leave(w)
      BY <2>4 DEF Leave, At, Goes
    <2> QED BY <2>1, <2>2, <2>3, <2>4
  <1>3. TypeOK' /\ WorkerInv'
    <2>1. CASE wpc' = wpc
      BY <1>1, <2>1 DEF FdInv, TypeOK, WorkerInv
    <2>2. CASE \E w \in Workers :
              /\ wpc[w] \in {"request", "headers"}
              /\ \E pc \in {"headers", "operate", "reply"} :
                    wpc' = [wpc EXCEPT ![w] = pc]
      BY <1>1, <2>2 DEF FdInv, TypeOK, WorkerInv, Pcs
    <2>3. CASE \E w \in Workers :
              wpc[w] = "idle" /\ wpc' = [wpc EXCEPT ![w] = "left"]
      BY <1>1, <2>3 DEF FdInv, TypeOK, WorkerInv, Pcs
    <2> QED BY <1>2, <2>1, <2>2, <2>3
  <1> QED BY <1>1, <1>3
          DEF FdInv, QueueInv, Pending, OwnedOnce, Kinds, AllOwned

\* No step of the main thread, a worker or a client breaks it.
LEMMA FdStep == FdInv /\ [Next]_vars => FdInv'
  <1> SUFFICES ASSUME FdInv, [Next]_vars
               PROVE  FdInv'
    OBVIOUS
  <1> QED BY AcceptKeeps, AddKeeps, TakeKeeps, OperateKeeps, CloseFileKeeps,
             CloseKeeps, QuietKeeps DEF Next, Handle

\* The descriptors and their owners, in every reachable state.
THEOREM FdInvariant == Spec => []FdInv
  <1> QED BY FdInit, FdStep, PTL DEF Spec

-----------------------------------------------------------------------------
(* EachFdOwned.                                                              *)

\* The invariant in terms of Owners.
LEMMA OwnersCounted ==
    ASSUME FdInv, NEW f \in Fds
    PROVE  Cardinality(Owners(f)) = IF table[f] = Free THEN 0 ELSE 1
  <1> DEFINE tasks ==
                 {<<"task", n>> : n \in {k \in 1 .. MaxTasks :
                     /\ heap[k] = f
                     /\ \/ k \in ToSet(items)
                        \/ mpc = "add" /\ k = submitted + 1}}
             conns == {<<"connfd", w>> : w \in {v \in Workers : connfd[v] = f}}
             files == {<<"fd", w>> : w \in {v \in Workers : fd[v] = f}}
  <1>1. Owners(f) = tasks \cup conns \cup files
    BY DEF Owners
  <1>2. f # NoFd /\ Free \notin Conns /\ AFile # Free /\ AFile \notin Conns
    BY NoFdIsNone, MaxConnAssumption DEF Free, Conns, AFile
  <1>3. tasks = {<<"task", n>> : n \in {k \in 1 .. MaxTasks : heap[k] = f}}
    <2>1. \A k \in 1 .. MaxTasks : heap[k] = f =>
             k \in ToSet(items) \/ (mpc = "add" /\ k = submitted + 1)
      BY <1>2 DEF FdInv, QueueInv, Pending
    <2> QED BY <2>1
  <1>4. /\ \A m, n \in 1 .. MaxTasks : heap[m] = f /\ heap[n] = f => m = n
        /\ \A v, w \in Workers : connfd[v] = f /\ connfd[w] = f => v = w
        /\ \A v, w \in Workers : fd[v] = f /\ fd[w] = f => v = w
        /\ \A n \in 1 .. MaxTasks, w \in Workers :
              heap[n] = f => connfd[w] # f
        /\ \A n \in 1 .. MaxTasks, w \in Workers : heap[n] = f => fd[w] # f
        /\ \A v, w \in Workers : connfd[v] = f => fd[w] # f
    BY <1>2 DEF FdInv, OwnedOnce, Kinds
  <1> HIDE DEF tasks, conns, files
  <1>5. CASE table[f] = Free
    <2>1. /\ \A n \in 1 .. MaxTasks : heap[n] # f
          /\ \A w \in Workers : connfd[w] # f /\ fd[w] # f
      BY <1>2, <1>5 DEF FdInv, Kinds
    <2>2. tasks \cup conns \cup files = {}
      BY <1>3, <2>1 DEF conns, files
    <2> QED BY <1>1, <1>5, <2>2, FS_EmptySet
  <1>6. CASE table[f] # Free
    <2>1. \E x : tasks \cup conns \cup files = {x}
      <3>1. CASE \E n \in 1 .. MaxTasks : heap[n] = f
        <4>1. PICK n \in 1 .. MaxTasks : heap[n] = f
          BY <3>1
        <4>2. {k \in 1 .. MaxTasks : heap[k] = f} = {n}
          BY <1>4, <4>1
        <4>3. tasks = {<<"task", n>>} /\ conns = {} /\ files = {}
          BY <1>3, <1>4, <4>1, <4>2 DEF conns, files
        <4> QED BY <4>3
      <3>2. CASE \E w \in Workers : connfd[w] = f
        <4>1. PICK w \in Workers : connfd[w] = f
          BY <3>2
        <4>2. {v \in Workers : connfd[v] = f} = {w}
          BY <1>4, <4>1
        <4>3. tasks = {} /\ conns = {<<"connfd", w>>} /\ files = {}
          BY <1>3, <1>4, <4>1, <4>2 DEF conns, files
        <4> QED BY <4>3
      <3>3. CASE \E w \in Workers : fd[w] = f
        <4>1. PICK w \in Workers : fd[w] = f
          BY <3>3
        <4>2. {v \in Workers : fd[v] = f} = {w}
          BY <1>4, <4>1
        <4>3. tasks = {} /\ conns = {} /\ files = {<<"fd", w>>}
          BY <1>3, <1>4, <4>1, <4>2 DEF conns, files
        <4> QED BY <4>3
      <3> QED BY <1>6, <3>1, <3>2, <3>3 DEF FdInv, AllOwned
    <2> QED BY <1>1, <1>6, <2>1, FS_Singleton
  <1> QED BY <1>5, <1>6

\* Every open descriptor has exactly one owner that will close it, and a closed
\* one none, for any number of workers, tasks and clients (handle_connection
\* against the accept loop).
THEOREM FdsAreOwned == Spec => []EachFdOwned
  <1>1. FdInv => EachFdOwned
    BY OwnersCounted DEF EachFdOwned
  <1> QED BY <1>1, FdInvariant, PTL

-----------------------------------------------------------------------------
(* OwnReplies, for clients whose first line says what they mean, sequences   *)
(* of lines and blocks, and numbers of seats whose listing fits the buffer.  *)

FirstLine(s) == IF s.lines = <<>> THEN EndOfInput ELSE s.lines[1]

Understood ==
    /\ \A s \in Scripts :
          s.lines \in Seq(ToSet(s.lines)) /\ s.meant = Parsed(FirstLine(s))
    /\ \A n \in SeatCounts : n \in Nat /\ Index(n) <= BufSize
    /\ \A n \in DOMAIN Files : Files[n] \in Seq(ToSet(Files[n]))

\* The connection of each worker, the connections that were closed, and those
\* that nobody has read from.
PeerOf == [w \in Workers |-> Peer(w)]
HandledConns == {c \in Conns : Handled(c)}
UnreadConns ==
    {c \in Conns \ HandledConns :
        \A w \in Workers : PeerOf[w] = c => wpc[w] = "request"}

\* What replies consist of, and the replies to each client.
Meanings == {Meaning[l] : l \in DOMAIN Meaning}
FileBlocks == UNION {ToSet(Files[n]) : n \in DOMAIN Files}
Listings == {list_seats(n) : n \in SeatCounts}
Pieces == {"200", "400", "404"} \cup FileBlocks \cup Listings \cup Meanings
RepliesOf == [c \in Conns |-> Replies(script[c].meant)]

ReplyTypes ==
    /\ script \in [Conns -> Scripts] /\ sent \in [Conns -> Nat]
    /\ got \in [Conns -> Seq(Pieces)] /\ out \in [Workers -> Seq(Pieces)]
    /\ inbox = [c \in Conns |-> inbox[c]]
    /\ request = [w \in Workers |-> request[w]]
    /\ \A w \in Workers :
          wpc[w] \in {"headers", "operate"} => request[w] \in Meanings
    /\ seats \in SeatCounts

\* The seats are freed only when no worker can use them any more.
StopInv == freed => \A w \in Workers : wpc[w] = "left"

\* A connection that nobody has read from has all that its client has sent.
FreshInv ==
    \A c \in UnreadConns :
        /\ got[c] = <<>>
        /\ sent[c] <= Len(script[c].lines)
        /\ inbox[c] = SubSeq(script[c].lines, 1, sent[c])

\* A worker has its client's request, and then what is missing of the reply.
ServedInv ==
    \A w \in Workers : PeerOf[w] \in Conns \ gone =>
        /\ wpc[w] \in {"headers", "operate"} =>
              /\ got[PeerOf[w]] = <<>>
              /\ request[w] = script[PeerOf[w]].meant
              /\ request[w].op # "bad"
        /\ wpc[w] = "reply" => got[PeerOf[w]] \o out[w] \in RepliesOf[PeerOf[w]]

RepliedInv ==
    \A c \in Conns :
        /\ got[c] # <<>> => \E r \in RepliesOf[c] : IsPrefix(got[c], r)
        /\ c \in HandledConns \ gone => got[c] \in RepliesOf[c]

ReplyInv ==
    ReplyTypes /\ StopInv /\ FreshInv /\ ServedInv /\ RepliedInv

-----------------------------------------------------------------------------
(* Listings and sequences.                                                   *)

\* A buffer that holds the line of every seat holds the listing.
LEMMA ListingFits ==
    ASSUME Understood, NEW n \in SeatCounts
    PROVE  list_seats(n) = [op |-> "list", seats |-> 0 .. n - 1]
  <1>1. n \in Nat /\ Index(n) <= BufSize /\ BufSize \in Nat
    BY LimitsAssumption DEF Understood
  <1>2. \A k \in 0 .. n : Index(k) \in Nat /\ Index(k) <= Index(n)
    BY <1>1 DEF Index
  <1>3. Reached(n) = 0 .. n - 1
    BY <1>1, <1>2 DEF Reached, Format
  <1>4. \A k \in Reached(n) : Index(k + 1) <= BufSize
    BY <1>1, <1>2, <1>3
  <1> QED BY <1>3, <1>4 DEF list_seats

\* Writing one piece moves it from what is missing to what was received.
LEMMA PieceMoves ==
    ASSUME NEW g \in Seq(Pieces), NEW o \in Seq(Pieces), o # <<>>
    PROVE  /\ Append(g, Head(o)) \in Seq(Pieces) /\ Tail(o) \in Seq(Pieces)
           /\ Append(g, Head(o)) \o Tail(o) = g \o o
           /\ IsPrefix(Append(g, Head(o)), g \o o)
  <1> DEFINE a == Append(g, Head(o))
             t == Tail(o)
  <1>1. /\ Head(o) \in Pieces /\ Head(o) = o[1] /\ t \in Seq(Pieces)
        /\ Len(t) = Len(o) - 1 /\ Len(o) \in Nat \ {0}
        /\ \A i \in 1 .. Len(t) : t[i] = o[i + 1]
    BY HeadTailProperties, LenProperties, EmptySeq
  <1>2. /\ a \in Seq(Pieces) /\ Len(a) = Len(g) + 1 /\ Len(g) \in Nat
        /\ \A i \in 1 .. Len(g) : a[i] = g[i]
        /\ a[Len(g) + 1] = o[1]
    BY <1>1, AppendProperties, LenProperties
  <1> HIDE DEF a, t
  <1>3. /\ a \o t \in Seq(Pieces) /\ Len(a \o t) = Len(g) + Len(o)
        /\ \A i \in 1 .. Len(g) + Len(o) :
              (a \o t)[i] =
                  IF i <= Len(g) + 1 THEN a[i] ELSE t[i - (Len(g) + 1)]
    <2>1. Len(a) + Len(t) = Len(g) + Len(o)
      BY <1>1, <1>2
    <2>2. /\ a \o t \in Seq(Pieces) /\ Len(a \o t) = Len(a) + Len(t)
          /\ \A i \in 1 .. Len(a) + Len(t) :
                (a \o t)[i] = IF i <= Len(a) THEN a[i] ELSE t[i - Len(a)]
      BY <1>1, <1>2, ConcatProperties
    <2> QED BY <1>2, <2>1, <2>2
  <1>4. /\ g \o o \in Seq(Pieces) /\ Len(g \o o) = Len(g) + Len(o)
        /\ \A i \in 1 .. Len(g) + Len(o) :
              (g \o o)[i] = IF i <= Len(g) THEN g[i] ELSE o[i - Len(g)]
    BY ConcatProperties
  <1>5. ASSUME NEW i \in 1 .. Len(g) + Len(o)
        PROVE  (a \o t)[i] = (g \o o)[i]
    <2>1. CASE i <= Len(g)
      BY <1>2, <1>3, <1>4, <2>1
    <2>2. CASE i = Len(g) + 1
      <3>1. i - Len(g) = 1 /\ ~ (i <= Len(g)) /\ i <= Len(g) + 1
        BY <1>2, <2>2
      <3> QED BY <1>2, <1>3, <1>4, <2>2, <3>1
    <2>3. CASE i > Len(g) + 1
      <3>1. /\ i - (Len(g) + 1) \in 1 .. Len(t)
            /\ (i - (Len(g) + 1)) + 1 = i - Len(g)
            /\ ~ (i <= Len(g)) /\ ~ (i <= Len(g) + 1)
        BY <1>1, <1>2, <2>3
      <3>2. t[i - (Len(g) + 1)] = o[i - Len(g)]
        BY <1>1, <3>1
      <3> QED BY <1>3, <1>4, <3>1, <3>2
    <2> QED BY <1>1, <1>2, <2>1, <2>2, <2>3
  <1>6. a \o t = g \o o
    BY <1>3, <1>4, <1>5, SeqEqual
  <1>7. IsPrefix(a, g \o o)
    <2> DEFINE whole == g \o o
    <2>1. /\ whole \in Seq(Pieces) /\ Len(whole) = Len(g) + Len(o)
          /\ \A i \in 1 .. Len(a) : whole[i] = a[i]
      BY <1>1, <1>2, <1>3, <1>4, <1>6
    <2> HIDE DEF whole
    <2>2. Len(a) <= Len(whole) /\ Len(a) \in Nat
      BY <1>1, <1>2, <2>1
    <2>3. /\ SubSeq(a, 1, Len(a)) \in Seq(Pieces)
          /\ Len(SubSeq(a, 1, Len(a))) = Len(a)
          /\ \A i \in 1 .. Len(a) : SubSeq(a, 1, Len(a))[i] = a[i]
      BY <1>2, <2>2
    <2>4. /\ SubSeq(whole, 1, Len(a)) \in Seq(Pieces)
          /\ Len(SubSeq(whole, 1, Len(a))) = Len(a)
          /\ \A i \in 1 .. Len(a) : SubSeq(whole, 1, Len(a))[i] = whole[i]
      BY <2>1, <2>2
    <2>5. SubSeq(a, 1, Len(a)) = SubSeq(whole, 1, Len(a))
      BY <2>1, <2>3, <2>4, SeqEqual
    <2> QED BY <2>2, <2>5 DEF IsPrefix, whole
  <1> QED BY <1>1, <1>2, <1>6, <1>7 DEF a, t

-----------------------------------------------------------------------------
(* Who serves whom.                                                          *)

\* A client has at most one worker, which is inside handle_connection, and its
\* connection is not closed then.
LEMMA PeerFacts ==
    ASSUME FdInv
    PROVE  /\ PeerOf \in [Workers -> Conns \cup {Free}]
           /\ \A w \in Workers : PeerOf[w] \in Conns =>
                 /\ wpc[w] \notin {"idle", "left"}
                 /\ PeerOf[w] \notin HandledConns /\ PeerOf[w] <= accepted
           /\ \A v, w \in Workers :
                 PeerOf[v] = PeerOf[w] /\ PeerOf[v] \in Conns => v = w
  <1>1. Free \notin Conns
    BY DEF Free, Conns
  <1>2. \A w \in Workers :
           PeerOf[w] = IF connfd[w] = NoFd THEN Free ELSE table[connfd[w]]
    BY DEF PeerOf, Peer
  <1>3. \A w \in Workers : connfd[w] # NoFd =>
           connfd[w] \in Fds /\ table[connfd[w]] \in Conns
    BY DEF FdInv, TypeOK, Kinds
  <1>4. PeerOf \in [Workers -> Conns \cup {Free}]
    BY <1>2, <1>3 DEF PeerOf
  <1>5. \A w \in Workers : PeerOf[w] \in Conns => connfd[w] # NoFd
    BY <1>1, <1>2
  <1>6. ASSUME NEW w \in Workers, PeerOf[w] \in Conns
        PROVE  /\ wpc[w] \notin {"idle", "left"}
               /\ PeerOf[w] \notin HandledConns /\ PeerOf[w] <= accepted
    <2>1. connfd[w] \in Fds /\ table[connfd[w]] = PeerOf[w]
      BY <1>2, <1>3, <1>5, <1>6
    <2>2. PeerOf[w] <= accepted
      BY <1>6, <2>1, MaxConnAssumption DEF FdInv, TypeOK, Free, AFile, Conns
    <2> QED BY <1>5, <1>6, <2>1, <2>2
            DEF FdInv, WorkerInv, HandledConns, Handled
  <1>7. \A v, w \in Workers :
           PeerOf[v] = PeerOf[w] /\ PeerOf[v] \in Conns => v = w
    BY <1>2, <1>3, <1>5 DEF FdInv, Kinds, OwnedOnce
  <1> QED BY <1>4, <1>6, <1>7

\* Most steps leave the connections of the workers and the closed ones as they
\* are: a new descriptor was free, and a closed file is no connection.
LEMMA ViewKept ==
    ASSUME FdInv,
           \/ UNCHANGED vars \/ Accept \/ Add
           \/ \E w \in Workers :
                 \/ ReadRequest(w) \/ ReadHeader(w) \/ Operate(w)
                 \/ Write(w) \/ CloseFile(w) \/ Leave(w)
           \/ \E c \in Conns : Send(c) \/ Receive(c) \/ GoAway(c)
           \/ ShutdownBegins \/ UnloadSeats \/ Exit
    PROVE  PeerOf' = PeerOf /\ HandledConns' = HandledConns
  <1>0. Free \notin Conns /\ AFile # Free /\ AFile \notin Conns
    BY MaxConnAssumption DEF Free, Conns, AFile
  <1>1. ASSUME connfd' = connfd,
               \A w \in Workers : connfd[w] # NoFd =>
                  table'[connfd[w]] = table[connfd[w]]
        PROVE  PeerOf' = PeerOf
    BY <1>1 DEF PeerOf, Peer
  <1>2. CASE UNCHANGED <<connfd, table, accepted>>
    BY <1>2 DEF PeerOf, Peer, HandledConns, Handled
  <1>3. CASE Accept
    <2>1. CASE NewFd = NoFd
      BY <1>2, <1>3, <2>1 DEF Accept, localVars
    <2>2. CASE NewFd # NoFd
      <3>1. /\ NewFd \in Fds /\ table[NewFd] = Free /\ connfd' = connfd
            /\ accepted \in 0 .. MaxConn /\ accepted' = accepted + 1
            /\ \A f \in Fds :
                  table'[f] = IF f = NewFd THEN accepted + 1 ELSE table[f]
        BY <1>3, <2>2, NewFdIsFree DEF Accept, localVars, FdInv, TypeOK
      <3>2. PeerOf' = PeerOf
        BY <1>0, <1>1, <3>1 DEF FdInv, Kinds, TypeOK
      <3>3. ASSUME NEW c \in Conns
            PROVE  Handled(c)' <=> Handled(c)
        <4>1. CASE c = accepted + 1
          BY <3>1, <4>1, MaxConnAssumption DEF Handled
        <4>2. CASE c # accepted + 1
          <5>1. c <= accepted' <=> c <= accepted
            BY <3>1, <4>2, MaxConnAssumption DEF Conns
          <5>2. \A f \in Fds : table'[f] = c <=> table[f] = c
            BY <1>0, <3>1, <4>2
          <5> QED BY <5>1, <5>2 DEF Handled
        <4> QED BY <4>1, <4>2
      <3> QED BY <3>2, <3>3 DEF HandledConns
    <2> QED BY <2>1, <2>2
  <1>4. ASSUME NEW w \in Workers, Operate(w)
        PROVE  PeerOf' = PeerOf /\ HandledConns' = HandledConns
    <2>1. connfd' = connfd /\ accepted' = accepted
      BY <1>4 DEF Operate, mainVars
    <2>2. \/ table' = table
          \/ /\ NewFd \in Fds /\ table[NewFd] = Free
             /\ table' = [table EXCEPT ![NewFd] = AFile]
      BY <1>4, NewFdIsFree DEF Operate
    <2>3. CASE table' = table
      BY <1>2, <2>1, <2>3
    <2>4. CASE /\ NewFd \in Fds /\ table[NewFd] = Free
               /\ table' = [table EXCEPT ![NewFd] = AFile]
      <3>1. \A f \in Fds : table'[f] = IF f = NewFd THEN AFile ELSE table[f]
        BY <2>4 DEF FdInv, TypeOK
      <3>2. PeerOf' = PeerOf
        BY <1>0, <1>1, <2>1, <2>4, <3>1 DEF FdInv, Kinds, TypeOK
      <3>3. \A c \in Conns, f \in Fds : table'[f] = c <=> table[f] = c
        BY <1>0, <2>4, <3>1
      <3> QED BY <2>1, <3>2, <3>3 DEF HandledConns, Handled
    <2> QED BY <2>2, <2>3, <2>4
  <1>5. ASSUME NEW w \in Workers, CloseFile(w)
        PROVE  PeerOf' = PeerOf /\ HandledConns' = HandledConns
    <2>1. /\ connfd' = connfd /\ accepted' = accepted
          /\ fd[w] \in Fds /\ table[fd[w]] = AFile
          /\ table' = [table EXCEPT ![fd[w]] = Free]
      BY <1>5 DEF CloseFile, Closing, mainVars, FdInv, TypeOK, Kinds
    <2>2. \A f \in Fds : table'[f] = IF f = fd[w] THEN Free ELSE table[f]
      BY <2>1 DEF FdInv, TypeOK
    <2>3. PeerOf' = PeerOf
      BY <1>0, <1>1, <2>1, <2>2 DEF FdInv, Kinds, TypeOK
    <2>4. \A c \in Conns, f \in Fds : table'[f] = c <=> table[f] = c
      BY <1>0, <2>1, <2>2
    <2> QED BY <2>1, <2>3, <2>4 DEF HandledConns, Handled
  <1>6. CASE \/ UNCHANGED vars \/ Add
             \/ \E w \in Workers :
                   ReadRequest(w) \/ ReadHeader(w) \/ Write(w) \/ Leave(w)
             \/ \E c \in Conns : Send(c) \/ Receive(c) \/ GoAway(c)
             \/ ShutdownBegins \/ UnloadSeats \/ Exit
    BY <1>2, <1>6
    DEF vars, mainVars, localVars, Add, ReadRequest, ReadHeader, Write, Leave,
        Send, Receive, GoAway, ShutdownBegins, UnloadSeats, Exit
  <1> QED BY <1>3, <1>4, <1>5, <1>6

-----------------------------------------------------------------------------
(* One step of each kind.                                                    *)

\* The request line that a worker reads is what its client means.
LEMMA LineIsFirst ==
    ASSUME Understood, FdInv, ReplyInv,
           NEW w \in Workers, wpc[w] = "request", Readable(w)
    PROVE  /\ Meaning[Line(w)] \in Meanings
           /\ PeerOf[w] \in Conns \ gone =>
                 Meaning[Line(w)] = script[PeerOf[w]].meant
  <1> DEFINE c == PeerOf[w]
             s == script[c]
  <1>1. c = Peer(w) /\ (Connected(w) <=> c \in Conns)
    BY DEF PeerOf, Connected
  <1>2. EndOfInput \in DOMAIN Meaning
    BY DEF Meaning
  <1>3. CASE c \notin Conns
    <2>1. Line(w) = EndOfInput
      BY <1>1, <1>3 DEF Line
    <2> QED BY <1>2, <1>3, <2>1 DEF Meanings
  <1>4. CASE c \in Conns
    <2>1. c \in UnreadConns
      BY <1>4, PeerFacts DEF UnreadConns
    <2>2. /\ sent[c] \in Nat /\ sent[c] <= Len(s.lines)
          /\ inbox[c] = SubSeq(s.lines, 1, sent[c])
          /\ s \in Scripts /\ s.lines \in Seq(ToSet(s.lines))
          /\ s.meant = Parsed(FirstLine(s))
      BY <1>4, <2>1 DEF ReplyInv, FreshInv, ReplyTypes, Understood
    <2>3. /\ Len(s.lines) \in Nat
          /\ \A i \in 1 .. Len(s.lines) : s.lines[i] \in ToSet(s.lines)
      BY <2>2
    <2> HIDE DEF s
    <2>4. Line(w) = IF inbox[c] # <<>> THEN Head(inbox[c]) ELSE EndOfInput
      BY <1>1, <1>4 DEF Line
    <2> HIDE DEF c
    <2>5. CASE inbox[c] # <<>>
      <3>1. sent[c] # 0
        BY <2>2, <2>5, SubSeqEmpty
      <3>2. /\ inbox[c] \in Seq(ToSet(s.lines)) /\ Len(inbox[c]) = sent[c]
            /\ inbox[c][1] = s.lines[1]
        BY <2>2, <2>3, <3>1
      <3>3. Line(w) = s.lines[1] /\ s.lines[1] \in ToSet(s.lines)
        BY <2>2, <2>3, <2>4, <2>5, <3>1, <3>2
      <3>4. s.lines # <<>>
        BY <2>2, <2>3, <3>1
      <3>5. Line(w) = FirstLine(s) /\ Line(w) \in DOMAIN Meaning
        BY <2>2, <3>3, <3>4 DEF FirstLine, Meaning
      <3>6. Meaning[Line(w)] = Parsed(FirstLine(s))
        BY <3>5 DEF Meaning
      <3> QED BY <2>2, <3>5, <3>6 DEF Meanings, c, s
    <2>6. CASE inbox[c] = <<>>
      <3>1. Line(w) = EndOfInput /\ Meaning[EndOfInput] = Parsed(EndOfInput)
        BY <2>4, <2>6, <1>2 DEF Meaning
      <3>2. ASSUME c \notin gone
            PROVE  FirstLine(s) = EndOfInput
        <4>1. sent[c] = Len(s.lines)
          BY <1>1, <1>4, <2>6, <3>2 DEF Readable, Complete, AtEnd, s, c
        <4>2. s.lines = <<>>
          BY <2>2, <2>6, <4>1, SubSeqFull
        <4> QED BY <4>2 DEF FirstLine
      <3> QED BY <1>2, <2>2, <3>1, <3>2 DEF Meanings, c, s
    <2> QED BY <2>5, <2>6
  <1> QED BY <1>3, <1>4

\* Reading takes nothing from any other client.
LEMMA OthersUnread ==
    ASSUME FdInv, ReplyInv, NEW w \in Workers, GetLine(w)
    PROVE  /\ inbox' = [c \in Conns |-> inbox'[c]]
           /\ \A c \in Conns : c # PeerOf[w] => inbox'[c] = inbox[c]
  <1>1. PeerOf[w] = Peer(w)
    BY DEF PeerOf
  <1>2. inbox = [c \in Conns |-> inbox[c]]
    BY DEF ReplyInv, ReplyTypes
  <1>3. inbox' = inbox \/ \E x : inbox' = [inbox EXCEPT ![Peer(w)] = x]
    BY DEF GetLine
  <1> QED BY <1>1, <1>2, <1>3

\* Reading the request line keeps what is known of replies.
LEMMA RequestReplies ==
    ASSUME Understood, FdInv, ReplyInv, NEW w \in Workers, ReadRequest(w)
    PROVE  ReplyInv'
  <1>1. /\ wpc[w] = "request" /\ Readable(w)
        /\ request' = [request EXCEPT ![w] = Meaning[Line(w)]]
        /\ UNCHANGED <<script, sent, gone, got, seats, freed>>
    BY DEF ReadRequest, At, GetLine, clientVars
  <1>2. /\ Meaning[Line(w)] \in Meanings
        /\ PeerOf[w] \in Conns \ gone =>
              Meaning[Line(w)] = script[PeerOf[w]].meant
    BY <1>1, LineIsFirst
  <1>3. /\ request' = [v \in Workers |-> request'[v]]
        /\ \A v \in Workers :
              request'[v] = IF v = w THEN Meaning[Line(w)] ELSE request[v]
    BY <1>1 DEF ReplyInv, ReplyTypes
  <1>4. \/ /\ request'[w].op = "bad"
           /\ out' = [out EXCEPT ![w] = <<"400">>]
           /\ wpc' = [wpc EXCEPT ![w] = "reply"]
        \/ /\ request'[w].op # "bad"
           /\ out' = out
           /\ wpc' = [wpc EXCEPT ![w] = "headers"]
    BY DEF ReadRequest, Goes
  <1>5. /\ \A v \in Workers : wpc'[v] = IF v = w THEN wpc'[w] ELSE wpc[v]
        /\ wpc'[w] \in {"headers", "reply"}
        /\ \A v \in Workers : v # w => out'[v] = out[v]
        /\ wpc'[w] = "reply" => request'[w].op = "bad" /\ out'[w] = <<"400">>
        /\ wpc'[w] = "headers" => request'[w].op # "bad"
    BY <1>4 DEF FdInv, TypeOK, ReplyInv, ReplyTypes
  <1>6. PeerOf' = PeerOf /\ HandledConns' = HandledConns
    BY ViewKept
  <1>7. RepliesOf' = RepliesOf
    BY <1>1 DEF RepliesOf, Replies
  <1>8. /\ inbox' = [c \in Conns |-> inbox'[c]]
        /\ \A c \in Conns : c # PeerOf[w] => inbox'[c] = inbox[c]
    BY OthersUnread DEF ReadRequest
  <1>9. ReplyTypes'
    <2>1. out' \in [Workers -> Seq(Pieces)]
      <3>1. <<"400">> \in Seq(Pieces)
        BY DEF Pieces
      <3> QED BY <1>4, <3>1 DEF ReplyInv, ReplyTypes
    <2> QED BY <1>1, <1>2, <1>3, <1>5, <1>8, <2>1 DEF ReplyInv, ReplyTypes
  <1>10. StopInv'
    BY <1>1 DEF ReplyInv, StopInv
  <1>11. FreshInv'
    <2>1. PeerOf[w] \notin UnreadConns'
      BY <1>5, <1>6 DEF UnreadConns
    <2>2. UnreadConns' \subseteq UnreadConns
      BY <1>1, <1>5, <1>6 DEF UnreadConns
    <2>3. \A c \in UnreadConns' : inbox'[c] = inbox[c]
      BY <1>8, <2>1 DEF UnreadConns
    <2> QED BY <1>1, <2>2, <2>3 DEF ReplyInv, FreshInv
  <1>12. ServedInv'
    <2> SUFFICES ASSUME NEW v \in Workers, PeerOf[v] \in Conns \ gone
                 PROVE  /\ wpc'[v] \in {"headers", "operate"} =>
                              /\ got[PeerOf[v]] = <<>>
                              /\ request'[v] = script[PeerOf[v]].meant
                              /\ request'[v].op # "bad"
                        /\ wpc'[v] = "reply" =>
                              got[PeerOf[v]] \o out'[v] \in RepliesOf[PeerOf[v]]
      BY <1>1, <1>6, <1>7 DEF ServedInv
    <2>1. CASE v # w
      BY <1>3, <1>5, <2>1 DEF ReplyInv, ServedInv
    <2>2. CASE v = w
      <3>1. PeerOf[w] \in UnreadConns
        BY <1>1, <2>2, PeerFacts DEF UnreadConns
      <3>2. got[PeerOf[w]] = <<>>
        BY <3>1 DEF ReplyInv, FreshInv
      <3>3. request'[w] = script[PeerOf[w]].meant
        BY <1>2, <1>3, <2>2
      <3>4. CASE wpc'[w] = "headers"
        BY <1>5, <2>2, <3>2, <3>3, <3>4
      <3>5. CASE wpc'[w] = "reply"
        <4>1. script[PeerOf[w]].meant.op = "bad" /\ out'[w] = <<"400">>
          BY <1>5, <3>3, <3>5
        <4>2. <<"400">> \in RepliesOf[PeerOf[w]]
          BY <2>2, <4>1 DEF RepliesOf, Replies
        <4>3. <<>> \o <<"400">> = <<"400">>
          OBVIOUS
        <4> QED BY <2>2, <3>2, <3>5, <4>1, <4>2, <4>3
      <3> QED BY <1>5, <3>4, <3>5
    <2> QED BY <2>1, <2>2
  <1>13. RepliedInv'
    BY <1>1, <1>6, <1>7 DEF ReplyInv, RepliedInv
  <1> QED BY <1>9, <1>10, <1>11, <1>12, <1>13 DEF ReplyInv

\* So does reading a header line.
LEMMA HeaderReplies ==
    ASSUME FdInv, ReplyInv, NEW w \in Workers, ReadHeader(w)
    PROVE  ReplyInv'
  <1>1. /\ wpc[w] = "headers"
        /\ UNCHANGED <<script, sent, gone, got, out, request, seats, freed>>
    BY DEF ReadHeader, At, clientVars, localVars
  <1>2. wpc' = wpc \/ wpc' = [wpc EXCEPT ![w] = "operate"]
    BY DEF ReadHeader, Goes
  <1>3. /\ \A v \in Workers : v # w => wpc'[v] = wpc[v]
        /\ wpc'[w] \in {"headers", "operate"}
    BY <1>1, <1>2 DEF FdInv, TypeOK
  <1>4. PeerOf' = PeerOf /\ HandledConns' = HandledConns
    BY ViewKept
  <1>5. RepliesOf' = RepliesOf
    BY <1>1 DEF RepliesOf, Replies
  <1>6. /\ inbox' = [c \in Conns |-> inbox'[c]]
        /\ \A c \in Conns : c # PeerOf[w] => inbox'[c] = inbox[c]
    BY OthersUnread DEF ReadHeader
  <1>7. ReplyTypes'
    BY <1>1, <1>3, <1>6 DEF ReplyInv, ReplyTypes
  <1>8. StopInv'
    BY <1>1 DEF ReplyInv, StopInv
  <1>9. FreshInv'
    <2>1. PeerOf[w] \notin UnreadConns' /\ UnreadConns' \subseteq UnreadConns
      BY <1>1, <1>3, <1>4 DEF UnreadConns
    <2>2. \A c \in UnreadConns' : inbox'[c] = inbox[c]
      BY <1>6, <2>1 DEF UnreadConns
    <2> QED BY <1>1, <2>1, <2>2 DEF ReplyInv, FreshInv
  <1>10. ServedInv'
    <2>1. \A v \in Workers :
             /\ wpc'[v] \in {"headers", "operate"} =>
                   wpc[v] \in {"headers", "operate"}
             /\ wpc'[v] = "reply" => wpc[v] = "reply"
      BY <1>1, <1>3
    <2> QED BY <1>1, <1>4, <1>5, <2>1 DEF ReplyInv, ServedInv
  <1>11. RepliedInv'
    BY <1>1, <1>4, <1>5 DEF ReplyInv, RepliedInv
  <1> QED BY <1>7, <1>8, <1>9, <1>10, <1>11 DEF ReplyInv

\* What Operate makes up, from a request that the worker has and with the seats
\* still there, is a reply to that request.
LEMMA OperateReplies ==
    ASSUME Understood, FdInv, ReplyInv, NEW w \in Workers, Operate(w)
    PROVE  ReplyInv'
  <1> DEFINE r == request[w]
             reply == out'[w]
  <1>1. /\ wpc[w] = "operate" /\ wpc' = [wpc EXCEPT ![w] = "reply"]
        /\ UNCHANGED <<script, sent, gone, inbox, got, request, seats, freed>>
    BY DEF Operate, At, Goes, clientVars
  <1>2. /\ \A v \in Workers : v # w => wpc'[v] = wpc[v]
        /\ wpc'[w] = "reply"
    BY <1>1 DEF FdInv, TypeOK
  <1>3. ~freed
    BY <1>1 DEF ReplyInv, StopInv
  <1>4. PICK found \in BOOLEAN :
           /\ found = (r.op = "file" /\ r.name \in DOMAIN Files /\ NewFd # NoFd)
           /\ out' = [out EXCEPT ![w] =
                 CASE freed -> <<"freed seats">>
                   [] r.op = "file" ->
                         IF found THEN <<"200">> \o Files[r.name] ELSE <<"404">>
                   [] r.op = "list" -> <<"200", list_seats(seats)>>
                   [] OTHER -> <<"200", r>>]
    BY DEF Operate
  <1>5. /\ \A v \in Workers : v # w => out'[v] = out[v]
        /\ reply = CASE r.op = "file" ->
                        IF found THEN <<"200">> \o Files[r.name] ELSE <<"404">>
                     [] r.op = "list" -> <<"200", list_seats(seats)>>
                     [] OTHER -> <<"200", r>>
        /\ out' = [out EXCEPT ![w] = reply]
    BY <1>3, <1>4 DEF ReplyInv, ReplyTypes
  <1>6. /\ "200" \in Pieces /\ "404" \in Pieces /\ r \in Meanings
        /\ list_seats(seats) \in Pieces /\ r \in Pieces
    <2>1. "200" \in Pieces /\ "404" \in Pieces
      BY DEF Pieces
    <2>2. \A x \in Meanings : x \in Pieces
      BY DEF Pieces
    <2>3. \A n \in SeatCounts : list_seats(n) \in Pieces
      BY DEF Pieces, Listings
    <2>4. r \in Meanings /\ seats \in SeatCounts
      BY <1>1 DEF ReplyInv, ReplyTypes
    <2> QED BY <2>1, <2>2, <2>3, <2>4
  <1>7. found => /\ Files[r.name] \in Seq(Pieces)
                 /\ r.name \in DOMAIN Files /\ r.op = "file"
    <2> SUFFICES ASSUME found
                 PROVE  Files[r.name] \in Seq(Pieces)
      BY <1>4
    <2>1. r.name \in DOMAIN Files
      BY <1>4
    <2>2. Files[r.name] \in Seq(ToSet(Files[r.name]))
      BY <2>1 DEF Understood
    <2>3. ToSet(Files[r.name]) \subseteq Pieces
      BY <2>1 DEF Pieces, FileBlocks
    <2> QED BY <2>2, <2>3, SeqMonotonic
  <1> HIDE DEF r, reply
  <1>8. reply \in Seq(Pieces)
    BY <1>5, <1>6, <1>7
  <1>9. PeerOf' = PeerOf /\ HandledConns' = HandledConns
    BY ViewKept
  <1>10. RepliesOf' = RepliesOf
    BY <1>1 DEF RepliesOf, Replies
  <1>11. ReplyTypes'
    BY <1>1, <1>2, <1>5, <1>8 DEF ReplyInv, ReplyTypes
  <1>12. StopInv'
    BY <1>1, <1>3 DEF StopInv
  <1>13. FreshInv'
    <2>1. UnreadConns' \subseteq UnreadConns
      BY <1>1, <1>2, <1>9 DEF UnreadConns
    <2> QED BY <1>1, <2>1 DEF ReplyInv, FreshInv
  <1>14. ServedInv'
    <2> SUFFICES ASSUME NEW v \in Workers, PeerOf[v] \in Conns \ gone
                 PROVE  /\ wpc'[v] \in {"headers", "operate"} =>
                              /\ got[PeerOf[v]] = <<>>
                              /\ request[v] = script[PeerOf[v]].meant
                              /\ request[v].op # "bad"
                        /\ wpc'[v] = "reply" =>
                              got[PeerOf[v]] \o out'[v] \in RepliesOf[PeerOf[v]]
      BY <1>1, <1>9, <1>10 DEF ServedInv
    <2>1. CASE v # w
      BY <1>2, <1>5, <2>1 DEF ReplyInv, ServedInv
    <2>2. CASE v = w
      <3>1. /\ got[PeerOf[w]] = <<>>
            /\ r = script[PeerOf[w]].meant /\ r.op # "bad"
        BY <1>1, <2>2 DEF ReplyInv, ServedInv, r
      <3>2. reply \in Replies(r)
        <4>1. CASE r.op = "file"
          BY <1>5, <1>7, <4>1 DEF Replies
        <4>2. CASE r.op = "list"
          <5>1. list_seats(seats) = [op |-> "list", seats |-> 0 .. seats - 1]
            BY ListingFits DEF ReplyInv, ReplyTypes
          <5> QED BY <1>5, <4>2, <5>1 DEF Replies
        <4>3. CASE r.op \notin {"file", "list"}
          BY <1>5, <3>1, <4>3 DEF Replies
        <4> QED BY <4>1, <4>2, <4>3
      <3>3. reply \in RepliesOf[PeerOf[w]]
        BY <2>2, <3>1, <3>2 DEF RepliesOf
      <3>4. <<>> \o reply = reply
        BY <1>8, ConcatEmptySeq
      <3> QED BY <1>2, <2>2, <3>1, <3>3, <3>4 DEF reply
    <2> QED BY <2>1, <2>2
  <1>15. RepliedInv'
    BY <1>1, <1>9, <1>10 DEF ReplyInv, RepliedInv
  <1> QED BY <1>11, <1>12, <1>13, <1>14, <1>15 DEF ReplyInv

\* A piece reaches the client of this worker and nobody else.
LEMMA WriteReplies ==
    ASSUME FdInv, ReplyInv, NEW w \in Workers, Write(w)
    PROVE  ReplyInv'
  <1> DEFINE c == PeerOf[w]
  <1>0. /\ Peer(w) = c /\ (Connected(w) <=> c \in Conns)
        /\ c \in Conns \cup {Free} /\ Free \notin Conns
    BY PeerFacts DEF PeerOf, Connected, Free, Conns
  <1>1. /\ wpc[w] = "reply" /\ out[w] # <<>>
        /\ out' = [out EXCEPT ![w] = Tail(out[w])]
        /\ UNCHANGED <<script, sent, gone, inbox, wpc, request, seats, freed>>
    BY DEF Write, At, clientVars, localVars
  <1> HIDE DEF c
  <1>2. \/ /\ c \in Conns \ gone
           /\ got' = [got EXCEPT ![c] = Append(got[c], Head(out[w]))]
        \/ c \notin Conns \ gone /\ got' = got
    BY <1>0 DEF Write
  <1>3. out[w] \in Seq(Pieces) /\ Tail(out[w]) \in Seq(Pieces)
    BY <1>1, HeadTailProperties DEF ReplyInv, ReplyTypes
  <1>4. \A v \in Workers :
           out'[v] = IF v = w THEN Tail(out[w]) ELSE out[v]
    BY <1>1 DEF ReplyInv, ReplyTypes
  <1>5. PeerOf' = PeerOf /\ HandledConns' = HandledConns
    BY ViewKept
  <1>6. RepliesOf' = RepliesOf
    BY <1>1 DEF RepliesOf, Replies
  <1>7. UnreadConns' = UnreadConns
    BY <1>1, <1>5 DEF UnreadConns
  <1>8. StopInv'
    BY <1>1 DEF ReplyInv, StopInv
  <1>9. CASE c \in Conns \ gone
    <2> DEFINE more == Append(got[c], Head(out[w]))
    <2>1. got[c] \in Seq(Pieces) /\ got[c] \o out[w] \in RepliesOf[c]
      BY <1>1, <1>9 DEF ReplyInv, ReplyTypes, ServedInv, c
    <2>2. /\ more \in Seq(Pieces)
          /\ more \o Tail(out[w]) = got[c] \o out[w]
          /\ IsPrefix(more, got[c] \o out[w])
      BY <1>1, <1>3, <2>1, PieceMoves
    <2> HIDE DEF more
    <2>3. /\ \A d \in Conns : got'[d] = IF d = c THEN more ELSE got[d]
          /\ got' \in [Conns -> Seq(Pieces)]
      BY <1>2, <1>9, <2>2 DEF ReplyInv, ReplyTypes, more
    <2>4. c \notin UnreadConns /\ c \notin HandledConns
      BY <1>1, <1>9, PeerFacts DEF UnreadConns, c
    <2>5. ReplyTypes'
      BY <1>1, <1>3, <2>3 DEF ReplyInv, ReplyTypes
    <2>6. FreshInv'
      BY <1>1, <1>7, <2>3, <2>4 DEF ReplyInv, FreshInv, UnreadConns
    <2>7. ServedInv'
      <3> SUFFICES ASSUME NEW v \in Workers, PeerOf[v] \in Conns \ gone
                   PROVE  /\ wpc[v] \in {"headers", "operate"} =>
                                /\ got'[PeerOf[v]] = <<>>
                                /\ request[v] = script[PeerOf[v]].meant
                                /\ request[v].op # "bad"
                          /\ wpc[v] = "reply" =>
                              got'[PeerOf[v]] \o out'[v]
                                  \in RepliesOf[PeerOf[v]]
        BY <1>1, <1>5, <1>6 DEF ServedInv
      <3>1. CASE v = w
        BY <1>1, <1>4, <1>9, <2>1, <2>2, <2>3, <3>1 DEF c
      <3>2. CASE v # w
        <4>1. PeerOf[v] # c
          BY <1>9, <3>2, PeerFacts DEF c
        <4> QED BY <1>4, <2>3, <3>2, <4>1 DEF ReplyInv, ServedInv
      <3> QED BY <3>1, <3>2
    <2>8. RepliedInv'
      BY <1>1, <1>5, <1>6, <2>1, <2>2, <2>3, <2>4 DEF ReplyInv, RepliedInv
    <2> QED BY <1>8, <2>5, <2>6, <2>7, <2>8 DEF ReplyInv
  <1>10. CASE c \notin Conns \ gone
    <2>1. got' = got
      BY <1>2, <1>10
    <2>2. ReplyTypes'
      BY <1>1, <1>3, <2>1 DEF ReplyInv, ReplyTypes
    <2>3. ServedInv'
      BY <1>1, <1>4, <1>5, <1>6, <1>10, <2>1 DEF ReplyInv, ServedInv, c
    <2>4. FreshInv' /\ RepliedInv'
      BY <1>1, <1>5, <1>6, <1>7, <2>1 DEF ReplyInv, FreshInv, RepliedInv
    <2> QED BY <1>8, <2>2, <2>3, <2>4 DEF ReplyInv
  <1> QED BY <1>9, <1>10

\* The client of a task that a worker takes was nobody's client.
LEMMA TakeReplies ==
    ASSUME FdInv, ReplyInv, NEW w \in Workers, Take(w)
    PROVE  ReplyInv'
  <1>1. /\ wpc[w] = "idle" /\ wpc' = [wpc EXCEPT ![w] = "request"]
        /\ UNCHANGED <<script, sent, gone, inbox, got, request, out, seats,
                       freed, table, accepted>>
    BY DEF Take, At, Goes, clientVars
  <1>2. /\ \A v \in Workers : v # w => wpc'[v] = wpc[v]
        /\ wpc'[w] = "request"
    BY <1>1 DEF FdInv, TypeOK
  <1>3. \A v \in Workers : v # w => PeerOf'[v] = PeerOf[v]
    <2>1. connfd' = [connfd EXCEPT ![w] = TakenFd(Head(items))]
      BY DEF Take
    <2>2. \A v \in Workers : v # w => connfd'[v] = connfd[v]
      BY <2>1 DEF FdInv, TypeOK
    <2> QED BY <1>1, <2>2 DEF PeerOf, Peer
  <1>4. HandledConns' = HandledConns
    BY <1>1 DEF HandledConns, Handled
  <1>5. RepliesOf' = RepliesOf
    BY <1>1 DEF RepliesOf, Replies
  <1>6. PeerOf[w] \notin Conns
    BY <1>1, PeerFacts
  <1>7. UnreadConns' \subseteq UnreadConns
    BY <1>1, <1>2, <1>3, <1>4, <1>6 DEF UnreadConns
  <1>8. ReplyTypes'
    BY <1>1, <1>2 DEF ReplyInv, ReplyTypes
  <1>9. StopInv'
    BY <1>1 DEF ReplyInv, StopInv
  <1>10. ServedInv'
    BY <1>1, <1>2, <1>3, <1>5 DEF ReplyInv, ServedInv
  <1>11. FreshInv' /\ RepliedInv'
    BY <1>1, <1>4, <1>5, <1>7 DEF ReplyInv, FreshInv, RepliedInv
  <1> QED BY <1>8, <1>9, <1>10, <1>11 DEF ReplyInv

\* A connection is closed when its client has the whole reply.
LEMMA CloseReplies ==
    ASSUME FdInv, ReplyInv, NEW w \in Workers, Close(w)
    PROVE  ReplyInv'
  <1> DEFINE c == PeerOf[w]
  <1>1. /\ wpc[w] = "reply" /\ wpc' = [wpc EXCEPT ![w] = "idle"]
        /\ out[w] = <<>>
        /\ request' = [request EXCEPT ![w] = [op |-> "none"]]
        /\ connfd' = [connfd EXCEPT ![w] = NoFd]
        /\ table' = IF connfd[w] = NoFd THEN table
                    ELSE [table EXCEPT ![connfd[w]] = Free]
        /\ UNCHANGED <<script, sent, gone, inbox, got, out, seats, freed,
                       accepted>>
    BY DEF Close, At, Goes, Closing, clientVars, mainVars
  <1>2. /\ \A v \in Workers : v # w => wpc'[v] = wpc[v]
        /\ wpc'[w] = "idle"
        /\ \A v \in Workers : v # w => connfd'[v] = connfd[v]
        /\ connfd'[w] = NoFd
    BY <1>1 DEF FdInv, TypeOK
  <1>3. connfd[w] # NoFd => connfd[w] \in Fds /\ table[connfd[w]] = c
    BY DEF FdInv, TypeOK, PeerOf, Peer
  <1>4. \A f \in Fds : table'[f] = IF f = connfd[w] THEN Free ELSE table[f]
    BY <1>1, NoFdIsNone DEF FdInv, TypeOK
  <1>5. \A v \in Workers : v # w => PeerOf'[v] = PeerOf[v]
    <2>1. \A v \in Workers : v # w /\ connfd[v] # NoFd =>
             connfd[v] \in Fds /\ connfd[v] # connfd[w]
      BY DEF FdInv, TypeOK, OwnedOnce
    <2> QED BY <1>2, <1>4, <2>1 DEF PeerOf, Peer
  <1>6. PeerOf'[w] = Free /\ Free \notin Conns
    BY <1>2 DEF PeerOf, Peer, Free, Conns
  <1>7. HandledConns' \subseteq HandledConns \cup {c}
    <2> SUFFICES ASSUME NEW d \in Conns, Handled(d)', d # c
                 PROVE  Handled(d)
      BY DEF HandledConns
    <2>1. d <= accepted
      BY <1>1 DEF Handled
    <2>2. ASSUME NEW f \in Fds, table[f] = d
          PROVE  FALSE
      <3>1. f # connfd[w]
        BY <1>3, <2>2, NoFdIsNone
      <3>2. table'[f] = d
        BY <1>4, <2>2, <3>1
      <3> QED BY <3>2 DEF Handled
    <2> QED BY <2>1, <2>2 DEF Handled
  <1>8. c \in Conns => c \in HandledConns'
    <2> SUFFICES ASSUME c \in Conns
                 PROVE  c <= accepted' /\ \A f \in Fds : table'[f] # c
      BY DEF HandledConns, Handled
    <2>1. c <= accepted'
      BY <1>1, PeerFacts
    <2>2. connfd[w] # NoFd
      BY <1>6 DEF PeerOf, Peer
    <2>3. \A f \in Fds : table[f] = c => f = connfd[w]
      BY <1>3, <2>2 DEF FdInv, Kinds
    <2>4. \A f \in Fds : table'[f] # c
      BY <1>4, <1>6, <2>3
    <2> QED BY <2>1, <2>4
  <1>9. HandledConns \subseteq HandledConns'
    <2> SUFFICES ASSUME NEW d \in Conns, Handled(d)
                 PROVE  Handled(d)'
      BY DEF HandledConns
    <2>1. \A f \in Fds : table'[f] # d
      BY <1>4, <1>6 DEF Handled
    <2> QED BY <1>1, <2>1 DEF Handled
  <1>10. RepliesOf' = RepliesOf
    BY <1>1 DEF RepliesOf, Replies
  <1> HIDE DEF c
  <1>11. UnreadConns' \subseteq UnreadConns
    <2>1. c \notin UnreadConns'
      BY <1>8 DEF UnreadConns
    <2> QED BY <1>2, <1>5, <1>9, <2>1 DEF UnreadConns, c
  <1>12. ReplyTypes'
    BY <1>1, <1>2 DEF ReplyInv, ReplyTypes
  <1>13. StopInv'
    BY <1>1 DEF ReplyInv, StopInv
  <1>14. ServedInv'
    <2>1. \A v \in Workers : v # w => request'[v] = request[v]
      BY <1>1 DEF ReplyInv, ReplyTypes
    <2> QED BY <1>1, <1>2, <1>5, <1>6, <1>10, <2>1 DEF ReplyInv, ServedInv
  <1>15. FreshInv'
    BY <1>1, <1>11 DEF ReplyInv, FreshInv
  <1>16. RepliedInv'
    <2>1. ASSUME c \in Conns \ gone
          PROVE  got[c] \in RepliesOf[c]
      <3>1. got[c] \o <<>> \in RepliesOf[c] /\ got[c] \in Seq(Pieces)
        BY <1>1, <2>1 DEF ReplyInv, ServedInv, ReplyTypes, c
      <3> QED BY <3>1, ConcatEmptySeq
    <2> QED BY <1>1, <1>7, <1>10, <2>1 DEF ReplyInv, RepliedInv
  <1> QED BY <1>12, <1>13, <1>14, <1>15, <1>16 DEF ReplyInv

\* A line arrives at a connection; reading it comes later.
LEMMA SendReplies ==
    ASSUME Understood, FdInv, ReplyInv, NEW c \in Conns, Send(c)
    PROVE  ReplyInv'
  <1> DEFINE lines == script[c].lines
  <1>1. /\ sent[c] < Len(lines)
        /\ sent' = [sent EXCEPT ![c] = sent[c] + 1]
        /\ inbox' = [inbox EXCEPT ![c] = Append(inbox[c], lines[sent[c] + 1])]
        /\ UNCHANGED <<script, gone, got, wpc, request, out, seats, freed>>
    BY DEF Send, localVars
  <1>2. lines \in Seq(ToSet(lines)) /\ sent[c] \in Nat /\ Len(lines) \in Nat
    BY DEF Understood, ReplyInv, ReplyTypes
  <1> HIDE DEF lines
  <1>3. PeerOf' = PeerOf /\ HandledConns' = HandledConns
    BY ViewKept
  <1>4. RepliesOf' = RepliesOf
    BY <1>1 DEF RepliesOf, Replies
  <1>5. UnreadConns' = UnreadConns
    BY <1>1, <1>3 DEF UnreadConns
  <1>6. ReplyTypes'
    <2>1. sent' \in [Conns -> Nat]
      BY <1>1, <1>2 DEF ReplyInv, ReplyTypes
    <2>2. inbox = [d \in Conns |-> inbox[d]]
      BY DEF ReplyInv, ReplyTypes
    <2>3. inbox' = [d \in Conns |-> inbox'[d]]
      BY <1>1, <2>2
    <2> QED BY <1>1, <2>1, <2>3 DEF ReplyInv, ReplyTypes
  <1>7. StopInv' /\ ServedInv' /\ RepliedInv'
    BY <1>1, <1>3, <1>4 DEF ReplyInv, StopInv, ServedInv, RepliedInv
  <1>8. FreshInv'
    <2> SUFFICES ASSUME NEW d \in UnreadConns
                 PROVE  /\ got[d] = <<>>
                        /\ sent'[d] <= Len(script[d].lines)
                        /\ inbox'[d] = SubSeq(script[d].lines, 1, sent'[d])
      BY <1>1, <1>5 DEF FreshInv
    <2>1. /\ got[d] = <<>> /\ d \in Conns
          /\ sent[d] <= Len(script[d].lines)
          /\ inbox[d] = SubSeq(script[d].lines, 1, sent[d])
      BY DEF ReplyInv, FreshInv, UnreadConns
    <2>2. inbox = [e \in Conns |-> inbox[e]] /\ sent \in [Conns -> Nat]
      BY DEF ReplyInv, ReplyTypes
    <2>3. CASE d # c
      <3>1. inbox'[d] = inbox[d] /\ sent'[d] = sent[d]
        BY <1>1, <2>1, <2>2, <2>3
      <3> QED BY <2>1, <3>1
    <2>4. CASE d = c
      <3>1. /\ sent'[c] = sent[c] + 1 /\ sent[c] + 1 <= Len(lines)
            /\ inbox'[c] = Append(SubSeq(lines, 1, sent[c]), lines[sent[c] + 1])
        BY <1>1, <1>2, <2>1, <2>2, <2>4 DEF lines
      <3> DEFINE k == sent[c] + 1
      <3>2. k \in 1 .. Len(lines) /\ k - 1 = sent[c] /\ 1 \in 1 .. Len(lines)
        BY <1>1, <1>2
      <3>3. SubSeq(lines, 1, k) = SubSeq(lines, 1, k - 1) \o <<lines[k]>>
        BY <1>2, <3>2, SubSeqRecursiveSecond
      <3>4. /\ SubSeq(lines, 1, sent[c]) \in Seq(ToSet(lines))
            /\ lines[k] \in ToSet(lines)
        BY <1>2, <3>2
      <3>5. Append(SubSeq(lines, 1, sent[c]), lines[k])
               = SubSeq(lines, 1, sent[c]) \o <<lines[k]>>
        BY <3>4, AppendIsConcat
      <3>6. inbox'[c] = SubSeq(lines, 1, k)
        BY <3>1, <3>2, <3>3, <3>5
      <3> QED BY <2>1, <2>4, <3>1, <3>6 DEF lines
    <2> QED BY <2>3, <2>4
  <1> QED BY <1>6, <1>7, <1>8 DEF ReplyInv

\* No other step touches a connection, a request or a reply.
LEMMA RestReplies ==
    ASSUME FdInv, ReplyInv,
           \/ UNCHANGED vars \/ Accept \/ Add
           \/ \E w \in Workers : CloseFile(w) \/ Leave(w)
           \/ \E c \in Conns : Receive(c) \/ GoAway(c)
           \/ ShutdownBegins \/ UnloadSeats \/ Exit
    PROVE  ReplyInv'
  <1>1. UNCHANGED <<script, sent, inbox, got, request, out, seats>>
    BY DEF vars, clientVars, localVars, Accept, Add, CloseFile, Leave, Receive, GoAway,
           ShutdownBegins, UnloadSeats, Exit
  <1>2. PeerOf' = PeerOf /\ HandledConns' = HandledConns
    BY ViewKept
  <1>3. RepliesOf' = RepliesOf
    BY <1>1 DEF RepliesOf, Replies
  <1>4. gone \subseteq gone'
    BY DEF vars, clientVars, Accept, Add, CloseFile, Leave, Receive, GoAway,
           ShutdownBegins, UnloadSeats, Exit
  <1>5. \/ wpc' = wpc
        \/ \E w \in Workers :
              wpc[w] = "idle" /\ wpc' = [wpc EXCEPT ![w] = "left"]
    BY DEF vars, Accept, Add, CloseFile, Leave, At, Goes, Receive, GoAway,
           ShutdownBegins, UnloadSeats, Exit
  <1>6. /\ \A w \in Workers :
              wpc'[w] = wpc[w] \/ (wpc[w] = "idle" /\ wpc'[w] = "left")
        /\ \A w \in Workers : PeerOf[w] \in Conns => wpc'[w] = wpc[w]
    BY <1>5, PeerFacts DEF FdInv, TypeOK
  <1>7. freed' = freed \/ \A w \in Workers : wpc[w] = "left"
    BY DEF vars, Accept, Add, CloseFile, Leave, Receive, GoAway, ShutdownBegins,
           UnloadSeats, Joined, Exit
  <1>8. ReplyTypes'
    BY <1>1, <1>6 DEF ReplyInv, ReplyTypes
  <1>9. StopInv'
    BY <1>6, <1>7 DEF ReplyInv, StopInv
  <1>10. FreshInv'
    <2>1. UnreadConns' \subseteq UnreadConns
      BY <1>2, <1>6 DEF UnreadConns
    <2> QED BY <1>1, <2>1 DEF ReplyInv, FreshInv
  <1>11. ServedInv'
    BY <1>1, <1>2, <1>3, <1>4, <1>6 DEF ReplyInv, ServedInv
  <1>12. RepliedInv'
    BY <1>1, <1>2, <1>3, <1>4 DEF ReplyInv, RepliedInv
  <1> QED BY <1>8, <1>9, <1>10, <1>11, <1>12 DEF ReplyInv

\* Nobody has been answered yet.
LEMMA ReplyInit == Understood /\ Init => ReplyInv
  <1> SUFFICES ASSUME Understood, Init PROVE ReplyInv
    OBVIOUS
  <1>0. <<>> \in Seq(Pieces)
    OBVIOUS
  <1>1. ReplyTypes
    BY <1>0 DEF Init, ReplyTypes
  <1>2. StopInv
    BY DEF Init, StopInv
  <1>3. FreshInv
    <2> SUFFICES ASSUME NEW c \in UnreadConns
                 PROVE  /\ got[c] = <<>> /\ sent[c] <= Len(script[c].lines)
                        /\ inbox[c] = SubSeq(script[c].lines, 1, sent[c])
      BY DEF FreshInv
    <2>1. c \in Conns /\ script[c] \in Scripts
      BY DEF UnreadConns, Init
    <2>2. sent[c] = 0 /\ inbox[c] = <<>> /\ got[c] = <<>>
      BY <2>1 DEF Init
    <2>3. Len(script[c].lines) \in Nat
      BY <2>1 DEF Understood
    <2>4. SubSeq(script[c].lines, 1, 0) = <<>>
      BY SubSeqEmpty
    <2> QED BY <2>2, <2>3, <2>4
  <1>4. ServedInv
    BY DEF Init, ServedInv
  <1>5. RepliedInv
    <2>1. \A c \in Conns : got[c] = <<>>
      BY DEF Init
    <2>2. accepted = 0
      BY DEF Init
    <2>3. \A c \in Conns : ~ (c <= 0)
      BY MaxConnAssumption DEF Conns
    <2>4. HandledConns = {}
      BY <2>2, <2>3 DEF HandledConns, Handled
    <2> QED BY <2>1, <2>4 DEF RepliedInv
  <1> QED BY <1>1, <1>2, <1>3, <1>4, <1>5 DEF ReplyInv

\* No step breaks what is known of replies.
LEMMA ReplyStep ==
    Understood /\ FdInv /\ ReplyInv /\ [Next]_vars => ReplyInv'
  <1> SUFFICES ASSUME Understood, FdInv, ReplyInv, [Next]_vars
               PROVE  ReplyInv'
    OBVIOUS
  <1> QED BY RequestReplies, HeaderReplies, OperateReplies, WriteReplies,
             TakeReplies, CloseReplies, SendReplies, RestReplies
          DEF Next, Handle

\* The progress of every request and its reply, in every reachable state.
THEOREM ReplyInvariant == Understood => (Spec => []ReplyInv)
  <1> SUFFICES ASSUME Understood PROVE Spec => []ReplyInv
    OBVIOUS
  <1>1. Init => ReplyInv
    BY ReplyInit
  <1>2. FdInv /\ ReplyInv /\ [Next]_vars => ReplyInv'
    BY ReplyStep
  <1> QED BY <1>1, <1>2, FdInvariant, PTL DEF Spec

\* Every client receives the reply to its own request, in order and, before its
\* connection is closed, all of it (handle_connection against the accept loop
\* and shutdown_server).
THEOREM RepliesAreOwn == Understood => (Spec => []OwnReplies)
  <1> SUFFICES ASSUME Understood PROVE Spec => []OwnReplies
    OBVIOUS
  <1>1. ReplyInv => OwnReplies
    BY DEF ReplyInv, RepliedInv, OwnReplies, RepliesOf, HandledConns
  <1> QED BY <1>1, ReplyInvariant, PTL
=============================================================================
