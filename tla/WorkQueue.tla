----------------------------- MODULE WorkQueue -----------------------------
(* What the thread pool promises to its user: a bounded first-in first-out *)
(* queue of tasks.  Tasks are numbered in the order they are submitted.  A *)
(* submission, the start of a task by a worker and its end are one step    *)
(* each; there is no lock, no condition variable and no ring.              *)
EXTENDS Integers, Sequences

CONSTANTS Workers,    \* the threads that run tasks
          Capacity,   \* how many tasks may wait
          MaxTasks    \* how many tasks are ever submitted

VARIABLES submitted,  \* how many tasks were submitted so far
          items,      \* the tasks that wait, the oldest first
          holding,    \* the task each worker runs, 0 when it runs none
          done,       \* the tasks that ran to their end
          closed      \* whether the user has asked the queue to stop serving

vars == <<submitted, items, holding, done>>

Init ==
    /\ submitted = 0
    /\ items = <<>>
    /\ holding = [w \in Workers |-> 0]
    /\ done = {}

\* A new task joins the end of the queue, if it has room.
Submit ==
    /\ submitted < MaxTasks
    /\ Len(items) < Capacity
    /\ submitted' = submitted + 1
    /\ items' = Append(items, submitted + 1)
    /\ UNCHANGED <<holding, done>>

\* An idle worker starts the oldest task.
Start(w) ==
    /\ items # <<>>
    /\ holding[w] = 0
    /\ holding' = [holding EXCEPT ![w] = Head(items)]
    /\ items' = Tail(items)
    /\ UNCHANGED <<submitted, done>>

\* The task a worker runs returns.
Finish(w) ==
    /\ holding[w] # 0
    /\ done' = done \cup {holding[w]}
    /\ holding' = [holding EXCEPT ![w] = 0]
    /\ UNCHANGED <<submitted, items>>

Next ==
    \/ Submit
    \/ \E w \in Workers : Start(w) \/ Finish(w)

Spec == Init /\ [][Next]_vars

\* Until the queue is closed, a waiting task does not wait for ever beside an
\* idle worker.  When a task ends is up to the task.
FairSpec == Spec /\ WF_vars(~closed /\ \E w \in Workers : Start(w))
=============================================================================
