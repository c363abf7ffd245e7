----------------------------- MODULE JobControl -----------------------------
(* Job control of the shell tsh (tsh/skeleton/runtime.c, tsh.c): the main   *)
(* loop reads a line, runs CheckJobs and executes the command; children run, *)
(* stop and exit on their own; SIGCHLD, SIGINT and SIGTSTP interrupt the     *)
(* shell wherever it is, unless Exec or RunCmdPipe has blocked them.         *)
(*                                                                           *)
(* A signal handler is one step.  Handlers may nest, but each nesting equals *)
(* some order of the two: SigChldHandler alone changes RUNNING and           *)
(* TERMINATED, Broadcast changes nothing in the list.                        *)
EXTENDS Integers, Sequences, FiniteSets

CONSTANTS NumPids,      \* bound: how many children are ever forked
          MaxCmds,      \* bound: how many lines are typed
          MaxKeys,      \* bound: how many times Ctrl-C or Ctrl-Z is typed
          Commands,     \* the commands that are typed
          ForkMayFail   \* whether fork may fail

Pids == 1 .. NumPids
NoPid == 0

\* A command: run or runbg an external program, a pipe of arg external
\* programs, jobs, or fg or bg of the job with id arg.
CommandNames == {"run", "runbg", "pipe", "jobs", "fg", "bg"}

ASSUME NumPidsAssumption  == NumPids \in Nat
ASSUME CommandsAssumption == Commands \subseteq [name : CommandNames, arg : Nat]
ASSUME PipesAssumption    == \A c \in Commands : c.name = "pipe" => c.arg > 0
ASSUME BoundsAssumption   == MaxCmds \in Nat /\ MaxKeys \in Nat
ASSUME ForkAssumption     == ForkMayFail \in BOOLEAN

Flags == {"FOREGROUND", "RUNNING", "TERMINATED"}
Keys  == {"SIGINT", "SIGTSTP"}

\* A child before execv, running, stopped, stopped with a SIGINT it will see
\* when continued, exited, waited for.
ProcStates == {"none", "forked", "running", "stopped", "doomed", "zombie",
               "reaped"}

VARIABLES
    proc,       \* the kernel's view of each child
    stopNews,   \* the children that stopped and were not waited for since
    sigchld,    \* SIGCHLD is pending
    keys,       \* the keyboard signals that are pending
    masked,     \* the shell blocks SIGCHLD, SIGTSTP and SIGINT
    jobs,       \* bgjobs: the pids of its nodes in list order
    jid,        \* node->jid
    status,     \* node->status as a set of flags
    pc,         \* where the shell is
    cmd,        \* the command it executes
    cur,        \* the node its loop is at, or the child it started or awaits
    saved,      \* node->status as ContinueCmd loaded it
    oldMask,    \* sigprocmask's saved mask
    forked,     \* how many children were forked
    typed,      \* how many lines were typed
    pressed,    \* how many keyboard signals there were
    raced,      \* history: jobs that changed state under fg's or bg's hands
    dropped     \* history: pipe stages removed from the list unterminated

kernelVars == <<proc, stopNews, sigchld>>
listVars   == <<jobs, jid, status>>
boundVars  == <<forked, typed, pressed>>
vars == <<kernelVars, keys, masked, listVars, pc, cmd, cur, saved, oldMask,
          boundVars, raced, dropped>>

ShellPcs == {"prompt", "check", "checkclean", "fork", "add", "unblock", "wait",
             "stage", "list", "listclean", "load", "store", "cont"}

Listed == {jobs[i] : i \in 1 .. Len(jobs)}

Init ==
    /\ proc = [p \in Pids |-> "none"]
    /\ stopNews = {}
    /\ sigchld = FALSE
    /\ keys = {}
    /\ masked = FALSE
    /\ jobs = <<>>
    /\ jid = [p \in Pids |-> 0]
    /\ status = [p \in Pids |-> {}]
    /\ pc = "prompt"
    /\ cmd = [name |-> "jobs", arg |-> 0]
    /\ cur = NoPid
    /\ saved = {}
    /\ oldMask = FALSE
    /\ forked = 0
    /\ typed = 0
    /\ pressed = 0
    /\ raced = {}
    /\ dropped = {}

-----------------------------------------------------------------------------
(* The job list.  A definition whose name begins with Wrong is a plausible   *)
(* mistake in the one that follows it; nothing else uses it.                 *)

\* The job ids along the list, with 0 in front of the first node.
JidAt(i) == IF i = 0 THEN 0 ELSE jid[jobs[i]]

\* AddJob's scan stops at the first node with room for a job id behind it.
WrongLastGap == {Len(jobs)}
Gaps == {i \in 0 .. Len(jobs) :
            i = Len(jobs) \/ JidAt(i + 1) - JidAt(i) > 1}
FirstGap == CHOOSE i \in Gaps : \A k \in Gaps : i <= k

InsertAfter(seq, i, p) == SubSeq(seq, 1, i) \o <<p>> \o SubSeq(seq, i + 1, Len(seq))

\* CleanupJob's unlinking, and the node that its callers' loops visit next.
IndexOf(p) == CHOOSE i \in 1 .. Len(jobs) : jobs[i] = p
Unlink(p) ==
    SubSeq(jobs, 1, IndexOf(p) - 1) \o SubSeq(jobs, IndexOf(p) + 1, Len(jobs))
First     == IF jobs = <<>> THEN NoPid ELSE jobs[1]
WrongNextOf(p) ==
    IF IndexOf(p) = Len(jobs) THEN NumPids + 1 ELSE jobs[IndexOf(p) + 1]
WrongNextAfterFree(p) == p
NextOf(p) == IF IndexOf(p) = Len(jobs) THEN NoPid ELSE jobs[IndexOf(p) + 1]

\* CleanupJob(&node, FALSE)
WrongCleanup(p) == Unlink(p)
Cleanup(p) == IF "TERMINATED" \in status[p] THEN Unlink(p) ELSE jobs

-----------------------------------------------------------------------------
(* The kernel: what a signal does to a child.                                *)

Interrupted(st) == CASE st = "running" -> "zombie"
                     [] st = "stopped" -> "doomed"
                     [] OTHER -> st
Suspended(st) == IF st = "running" THEN "stopped" ELSE st
Continued(st) == CASE st = "stopped" -> "running"
                   [] st = "doomed"  -> "zombie"
                   [] OTHER -> st

\* The children take the states procs; whoever stops has news for waitpid, who
\* no longer is stopped has not; the shell gets SIGCHLD if anyone changed.
Kernel(procs) ==
    /\ proc' = procs
    /\ stopNews' = {p \in Pids : /\ procs[p] \in {"stopped", "doomed"}
                                 /\ \/ p \in stopNews
                                    \/ proc[p] \notin {"stopped", "doomed"}}
    /\ sigchld' = (sigchld \/ \E p \in Pids : procs[p] # proc[p])

-----------------------------------------------------------------------------
(* The shell's main thread.                                                  *)

\* getCommandLine returned a line; CheckJobs starts at the head of the list.
ReadLine ==
    /\ pc = "prompt"
    /\ typed < MaxCmds
    /\ typed' = typed + 1
    /\ cmd' \in Commands
    /\ cur' = First
    /\ pc' = "check"
    /\ UNCHANGED <<kernelVars, keys, masked, listVars, saved, oldMask, forked,
                   pressed, raced, dropped>>

\* The loops of CheckJobs and of jobs: print what the node's status says ...
Look ==
    /\ cur # NoPid
    /\ \/ pc = "check" /\ pc' = "checkclean"
       \/ pc = "list"  /\ pc' = "listclean"
    /\ UNCHANGED <<kernelVars, keys, masked, listVars, cmd, cur, saved, oldMask,
                   boundVars, raced, dropped>>

\* ... then free it if its status, read again, says it terminated.
Clean ==
    /\ \/ pc = "checkclean" /\ pc' = "check"
       \/ pc = "listclean"  /\ pc' = "list"
    /\ cur' = NextOf(cur)
    /\ jobs' = Cleanup(cur)
    /\ UNCHANGED <<kernelVars, keys, masked, jid, status, cmd, saved, oldMask,
                   boundVars, raced, dropped>>

EndList ==
    /\ pc = "list"
    /\ cur = NoPid
    /\ pc' = "prompt"
    /\ UNCHANGED <<kernelVars, keys, masked, listVars, cmd, cur, saved, oldMask,
                   boundVars, raced, dropped>>

\* After CheckJobs, Interpret and RunCmd choose what to do: a program may not be
\* found; ContinueCmd looks for its job id.
Dispatch ==
    /\ pc = "check"
    /\ cur = NoPid
    /\ \/ /\ cmd.name \in {"run", "runbg", "pipe"}
          /\ pc' \in {"fork", "prompt"}
          /\ UNCHANGED cur
       \/ /\ cmd.name = "jobs"
          /\ pc' = "list"
          /\ cur' = First
       \/ /\ cmd.name \in {"fg", "bg"}
          /\ \E p \in Listed : jid[p] = cmd.arg /\ cur' = p
          /\ pc' = "load"
       \/ /\ cmd.name \in {"fg", "bg"}
          /\ \A p \in Listed : jid[p] # cmd.arg
          /\ pc' = "prompt"
          /\ UNCHANGED cur
    /\ UNCHANGED <<kernelVars, keys, masked, listVars, cmd, saved, oldMask,
                   boundVars, raced, dropped>>

\* Exec and RunCmdPipe block the signals and fork.
Fork ==
    /\ pc = "fork"
    /\ forked < NumPids
    /\ oldMask' = masked
    /\ masked' = TRUE
    /\ forked' = forked + 1
    /\ proc' = [proc EXCEPT ![forked + 1] = "forked"]
    /\ cur' = forked + 1
    /\ pc' = "add"
    /\ UNCHANGED <<stopNews, sigchld, keys, listVars, cmd, saved, typed,
                   pressed, raced, dropped>>

\* When fork fails both return at once, with the signals still blocked.
ForkFails ==
    /\ pc = "fork"
    /\ ForkMayFail
    /\ oldMask' = masked
    /\ masked' = TRUE
    /\ pc' = "prompt"
    /\ UNCHANGED <<kernelVars, keys, listVars, cmd, cur, saved, boundVars,
                   raced, dropped>>

AddJob ==
    /\ pc = "add"
    /\ jobs' = InsertAfter(jobs, FirstGap, cur)
    /\ jid' = [jid EXCEPT ![cur] = JidAt(FirstGap) + 1]
    /\ status' = [status EXCEPT ![cur] =
                    IF cmd.name = "runbg" THEN {"RUNNING"}
                                          ELSE {"FOREGROUND", "RUNNING"}]
    /\ pc' = "unblock"
    /\ UNCHANGED <<kernelVars, keys, masked, cmd, cur, saved, oldMask,
                   boundVars, raced, dropped>>

Unblock ==
    /\ pc = "unblock"
    /\ masked' = oldMask
    /\ pc' = IF cmd.name = "runbg" THEN "prompt" ELSE "wait"
    /\ UNCHANGED <<kernelVars, keys, listVars, cmd, cur, saved, oldMask,
                   boundVars, raced, dropped>>

\* while (IS_RUNNING(job)) sleep(1) ends.
WaitEnds ==
    /\ pc = "wait"
    /\ "RUNNING" \notin status[cur]
    /\ pc' = IF cmd.name = "pipe" THEN "stage" ELSE "prompt"
    /\ UNCHANGED <<kernelVars, keys, masked, listVars, cmd, cur, saved, oldMask,
                   boundVars, raced, dropped>>

\* RunCmdPipe: CleanupJob(&job, TRUE), then the next stage, if there is one and
\* its command is found.
EndStage ==
    /\ pc = "stage"
    /\ jobs' = Unlink(cur)
    /\ dropped' = dropped \cup {p \in {cur} : "TERMINATED" \notin status[p]}
    /\ cmd' = [cmd EXCEPT !.arg = @ - 1]
    /\ \/ pc' = "prompt"
       \/ cmd.arg > 1 /\ pc' = "fork"
    /\ UNCHANGED <<kernelVars, keys, masked, jid, status, cur, saved, oldMask,
                   boundVars, raced>>

\* ContinueCmd reads the status word ...
Load ==
    /\ pc = "load"
    /\ saved' = status[cur]
    /\ pc' = "store"
    /\ UNCHANGED <<kernelVars, keys, masked, listVars, cmd, cur, oldMask,
                   boundVars, raced, dropped>>

\* ... and writes it back with FOREGROUND set or cleared and RUNNING set, over
\* whatever the handler stored in between.
Store ==
    /\ pc = "store"
    /\ status' = [status EXCEPT ![cur] =
                    {"RUNNING"} \cup
                    IF cmd.name = "fg" THEN saved \cup {"FOREGROUND"}
                                       ELSE saved \ {"FOREGROUND"}]
    /\ raced' = raced \cup {p \in {cur} : "TERMINATED" \in saved}
    /\ pc' = "cont"
    /\ UNCHANGED <<kernelVars, keys, masked, jobs, jid, cmd, cur, saved,
                   oldMask, boundVars, dropped>>

\* kill(node->pid, SIGCONT), and wait if the command is fg.
Cont ==
    /\ pc = "cont"
    /\ Kernel([proc EXCEPT ![cur] = Continued(@)])
    /\ pc' = IF cmd.name = "fg" THEN "wait" ELSE "prompt"
    /\ UNCHANGED <<keys, masked, listVars, cmd, cur, saved, oldMask, boundVars,
                   raced, dropped>>

\* Everything but the wait for a line.
Shell ==
    \/ Look \/ Clean \/ EndList \/ Dispatch
    \/ Fork \/ ForkFails \/ AddJob \/ Unblock \/ WaitEnds \/ EndStage
    \/ Load \/ Store \/ Cont

-----------------------------------------------------------------------------
(* Signals that reach the shell.                                             *)

\* SigChldHandler waits for every node that has something to report.
WrongReports(p) == p = First /\ (proc[p] = "zombie" \/ p \in stopNews)
Reports(p) == p \in Listed /\ (proc[p] = "zombie" \/ p \in stopNews)
WrongAfterReport(p) == IF proc[p] = "zombie" THEN {"TERMINATED"} ELSE status[p]
AfterReport(p) ==
    (status[p] \ {"RUNNING"}) \cup
    (IF proc[p] = "zombie" THEN {"TERMINATED"} ELSE {})

\* The main thread is inside ContinueCmd's update of the node it found.
Continuing == pc \in {"store", "cont"}

SigChld ==
    /\ sigchld
    /\ ~masked
    /\ sigchld' = FALSE
    /\ proc' = [p \in Pids |-> IF Reports(p) /\ proc[p] = "zombie"
                               THEN "reaped" ELSE proc[p]]
    /\ stopNews' = {p \in stopNews : ~Reports(p)}
    /\ status' = [p \in Pids |-> IF Reports(p) THEN AfterReport(p)
                                 ELSE status[p]]
    /\ raced' = raced \cup {p \in {cur} : Continuing /\ Reports(p)}
    /\ UNCHANGED <<keys, masked, jobs, jid, pc, cmd, cur, saved, oldMask,
                   boundVars, dropped>>

\* Broadcast: the signal goes to every job with the FOREGROUND flag.
Targets == {p \in Listed : "FOREGROUND" \in status[p]}
Broadcast(k) ==
    /\ k \in keys
    /\ ~masked
    /\ keys' = keys \ {k}
    /\ Kernel([p \in Pids |->
                 IF p \notin Targets THEN proc[p]
                 ELSE IF k = "SIGINT" THEN Interrupted(proc[p])
                 ELSE Suspended(proc[p])])
    /\ UNCHANGED <<masked, listVars, pc, cmd, cur, saved, oldMask, boundVars,
                   raced, dropped>>

Handlers == SigChld \/ \E k \in Keys : Broadcast(k)

-----------------------------------------------------------------------------
(* The world: the keyboard and the children.                                 *)

Press ==
    /\ pressed < MaxKeys
    /\ pressed' = pressed + 1
    /\ \E k \in Keys : keys' = keys \cup {k}
    /\ UNCHANGED <<kernelVars, masked, listVars, pc, cmd, cur, saved, oldMask,
                   forked, typed, raced, dropped>>

\* execv; an exit, also when execv fails; a child that stops itself.
ChildMoves(p) ==
    /\ \/ proc[p] = "forked"  /\ proc' = [proc EXCEPT ![p] = "running"]
                              /\ UNCHANGED <<stopNews, sigchld>>
       \/ proc[p] \in {"forked", "running"} /\ Kernel([proc EXCEPT ![p] = "zombie"])
       \/ proc[p] = "running" /\ Kernel([proc EXCEPT ![p] = "stopped"])
    /\ UNCHANGED <<keys, masked, listVars, pc, cmd, cur, saved, oldMask,
                   boundVars, raced, dropped>>

Next ==
    \/ ReadLine
    \/ Shell
    \/ Handlers
    \/ Press
    \/ \E p \in Pids : ChildMoves(p)

Spec == Init /\ [][Next]_vars

\* The shell runs while it can and the kernel delivers pending signals; nobody
\* has to type, and no child has to end.
FairSpec ==
    /\ Spec
    /\ WF_vars(Shell)
    /\ WF_vars(SigChld)
    /\ \A k \in Keys : WF_vars(Broadcast(k))

-----------------------------------------------------------------------------
(* Properties.                                                               *)

TypeOK ==
    /\ proc \in [Pids -> ProcStates]
    /\ stopNews \subseteq Pids
    /\ sigchld \in BOOLEAN /\ masked \in BOOLEAN /\ oldMask \in BOOLEAN
    /\ keys \subseteq Keys
    /\ jobs \in Seq(Pids)
    /\ jid \in [Pids -> Nat]
    /\ status \in [Pids -> SUBSET Flags]
    /\ pc \in ShellPcs
    /\ cmd \in [name : CommandNames, arg : Nat]
    /\ cur \in Pids \cup {NoPid}
    /\ saved \subseteq Flags
    /\ forked \in 0 .. NumPids
    /\ typed \in 0 .. MaxCmds /\ pressed \in 0 .. MaxKeys
    /\ raced \subseteq Pids /\ dropped \subseteq Pids

\* "using lowest available jid (starting with 1)" (runtime.c:176).
LowestJid ==
    [][\A p \in Listed' \ Listed :
          /\ jid'[p] \in Nat \ {0}
          /\ \A n \in 1 .. jid'[p] - 1 : \E q \in Listed : jid[q] = n
          /\ \A q \in Listed : jid[q] # jid'[p]]_vars

\* No child escapes: one that was not waited for is in the list, or about to
\* be, or is a pipe stage that RunCmdPipe freed while it was stopped.
ChildrenAccounted ==
    \A p \in Pids : proc[p] \notin {"none", "reaped"} =>
        p \in Listed \/ (pc = "add" /\ cur = p) \/ p \in dropped

\* No exit is overlooked: SIGCHLD is pending while a listed child is a zombie,
\* whatever was coalesced, blocked or handled before it was in the list.
ZombieNoticed ==
    \A p \in Listed : proc[p] = "zombie" => sigchld

\* The list tells the truth: once no SIGCHLD is pending, a job is marked
\* RUNNING iff its process runs and TERMINATED iff it was waited for, except a
\* job that fg or bg is just continuing or that changed under their hands.
StatusTruth ==
    ~sigchld => \A p \in Listed \ raced : ~(pc = "cont" /\ cur = p) =>
        /\ "RUNNING" \in status[p] <=> proc[p] \in {"forked", "running"}
        /\ "TERMINATED" \in status[p] <=> proc[p] = "reaped"

\* The node the shell awaits or updates is never freed under it.
AwaitedListed ==
    pc \in {"unblock", "wait", "stage", "load", "store", "cont", "checkclean",
            "listclean"} => cur \in Listed

\* The prompt comes back when the awaited child exits or stops, unless the job
\* raced with fg or an earlier failed fork left the signals blocked.
PromptReturns ==
    \A p \in Pids :
        (pc = "wait" /\ cur = p /\ proc[p] \in {"zombie", "stopped"})
          ~> (pc # "wait" \/ p \in raced \/ masked)

\* "fg [job_id] Returns a background job to the foreground and waits for
\* completion" (tsh.1:16-17): when the job is gone, fg has ended.
FgEnds ==
    \A p \in Pids :
        (pc = "wait" /\ cmd.name = "fg" /\ cur = p /\ proc[p] = "reaped")
          ~> (pc # "wait")
=============================================================================
