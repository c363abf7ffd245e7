# Verification of the EECS 343 operating-systems projects

The repository holds three C programs: a multi-threaded seat-reservation
server (`server/skeleton`), a shell with job control (`tsh/skeleton`), and a
kernel memory allocator with a trace driver (`kma/skeleton`). This directory
holds TLA+ modules that model them, TLC configurations that check the models on
small instances, and TLAPS proofs.

## 1. The system

### 1.1 Server

| part | source | state | operations |
|---|---|---|---|
| thread pool | `thread_pool.c` | `pool_t`: mutex, two condition variables, a ring of tasks (`queue`, `head`, `length`), `stop` | `pool_create`, `pool_add_task`, `thread_do_work`, `pool_destroy` |
| seats | `seats.c` | a list of `seat_t` (`state`, `customer_id`) | `load_seats`, `view_seat`, `confirm_seat`, `cancel`, `list_seats`, `unload_seats` |
| front end | `http_server.c`, `util.c` | listening socket, pool, the process's descriptors | accept loop, `handle_connection` (`get_line`, `parse_int_arg`, `writenbytes`), SIGINT handler `shutdown_server` |
| semaphore | `semaphore.c` | - | not called by anything |

The main thread accepts connections and gives each to `pool_add_task`; a worker
takes it and runs `handle_connection`, which reads a request, calls one seat
operation or sends a file, and closes the connection. SIGINT runs `pool_destroy`, then `unload_seats`, on the main thread on top of whatever
it was doing.

Hard here: the hand-over of tasks between threads, two conditions that must not
lose wake-ups, shutdown without the mutex, seats that workers read and write
with no lock at all, descriptor numbers that are reused at once, and clients that
say nothing or go away. Correct means: every accepted connection is handled once
and gets its own reply; every descriptor is closed once; nobody sleeps on a
condition that holds; nothing is freed while used; shutdown ends when the clients let it; a seat is sold
to one user, who asked for it and keeps it.

### 1.2 Shell

| part | source | state | operations |
|---|---|---|---|
| job control | `runtime.c`, `tsh.c` | `bgjobs`, a list of nodes (`pid`, `jid`, `status` flags), the signal mask | `AddJob`, `CleanupJob`, `CheckJobs`, `Exec`, `RunCmdPipe`, `ContinueCmd` (fg, bg), `jobs`, `SigChldHandler`, `Broadcast` |
| other built-ins | `runtime.c` | alias list, working directory | `cd`, `alias`, `unalias`, `exit` |
| interpreter, input | `interpreter.c`, `io.c` | - | splitting a line, tilde expansion, reading a line |

The main loop reads a line, runs `CheckJobs` and executes the command. Signal
handlers interrupt it anywhere and change `status` in the nodes that it reads,
waits on, updates and frees. `Exec` and `RunCmdPipe` block the signals from
before `fork` until the child is in the list.

Hard here: coalesced and blocked SIGCHLDs, a status word shared between the main
loop and a handler, list nodes freed while the list is walked, children that
stop, continue and exit on their own; quotes, aliases and redirections that three
functions parse each on their own; pipes whose ends the shell must close. Correct
means: every child is waited for, the status flags tell the truth, job ids are
unique and lowest, the prompt comes back, and a line runs what it says.

### 1.3 Memory allocator

| part | source | state | operations |
|---|---|---|---|
| page allocator | `kma_page.c` | a pool of pages, a LIFO list of free pages threaded through them, counters | `get_page`, `free_page` |
| resource map | `kma_rm.c` | an address-ordered list of free blocks over all pages, anchored in a root page | `kma_malloc`, `kma_free`, `coalesce` |
| buddy system | `kma_bud.c` | free lists per size class in a root page, bookkeeping pages | `kma_malloc`, `kma_free`, `create_block` |
| trace driver | `kma.c` | the outstanding requests | `allocate`, `deallocate`, the final page count |

`kma_p2fl.c`, `kma_mck2.c` and `kma_lzbud.c` are empty skeletons and
`kma_dummy.c` gives a page per request.

Everything here is sequential; what is hard is long sequences of legal calls
that corrupt the free lists, and the pages that must all be back when the last
block is freed.

## 2. Modules

| module | what it is |
|---|---|
| `WorkQueue` | abstract: a bounded FIFO queue of tasks |
| `ThreadPool` | `thread_pool.c` under `http_server.c`, one action per step between synchronisation points |
| `MCThreadPool` | the places where SIGINT may come, for TLC |
| `SeatRegistry` | abstract: a seat is free, held by a user, or sold |
| `Seats` | `seats.c` as the workers run it, one action per access to a seat |
| `Requests` | what `handle_connection` makes of a request and `list_seats` of the seats, as functions |
| `HttpServer` | the server as a whole over `WorkQueue`: accept loop, workers, descriptors, clients, shutdown |
| `MCHttpServer` | what the clients send, for TLC |
| `JobControl` | the job list of tsh, its main loop and handlers, and the kernel's side |
| `MCJobControl` | the commands that are typed, for TLC |
| `LineParser` | `interpreter.c`, as functions on lines |
| `CommandLine` | what the shell does with a line: built-ins, aliases, programs, pipes |
| `MCCommandLine` | the lines that are typed, for TLC |
| `Pages` | the free pages as a stack: operators that the page allocator and its two users share |
| `PageStack` | abstract: pages leave a stack and come back to it |
| `KmaPage` | `kma_page.c`: the list threaded through the free pages |
| `TraceDriver` | `kma.c` over `kma_dummy.c` over `KmaPage` |
| `Heap` | abstract: what `kma_malloc` and `kma_free` promise |
| `ResourceMap` | `kma_rm.c` over `Pages` |
| `Buddy` | `kma_bud.c` over `Pages` |
| `ThreadPoolProofs`, `SeatsProofs`, `HttpServerProofs`, `ShellProofs`, `ResourceMapProofs`, `BuddyProofs` | proofs about `ThreadPool`, `Seats`, `HttpServer` with `Requests`, `JobControl` and `CommandLine` with `LineParser`, `ResourceMap` and `Buddy` |
| `PagesProofs` | lemmas about the stack of pages, for the proofs of those who take pages |
| `KmaPageProofs` | proofs about `KmaPage` and about `TraceDriver` over it |

**ThreadPool.** `mpc` is where the main thread is in `pool_add_task`, `wpc[w]`
where worker `w` is in `thread_do_work`, `hpc` and `hidx` where the signal
handler is in `pool_destroy`. `Accept`, `AddLock` ... `AddUnlock` are the main
thread; `WorkLoop` ... `WorkRun` a worker; `SigInt`, `DestroyStop`,
`DestroyBroadcast`, `DestroyJoin`, `DestroyFree` the handler. A task is the
number of its connection. A `pthread_cond_wait` is left by a broadcast or
spuriously, and then takes the mutex again. `WorkRun` is the return of
`handle_connection`, which may never come: it reads from a client without a
timeout and writes to it, and nothing is assumed about clients. While the handler runs, the code of
the main thread below it does not. A worker reads `stop` without the mutex at
the head of its loop, as the code does.

**Seats.** `state` and `customer` are the two fields. A request reads the state,
then perhaps the owner, decides, and stores its fields one by one; the two
stores of `view_seat` come in either order, since nothing orders them. The reply
is recorded in the history variables `granted` ("Confirm seat") and `sold`
("Seat confirmed"); `raced` records the seats on which two requests overlapped.
The test of `view_seat` and `confirm_seat` mentions the state twice; the model
reads it once and before the owner, as gcc does with the Makefile's `-O2`.

**HttpServer, Requests.** The pool is an instance of `WorkQueue`, which
`ThreadPool` is shown to implement: `Add` is `pool_add_task`, `Take` a worker
that begins its task, `Close` one that ends it. `heap[n]` is the int that main
allocated for task n and that the worker frees; `table` says what each
descriptor number is. `Take`, `ReadRequest`, `ReadHeader` (one per line),
`Operate`, `Write` (one per piece of the reply), `CloseFile` and `Close` are
`handle_connection` in order; a read blocks until a line is there or the client
has shut its side, and a write while the connection holds `SendBuf` pieces that
its client has not read (`Writable`; `unread` counts them, `Receive` is the
client that reads one). A request line is its method, its path as a sequence of
symbols, and its length; of a header only the length and the way it ends matter:
with CR LF, LF, CR or the end of the input. `get_line` reads the character behind
a CR to know, and drops it if it is no LF (`Peeks`, `Beheaded`).
`got` is what each client has received. The effect of a seat operation is in
`Seats`; here its reply names it and its arguments, so that a wrong argument or
a reply on the wrong connection shows.

**JobControl.** `jobs` is the list in order, `jid` and `status` the fields of a
node, named by the child's number; `proc`, `stopNews` and `sigchld` are the
kernel's. One action of the main loop is a stretch with at most one access to
what handlers change. `ContinueCmd`'s read-modify-write of `status` is `Load`
and `Store`. A handler is one action. A child in state `forked` has not reached
`execv`: it has the shell's handlers, so a keyboard signal does nothing to it.
Pids are never reused.

**LineParser, CommandLine.** A line is a sequence of symbols: a blank, a quote,
an operator, or any other text as one symbol. `LineParser` follows the three
passes of `interpreter.c` (`Interpret`, `parser_single`, `single_param`), each
with its own idea of quotes. `CommandLine` keeps the list of aliases, the
working directory, the ends of pipes that the shell holds and the contents of
the pipes. `NextLine` is `getCommandLine` and `Interpret`; then one of
`RunNothing`, `RunAlias` (which interprets the substituted line), `RunBuiltIn`,
`NotFound`, `StageOfBlanks` (the crash on a stage without a word), `ForkCommand`,
`ForkCommandFails`; after a fork `CloseEnds` and `CommandEnds`. What a child does
before `execv` is part of `ForkCommand`: it opens the files (`Opens`), or, if the
stage of a pipe is an alias, puts that in and interprets the line as the shell
would (`ComesTo`), with a fork of its own that may fail. `held` is the ends of
pipes that belong to the current line, `leaked` how many of earlier lines are
still open, `fails` how often fork has failed in the shell, after which SIGCHLD
stays blocked and the shell hears of no child that ends. A program
reads its input to the end and writes so many units, in any order. Each line
comes with what a user means by it (`meant`), written down separately from the
text, and the history variables `ran` and `defs` are compared with that:
`ReadAsMeant` says so of what `Interpret` makes of a line, `RunsAsMeant` of what
is run. `Unsupported` is what the shell cannot do however it is written; both
properties except it, and section 4 lists it.
The stages of a pipe run one after the other because `RunCmdPipe` waits for
each. Signals and job ids are left to `JobControl`.

**KmaPage.** `link` is the first word of each page. A client that has a page may
write any word into it (`ClientWrites`), so the list is right only if the
allocator never reads a page that it gave out. `get_page_fails` is `error()`,
which exits. `order` is a history variable: the free pages in the order in which
they will be given out.

**TraceDriver.** Extends `KmaPage` with the words of the pages: `link[p]` is word
0 of page p, and the same word holds the link of a free page and the allocator's
own pointer in a used one. `Request`, `StoreHeader` and `Allocate` or
`ReturnNull` are one REQUEST command, `Deallocate` a FREE, `End` the verdict;
`fill` writes values that `check` compares with a copy when the block is freed.

**ResourceMap.** `heap` is the pages, the root page, the address-ordered list of
free blocks and the size of every block; `live` the blocks of the client.
`kma_malloc` is one action: root page on the first call, first fit, another page
if nothing fits, split or give all. `kma_free` puts the block back and then each
activation of the recursive `coalesce` is one action; `Released` is its last one
and may move the root. The doubly linked list is modelled as a sequence. That is
what it is until the root page is freed while the list does not reach every
other page; the model stops there (`Orphaned`), and `resource_map_root` is about
that state.

**Buddy.** Free lists per size class, the entries of the bookkeeping pages
(`used`, `unused`, `page`) and the size of every block. `kma_malloc` is one
action; in `kma_free` each round of the merging loop is one (`Merge`), and what
follows the last: the block is listed, or its page, its entry, perhaps the
entry's bookkeeping page and then the root page are given back.

The two allocators take their pages from `Pages!AfterGet` and `AfterPut` instead
of composing `KmaPage`; `PagesAreStack` proves that `KmaPage` behaves so.

## 3. Runs

| run | instance | shows |
|---|---|---|
| `pool` | 3 workers, ring of 2, 4 connections, 1 spurious wake-up, handlers that need not return, SIGINT anywhere or never | every connection handed out once, in order and, unless SIGINT comes or every worker is kept for ever, in the end; the pool refines `WorkQueue` with its fairness; nothing is freed in use; `pool_destroy` can hang in three ways only |
| `pool_destroy` | 2 workers, SIGINT in `accept` | `DestroyEnds` fails |
| `seats_serve` | 3 workers, 2 users, 2 seats, 5 requests | no sale without an offer; unraced sales stand; unraced seats refine `SeatRegistry` |
| `seats_race` | 2 workers, 2 users, 1 seat, 4 requests | `NoDoubleSale` fails |
| `server` | 2 workers, queue of 1, 2 clients of 4 kinds that need not send or read, 3 returns of accept, 2 descriptors, a send buffer of 2, SIGINT anywhere | every client gets the reply to its own request, complete, or the connection dies with it; each descriptor has one owner; a connection waits only for clients |
| `jobs` | 3 children, 3 commands of every kind, 2 keyboard signals, failing forks | lowest job ids, reaping, truthful flags, no dangling node, prompt returns |
| `jobs_fg` | 1 child, 2 commands | `FgEnds` fails |
| `command_line` | some hundred and twenty lines in every order, pipes of up to 3 stages that hold one unit, one failing fork | every line that is supported is read as it is meant; aliases are a map; what runs is what was meant; the shell holds one end of a pipe at most while it waits, and at the prompt only what a failed fork left; the prompt comes back |
| `trace_driver` | every trace on 3 pages of 3 words, 4 request ids, sizes that fit, just fit and do not | the threaded list is the stack of free pages whatever clients write; contents are kept; the bytes are counted; the verdict is right |
| `resource_map` | 3 pages of 10 units, headers of 1 and 3, sizes 1, 4, 8 | blocks tile their pages, the list is ordered, merging is complete and keeps no free page, the abstract heap is implemented |
| `resource_map_root` | 2 such pages | `RootServes` fails |
| `buddy` | 6 pages of 16 units, 2 entries to a bookkeeping page, sizes 1, 7, 8, at most 3 blocks out | the same for the buddy system; every page in use is accounted for by an entry, and all come back |

Bounds. The ring of two slots wraps and fills with three connections, and with
four main waits twice; three workers let two race while a third sleeps. Five
requests on a seat are a full life (view, cancel, view, confirm) and one more.
In `server`, two descriptors are taken by two connections, so that a file cannot
be opened and accept fails, and by a connection and a file, so that the number of
either is reused while the other is in use; the scripts are a listing behind a
header as long as `get_line`'s buffer, a request without a user whose lines end
with LF alone, a file of two blocks, and a method that is refused; a reply of
three pieces does not fit the two of `SendBuf`, one of two does; 24 characters
hold exactly the 6 seats that are loaded. Three children make gaps in the job
list at its head, middle and end, and coalesce SIGCHLDs. The lines of
`command_line` cross seven ways to write an argument with ten ways to end a
command, files that cannot be opened among them; behind an alias come
redirections, quotes and `&`; stages are not found, built in, aliases, blank or
redirected; three names of aliases insert before, between and behind, name each
other, end with a blank or not, and form a circle; a pipe of one unit is filled
by one program and overrun by another. Three pages give the trace driver a page
that is free while others are used, a pool that is given up and renewed, and
none left. Three pages of the resource map have one page before, between and
behind the others on the list, and a page of ten units holds three small blocks,
so that a block merges with either neighbour, with both, or with none; 8 fills a
page. Six pages give the buddy system a root page, two bookkeeping pages and
three data pages: a bookkeeping page fills, a second is taken and either goes
first; 7 and its header are exactly a class, 8 and its header just too much for
it. In bytes the code has pages of 8192, headers of 4 for an allocated block and
of 20 (rm) or 12 (bud) for a free one; the models keep what the code compares,
by which a remainder is too small to be a block and a size just fits a page or a
class. `MaxConn`, `MaxTasks`, `MaxGone`, `MaxSpurious`, `MaxRequests`,
`NumPids`, `MaxCmds`, `MaxKeys`, `MaxFails` and `MaxLive` bound what the environment does,
never what the program does. The systems rest when the environment has nothing
more to ask, so deadlock is not checked.

Fairness. Threads that can run do run (`WF` on `AddTask`, `InPool(w)`, which is
all that a worker does but the return of its `handle_connection`, and `Destroy`;
in `HttpServer` on `Add`, `Take` by some worker while there was no SIGINT, and
each `Handle(w)`, which is not enabled while a read or a write blocks), the shell
and the programs it started run while they can (`WF` on `ShellStep`, `Program`),
pending unblocked signals are delivered. Nothing is fair about clients (they need
neither send nor read), the end of a `handle_connection` as the pool sees it, the
keyboard, SIGINT, spurious wake-ups, or, in `JobControl`, children. A program in
`CommandLine` ends once it has read and written everything; one that runs for
ever keeps the prompt, of course.

The liveness of `pool` needs no strong fairness on the mutex because main alone
refills the ring: while it waits for the mutex only finitely many tasks are left
to take.

## 4. What the runs show of the code

Runs that fail:

* **pool_destroy.** A worker reads `stop == 0` (`thread_pool.c:138`); then
  `pool_destroy` sets `stop` and broadcasts; then the worker finds the queue
  empty and waits for ever, and `pthread_join` with it. There are two more ways
  to hang: SIGINT while the main thread holds the mutex, and a worker whose
  client keeps it in `handle_connection`, silent (`util.c:195`, no timeout) or not
  reading its reply (`util.c:245`). `QuietShutdownEnds` in `pool` shows that these
  three are all.
* **seats_race.** Two workers see AVAILABLE (`seats.c:36`) before either stores;
  each user then confirms.
* **jobs_fg.** `ContinueCmd` sets RUNNING on a job whose end was already
  reported; nothing clears it (`runtime.c:555`).
* **resource_map_root.** When the last block of the root page is freed,
  `coalesce` makes the page of the next free block the root page. If no free
  block is above it, it sets `root_page = NULL` (`kma_rm.c:398`) although other
  pages may be fully allocated; the next `kma_free` dereferences it (289).

Conditions in the properties of the passing runs, which are behaviours of the code:

* `OwnReplies`: a file that exists gets 404 when no descriptor is free for it
  (`util.c:166`), and a client that goes away may take the server with it, since
  SIGPIPE is not handled (`util.c:245`).
* `WaitsOnlyForClients`, `EveryConnectionHandled`, `QuietShutdownEnds`: there are
  no timeouts. A client that does not send, or has sent everything and does not
  read, keeps its worker, and as many of them as there are workers stop the
  server.
* `ShellFdsClosed`: a failed fork in a pipe leaves open the end that the stage
  would have read and both ends of the pipe it would have written
  (`runtime.c:287`). The property says that these are all, and that nothing else
  adds to them.
* `PromptComes`, `PromptReturns`: not after a fork has failed, since SIGCHLD stays
  blocked (`runtime.c:287`, 445) and the next wait has no end. `PromptComes` also
  not for an alias that leads to itself, which recurses until the stack ends, nor
  for a stage that writes more than a pipe holds, since its reader is started
  only after it has ended (`runtime.c:314`), nor for a blank stage, which has no
  `argv[0]` for `IsBuiltIn` to compare: the shell crashes (`runtime.c:521`).
* `RunsAsMeant`, `ReadAsMeant`: not for what is `Unsupported`. `<` and `>` end a
  word even in quotes (`interpreter.c:56`) and so cannot be in an argument;
  `RunCmdPipe` looks at neither redirections nor `&`; and behind an alias
  redirections, `&` and quotes are lost, since the line that `RunBuiltInCmd`
  interprets in its place is put together from the words of `argv`
  (`runtime.c:598-621`): with `x='echo a'`, `x >g` writes to the terminal, though
  an alias may "be used in place of the command" (`tsh.1:25`). Such lines are typed
  in the run, and what they do to the lines after them is checked. A child that
  does not come to its `execv` (a file it cannot open, a program behind an alias
  that is not found, a fork that fails in it) is left out of a pipe that goes on.
* `ChildrenAccounted`: a pipe stage that is stopped is forgotten
  (`runtime.c:318`).

Seen on the way, and not runs:

* A job stopped by Ctrl-Z keeps FOREGROUND (`runtime.c:848`), so that the next
  Ctrl-C or Ctrl-Z reaches it although another job is in the foreground
  ("Broadcast signal only to the foreground process", `tsh.1:69`). `Targets` in
  `JobControl` follows the code.
* The -1 of a failed accept is queued like a connection, fails to be read, and
  is refused as a bad request (`http_server.c:90`).
* The names of operations are compared up to the length of the resource, so that
  `/`, `/c` and `/view` name operations too (`util.c:131-155`); any method that
  begins with GET is accepted; a path is cut at 99 characters, perhaps in the
  middle of a seat number (`util.c:85`).
* A blank line ended by LF or CR alone does not end the headers, and a header of
  exactly 1023 characters does (`util.c:104`, 193); behind a CR alone a character
  is lost (200). `get_line` ends at the end
  of the input, so neither keeps a worker for ever.
* `list_seats` writes beyond its buffer from 190 seats on (`seats.c:15-24`); the
  server starts with 20, and no run loads more than fit.
* The buffer for a line with an alias put in is a byte short for the final NUL
  (`runtime.c:615`).
* `getCommandLine` returns on the end of the input as on an empty line, so the
  main loop spins; a longer line than the buffer is lost with `realloc`'s result
  (`io.c:107`).
* `thread_pool.h:6` names the two parameters of `pool_create` in the opposite
  order to `thread_pool.c:49`; the call in `http_server.c:63` follows the code.
* `sem_post` in the unused `semaphore.c` decrements.
* The loop at `kma_bud.c:428` unlinks one entry more than a bookkeeping page
  has, finds zeroes there and so empties the list of unused entries of all
  pages. Nothing breaks (`PagesAccounted`, `AllFreed`): the entries are wasted
  until their pages go. `Buddy` models it (`WithoutEntries`).
* When a whole page is free, `kma_bud.c:330` reads the header of the neighbouring
  page, or beside the pool, before it compares the pages. The read decides
  nothing, and `Mergeable` leaves it out.
* `kma.c:276-280` expects NULL for exactly the requests larger than a page less a
  pointer. `kma_dummy.c` agrees (`VerdictRight`); `kma_rm.c` and `kma_bud.c`
  have larger headers and do not. Sizes that exceed their payload are not
  modelled in `ResourceMap` and `Buddy`.

## 5. Proofs

`ThreadPoolProofs` proves for every number of threads, slots and connections,
from `NumThreads, QueueSize \in Nat \ {0}`, `MaxConn, MaxSpurious \in Nat` and
`SigAt \subseteq MainPcs`:

* `Invariant`: `Spec => []IInv`. None of the properties is inductive alone.
  `IInv` adds the mutex discipline (`LockInv`: a thread is between lock and
  unlock iff it owns the mutex), what a wait loop's test found and still holds
  (`GuardInv`), the contents of the ring (`RingInv`: it holds the last `length`
  connections put into it, in order) and the workers already joined (`JoinInv`).
  The step lemmas (`TypeStep`, `LockStep`, `GuardStep`, `RingStep`,
  `HandedStep`, `WakeStep`, `JoinStep`) each take one conjunct; `SlotWraps`,
  `SlotsDiffer` and `SlotShift` are the arithmetic of the ring.
* `TypeCorrect`, `HandedOut`, `WakeupsArrive`, `FreedLast`: the safety
  properties, from `Invariant`.
* `PoolIsQueue`: `Spec => Queue!Spec`. `AddInsert` is `Submit`, `WorkTake` is
  `Start`, `WorkRun` is `Finish`, every other action a stutter.

`SeatsProofs` proves for any workers, users, seats and number of requests, from
`NoUser \notin Users` and `MaxRequests \in Nat`:

* `SeatInvariant`: `Spec => []SeatInv`. To `TypeOK` and the two safety
  properties it adds that the owner of a seat and everybody who is storing was
  granted it (`GrantInv`), that only one request is inside a seat nobody raced
  for (`AloneInv`), and that what this request has read still holds when it
  stores (`ReadInv`). `NextSplits` takes a step apart by what it does.
* `SoldOffered`, `SalesStand`: from the invariant. The first holds with races.
* `TableIsRegistry`: `Spec => Registry!Spec`. `BeginSpoils`: a request that
  overlaps another is `Spoil`. `QuietSteps`: reading and refusing are stutters.
  `StoreTurns`: a store is `Hold`, `Release` or `Sell`, or a stutter, whichever
  of the two fields is stored first.

`ShellProofs` proves of `JobControl`, for every number of children, lines and keyboard
signals and every set of commands, from `NumPids, MaxCmds, MaxKeys \in Nat` and
`PipesAssumption` (a pipe that is typed has a stage):

* `JobInvariant`: `Spec => []JobInv`. To `TypeOK`, `AwaitedListed` and
  `ChildrenAccounted` it adds that job ids ascend along the list (`ListInv`);
  that a pipe in progress has a stage left (`PipeInv`); that the child being
  added is the last one forked and that its signals are blocked, so that nothing
  of it was reported (`AddInv`); where the walks over the list are (`WalkInv`);
  that SIGCHLD is pending for everything the handler has not seen (`NewsInv`);
  and what each flag means while it has not seen it, also for the copy of the
  flags that `ContinueCmd` writes back (`EndInv`, `FlagsInv`). `StatusTruth` says
  nothing while a SIGCHLD is pending, so it is not inductive. One step lemma for
  each conjunct; `UnlinkKeepsList` and `AddJobKeepsList` are what the steps do
  to the list, `KernelIsStep` what they do to the children.
* `TypeCorrect`, `NoChildLost`, `NoExitOverlooked`, `FlagsTellTheTruth`,
  `NoUseAfterFree`: the safety properties, from the invariant.
* `LowestJidIsGiven`: `Spec => LowestJid`. `FirstGapFree`: where the scan of
  `AddJob` stops, the ids so far are 1, 2, 3 ... and the next is free.

`ShellProofs` proves of `CommandLine` and `LineParser`, for any lines, names,
programs, files and directories, from `NameOrderAssumption` (the order of strcmp
is a list of names):

* `ShellClosesPipes`: `LineSpec => []ShellFdsClosed`. `PipesInv` says which ends
  the shell has at every point of `RunCmdPipe`: between two stages the one that
  the next stage will read, after a fork both ends of the pipe being made as
  well, and after a fork that failed the same three, which stay. It holds for
  pipes of any length and any number of failing forks.
* `AliasListIsMap`: `LineSpec /\ []ReadAsMeant => []AliasesAreMap`. To the property
  `AliasInv` adds that a name is where the order of names puts it (`OneEach`).
  `PlaceIs` is the search of `RunBuiltInCmd` for the place of a name,
  `WithAliasIs` and `WithoutAliasIs` what is then in the list.
* `LinesRunAsMeant`: `LineSpec /\ []ReadAsMeant => []RunsAsMeant`. `RanInv`: in
  the middle of a line the programs that were started are those that the
  commands up to this stage ask for (`AskedBy`), but for those whose child did not
  come to its `execv` (`Within`), so that the whole line was run when the prompt
  comes back with nothing missing. Both `ReadAsMeant` and `RunsAsMeant` except
  the lines that are `Unsupported`.

  `ReadAsMeant`, which both theorems assume and the `command_line` run checks,
  relates two constants of the model: the text of each line that can be typed and
  what its author means by it. It cannot follow for arbitrary lines, since an
  author may mean anything. The theorems say that once a line is read as it is
  meant nothing after that goes wrong.
* `WordsAreRead`, `LineIsRead`: what of `ReadAsMeant` holds for every line. A text
  that is written as words with blanks between them (`WrittenAt`: bare words
  without quotes and redirections, or words in quotes that may contain blanks,
  bars and the other quote) is given back by `parser_single` as those words
  (`WordsOf`), and by `Interpret` as one command. `NextWord` is one call of
  `single_param`, `WordsAre` all of them; `OpenNext` and `BareIs` are the quotes
  as `parser_single` tracks them; `WordsCounted` is its count of the words.
  Aliases, pipes and redirections are on the lines of the run only.

  The recursive functions of the parser are handled without induction: a function
  that solves the recursion is written down (`ReadUpTo`, `OpenAt`), and the least
  argument at which another solution differs (`LeastNat`, from the
  well-foundedness of the naturals) leads to a contradiction.

`HttpServerProofs` proves for any workers, clients, descriptors and queue slots,
from `MaxTasks \in Nat` and `FileMax, LineMax, BufSize \in Nat` (and what
`WorkQueue` assumes of its size):

* `FdInvariant`: `Spec => []FdInv`. `EachFdOwned` counts the owners of each
  descriptor and is not inductive. `FdInv` says what they are: only a pending
  task's int holds a descriptor, and no task waits twice (`QueueInv`); a worker
  between two tasks has no connection, and a file only while it replies
  (`WorkerInv`); no two hold the same (`OwnedOnce`); connections are held where
  connections belong, files where files do (`Kinds`); and what is open, somebody
  holds (`AllOwned`). One lemma for each action that moves a descriptor, and
  `QuietKeeps` for the rest. `FdsAreOwned` is then counting (`OwnersCounted`).
* `ReplyInvariant`, `RepliesAreOwn`: `Understood => (Spec => [](...))`. `ReplyInv`
  says that what a client has got, followed by what its worker has still to
  write, is a reply to what that client sent (`ServedInv`, for `PeerOf` a worker,
  through the descriptor that `FdInv` shows to be that client's); that nothing
  was read from a client that is still queued (`FreshInv`); and that the seats
  are freed after the last worker has left (`StopInv`). The hypothesis
  `Understood` is about the constants: each client means by its first line what
  `parse_int_arg` and the comparisons in `handle_connection` make of it, and the
  loaded seats fit the buffer of `list_seats`. (A client that means something
  else gets the reply to what it wrote; TLC's scripts have both sides written
  down separately.)

`PagesProofs` proves for every `NumPages \in Nat \ {0}` what `AfterGet` and
`AfterPut` do to the stack and to the pages in use (`GetHolds`, `PutReturns`,
from `GetShifts` and `PutShifts`), and that the two add up (`HeldCounted`), which
is why the last page to come back is the moment the whole pool goes.

`KmaPageProofs` proves for every `NumPages \in Nat \ {0}`:

* `PageInvariant`: `Spec => []PageInv`. To the properties it adds that `order`
  has no page twice and that a missing pool has the list of a new one
  (`OrderInv`), and that the counter is the number of pages in use (`CountInv`).
* `ListKept`, `PoolKept`, `PagesAreStack` (`get_page` is `Get`, `free_page` is
  `Put`).
* `DriverUsesPages`: `TraceSpec => Spec`, step by step: whatever the driver and
  the dummy allocator do is `get_page`, `free_page` or a client's write into a
  page it has. So `PageInv` holds under the driver too.
* `TraceInvariant`: `TraceSpec => []TraceInv`, for any words, requests and sizes.
  It adds to `PageInv` where a command is (`DriverInv`), what an outstanding
  request has in its block and where the block is (`UsedInv`), and that the pages
  in use are those of the outstanding requests and of the command in progress,
  each with one owner (`OwnPages`). `BlocksKeepContents` and `PassMeansAllFreed`
  follow.
* `BytesAreCounted`: `TraceSpec => []BytesCounted`. `currentAllocBytes` is the
  number of words in the outstanding blocks: they do not overlap
  (`BlocksApart`), so an allocation adds its own (`AllocateCounts`) and a free
  takes its own away (`DeallocateCounts`).

`ResourceMapProofs` proves from `LayoutAssumption` and `SizesAssumption` (headers
not empty, that of a free block the larger, and what is asked for fits a page),
for any number and size of pages:

* `MapInvariant`: `Spec => []MapInv`. `MapInv` is a sound heap (`Good`: pages
  are a stack, blocks tile the pages in use, the list is in address order and
  holds blocks only), the client's blocks (`LiveInv`: not on the list, and large enough), and where `kma_free` is
  (`PcInv`: every free block is `Settled` - it touches no other free block and
  does not fill its page - except the one that `coalesce` works on).
  `FullyCoalesced` says nothing during a merge, so it is not inductive.
* One effect lemma for each part of the code: `InsertEffect`
  (`add_and_insert_free_header`), `CarveEffect` (the split in `kma_malloc`),
  `NewPageEffect`, `MergeEffect` and `CoalescedWorks` (`coalesce` with the block
  before and behind), `ReleaseEffect` (a page given back). They rest on three
  lemmas about tilings (`SplitTiles`, `MergeTiles`, `ReleaseTiles`) and three
  about ascending sequences (`PlaceSplits`, `Inserted`, `Removed`).
* `MapTypes`, `PagesStayTiled`, `ListStaysOrdered`, `FreeMergesAll`: the safety
  properties, from the invariant.
* `MapIsHeap`: `Spec => ImplementsHeap`. A malloc that succeeds is `Malloc`
  (`PayloadInPage`, `PayloadsApart`), a free is `Free`, merging a stutter.

`BuddyProofs` proves from `LayoutAssumption` and `SizesAssumption` (the page is a
power of two, headers as above, a bookkeeping page holds two entries at least,
and what is asked for fits a page), for any number and size of pages:

* `BuddyInvariant`: `Spec => []BuddyInv`. None of the properties is inductive
  alone: that the lists are right needs the tiling, that pages are accounted for
  needs that the lists of entries are disjoint, and `AllFreed` needs all of it.
  `BuddyInv` is a sound heap (`Good`: `Tiled` blocks, `EntriesRight` - the two
  lists of entries and the data page of each - and `PagesRight`, which says whose
  each page is), that there is a root page iff an entry is in use (`Rooted`, which
  fails for a moment inside `kma_malloc`), the client's blocks
  (`LiveInv`: as large as was asked for, header included), and that the free
  blocks are listed and `Settled` - none spans its page, no two are buddies -
  except the one that `kma_free` is merging (`PcInv`). TLC finds `BuddyInv` true
  in every state of the `buddy` run.
* Arithmetic: `PowerDoubles` and `PowersCancel` are the laws of powers of two
  that classes need, without induction: `2 ^ k` counts the subsets of `1 .. k`,
  and a least exponent takes its place. From them `ClassesNest` (a class divides
  a larger one, twice over) and `BuddyIsHalf`: what `BuddyOf` computes is the
  other half of the block of twice the size, in the same page. `Halves` says
  that of two neighbours exactly one is a lower half.
* Tilings: `MergeTiles`, `SplitTiles` (one split makes a part of every class on
  the way down), `NewTiles` and `ReleaseTiles`. `NoneSettled` is the heart of
  `AllFreed`: among blocks that are all free take a smallest. If it is a lower
  half, the block behind it begins where no larger one can, so it is the buddy;
  if it is an upper half, the block before it is. So something can be merged
  until nothing is left.
* One effect lemma for each part of the code: `RootEffect`, `EntryEffect` and
  `PageEffect` (the pages that `kma_malloc` takes), `SplitEffect`, `MergeEffect`,
  `PushEffect`, `WithoutPageEffect` and `ReleaseEffect` (the data page, the
  bookkeeping page and the root page given back).
* `BuddyTypes`, `BlocksFillPages`, `FreeListsExact`, `BuddiesAreMerged`,
  `PagesAreAccounted`, `AllPagesFreed`: the safety properties, from the invariant.
* `BuddyIsHeap`: `Spec => ImplementsHeap`, as for the resource map.

Only model-checked: all liveness (`EveryConnectionHandled`,
`QuietShutdownEnds`, `WaitsOnlyForClients`, `PromptReturns`, `PromptComes`, the
fairness half of `ImplementsFairQueue`), which needs `ENABLED`; and
`ReadAsMeant`, which is about the lines that are typed. Every other property of a
passing run is a theorem.

Assumed by the models and not checked: `pthread_create`, `malloc` and
`posix_memalign` succeed; SIGINT comes once; pids are not reused. A signal
handler of the shell is one step: `signal()` lets one kind of handler interrupt
the other, but `Broadcast` only reads FOREGROUND, which `SigChldHandler` never
changes, and a child that changes while the list is walked has its own SIGCHLD
pending for later.

## 6. Not modelled

* `semaphore.c`, `kma_p2fl.c`, `kma_mck2.c`, `kma_lzbud.c`: unused or empty. The
  `testsuite` directories hold copies of the sources and scripts.
* The growth of the buffer in `getCommandLine` and the end of its input; the
  environment's own size limits (a `PATH` entry of more than 1024 characters).
* A failing `pipe`, `pthread_create` (which `thread_pool.c:66` ignores), `malloc` or `posix_memalign`; a second
  SIGINT.
* Printed notices of the shell and the statistics of the trace driver.
* An alias in a stage of a pipe that makes a pipe of its own or asks for the
  background, and the built-in commands in the child of a stage, which change
  nothing outside it.
* What the resource map does after it has lost its root page, and requests
  larger than a page's payload in the two allocators.

## 7. Plan

Done: all modules of section 2, their runs, and the proofs of section 5. What
is left, by worth:

1. The signals of `JobControl` in the pipes of `CommandLine`.
2. `LineIsRead` for redirections, pipes and the text of an alias.
