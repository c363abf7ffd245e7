----------------------------- MODULE HttpServer -----------------------------
(* The server as a whole (server/skeleton): the accept loop of http_server.c *)
(* over the pool, handle_connection of util.c in the workers, the process's  *)
(* descriptors, the clients, and shutdown_server.  The pool is the queue     *)
(* that ThreadPool implements (WorkQueue); its tasks carry a pointer to an   *)
(* int with the descriptor of the connection.                                *)
EXTENDS Requests, FiniteSets

CONSTANTS Workers, Capacity,   \* the pool's threads and the size of its queue
          MaxTasks,            \* bound: how often accept returns
          MaxConn,             \* bound: how many clients connect
          MaxGone,             \* bound: how many clients go away
          NumFds,              \* descriptors besides the listening socket
          SendBuf,             \* what a connection takes that its client has not read
          Scripts,             \* what a client may send, and what it means by it
          Files,               \* the blocks of each file of the server
          SeatCounts           \* the numbers of seats it may be started with

ASSUME MaxTasksAssumption == MaxTasks \in Nat
ASSUME NumFdsAssumption   == NumFds \in Nat
ASSUME MaxConnAssumption  == MaxConn \in Nat

Fds   == 1 .. NumFds
NoFd  == -1                    \* what accept and open return when they fail
Conns == 1 .. MaxConn
Free  == 0                     \* no file is open
AFile == MaxConn + 1           \* a file of the server is open

VARIABLES
    submitted, items, holding, done, closed,   \* the pool
    heap,       \* the int that main allocated for each task, NoFd when freed
    mpc,        \* main: in accept, or in pool_add_task
    accepted,   \* how many connections were accepted
    table,      \* what each descriptor is: Free, a connection, or AFile
    script,     \* the script of each client
    sent,       \* how much of it the client has sent
    inbox,      \* the lines that arrived and were not read
    got,        \* the reply so far
    unread,     \* how many pieces of it the open connection still holds
    gone,       \* the clients that closed their end
    wpc,        \* where each worker is in handle_connection
    connfd, fd, \* its variables of these names
    request,    \* what it has parsed
    out,        \* the pieces it has still to write
    seats,      \* how many seats were loaded
    freed,      \* whether unload_seats has freed them
    over        \* how the process ended, "" while it runs

Pool == INSTANCE WorkQueue

poolVars   == <<submitted, items, holding, done>>
mainVars   == <<heap, mpc, accepted>>
clientVars == <<script, sent, unread, gone>>
localVars  == <<connfd, fd, request>>
vars == <<poolVars, closed, mainVars, table, clientVars, inbox, got, wpc,
          localVars, out, seats, freed, over>>

Alive == over = ""

Init ==
    /\ Pool!Init
    /\ closed = FALSE
    /\ heap = [n \in 1 .. MaxTasks |-> NoFd]
    /\ mpc = "accept"
    /\ accepted = 0
    /\ table = [f \in Fds |-> Free]
    /\ script \in [Conns -> Scripts]
    /\ sent = [c \in Conns |-> 0]
    /\ inbox = [c \in Conns |-> <<>>]
    /\ got = [c \in Conns |-> <<>>]
    /\ unread = [c \in Conns |-> 0]
    /\ gone = {}
    /\ wpc = [w \in Workers |-> "idle"]
    /\ connfd = [w \in Workers |-> NoFd]
    /\ fd = [w \in Workers |-> NoFd]
    /\ request = [w \in Workers |-> [op |-> "none"]]
    /\ out = [w \in Workers |-> <<>>]
    /\ seats \in SeatCounts
    /\ freed = FALSE
    /\ over = ""

\* The lowest free descriptor, or failure.
Unused == {f \in Fds : table[f] = Free}
NewFd == IF Unused = {} THEN NoFd ELSE First(Unused)
Closing(f) == [table EXCEPT ![f] = Free]

-----------------------------------------------------------------------------
(* The main thread.  It runs while no signal has come.                       *)

\* connfd = malloc(...); *connfd = accept(...)
Accept ==
    /\ Alive /\ ~closed /\ mpc = "accept" /\ submitted < MaxTasks
    /\ \/ NewFd # NoFd /\ accepted < MaxConn
          /\ accepted' = accepted + 1
          /\ table' = [table EXCEPT ![NewFd] = accepted + 1]
       \/ NewFd = NoFd
          /\ UNCHANGED <<accepted, table>>
    /\ heap' = [heap EXCEPT ![submitted + 1] = NewFd]
    /\ mpc' = "add"
    /\ UNCHANGED <<poolVars, closed, clientVars, inbox, got, wpc, localVars,
                   out, seats, freed, over>>

\* pool_add_task(threadpool, &handle_connection, (void*) connfd)
Add ==
    /\ Alive /\ ~closed /\ mpc = "add"
    /\ Pool!Submit
    /\ mpc' = "accept"
    /\ UNCHANGED <<closed, heap, accepted, table, clientVars, inbox, got, wpc,
                   localVars, out, seats, freed, over>>

-----------------------------------------------------------------------------
(* A worker: handle_connection.                                              *)

At(w, pc) == Alive /\ wpc[w] = pc
Goes(w, pc) == wpc' = [wpc EXCEPT ![w] = pc]

\* connfd = *connfd_ptr; free(connfd_ptr)
WrongTakenFd(n) == heap[IF mpc = "add" THEN submitted + 1 ELSE submitted]
TakenFd(n) == heap[n]
Take(w) ==
    /\ At(w, "idle")
    /\ Pool!Start(w)
    /\ Goes(w, "request")
    /\ connfd' = [connfd EXCEPT ![w] = TakenFd(Head(items))]
    /\ heap' = [heap EXCEPT ![Head(items)] = NoFd]
    /\ UNCHANGED <<closed, mpc, accepted, table, clientVars, inbox, got, fd, request,
                   out, seats, freed, over>>

\* The connection of worker w, if its descriptor is one; reading from it blocks
\* unless a line is there or none will come any more.
Peer(w) == IF connfd[w] = NoFd THEN Free ELSE table[connfd[w]]
Connected(w) == Peer(w) \in Conns
AtEnd(c) == c \in gone \/ (script[c].eof /\ sent[c] = Len(script[c].lines))
Readable(w) == Connected(w) => Complete(inbox[Peer(w)]) \/ AtEnd(Peer(w))
Line(w) == IF Connected(w) /\ inbox[Peer(w)] # <<>>
           THEN Head(inbox[Peer(w)]) ELSE EndOfInput

\* get_line takes the line out of the socket.
GetLine(w) ==
    /\ Readable(w)
    /\ IF Line(w) = EndOfInput THEN UNCHANGED inbox
       ELSE inbox' = [inbox EXCEPT ![Peer(w)] = Remaining(@)]

\* Parsed, as a table of the lines that may come first.
Meaning == [line \in {EndOfInput} \cup UNION {ToSet(s.lines) : s \in Scripts}
                |-> Parsed(line)]

\* The request line; anything but GET is refused.
ReadRequest(w) ==
    /\ At(w, "request")
    /\ GetLine(w)
    /\ request' = [request EXCEPT ![w] = Meaning[Line(w)]]
    /\ \/ /\ request'[w].op = "bad"
          /\ out' = [out EXCEPT ![w] = <<"400">>]
          /\ Goes(w, "reply")
       \/ /\ request'[w].op # "bad"
          /\ Goes(w, "headers")
          /\ UNCHANGED out
    /\ UNCHANGED <<poolVars, closed, mainVars, table, clientVars, got, connfd,
                   fd, seats, freed, over>>

\* One header, ignored, or the end of the headers.
ReadHeader(w) ==
    /\ At(w, "headers")
    /\ GetLine(w)
    /\ IF HeadersEnd(Line(w)) THEN Goes(w, "operate") ELSE UNCHANGED wpc
    /\ UNCHANGED <<poolVars, closed, mainVars, table, clientVars, got, localVars,
                   out, seats, freed, over>>

\* The seat operation runs, or the file is opened; the reply is made up.
Operate(w) ==
    /\ At(w, "operate")
    /\ LET r == request[w]
           found == r.op = "file" /\ r.name \in DOMAIN Files /\ NewFd # NoFd
           reply == CASE freed -> <<"freed seats">>
                      [] r.op = "file" ->
                            IF found THEN <<"200">> \o Files[r.name] ELSE <<"404">>
                      [] r.op = "list" -> <<"200", list_seats(seats)>>
                      [] OTHER -> <<"200", r>>
       IN  /\ out' = [out EXCEPT ![w] = reply]
           /\ fd' = [fd EXCEPT ![w] = IF found THEN NewFd ELSE NoFd]
           /\ table' = IF found THEN [table EXCEPT ![NewFd] = AFile] ELSE table
    /\ Goes(w, "reply")
    /\ UNCHANGED <<poolVars, closed, mainVars, clientVars, inbox, got, connfd,
                   request, seats, freed, over>>

\* Writing blocks while the connection is full and its client stays.
Writable(w) == Connected(w) /\ Peer(w) \notin gone => unread[Peer(w)] < SendBuf

\* writenbytes.  A piece for a client that went away is lost, or the write
\* raises SIGPIPE, which nobody handles.
Write(w) ==
    /\ At(w, "reply") /\ out[w] # <<>>
    /\ Writable(w)
    /\ out' = [out EXCEPT ![w] = Tail(@)]
    /\ \/ /\ ~Connected(w)
          /\ UNCHANGED <<got, unread, over>>
       \/ /\ Connected(w) /\ Peer(w) \notin gone
          /\ got' = [got EXCEPT ![Peer(w)] = Append(@, Head(out[w]))]
          /\ unread' = [unread EXCEPT ![Peer(w)] = @ + 1]
          /\ UNCHANGED over
       \/ /\ Peer(w) \in gone
          /\ over' \in {"", "SIGPIPE"}
          /\ UNCHANGED <<got, unread>>
    /\ UNCHANGED <<poolVars, closed, mainVars, table, script, sent, gone, inbox,
                   wpc, localVars, seats, freed>>

\* close(fd)
CloseFile(w) ==
    /\ At(w, "reply") /\ out[w] = <<>> /\ fd[w] # NoFd
    /\ table' = Closing(fd[w])
    /\ fd' = [fd EXCEPT ![w] = NoFd]
    /\ UNCHANGED <<poolVars, closed, mainVars, clientVars, inbox, got, wpc,
                   connfd, request, out, seats, freed, over>>

\* close(connfd), and the task returns.  The kernel delivers what is unread.
Close(w) ==
    /\ At(w, "reply") /\ out[w] = <<>> /\ fd[w] = NoFd
    /\ table' = IF connfd[w] = NoFd THEN table ELSE Closing(connfd[w])
    /\ connfd' = [connfd EXCEPT ![w] = NoFd]
    /\ request' = [request EXCEPT ![w] = [op |-> "none"]]
    /\ Pool!Finish(w)
    /\ Goes(w, "idle")
    /\ unread' = IF Connected(w) THEN [unread EXCEPT ![Peer(w)] = 0] ELSE unread
    /\ UNCHANGED <<closed, mainVars, script, sent, gone, inbox, got, fd, out,
                   seats, freed, over>>

\* thread_do_work returns once stop is set; it may take one more task before.
Leave(w) ==
    /\ At(w, "idle") /\ closed
    /\ Goes(w, "left")
    /\ UNCHANGED <<poolVars, closed, mainVars, table, clientVars, inbox, got,
                   localVars, out, seats, freed, over>>

Handle(w) ==
    \/ ReadRequest(w) \/ ReadHeader(w) \/ Operate(w)
    \/ Write(w) \/ CloseFile(w) \/ Close(w)

-----------------------------------------------------------------------------
(* The clients.                                                              *)

\* A client may send before its connection is accepted.
Send(c) ==
    /\ Alive /\ c \notin gone /\ sent[c] < Len(script[c].lines)
    /\ sent' = [sent EXCEPT ![c] = @ + 1]
    /\ inbox' = [inbox EXCEPT ![c] = Append(@, script[c].lines[sent[c] + 1])]
    /\ UNCHANGED <<poolVars, closed, mainVars, table, script, got, unread, gone,
                   wpc, localVars, out, seats, freed, over>>

\* A client reads a piece of its reply.
Receive(c) ==
    /\ Alive /\ c \notin gone /\ unread[c] > 0
    /\ unread' = [unread EXCEPT ![c] = @ - 1]
    /\ UNCHANGED <<poolVars, closed, mainVars, table, script, sent, inbox, got,
                   gone, wpc, localVars, out, seats, freed, over>>

GoAway(c) ==
    /\ Alive /\ c \notin gone /\ Cardinality(gone) < MaxGone
    /\ gone' = gone \cup {c}
    /\ UNCHANGED <<poolVars, closed, mainVars, table, script, sent, unread, inbox,
                   got, wpc, localVars, out, seats, freed, over>>

-----------------------------------------------------------------------------
(* SIGINT: shutdown_server.                                                  *)

\* pool_destroy sets stop ...
ShutdownBegins ==
    /\ Alive /\ ~closed
    /\ closed' = TRUE
    /\ UNCHANGED <<poolVars, mainVars, table, clientVars, inbox, got, wpc,
                   localVars, out, seats, freed, over>>

\* ... and returns when the workers have; then unload_seats.
Joined == \A w \in Workers : wpc[w] = "left"
UnloadSeats ==
    /\ Alive /\ closed /\ Joined /\ ~freed
    /\ freed' = TRUE
    /\ UNCHANGED <<poolVars, closed, mainVars, table, clientVars, inbox, got, wpc,
                   localVars, out, seats, over>>

\* close(listenfd); exit(0)
Exit ==
    /\ Alive /\ freed
    /\ over' = "exited"
    /\ UNCHANGED <<poolVars, closed, mainVars, table, clientVars, inbox, got, wpc,
                   localVars, out, seats, freed>>

Next ==
    \/ Accept \/ Add
    \/ \E w \in Workers : Take(w) \/ Handle(w) \/ Leave(w)
    \/ \E c \in Conns : Send(c) \/ Receive(c) \/ GoAway(c)
    \/ ShutdownBegins \/ UnloadSeats \/ Exit

\* The threads run while they can.  Nothing is fair about the clients, who need
\* neither send nor read, or the signal, and a worker that could leave need not (ThreadPool: pool_destroy may
\* wait for ever).
Spec ==
    /\ Init /\ [][Next]_vars
    /\ WF_vars(Add)
    /\ WF_vars(~closed /\ \E w \in Workers : Take(w))
    /\ \A w \in Workers : WF_vars(Handle(w))

-----------------------------------------------------------------------------
(* Properties.                                                               *)

Handled(c) == c <= accepted /\ \A f \in Fds : table[f] # c

\* The replies to what a client means: a file may not open for want of a
\* descriptor, but all else is as asked for, with every seat in a listing.
Replies(meant) ==
    CASE meant.op = "bad"  -> {<<"400">>}
      [] meant.op = "list" ->
            {<<"200", [op |-> "list", seats |-> 0 .. seats - 1]>>}
      [] meant.op = "file" ->
            {<<"404">>} \cup {<<"200">> \o Files[n] : n \in {meant.name} \cap DOMAIN Files}
      [] OTHER -> {<<"200", meant>>}

\* A client receives the reply to its own request and nothing else, in order,
\* and all of it before the server closes the connection, though workers share
\* the descriptor table, main reuses numbers as soon as they are closed, and
\* the seats are freed on shutdown (connfd_ptr and handle_connection against
\* the accept loop and shutdown_server).
OwnReplies ==
    \A c \in Conns :
        /\ got[c] # <<>> => \E r \in Replies(script[c].meant) : IsPrefix(got[c], r)
        /\ Handled(c) /\ c \notin gone => got[c] \in Replies(script[c].meant)

\* Who will close a descriptor: main and the queue through the int of a task,
\* a worker as its connfd, or as its fd.
Owners(f) ==
    {<<"task", n>> : n \in {k \in 1 .. MaxTasks :
        /\ heap[k] = f
        /\ k \in ToSet(items) \/ (mpc = "add" /\ k = submitted + 1)}}
    \cup {<<"connfd", w>> : w \in {v \in Workers : connfd[v] = f}}
    \cup {<<"fd", w>> : w \in {v \in Workers : fd[v] = f}}

\* Every open descriptor has exactly one owner that will close it, and a closed
\* one has none: nothing leaks on any path through handle_connection, and
\* nobody uses a number after it was closed and given to somebody else.
EachFdOwned ==
    \A f \in Fds : Cardinality(Owners(f)) = IF table[f] = Free THEN 0 ELSE 1

\* A worker waits for a client that could still say something, or that does not
\* read what it was told.
Waits(w) ==
    \/ wpc[w] \in {"request", "headers"} /\ ~Readable(w)
    \/ wpc[w] = "reply" /\ out[w] # <<>> /\ ~Writable(w)

\* An accepted connection is closed in the end unless the process ends, SIGINT
\* comes, or a client that neither sends nor reads is in the way for ever: its
\* own one once a worker has its connection, one for each worker before that.
WaitsOnlyForClients ==
    \A c \in Conns :
        (c <= accepted) ~> (\/ Handled(c) \/ closed \/ ~Alive
                            \/ [](\E w \in Workers : Peer(w) = c /\ Waits(w))
                            \/ [](\A w \in Workers : Waits(w)))
=============================================================================
