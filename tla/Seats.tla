-------------------------------- MODULE Seats --------------------------------
(* The seat table of the server (server/skeleton/seats.c) as the workers of *)
(* the thread pool use it: each worker runs view_seat, confirm_seat or      *)
(* cancel for one request at a time, and nothing locks the seat nodes.      *)
(*                                                                           *)
(* Each read and each store of a seat's state or customer_id is a step of   *)
(* its own.  The two stores of view_seat have no order between them: the    *)
(* accesses race, and the compiler may emit them either way round.          *)
EXTENDS Integers, FiniteSets

CONSTANTS Workers,      \* the pool's threads
          Users,        \* customer ids that appear in requests
          SeatIds,      \* ids of the loaded seats
          NoUser,       \* the customer_id of a seat nobody asked for (-1)
          MaxRequests   \* bound: how many requests are ever started

ASSUME NoUserAssumption      == NoUser \notin Users
ASSUME MaxRequestsAssumption == MaxRequests \in Nat

States   == {"AVAILABLE", "PENDING", "OCCUPIED"}
Ops      == {"view", "confirm", "cancel"}
Requests == [op : Ops, seat : SeatIds, user : Users]
Fields   == {"state", "customer_id"}

NoRequest == [op |-> "none"]

VARIABLES
    state,      \* seat_t.state
    customer,   \* seat_t.customer_id
    pc,         \* where each worker is in its request
    req,        \* the request each worker runs
    todo,       \* the stores each worker has decided on and not yet made
    issued,     \* how many requests were started
    granted,    \* history: who was asked "Confirm seat?" for which seat
    sold,       \* history: who was told "Seat confirmed" for which seat
    raced       \* history: the seats on which two requests overlapped

seatVars == <<state, customer>>
vars == <<state, customer, pc, req, todo, issued, granted, sold, raced>>

\* load_seats
Init ==
    /\ state = [s \in SeatIds |-> "AVAILABLE"]
    /\ customer = [s \in SeatIds |-> NoUser]
    /\ pc = [w \in Workers |-> "idle"]
    /\ req = [w \in Workers |-> NoRequest]
    /\ todo = [w \in Workers |-> {}]
    /\ issued = 0
    /\ granted = {}
    /\ sold = {}
    /\ raced = {}

-----------------------------------------------------------------------------
(* What each operation looks for and does.  Wrong definitions are plausible *)
(* mistakes in the definition that follows them.                            *)

\* The state that decides alone, and the one for which the owner is read next.
WrongGrantedAtOnce(op, st) == op = "view" /\ st # "PENDING"
GrantedAtOnce(op, st) == op = "view" /\ st = "AVAILABLE"
OwnerDecides(st)      == st = "PENDING"

\* curr->customer_id == customer_id
WrongMine(owner, user) == TRUE
Mine(owner, user) == owner = user

\* The state an operation leaves, and the fields it stores.
NewState == [view |-> "PENDING", confirm |-> "OCCUPIED", cancel |-> "AVAILABLE"]
Stores(op) == IF op = "view" THEN Fields ELSE {"state"}

-----------------------------------------------------------------------------
(* A worker's steps.                                                         *)

\* Another worker is inside a request for seat s.
InUse(s) == \E w \in Workers : pc[w] # "idle" /\ req[w].seat = s

\* handle_connection calls the operation; the list walk finds the seat.
Begin(w) ==
    /\ pc[w] = "idle"
    /\ issued < MaxRequests
    /\ issued' = issued + 1
    /\ \E r \in Requests :
          /\ req' = [req EXCEPT ![w] = r]
          /\ raced' = raced \cup {s \in {r.seat} : InUse(s)}
    /\ pc' = [pc EXCEPT ![w] = "state"]
    /\ UNCHANGED <<seatVars, todo, granted, sold>>

\* The reply is made up and the stores are decided on.
Proceed(w) ==
    LET r == req[w] IN
    /\ pc' = [pc EXCEPT ![w] = "store"]
    /\ todo' = [todo EXCEPT ![w] = Stores(r.op)]
    /\ granted' = granted \cup
          IF r.op = "view" THEN {<<r.user, r.seat>>} ELSE {}
    /\ UNCHANGED req

\* "Seat unavailable", "Permission denied", "No pending request"
Refuse(w) ==
    /\ pc' = [pc EXCEPT ![w] = "idle"]
    /\ req' = [req EXCEPT ![w] = NoRequest]
    /\ UNCHANGED <<todo, granted>>

\* if (curr->state == ...
ReadState(w) ==
    /\ pc[w] = "state"
    /\ LET st == state[req[w].seat]
           op == req[w].op
       IN  \/ GrantedAtOnce(op, st) /\ Proceed(w)
           \/ /\ ~GrantedAtOnce(op, st)
              /\ OwnerDecides(st)
              /\ pc' = [pc EXCEPT ![w] = "owner"]
              /\ UNCHANGED <<todo, granted, req>>
           \/ /\ ~GrantedAtOnce(op, st)
              /\ ~OwnerDecides(st)
              /\ Refuse(w)
    /\ UNCHANGED <<seatVars, issued, sold, raced>>

\* ... && curr->customer_id == customer_id)
ReadOwner(w) ==
    /\ pc[w] = "owner"
    /\ \/ Mine(customer[req[w].seat], req[w].user) /\ Proceed(w)
       \/ ~Mine(customer[req[w].seat], req[w].user) /\ Refuse(w)
    /\ UNCHANGED <<seatVars, issued, sold, raced>>

\* One store; after the last the operation returns and the reply is sent.
Store(w) ==
    LET r == req[w] IN
    /\ pc[w] = "store"
    /\ \E f \in todo[w] :
          /\ \/ /\ f = "state"
                /\ state' = [state EXCEPT ![r.seat] = NewState[r.op]]
                /\ UNCHANGED customer
             \/ /\ f = "customer_id"
                /\ customer' = [customer EXCEPT ![r.seat] = r.user]
                /\ UNCHANGED state
          /\ todo' = [todo EXCEPT ![w] = @ \ {f}]
          /\ \/ /\ todo[w] # {f}
                /\ UNCHANGED <<pc, req, sold>>
             \/ /\ todo[w] = {f}
                /\ pc' = [pc EXCEPT ![w] = "idle"]
                /\ req' = [req EXCEPT ![w] = NoRequest]
                /\ sold' = sold \cup
                      IF r.op = "confirm" THEN {<<r.user, r.seat>>} ELSE {}
    /\ UNCHANGED <<issued, granted, raced>>

Next == \E w \in Workers : Begin(w) \/ ReadState(w) \/ ReadOwner(w) \/ Store(w)

Spec == Init /\ [][Next]_vars

-----------------------------------------------------------------------------
(* Properties.                                                               *)

\* Type invariant; a worker is storing exactly while it has stores to make.
TypeOK ==
    /\ state \in [SeatIds -> States]
    /\ customer \in [SeatIds -> Users \cup {NoUser}]
    /\ pc \in [Workers -> {"idle", "state", "owner", "store"}]
    /\ req \in [Workers -> Requests \cup {NoRequest}]
    /\ todo \in [Workers -> SUBSET Fields]
    /\ issued \in 0 .. MaxRequests
    /\ granted \subseteq Users \X SeatIds
    /\ sold \subseteq Users \X SeatIds
    /\ raced \subseteq SeatIds
    /\ \A w \in Workers : /\ req[w] = NoRequest <=> pc[w] = "idle"
                          /\ todo[w] # {} <=> pc[w] = "store"

\* However requests race, nobody is sold a seat that the service did not offer
\* to that same user first (confirm_seat after view_seat).
SoldWasGranted == sold \subseteq granted

\* A sale stands: unless requests for it overlapped, a seat reported as
\* confirmed stays OCCUPIED in that user's name through every later view,
\* confirm and cancel.
SaleStands ==
    \A u \in Users, s \in SeatIds :
        <<u, s>> \in sold /\ s \notin raced =>
            state[s] = "OCCUPIED" /\ customer[s] = u

\* The condition of a seat that the table stands for.  A hold begins when both
\* of view_seat's stores are made.
SeatNow(s) ==
    IF s \in raced THEN [is |-> "spoiled"]
    ELSE IF \/ state[s] = "AVAILABLE"
            \/ state[s] = "PENDING" /\ \E w \in Workers :
                  /\ pc[w] = "store"
                  /\ req[w].op = "view" /\ req[w].seat = s
                  /\ customer[s] # req[w].user
    THEN [is |-> "free"]
    ELSE IF state[s] = "PENDING" THEN [is |-> "held", by |-> customer[s]]
    ELSE [is |-> "sold", to |-> customer[s]]

Registry == INSTANCE SeatRegistry WITH
    Seats <- SeatIds,
    seat  <- [s \in SeatIds |-> SeatNow(s)],
    sold  <- {sale \in sold : sale[2] \notin raced}

\* Where requests for a seat do not overlap, view, confirm and cancel are the
\* hold, sale and release of SeatRegistry, each as one step, even while other
\* workers are inside requests for other seats; in particular only the holder
\* of a seat is told that it is confirmed.
ImplementsRegistry == Registry!Spec

\* "Seat unavailable", "Permission denied - seat held by another user"
\* (seats.c:45, seats.c:71, asked for by testsuite/2.trace:30-31): a seat is
\* sold to one user at most.
NoDoubleSale ==
    \A u, v \in Users, s \in SeatIds :
        <<u, s>> \in sold /\ <<v, s>> \in sold => u = v
=============================================================================
