---------------------------- MODULE SeatsProofs ----------------------------
(* Proofs about Seats for every number of workers, users, seats and requests. *)
EXTENDS Seats, TLAPS

Inside(w, s) == pc[w] # "idle" /\ req[w].seat = s

\* Who owns a seat, is storing or was sold it, was asked to confirm it.
GrantInv ==
    /\ SoldWasGranted
    /\ \A s \in SeatIds : customer[s] = NoUser \/ <<customer[s], s>> \in granted
    /\ \A w \in Workers : pc[w] = "store" => <<req[w].user, req[w].seat>> \in granted

\* Two requests that are inside one seat have raced.
AloneInv ==
    \A v, w \in Workers : \A s \in SeatIds :
        s \notin raced /\ Inside(v, s) /\ Inside(w, s) => v = w

\* What a request has read of a seat that nobody raced for still holds, and
\* what it has stored is there.
ReadInv ==
    \A w \in Workers : req[w].seat \notin raced =>
        /\ pc[w] = "owner" => state[req[w].seat] = "PENDING"
        /\ pc[w] = "store" /\ req[w].op = "view" =>
              /\ state[req[w].seat] # "OCCUPIED"
              /\ "state" \notin todo[w] => state[req[w].seat] = "PENDING"
              /\ "customer_id" \notin todo[w] =>
                    customer[req[w].seat] = req[w].user
        /\ pc[w] = "store" /\ req[w].op # "view" =>
              /\ todo[w] = {"state"}
              /\ state[req[w].seat] = "PENDING"
              /\ customer[req[w].seat] = req[w].user

\* The inductive invariant.
SeatInv == TypeOK /\ GrantInv /\ AloneInv /\ ReadInv /\ SaleStands

-----------------------------------------------------------------------------
(* Facts about requests.                                                     *)

\* NoRequest is no request.
LEMMA NoRequestIsNone == NoRequest \notin Requests
<1>1. NoRequest.op = "none"
      BY DEF NoRequest
<1>2. \A r \in Requests : r.op # "none"
      BY DEF Requests, Ops
<1> QED BY <1>1, <1>2

\* A worker that is not idle has a request, and the request its fields.
LEMMA Busy ==
    ASSUME TypeOK, NEW w \in Workers, pc[w] # "idle"
    PROVE  /\ req[w] \in Requests
           /\ req[w].op \in Ops /\ req[w].seat \in SeatIds /\ req[w].user \in Users
<1>1. req[w] \in Requests
      BY DEF TypeOK
<1> QED BY <1>1 DEF Requests

\* What Proceed decides on is something.
LEMMA SomeStores ==
    \A op \in Ops : Stores(op) # {} /\ Stores(op) \subseteq Fields
  BY DEF Stores, Fields, Ops

-----------------------------------------------------------------------------
(* A worker's step, by what it does: it begins, reads PENDING and goes on to  *)
(* the owner, decides to store, gives up, or makes one store.                *)

Asks(w) ==
    /\ pc[w] = "state"
    /\ state[req[w].seat] = "PENDING"
    /\ pc' = [pc EXCEPT ![w] = "owner"]
    /\ UNCHANGED <<state, customer, req, todo, issued, granted, sold, raced>>

Decides(w) ==
    /\ \/ /\ pc[w] = "state"
          /\ req[w].op = "view" /\ state[req[w].seat] = "AVAILABLE"
       \/ pc[w] = "owner" /\ customer[req[w].seat] = req[w].user
    /\ Proceed(w)
    /\ UNCHANGED <<state, customer, issued, sold, raced>>

GivesUp(w) ==
    /\ pc[w] \in {"state", "owner"}
    /\ Refuse(w)
    /\ UNCHANGED <<state, customer, issued, sold, raced>>

StoresField(w, f) ==
    /\ pc[w] = "store"
    /\ \/ /\ f = "state"
          /\ state' = [state EXCEPT ![req[w].seat] = NewState[req[w].op]]
          /\ UNCHANGED customer
       \/ /\ f = "customer_id"
          /\ customer' = [customer EXCEPT ![req[w].seat] = req[w].user]
          /\ UNCHANGED state
    /\ todo' = [todo EXCEPT ![w] = @ \ {f}]
    /\ \/ /\ todo[w] # {f}
          /\ UNCHANGED <<pc, req, sold>>
       \/ /\ todo[w] = {f}
          /\ pc' = [pc EXCEPT ![w] = "idle"]
          /\ req' = [req EXCEPT ![w] = NoRequest]
          /\ sold' = sold \cup
                IF req[w].op = "confirm" THEN {<<req[w].user, req[w].seat>>}
                ELSE {}
    /\ UNCHANGED <<issued, granted, raced>>

WorkerStep(w) ==
    Begin(w) \/ Asks(w) \/ Decides(w) \/ GivesUp(w) \/ \E f \in todo[w] : StoresField(w, f)

\* Every step is one worker's.
LEMMA NextSplits == Next => \E w \in Workers : WorkerStep(w)
<1> SUFFICES ASSUME NEW w \in Workers,
                    Begin(w) \/ ReadState(w) \/ ReadOwner(w) \/ Store(w)
             PROVE  WorkerStep(w)
    BY DEF Next
<1>1. CASE ReadState(w)
    <2>1. CASE GrantedAtOnce(req[w].op, state[req[w].seat]) /\ Proceed(w)
          BY <1>1, <2>1 DEF ReadState, GrantedAtOnce, Decides, WorkerStep, seatVars
    <2>2. CASE /\ OwnerDecides(state[req[w].seat])
               /\ pc' = [pc EXCEPT ![w] = "owner"]
               /\ UNCHANGED <<todo, granted, req>>
          BY <1>1, <2>2 DEF ReadState, OwnerDecides, Asks, WorkerStep, seatVars
    <2>3. CASE Refuse(w)
          BY <1>1, <2>3 DEF ReadState, GivesUp, WorkerStep, seatVars
    <2> QED BY <1>1, <2>1, <2>2, <2>3 DEF ReadState
<1>2. CASE ReadOwner(w)
    <2>1. CASE Mine(customer[req[w].seat], req[w].user) /\ Proceed(w)
          BY <1>2, <2>1 DEF ReadOwner, Mine, Decides, WorkerStep, seatVars
    <2>2. CASE Refuse(w)
          BY <1>2, <2>2 DEF ReadOwner, GivesUp, WorkerStep, seatVars
    <2> QED BY <1>2, <2>1, <2>2 DEF ReadOwner
<1>3. CASE Store(w)
      BY <1>3 DEF Store, StoresField, WorkerStep
<1> QED BY <1>1, <1>2, <1>3 DEF WorkerStep

-----------------------------------------------------------------------------
(* Types.                                                                    *)

\* The types hold at first.
LEMMA TypesInit == Init => TypeOK
  BY NoRequestIsNone, MaxRequestsAssumption
  DEF Init, TypeOK, States

\* Begin, with the request that it begins.
LEMMA BeginPicks ==
    ASSUME NEW w \in Workers, Begin(w)
    PROVE  \E r \in Requests :
              /\ pc[w] = "idle" /\ pc' = [pc EXCEPT ![w] = "state"]
              /\ req' = [req EXCEPT ![w] = r]
              /\ raced' = raced \cup {s \in {r.seat} : InUse(s)}
              /\ r.seat \in SeatIds /\ r # NoRequest
              /\ UNCHANGED <<state, customer, todo, granted, sold>>
  BY NoRequestIsNone DEF Begin, Requests, seatVars

\* Every step keeps the types.
LEMMA TypesStep ==
    ASSUME TypeOK, NEW w \in Workers, WorkerStep(w)
    PROVE  TypeOK'
<1>1. CASE Begin(w)
    <2>1. PICK r \in Requests :
            /\ pc[w] = "idle" /\ pc' = [pc EXCEPT ![w] = "state"]
            /\ req' = [req EXCEPT ![w] = r]
            /\ raced' = raced \cup {s \in {r.seat} : InUse(s)}
            /\ r.seat \in SeatIds /\ r # NoRequest
            /\ UNCHANGED <<state, customer, todo, granted, sold>>
          BY <1>1, BeginPicks
    <2>2. issued' \in 0 .. MaxRequests
          BY <1>1, MaxRequestsAssumption DEF Begin, TypeOK
    <2>3. raced' \subseteq SeatIds
          BY <2>1 DEF TypeOK
    <2> QED BY <2>1, <2>2, <2>3 DEF TypeOK
<1>2. CASE Asks(w)
      BY <1>2 DEF Asks, TypeOK
<1>3. CASE Decides(w)
    <2>1. req[w] \in Requests /\ req[w] # NoRequest
          BY <1>3, Busy, NoRequestIsNone DEF Decides
    <2>2. Stores(req[w].op) \subseteq Fields /\ Stores(req[w].op) # {}
          BY <2>1, SomeStores DEF Requests
    <2>3. granted' \subseteq Users \X SeatIds
          BY <1>3, <2>1 DEF Decides, Proceed, TypeOK, Requests
    <2> QED BY <1>3, <2>1, <2>2, <2>3 DEF Decides, Proceed, TypeOK
<1>4. CASE GivesUp(w)
      BY <1>4 DEF GivesUp, Refuse, TypeOK
<1>5. CASE \E f \in todo[w] : StoresField(w, f)
    <2>1. PICK f \in todo[w] : StoresField(w, f)
          BY <1>5
    <2>2. req[w].op \in Ops /\ req[w].seat \in SeatIds /\ req[w].user \in Users
          BY <2>1, Busy DEF StoresField
    <2>3. NewState[req[w].op] \in States
          BY <2>2 DEF NewState, Ops, States
    <2>4. /\ state' \in [SeatIds -> States]
          /\ customer' \in [SeatIds -> Users \cup {NoUser}]
          BY <2>1, <2>2, <2>3 DEF StoresField, TypeOK
    <2>5. todo' \in [Workers -> SUBSET Fields] /\ sold' \subseteq Users \X SeatIds
          BY <2>1, <2>2 DEF StoresField, TypeOK
    <2>6. /\ pc' \in [Workers -> {"idle", "state", "owner", "store"}]
          /\ req' \in [Workers -> Requests \cup {NoRequest}]
          BY <2>1 DEF StoresField, TypeOK
    <2>7. \A v \in Workers : /\ req'[v] = NoRequest <=> pc'[v] = "idle"
                             /\ todo'[v] # {} <=> pc'[v] = "store"
        <3>1. CASE todo[w] # {f}
              BY <2>1, <3>1 DEF StoresField, TypeOK
        <3>2. CASE todo[w] = {f}
            <4>1. /\ pc' = [pc EXCEPT ![w] = "idle"]
                  /\ req' = [req EXCEPT ![w] = NoRequest]
                  /\ todo' = [todo EXCEPT ![w] = {}]
                  BY <2>1, <3>2 DEF StoresField
            <4> QED BY <4>1 DEF TypeOK
        <3> QED BY <3>1, <3>2
    <2> QED BY <2>1, <2>4, <2>5, <2>6, <2>7 DEF StoresField, TypeOK
<1> QED BY <1>1, <1>2, <1>3, <1>4, <1>5 DEF WorkerStep

-----------------------------------------------------------------------------
(* Offers.                                                                   *)

\* Who is a seat's customer, or may become one, has been offered it.
LEMMA GrantStep ==
    ASSUME TypeOK, GrantInv, NEW w \in Workers, WorkerStep(w)
    PROVE  GrantInv'
<1>1. CASE Begin(w)
      BY <1>1, BeginPicks DEF GrantInv, SoldWasGranted, TypeOK
<1>2. CASE Asks(w)
      BY <1>2 DEF Asks, GrantInv, SoldWasGranted, TypeOK
<1>3. CASE Decides(w)
    <2>1. req[w].seat \in SeatIds /\ req[w].user \in Users
          BY <1>3, Busy DEF Decides
    <2>2. granted \subseteq granted'
          BY <1>3 DEF Decides, Proceed
    <2>3. <<req[w].user, req[w].seat>> \in granted'
        <3>1. CASE req[w].op = "view"
              BY <1>3, <3>1 DEF Decides, Proceed
        <3>2. CASE customer[req[w].seat] = req[w].user
              BY <2>1, <2>2, <3>2, NoUserAssumption DEF GrantInv
        <3> QED BY <1>3, <3>1, <3>2 DEF Decides
    <2> QED BY <1>3, <2>2, <2>3 DEF Decides, Proceed, GrantInv, SoldWasGranted, TypeOK
<1>4. CASE GivesUp(w)
      BY <1>4 DEF GivesUp, Refuse, GrantInv, SoldWasGranted, TypeOK
<1>5. CASE \E f \in todo[w] : StoresField(w, f)
    <2>1. PICK f \in todo[w] : StoresField(w, f)
          BY <1>5
    <2>2. <<req[w].user, req[w].seat>> \in granted
          BY <2>1 DEF StoresField, GrantInv
    <2>3. SoldWasGranted'
          BY <2>1, <2>2 DEF StoresField, GrantInv, SoldWasGranted
    <2>4. \A s \in SeatIds : customer'[s] = NoUser \/ <<customer'[s], s>> \in granted'
          BY <2>1, <2>2 DEF StoresField, GrantInv, TypeOK
    <2>5. \A v \in Workers : pc'[v] = "store" => <<req'[v].user, req'[v].seat>> \in granted'
          BY <2>1 DEF StoresField, GrantInv, TypeOK
    <2> QED BY <2>3, <2>4, <2>5 DEF GrantInv
<1> QED BY <1>1, <1>2, <1>3, <1>4, <1>5 DEF WorkerStep

-----------------------------------------------------------------------------
(* Requests that do not race.                                                *)

\* A step that is no Begin lets no worker into a seat.
LEMMA AloneStep ==
    ASSUME TypeOK, AloneInv, NEW w \in Workers, WorkerStep(w)
    PROVE  AloneInv'
<1>1. CASE Begin(w)
    <2>1. PICK r \in Requests :
            /\ pc[w] = "idle" /\ pc' = [pc EXCEPT ![w] = "state"]
            /\ req' = [req EXCEPT ![w] = r]
            /\ raced' = raced \cup {s \in {r.seat} : InUse(s)}
            /\ r.seat \in SeatIds /\ r # NoRequest
            /\ UNCHANGED <<state, customer, todo, granted, sold>>
          BY <1>1, BeginPicks
    <2>2. SUFFICES ASSUME NEW u \in Workers, NEW v \in Workers, NEW s \in SeatIds,
                          s \notin raced', Inside(u, s)', Inside(v, s)'
                   PROVE  u = v
          BY DEF AloneInv
    <2>3. s \notin raced /\ (s = r.seat => ~InUse(s))
          BY <2>1, <2>2
    <2>4. \A x \in Workers : x # w /\ Inside(x, s)' => Inside(x, s)
          BY <2>1 DEF Inside, TypeOK
    <2>5. Inside(w, s)' => s = r.seat
          BY <2>1 DEF Inside, TypeOK
    <2>6. \A x \in Workers : Inside(x, s) => InUse(s)
          BY DEF Inside, InUse
    <2> QED BY <2>2, <2>3, <2>4, <2>5, <2>6 DEF AloneInv
<1>2. CASE ~Begin(w)
    <2>1. raced' = raced
          BY <1>2 DEF WorkerStep, Asks, Decides, GivesUp, StoresField
    <2>2. \A x \in Workers : \A s \in SeatIds : Inside(x, s)' => Inside(x, s)
        <3>1. CASE Asks(w)
              BY <3>1 DEF Asks, Inside, TypeOK
        <3>2. CASE Decides(w)
              BY <3>2 DEF Decides, Proceed, Inside, TypeOK
        <3>3. CASE GivesUp(w)
              BY <3>3 DEF GivesUp, Refuse, Inside, TypeOK
        <3>4. CASE \E f \in todo[w] : StoresField(w, f)
              BY <3>4 DEF StoresField, Inside, TypeOK
        <3> QED BY <1>2, <3>1, <3>2, <3>3, <3>4 DEF WorkerStep
    <2> QED BY <2>1, <2>2 DEF AloneInv
<1> QED BY <1>1, <1>2

\* ReadInv for one worker.
Read(w) ==
    LET s == req[w].seat IN
    s \notin raced =>
        /\ pc[w] = "owner" => state[s] = "PENDING"
        /\ pc[w] = "store" /\ req[w].op = "view" =>
              /\ state[s] # "OCCUPIED"
              /\ "state" \notin todo[w] => state[s] = "PENDING"
              /\ "customer_id" \notin todo[w] => customer[s] = req[w].user
        /\ pc[w] = "store" /\ req[w].op # "view" =>
              /\ todo[w] = {"state"}
              /\ state[s] = "PENDING"
              /\ customer[s] = req[w].user

\* A store touches no seat that another worker is inside of, if nobody raced
\* for that seat.
LEMMA StoreApart ==
    ASSUME TypeOK, AloneInv, NEW w \in Workers, NEW f \in todo[w], StoresField(w, f),
           NEW v \in Workers, v # w, pc[v] # "idle", req[v].seat \notin raced
    PROVE  /\ req[v].seat # req[w].seat
           /\ state'[req[v].seat] = state[req[v].seat]
           /\ customer'[req[v].seat] = customer[req[v].seat]
<1>1. req[w].seat \in SeatIds /\ req[v].seat \in SeatIds /\ pc[w] # "idle"
      BY Busy DEF StoresField
<1>2. req[v].seat # req[w].seat
      BY <1>1 DEF AloneInv, Inside
<1> QED BY <1>1, <1>2 DEF StoresField, TypeOK

\* What a request has read of a seat nobody races for still holds after a step of another.
LEMMA ReadStep ==
    ASSUME TypeOK, AloneInv, ReadInv, NEW w \in Workers, WorkerStep(w)
    PROVE  ReadInv'
<1> SUFFICES ASSUME NEW v \in Workers PROVE Read(v)'
    BY DEF ReadInv, Read
<1>1. CASE Begin(w)
      BY <1>1, BeginPicks DEF ReadInv, Read, TypeOK
<1>2. CASE Asks(w)
      BY <1>2 DEF Asks, ReadInv, Read, TypeOK
<1>3. CASE Decides(w)
    <2>1. CASE v # w
          BY <1>3, <2>1 DEF Decides, Proceed, ReadInv, Read, TypeOK
    <2>2. CASE v = w
        <3>1. req[w].op \in Ops /\ pc'[w] = "store" /\ todo'[w] = Stores(req[w].op)
                /\ req' = req /\ state' = state /\ customer' = customer
                /\ raced' = raced
              BY <1>3, Busy DEF Decides, Proceed, TypeOK
        <3>2. CASE pc[w] = "state"
            <4>1. req[w].op = "view" /\ state[req[w].seat] = "AVAILABLE"
                  BY <1>3, <3>2 DEF Decides
            <4> QED BY <2>2, <3>1, <4>1 DEF Read, Stores, Fields
        <3>3. CASE pc[w] = "owner"
            <4>1. customer[req[w].seat] = req[w].user
                  BY <1>3, <3>3 DEF Decides
            <4>2. req[w].seat \notin raced => state[req[w].seat] = "PENDING"
                  BY <3>3 DEF ReadInv
            <4> QED BY <2>2, <3>1, <4>1, <4>2 DEF Read, Stores, Fields
        <3> QED BY <1>3, <3>2, <3>3 DEF Decides
    <2> QED BY <2>1, <2>2
<1>4. CASE GivesUp(w)
      BY <1>4 DEF GivesUp, Refuse, ReadInv, Read, TypeOK
<1>5. CASE \E f \in todo[w] : StoresField(w, f)
    <2>1. PICK f \in todo[w] : StoresField(w, f)
          BY <1>5
    <2>2. CASE v # w
        <3>1. /\ pc'[v] = pc[v] /\ req'[v] = req[v] /\ todo'[v] = todo[v]
              /\ raced' = raced
              BY <2>1, <2>2 DEF StoresField, TypeOK
        <3>2. CASE pc[v] = "idle"
              BY <3>1, <3>2 DEF Read
        <3>3. CASE pc[v] # "idle"
              BY <2>1, <2>2, <3>1, <3>3, StoreApart DEF ReadInv, Read
        <3> QED BY <3>2, <3>3
    <2>3. CASE v = w
        <3>1. CASE todo[w] = {f}
              BY <2>1, <2>3, <3>1 DEF StoresField, Read, TypeOK
        <3>2. CASE todo[w] # {f}
            <4>1. /\ req[w].seat \in SeatIds /\ req' = req /\ pc' = pc
                  /\ raced' = raced /\ pc[w] = "store"
                  /\ todo'[w] = todo[w] \ {f}
                  BY <2>1, <3>2, Busy DEF StoresField, TypeOK
            <4>2. SUFFICES ASSUME req[w].seat \notin raced PROVE Read(w)'
                  BY <2>3, <4>1 DEF Read
            <4>3. req[w].op = "view"
                  BY <3>2, <4>1, <4>2 DEF ReadInv
            <4>4. CASE f = "state"
                <5>1. state'[req[w].seat] = "PENDING" /\ customer' = customer
                      BY <2>1, <4>1, <4>3, <4>4 DEF StoresField, NewState, TypeOK
                <5> QED BY <4>1, <4>2, <4>3, <4>4, <5>1 DEF ReadInv, Read
            <4>5. CASE f = "customer_id"
                <5>1. customer'[req[w].seat] = req[w].user /\ state' = state
                      BY <2>1, <4>1, <4>5 DEF StoresField, TypeOK
                <5> QED BY <4>1, <4>2, <4>3, <4>5, <5>1 DEF ReadInv, Read
            <4> QED BY <2>1, <4>4, <4>5 DEF StoresField
        <3> QED BY <3>1, <3>2
    <2> QED BY <2>2, <2>3
<1> QED BY <1>1, <1>2, <1>3, <1>4, <1>5 DEF WorkerStep

\* A sale without a race stands after every step.
LEMMA SaleStep ==
    ASSUME TypeOK, ReadInv, SaleStands, NEW w \in Workers, WorkerStep(w)
    PROVE  SaleStands'
<1>1. CASE ~\E f \in todo[w] : StoresField(w, f)
    <2>1. UNCHANGED <<state, customer, sold>> /\ raced \subseteq raced'
          BY <1>1, BeginPicks DEF WorkerStep, Asks, Decides, GivesUp
    <2> QED BY <2>1 DEF SaleStands
<1>2. CASE \E f \in todo[w] : StoresField(w, f)
    <2>1. PICK f \in todo[w] : StoresField(w, f)
          BY <1>2
    <2>2. SUFFICES ASSUME NEW u \in Users, NEW s \in SeatIds,
                          <<u, s>> \in sold', s \notin raced'
                   PROVE  state'[s] = "OCCUPIED" /\ customer'[s] = u
          BY DEF SaleStands
    <2>3. /\ raced' = raced /\ pc[w] = "store"
          /\ req[w].seat \in SeatIds /\ req[w].op \in Ops
          BY <2>1, Busy DEF StoresField
    <2>4. CASE s # req[w].seat
        <3>1. <<u, s>> \in sold /\ state'[s] = state[s] /\ customer'[s] = customer[s]
              BY <2>1, <2>2, <2>4 DEF StoresField, TypeOK
        <3> QED BY <2>2, <2>3, <3>1 DEF SaleStands
    <2>5. CASE s = req[w].seat
        <3>1. state[s] # "OCCUPIED"
              BY <2>2, <2>3, <2>5 DEF ReadInv
        <3>2. <<u, s>> \notin sold
              BY <2>2, <2>3, <3>1 DEF SaleStands
        <3>3. req[w].op = "confirm" /\ u = req[w].user
              BY <2>1, <2>2, <3>2 DEF StoresField
        <3>4. todo[w] = {"state"} /\ customer[s] = u
              BY <2>2, <2>3, <2>5, <3>3 DEF ReadInv
        <3>5. state'[s] = "OCCUPIED" /\ customer' = customer
              BY <2>1, <2>3, <2>5, <3>3, <3>4 DEF StoresField, NewState, TypeOK
        <3> QED BY <3>4, <3>5
    <2> QED BY <2>4, <2>5
<1> QED BY <1>1, <1>2

-----------------------------------------------------------------------------
(* The theorems.                                                             *)

\* The invariant holds at first.
LEMMA SeatInit == Init => SeatInv
<1> SUFFICES ASSUME Init PROVE SeatInv
    OBVIOUS
<1>1. TypeOK
      BY TypesInit
<1>2. GrantInv /\ AloneInv /\ ReadInv /\ SaleStands
      BY DEF Init, GrantInv, SoldWasGranted, AloneInv, Inside, ReadInv, SaleStands
<1> QED BY <1>1, <1>2 DEF SeatInv

\* The invariant is inductive.
LEMMA SeatStep == SeatInv /\ [Next]_vars => SeatInv'
<1> SUFFICES ASSUME SeatInv, [Next]_vars PROVE SeatInv'
    OBVIOUS
<1>1. CASE Next
    <2>1. PICK w \in Workers : WorkerStep(w)
          BY <1>1, NextSplits
    <2> QED BY <2>1, TypesStep, GrantStep, AloneStep, ReadStep, SaleStep DEF SeatInv
<1>2. CASE UNCHANGED vars
      BY <1>2 DEF vars, seatVars, SeatInv, TypeOK, GrantInv, SoldWasGranted,
                  AloneInv, Inside, ReadInv, SaleStands
<1> QED BY <1>1, <1>2

\* In every reachable state of the seat table the inductive invariant holds.
THEOREM SeatInvariant == Spec => []SeatInv
<1> QED BY SeatInit, SeatStep, PTL DEF Spec

\* The seat table and the workers' requests keep their types.
THEOREM SeatTypes == Spec => []TypeOK
<1>1. SeatInv => TypeOK
      BY DEF SeatInv
<1> QED BY <1>1, SeatInvariant, PTL

\* However many workers race without a lock, nobody is sold a seat that was
\* not offered to that same user before.
THEOREM SoldOffered == Spec => []SoldWasGranted
<1>1. SeatInv => SoldWasGranted
      BY DEF SeatInv, GrantInv
<1> QED BY <1>1, SeatInvariant, PTL

\* A seat that was sold without a race stays OCCUPIED in its buyer's name.
THEOREM SalesStand == Spec => []SaleStands
<1>1. SeatInv => SaleStands
      BY DEF SeatInv
<1> QED BY <1>1, SeatInvariant, PTL

-----------------------------------------------------------------------------
(* Refinement.                                                               *)

Condition == [s \in SeatIds |-> SeatNow(s)]
Sales     == {sale \in sold : sale[2] \notin raced}

\* w is about to make s its user's by storing the customer_id.
Waits(w, s) ==
    /\ pc[w] = "store"
    /\ req[w].op = "view" /\ req[w].seat = s
    /\ customer[s] # req[w].user

Waited(s) == \E w \in Workers : Waits(w, s)

\* SeatNow, by cases.
LEMMA NowCases ==
    ASSUME NEW s \in SeatIds
    PROVE  /\ s \in raced => SeatNow(s) = Registry!Spoiled
           /\ s \notin raced =>
                /\ state[s] = "AVAILABLE" => SeatNow(s) = Registry!Free
                /\ state[s] = "PENDING" /\ Waited(s) => SeatNow(s) = Registry!Free
                /\ state[s] = "PENDING" /\ ~Waited(s) =>
                      SeatNow(s) = Registry!Held(customer[s])
                /\ state[s] = "OCCUPIED" => SeatNow(s) = Registry!Sold(customer[s])
  BY DEF SeatNow, Waited, Waits, Registry!Spoiled, Registry!Free, Registry!Held,
         Registry!Sold

\* What does not touch a seat's fields, nor who waits for it, leaves its
\* condition.
LEMMA NowKept ==
    ASSUME NEW s \in SeatIds, s \in raced <=> s \in raced',
           s \notin raced =>
              /\ state'[s] = state[s] /\ customer'[s] = customer[s]
              /\ state[s] = "PENDING" => (Waited(s)' <=> Waited(s))
    PROVE  SeatNow(s)' = SeatNow(s)
  BY DEF SeatNow, Waited, Waits

\* A worker that is inside one seat and stays there says nothing of others.
LEMMA WaitsKept ==
    ASSUME TypeOK, TypeOK', NEW w \in Workers, NEW s \in SeatIds,
           customer'[s] = customer[s],
           \A v \in Workers : v # w => pc'[v] = pc[v] /\ req'[v] = req[v],
           Waits(w, s)' <=> Waits(w, s)
    PROVE  Waited(s)' <=> Waited(s)
  BY DEF Waited, Waits

\* Reading, deciding and refusing change nothing that the registry shows.
LEMMA QuietSteps ==
    ASSUME SeatInv, TypeOK', NEW w \in Workers,
           Asks(w) \/ Decides(w) \/ GivesUp(w)
    PROVE  Condition' = Condition /\ Sales' = Sales
<1> USE DEF SeatInv
<1>1. UNCHANGED <<state, customer, sold, raced>>
      BY DEF Asks, Decides, GivesUp
<1>2. \A v \in Workers : v # w => pc'[v] = pc[v] /\ req'[v] = req[v]
      BY DEF Asks, Decides, Proceed, GivesUp, Refuse, TypeOK
<1>3. ASSUME NEW s \in SeatIds, s \notin raced, state[s] = "PENDING"
      PROVE  Waits(w, s)' <=> Waits(w, s)
    <2>1. CASE Asks(w) \/ GivesUp(w)
          BY <2>1 DEF Asks, GivesUp, Refuse, Waits, TypeOK
    <2>2. CASE Decides(w)
          BY <1>1, <1>3, <2>2 DEF Decides, Proceed, Waits, TypeOK
    <2> QED BY <2>1, <2>2
<1>4. ASSUME NEW s \in SeatIds PROVE SeatNow(s)' = SeatNow(s)
      BY <1>1, <1>2, <1>3, WaitsKept, NowKept
<1> QED BY <1>1, <1>4 DEF Condition, Sales

\* A request for a seat that is in use spoils it; any other shows nothing.
LEMMA BeginSpoils ==
    ASSUME SeatInv, TypeOK', NEW w \in Workers, Begin(w)
    PROVE  \/ Condition' = Condition /\ Sales' = Sales
           \/ \E s \in SeatIds : Registry!Spoil(s)
<1> USE DEF SeatInv
<1>1. PICK r \in Requests :
        /\ pc[w] = "idle" /\ pc' = [pc EXCEPT ![w] = "state"]
        /\ req' = [req EXCEPT ![w] = r]
        /\ raced' = raced \cup {s \in {r.seat} : InUse(s)}
        /\ r.seat \in SeatIds /\ r # NoRequest
        /\ UNCHANGED <<state, customer, todo, granted, sold>>
      BY BeginPicks
<1>2. \A s \in SeatIds : Waits(w, s)' <=> Waits(w, s)
      BY <1>1 DEF Waits, TypeOK
<1>3. \A v \in Workers : v # w => pc'[v] = pc[v] /\ req'[v] = req[v]
      BY <1>1 DEF TypeOK
<1>4. \A s \in SeatIds : (s \in raced <=> s \in raced') => SeatNow(s)' = SeatNow(s)
      BY <1>1, <1>2, <1>3, WaitsKept, NowKept
<1>5. CASE raced' = raced
      BY <1>1, <1>4, <1>5 DEF Condition, Sales
<1>6. CASE raced' # raced
    <2>1. raced' = raced \cup {r.seat} /\ r.seat \notin raced
          BY <1>1, <1>6
    <2>2. SeatNow(r.seat)' = Registry!Spoiled
          BY <1>1, <2>1 DEF SeatNow, Registry!Spoiled
    <2>3. \A s \in SeatIds : s # r.seat => SeatNow(s)' = SeatNow(s)
          BY <1>4, <2>1
    <2>4. Condition' = [Condition EXCEPT ![r.seat] = Registry!Spoiled]
          BY <2>2, <2>3 DEF Condition
    <2>5. Sales' = {sale \in Sales : sale[2] # r.seat}
          BY <1>1, <2>1 DEF Sales
    <2>6. Registry!Spoil(r.seat)
          BY <2>4, <2>5 DEF Registry!Spoil, Condition, Sales
    <2> QED BY <1>1, <2>6
<1> QED BY <1>5, <1>6

\* A store to a seat that nobody raced for holds, releases or sells it, or
\* shows nothing.
LEMMA StoreTurns ==
    ASSUME SeatInv, SeatInv', NEW w \in Workers, NEW f \in todo[w], StoresField(w, f),
           NEW s \in SeatIds, NEW u \in Users, s = req[w].seat, u = req[w].user
    PROVE  \/ Condition' = Condition /\ Sales' = Sales
           \/ Registry!Hold(u, s) \/ Registry!Release(u, s) \/ Registry!Sell(u, s)
<1> USE DEF SeatInv
<1>1. /\ s = req[w].seat /\ u = req[w].user /\ req[w].op \in Ops
      /\ pc[w] = "store" /\ raced' = raced
      BY Busy DEF StoresField
<1>2. \A v \in Workers : v # w => pc'[v] = pc[v] /\ req'[v] = req[v]
      BY DEF StoresField, TypeOK
<1>3. ASSUME NEW t \in SeatIds, t # s PROVE SeatNow(t)' = SeatNow(t)
    <2>1. state'[t] = state[t] /\ customer'[t] = customer[t]
          BY <1>3 DEF StoresField, TypeOK
    <2>2. ~Waits(w, t) /\ ~Waits(w, t)'
          BY <1>1, <1>3 DEF StoresField, Waits, TypeOK
    <2> QED BY <1>1, <1>2, <2>1, <2>2, WaitsKept, NowKept
<1>4. CASE s \in raced
    <2>1. SeatNow(s)' = SeatNow(s)
          BY <1>1, <1>4 DEF SeatNow
    <2>2. Sales' = Sales
          BY <1>1, <1>4 DEF StoresField, Sales
    <2>3. Condition' = Condition
          BY <1>3, <2>1 DEF Condition
    <2> QED BY <2>2, <2>3
<1>5. CASE s \notin raced
    <2>1. /\ Waited(s) <=> Waits(w, s)
          /\ Waited(s)' <=> Waits(w, s)'
        <3>1. \A v \in Workers : Waits(v, s) => v = w
              BY <1>1, <1>5 DEF AloneInv, Inside, Waits
        <3>2. \A v \in Workers : v # w => ~(pc'[v] = "store" /\ req'[v].seat = s)
              BY <1>1, <1>2, <1>5 DEF AloneInv, Inside
        <3> QED BY <3>1, <3>2 DEF Waited, Waits
    <2>2. ASSUME NEW c, SeatNow(s)' = c
          PROVE  Condition' = [Condition EXCEPT ![s] = c]
          BY <1>3, <2>2 DEF Condition
    <2>3. CASE req[w].op = "confirm"
        <3>1. todo[w] = {"state"} /\ state[s] = "PENDING" /\ customer[s] = u
              BY <1>1, <1>5, <2>3 DEF ReadInv
        <3>2. SeatNow(s) = Registry!Held(u)
              BY <1>1, <1>5, <2>1, <2>3, <3>1, NowCases DEF Waits
        <3>3. state'[s] = "OCCUPIED" /\ customer'[s] = u /\ sold' = sold \cup {<<u, s>>}
              BY <1>1, <2>3, <3>1 DEF StoresField, NewState, TypeOK
        <3>4. SeatNow(s)' = Registry!Sold(u)
              BY <1>1, <1>5, <3>3 DEF SeatNow, Registry!Sold
        <3>5. Sales' = Sales \cup {<<u, s>>}
              BY <1>1, <1>5, <3>3 DEF Sales
        <3>6. Registry!Sell(u, s)
              BY <1>1, <2>2, <3>2, <3>4, <3>5
              DEF Registry!Sell, Registry!Turns, Condition, Sales
        <3> QED BY <1>1, <3>6
    <2>4. CASE req[w].op = "cancel"
        <3>1. todo[w] = {"state"} /\ state[s] = "PENDING" /\ customer[s] = u
              BY <1>1, <1>5, <2>4 DEF ReadInv
        <3>2. SeatNow(s) = Registry!Held(u)
              BY <1>1, <1>5, <2>1, <2>4, <3>1, NowCases DEF Waits
        <3>3. state'[s] = "AVAILABLE" /\ sold' = sold
              BY <1>1, <2>4, <3>1 DEF StoresField, NewState, TypeOK
        <3>4. SeatNow(s)' = Registry!Free
              BY <1>1, <1>5, <3>3 DEF SeatNow, Registry!Free
        <3>5. Sales' = Sales
              BY <1>1, <3>3 DEF Sales
        <3>6. Registry!Release(u, s)
              BY <1>1, <2>2, <3>2, <3>4, <3>5
              DEF Registry!Release, Registry!Turns, Condition, Sales
        <3> QED BY <1>1, <3>6
    <2>5. CASE req[w].op = "view"
        <3>1. Sales' = Sales
              BY <1>1, <2>5 DEF StoresField, Sales
        <3>2. /\ state[s] # "OCCUPIED" /\ state[s] \in States
              /\ "state" \notin todo[w] => state[s] = "PENDING"
              /\ "customer_id" \notin todo[w] => customer[s] = u
              BY <1>1, <1>5, <2>5 DEF ReadInv, TypeOK
        <3>3. ASSUME SeatNow(s)' = SeatNow(s) PROVE Condition' = Condition
              BY <1>3, <3>3 DEF Condition
        <3>4. ASSUME SeatNow(s) = Registry!Free, SeatNow(s)' = Registry!Held(u)
              PROVE  Registry!Hold(u, s)
              BY <1>1, <2>2, <3>1, <3>4
              DEF Registry!Hold, Registry!Turns, Condition, Sales
        <3>5. \/ SeatNow(s)' = SeatNow(s)
              \/ SeatNow(s) = Registry!Free /\ SeatNow(s)' = Registry!Held(u)
            <4>1. CASE f = "state"
                <5>1. state'[s] = "PENDING" /\ customer'[s] = customer[s]
                      BY <1>1, <2>5, <4>1 DEF StoresField, NewState, TypeOK
                <5>2. CASE customer[s] = u
                    <6>1. ~Waited(s) /\ ~Waited(s)'
                          BY <2>1, <5>1, <5>2, <1>1 DEF StoresField, Waits, TypeOK
                    <6>2. SeatNow(s)' = Registry!Held(u)
                          BY <1>1, <1>5, <5>1, <5>2, <6>1
                          DEF SeatNow, Waited, Waits, Registry!Held
                    <6>3. SeatNow(s) = Registry!Held(u) \/ SeatNow(s) = Registry!Free
                          BY <1>1, <1>5, <3>2, <5>2, <6>1, NowCases DEF States
                    <6> QED BY <6>2, <6>3
                <5>3. CASE customer[s] # u
                    <6>1. todo[w] # {f}
                          BY <3>2, <4>1, <5>3
                    <6>2. Waits(w, s) /\ Waits(w, s)'
                          BY <1>1, <2>5, <5>1, <5>3, <6>1 DEF StoresField, Waits
                    <6>3. SeatNow(s) = Registry!Free
                          BY <1>1, <1>5, <2>1, <3>2, <6>2, NowCases DEF States
                    <6>4. SeatNow(s)' = Registry!Free
                          BY <1>1, <1>5, <5>1, <2>1, <6>2
                          DEF SeatNow, Waited, Waits, Registry!Free
                    <6> QED BY <6>3, <6>4
                <5> QED BY <5>2, <5>3
            <4>2. CASE f = "customer_id"
                <5>1. state'[s] = state[s] /\ customer'[s] = u
                      BY <1>1, <4>2 DEF StoresField, TypeOK
                <5>2. ~Waited(s)'
                      BY <2>1, <5>1, <1>1 DEF StoresField, Waits, TypeOK
                <5>3. CASE state[s] = "AVAILABLE"
                      BY <1>1, <1>5, <5>1, <5>3 DEF SeatNow
                <5>4. CASE state[s] = "PENDING"
                    <6>1. SeatNow(s)' = Registry!Held(u)
                          BY <1>1, <1>5, <5>1, <5>2, <5>4
                          DEF SeatNow, Waited, Waits, Registry!Held
                    <6>2. customer[s] = u \/ Waited(s)
                          BY <1>1, <2>1, <2>5 DEF Waits
                    <6>3. SeatNow(s) = Registry!Held(u) \/ SeatNow(s) = Registry!Free
                          BY <1>1, <1>5, <5>4, <6>2, NowCases
                    <6> QED BY <6>1, <6>3
                <5> QED BY <3>2, <5>3, <5>4 DEF States
            <4> QED BY <4>1, <4>2 DEF StoresField
        <3> QED BY <1>1, <3>1, <3>3, <3>4, <3>5
    <2> QED BY <1>1, <2>3, <2>4, <2>5 DEF Ops
<1> QED BY <1>4, <1>5

\* Where requests do not overlap, the unlocked table is the registry: every
\* hold, release and sale happens at one store, to the right user.
THEOREM TableIsRegistry == Spec => ImplementsRegistry
<1>1. Init => Registry!Init
    <2> SUFFICES ASSUME Init PROVE Registry!Init
        OBVIOUS
    <2>1. \A s \in SeatIds : SeatNow(s) = Registry!Free
          BY DEF Init, SeatNow, Registry!Free
    <2> QED BY <2>1 DEF Init, Registry!Init
<1>2. ASSUME SeatInv, SeatInv', [Next]_vars
      PROVE  [Registry!Next]_<<Condition, Sales>>
    <2>1. CASE Next
        <3>1. PICK w \in Workers : WorkerStep(w)
              BY <2>1, NextSplits
        <3>2. CASE Begin(w)
              BY <1>2, <3>2, BeginSpoils DEF SeatInv, Registry!Next
        <3>3. CASE Asks(w) \/ Decides(w) \/ GivesUp(w)
              BY <1>2, <3>3, QuietSteps DEF SeatInv
        <3>4. CASE \E f \in todo[w] : StoresField(w, f)
            <4>1. PICK f \in todo[w] : StoresField(w, f)
                  BY <3>4
            <4>2. req[w].seat \in SeatIds /\ req[w].user \in Users
                  BY <1>2, <4>1, Busy DEF SeatInv, StoresField
            <4> QED BY <1>2, <4>1, <4>2, StoreTurns DEF Registry!Next
        <3> QED BY <3>1, <3>2, <3>3, <3>4 DEF WorkerStep
    <2>2. CASE UNCHANGED vars
          BY <2>2 DEF vars, seatVars, Condition, Sales, SeatNow
    <2> QED BY <1>2, <2>1, <2>2
<1>3. ASSUME SeatInv, SeatInv', [Next]_vars
      PROVE  [Registry!Next]_(Registry!vars)
      BY <1>2, <1>3 DEF Registry!vars, Condition, Sales
<1> QED BY <1>1, <1>3, SeatInvariant, PTL
        DEF Spec, ImplementsRegistry, Registry!Spec
=============================================================================
