---------------------------- MODULE SeatRegistry ----------------------------
(* What the reservation service promises for a seat: it is free, held by    *)
(* one user, or sold to one user for good; each change is one step.  A seat *)
(* on which two requests overlapped is spoiled: nothing is promised for it. *)
CONSTANTS Users, Seats

VARIABLES seat,   \* the condition of each seat
          sold    \* the sales: who was told to have bought which seat

vars == <<seat, sold>>

Free    == [is |-> "free"]
Held(u) == [is |-> "held", by |-> u]
Sold(u) == [is |-> "sold", to |-> u]
Spoiled == [is |-> "spoiled"]

Init ==
    /\ seat = [s \in Seats |-> Free]
    /\ sold = {}

\* s goes from one condition to another; a spoiled seat stays so.
Turns(s, from, to) == seat[s] = from /\ seat' = [seat EXCEPT ![s] = to]

Hold(u, s)    == Turns(s, Free, Held(u)) /\ UNCHANGED sold
Release(u, s) == Turns(s, Held(u), Free) /\ UNCHANGED sold
Sell(u, s)    == Turns(s, Held(u), Sold(u)) /\ sold' = sold \cup {<<u, s>>}

\* What was said of a seat no longer counts once it is spoiled.
Spoil(s) ==
    /\ seat' = [seat EXCEPT ![s] = Spoiled]
    /\ sold' = {sale \in sold : sale[2] # s}

Next == \E s \in Seats :
    \/ Spoil(s)
    \/ \E u \in Users : Hold(u, s) \/ Release(u, s) \/ Sell(u, s)

Spec == Init /\ [][Next]_vars
=============================================================================
