-------------------------------- MODULE Heap --------------------------------
(* What kma_malloc and kma_free promise (kma/skeleton/kma.h): memory of at   *)
(* least the size asked for, which nobody else has until it is freed, and    *)
(* which lies within one page.                                               *)
EXTENDS Integers

CONSTANTS Sizes,    \* the sizes that are asked for
          Memory,   \* the number of addresses
          PageSize  \* the number of addresses in a page

VARIABLE live       \* the blocks that are allocated: where, how long, for what

Block == [at : 0 .. Memory - 1, len : Nat, asked : Sizes]

Within(b) == (b.at % PageSize) + b.len <= PageSize

Disjoint(b, c) == b.at + b.len <= c.at \/ c.at + c.len <= b.at

Init == live = {}

\* One block more, big enough and clear of all others.
Malloc == \E b \in live' \ live :
    /\ live' = live \cup {b}
    /\ b \in Block
    /\ b.len >= b.asked
    /\ Within(b)
    /\ \A c \in live : Disjoint(b, c)

Free == \E b \in live : live' = live \ {b}

Next == Malloc \/ Free

Spec == Init /\ [][Next]_live
=============================================================================
