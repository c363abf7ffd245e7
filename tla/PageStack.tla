----------------------------- MODULE PageStack -----------------------------
(* What the page allocator promises: pages leave a stack and come back to    *)
(* it, and clients have exactly those that are not on it.                    *)
EXTENDS Pages

VARIABLES
    stack,   \* the free pages, the next to be given out first
    held     \* the pages that clients have

Init ==
    /\ stack = Ascending
    /\ held = {}

Get ==
    /\ stack # <<>>
    /\ stack' = AfterGet(stack)
    /\ held' = held \cup {Head(stack)}

Put == \E p \in held :
    /\ stack' = AfterPut(stack, p)
    /\ held' = held \ {p}

Next == Get \/ Put

Spec == Init /\ [][Next]_<<stack, held>>
=============================================================================
