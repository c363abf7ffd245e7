------------------------------- MODULE Pages -------------------------------
(* The pages of the kernel memory allocator as its users see them           *)
(* (kma/skeleton/kma_page.h): a stack of free pages.  get_page takes the     *)
(* page that was freed last, and when the last page in use comes back the    *)
(* whole pool is given up, so that the next one starts in order again.       *)
EXTENDS Integers, Sequences

CONSTANT NumPages   \* MAXPAGES

ASSUME NumPagesAssumption == NumPages \in Nat \ {0}

PageIds == 0 .. NumPages - 1
NoPage  == -1

\* A new pool: its pages in address order.
Ascending == [i \in 1 .. NumPages |-> i - 1]

\* The free pages after get_page and after free_page(p).
AfterGet(stack) == Tail(stack)
AfterPut(stack, p) ==
    IF Len(stack) = NumPages - 1 THEN Ascending ELSE <<p>> \o stack

\* The pages in use.
Held(stack) == PageIds \ {stack[i] : i \in 1 .. Len(stack)}

\* What the users of the pages keep in them: f, and x for a.
With(f, a, x) == [b \in DOMAIN f \cup {a} |-> IF b = a THEN x ELSE f[b]]
=============================================================================
