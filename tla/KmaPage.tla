------------------------------ MODULE KmaPage ------------------------------
(* The page allocator (kma/skeleton/kma_page.c).  The free pages are linked  *)
(* through their own first words, which belong to the client as soon as the  *)
(* page is given out.  The pool is allocated with the first page and freed   *)
(* with the last.                                                            *)
EXTENDS Pages

VARIABLES
    pool,            \* whether there is a pool
    next_free_page,  \* the first free page, NoPage for NULL
    link,            \* the first word of each page, as a page
    num_in_use,      \* kma_page_stats.num_in_use
    held,            \* the pages that clients have
    halted,          \* error() was called: the program has exited
    order            \* history: the free pages, the next to be given out first

vars == <<pool, next_free_page, link, num_in_use, held, halted, order>>

Words == PageIds \cup {NoPage}

Init ==
    /\ pool = FALSE
    /\ next_free_page = NoPage
    /\ link = [p \in PageIds |-> 0]
    /\ num_in_use = 0
    /\ held = {}
    /\ halted = FALSE
    /\ order = Ascending

\* initPages: every page points to the one behind it, the last to none.
Threaded == [p \in PageIds |-> IF p < NumPages - 1 THEN p + 1 ELSE NoPage]

\* The list that allocPage finds: a new one if there is no pool.
Links     == IF pool THEN link ELSE Threaded
FirstFree == IF pool THEN next_free_page ELSE 0

get_page ==
    /\ ~halted
    /\ FirstFree # NoPage
    /\ pool' = TRUE
    /\ link' = Links
    /\ next_free_page' = Links[FirstFree]
    /\ num_in_use' = num_in_use + 1
    /\ held' = held \cup {FirstFree}
    /\ order' = AfterGet(order)
    /\ UNCHANGED halted

\* "error: all pages already allocated"
get_page_fails ==
    /\ ~halted
    /\ FirstFree = NoPage
    /\ halted' = TRUE
    /\ num_in_use' = num_in_use + 1
    /\ UNCHANGED <<pool, next_free_page, link, held, order>>

\* freePage: the page becomes the first free one; with the last page in use
\* the pool goes.
WrongPushed(p) == link
Pushed(p) == [link EXCEPT ![p] = next_free_page]
WrongLastInUse == FALSE
LastInUse == num_in_use = 1
free_page(p) ==
    /\ ~halted
    /\ p \in held
    /\ held' = held \ {p}
    /\ num_in_use' = num_in_use - 1
    /\ link' = Pushed(p)
    /\ pool' = ~LastInUse
    /\ next_free_page' = IF LastInUse THEN NoPage ELSE p
    /\ order' = AfterPut(order, p)
    /\ UNCHANGED halted

\* A client writes what it likes into a page it has.
ClientWrites(p) ==
    /\ ~halted
    /\ p \in held
    /\ \E w \in Words : link' = [link EXCEPT ![p] = w]
    /\ UNCHANGED <<pool, next_free_page, num_in_use, held, halted, order>>

Next ==
    \/ get_page
    \/ get_page_fails
    \/ \E p \in PageIds : free_page(p) \/ ClientWrites(p)

Spec == Init /\ [][Next]_vars

-----------------------------------------------------------------------------
(* Properties.                                                               *)

TypeOK ==
    /\ pool \in BOOLEAN /\ halted \in BOOLEAN
    /\ next_free_page \in Words
    /\ link \in [PageIds -> Words]
    /\ num_in_use \in 0 .. NumPages + 1
    /\ held \subseteq PageIds
    /\ order \in Seq(PageIds)

\* However get_page, free_page and the clients' writes mix, the list from
\* next_free_page runs through every free page once and ends: a client's data
\* is never taken for a link, and no page is given out twice.
FreeListIntact ==
    /\ held = Held(order)
    /\ Len(order) = NumPages - (IF halted THEN num_in_use - 1 ELSE num_in_use)
    /\ pool =>
          /\ next_free_page = IF order = <<>> THEN NoPage ELSE order[1]
          /\ \A i \in 1 .. Len(order) :
                link[order[i]] = IF i < Len(order) THEN order[i + 1] ELSE NoPage

\* The pool is held exactly while a page is in use, and get_page gives up only
\* when every page is.
PoolReturned ==
    /\ pool <=> held # {}
    /\ halted => held = PageIds

\* The linked list is the stack of PageStack: the page that clients are given
\* is the one that was freed last, whatever has been written over the links.
Stack == INSTANCE PageStack WITH
    stack <- IF pool THEN order ELSE Ascending
ImplementsStack == Stack!Spec
=============================================================================
