-------------------------------- MODULE Buddy --------------------------------
(* The buddy allocator (kma/skeleton/kma_bud.c) over the page allocator of   *)
(* Pages.  Blocks are powers of two of a page; the free blocks of each size  *)
(* class are a list anchored in the root page.  An entry of a bookkeeping    *)
(* page stands for each data page; the entries in use and those not in use   *)
(* are lists as well.                                                        *)
(*                                                                           *)
(* A block is named by its address, a size class by its size, an entry by    *)
(* its bookkeeping page and its number there; a list begins at its root.     *)
EXTENDS Pages, FiniteSets, FiniteSetsExt, SequencesExt

CONSTANTS PageSize,        \* PAGESIZE, in some unit
          AllocHeader,     \* ALLOC_HEADER_SIZE
          FreeHeader,      \* FREE_HEADER_SIZE
          EntriesPerPage,  \* how many kma_page_ptr_t fit into a page
          Sizes,           \* the sizes that are asked for
          MaxLive          \* bound: how many blocks the client has at a time

\* The sizes that halving a page gives while they hold a free block's header.
Classes == {c \in FreeHeader .. PageSize :
               \E k \in 0 .. PageSize : c * 2 ^ k = PageSize}

ASSUME LayoutAssumption ==
    /\ {PageSize, AllocHeader, FreeHeader, MaxLive} \subseteq Nat \ {0}
    /\ EntriesPerPage \in Nat \ {0, 1}
    /\ AllocHeader < FreeHeader /\ FreeHeader <= PageSize
    /\ \E k \in 0 .. PageSize : PageSize = 2 ^ k
ASSUME SizesAssumption == Sizes \subseteq 1 .. PageSize - AllocHeader

VARIABLES
    heap,   \* the pages, the root page, the lists, the size of every block
    live,   \* the blocks that are marked allocated, with the size asked for
    pc,     \* "idle", inside kma_free's "merge", or "exited" by error()
    hdr     \* the block that kma_free works on

vars == <<heap, live, pc, hdr>>

Page(a)       == a \div PageSize
FirstBlock(p) == p * PageSize
Blocks        == DOMAIN heap.size
Live          == DOMAIN live
NoBlocks      == [c \in Classes |-> <<>>]

Init ==
    /\ heap = [stack |-> Ascending, root |-> NoPage, free |-> NoBlocks,
               size |-> <<>>, used |-> <<>>, unused |-> <<>>, page |-> <<>>]
    /\ live = <<>>
    /\ pc = "idle"
    /\ hdr = 0

-----------------------------------------------------------------------------
(* What the steps of kma_malloc and kma_free make of a heap h.  A definition *)
(* whose name begins with Wrong is a plausible mistake in the one after it.  *)

\* create_block(a, c, FALSE), and the list node at the front of its class.
Pushed(h, a, c) == [h EXCEPT !.free[c] = <<a>> \o @, !.size = With(@, a, c)]

\* The first kma_malloc gets the root page and its empty lists.
WithRoot(h) ==
    IF h.root # NoPage THEN h
    ELSE [h EXCEPT !.stack = AfterGet(@), !.root = Head(h.stack),
                   !.free = NoBlocks, !.used = <<>>, !.unused = <<>>]

\* A new bookkeeping page: all of its entries but the first are not in use.
EntriesOf(p) == {p} \X (1 .. EntriesPerPage)
WithEntries(h) ==
    IF h.unused # <<>> THEN [h EXCEPT !.unused = Tail(@)]
    ELSE [h EXCEPT !.stack = AfterGet(@),
                   !.unused = [i \in 1 .. EntriesPerPage - 1 |->
                                 <<Head(h.stack), EntriesPerPage + 1 - i>>]]
NewEntry(h) ==
    IF h.unused # <<>> THEN Head(h.unused) ELSE <<Head(h.stack), 1>>

\* A new data page, an entry for it, and one free block that spans it.
WithPage(h) ==
    LET p == Head(h.stack)
        g == [h EXCEPT !.stack = AfterGet(@)]
        e == NewEntry(g)
    IN  Pushed([WithEntries(g) EXCEPT !.used = <<e>> \o @,
                                      !.page = With(@, e, p)],
               FirstBlock(p), PageSize)

\* The pages that kma_malloc takes before it has a block to give.
HasBlock(h, c)    == \E d \in Classes : d >= c /\ h.free[d] # <<>>
PagesNeeded(h, c) ==
    (IF h.root = NoPage THEN 1 ELSE 0)
      + (IF HasBlock(h, c) THEN 0 ELSE IF h.unused = <<>> THEN 2 ELSE 1)

\* The smallest class that holds n and a header.
WrongHeadroom(n) == Min({c \in Classes : c >= n})
Optimal(n) == Min({c \in Classes : c >= n + AllocHeader})

\* The class whose first block is split for one of class c.
Source(h, c) == Min({d \in Classes : d >= c /\ h.free[d] # <<>>})

\* Block a of class d gives its first part to the client; its other parts are
\* free blocks of the classes c, 2c, ... below d.
Parts(c, d) == {x \in Classes : c <= x /\ x < d}
Split(h, a, c, d) ==
    LET parts == Parts(c, d) IN
    [h EXCEPT
       !.free = [x \in Classes |->
                   IF x = d THEN Tail(@[x])
                   ELSE IF x \in parts THEN <<a + x>> \o @[x] ELSE @[x]],
       !.size = [b \in DOMAIN @ \cup {a + x : x \in parts} |->
                   IF b = a THEN c ELSE IF b - a \in parts THEN b - a ELSE @[b]]]

\* The other half of the block that a and it were split from.
WrongBuddyOf(a, c) == IF a % PageSize = 0 THEN a + c ELSE a - c
BuddyOf(a, c) == IF (a \div c) % 2 = 0 THEN a + c ELSE a - c

\* The buddy is in the same page, not allocated and not split.  (A block that
\* spans its page has none: kma_free then reads a header in the neighbouring page,
\* or beside the pool, before it compares the pages, and does nothing with it.)
WrongMergeable(h, a, c) ==
    LET b == BuddyOf(a, c) IN
    /\ Page(b) = Page(a) /\ b \notin Live /\ b \in DOMAIN h.size
    /\ h.size[b] = Min(Classes)
Mergeable(h, a, c) ==
    LET b == BuddyOf(a, c) IN
    Page(b) = Page(a) /\ b \notin Live /\ b \in DOMAIN h.size /\ h.size[b] = c

\* The buddy leaves its list and both are one block.
WrongUnlisted(list, b) == list
Unlisted(list, b) == RemoveAt(list, CHOOSE i \in DOMAIN list : list[i] = b)
Merged(h, a, c) ==
    LET b == BuddyOf(a, c) IN
    [h EXCEPT !.free[c] = Unlisted(@, b),
              !.size = [x \in DOMAIN @ \ {Max({a, b})} |->
                          IF x = Min({a, b}) THEN 2 * c ELSE @[x]]]

\* The entry of a data page, and the data page given back.
EntryFor(h, p) == CHOOSE e \in ToSet(h.used) : h.page[e] = p
WithoutPage(h, a) ==
    LET e == EntryFor(h, Page(a)) IN
    [h EXCEPT !.stack = AfterPut(@, Page(a)),
              !.used = Unlisted(@, e),
              !.unused = <<e>> \o @,
              !.page = [x \in DOMAIN @ \ {e} |-> @[x]],
              !.size = [x \in DOMAIN @ \ {a} |-> @[x]]]

\* A bookkeeping page goes when none of its entries is in use.  The loop that
\* unlinks them runs one entry too far, to the zeroes behind the last, and so
\* empties the whole list of entries not in use.
WrongSpare(h, p) == FALSE
Spare(h, p) == EntriesOf(p) \cap ToSet(h.used) = {}
WithoutEntries(h, p) == [h EXCEPT !.stack = AfterPut(@, p), !.unused = <<>>]

\* With the last bookkeeping page the root page goes.
WrongRootSpare(h) == h.used = <<>> /\ h.unused # <<>>
RootSpare(h) == h.used = <<>> /\ h.unused = <<>>
WithoutRoot(h) == [h EXCEPT !.stack = AfterPut(@, h.root), !.root = NoPage]

\* kma_free of a whole page.
Released(h, a) ==
    LET book == EntryFor(h, Page(a))[1]
        g    == WithoutPage(h, a)
        k    == WithoutEntries(g, book)
    IN  IF ~Spare(g, book) THEN g
        ELSE IF RootSpare(k) THEN WithoutRoot(k) ELSE k

-----------------------------------------------------------------------------

kma_malloc(n) ==
    LET c == Optimal(n)
        h == WithRoot(heap)
    IN  /\ pc = "idle"
        /\ Cardinality(Live) < MaxLive
        /\ \/ /\ PagesNeeded(heap, c) > Len(heap.stack)
              /\ pc' = "exited"
              /\ UNCHANGED <<heap, live>>
           \/ /\ PagesNeeded(heap, c) <= Len(heap.stack)
              /\ LET r == IF HasBlock(h, c) THEN h ELSE WithPage(h)
                     d == Source(r, c)
                     a == Head(r.free[d])
                 IN  /\ heap' = Split(r, a, c, d)
                     /\ live' = With(live, a, n)
              /\ UNCHANGED pc
        /\ UNCHANGED hdr

kma_free(a) ==
    /\ pc = "idle"
    /\ a \in Live
    /\ live' = [b \in Live \ {a} |-> live[b]]
    /\ hdr' = a
    /\ pc' = "merge"
    /\ UNCHANGED heap

\* One round of kma_free's loop, or what follows the last.
Merge ==
    LET c == heap.size[hdr] IN
    /\ pc = "merge"
    /\ \/ /\ Mergeable(heap, hdr, c)
          /\ heap' = Merged(heap, hdr, c)
          /\ hdr' = Min({hdr, BuddyOf(hdr, c)})
          /\ UNCHANGED pc
       \/ /\ ~Mergeable(heap, hdr, c)
          /\ heap' = IF c = PageSize THEN Released(heap, hdr)
                                     ELSE Pushed(heap, hdr, c)
          /\ hdr' = 0
          /\ pc' = "idle"
    /\ UNCHANGED live

Next ==
    \/ \E n \in Sizes : kma_malloc(n)
    \/ \E a \in Live : kma_free(a)
    \/ Merge

Spec == Init /\ [][Next]_vars

-----------------------------------------------------------------------------
(* Properties.                                                               *)

Addresses == 0 .. NumPages * PageSize - 1
Entries   == PageIds \X (1 .. EntriesPerPage)
DataPages == {Page(a) : a \in Blocks}

\* What every variable is.
TypeOK ==
    /\ heap.stack \in Seq(PageIds)
    /\ heap.root \in PageIds \cup {NoPage}
    /\ heap.free \in [Classes -> Seq(Addresses)]
    /\ Blocks \subseteq Addresses
    /\ \A b \in Blocks : heap.size[b] \in Classes
    /\ heap.used \in Seq(Entries) /\ heap.unused \in Seq(Entries)
    /\ DOMAIN heap.page = ToSet(heap.used)
    /\ live \in [Live -> Sizes] /\ Live \subseteq Blocks
    /\ pc \in {"idle", "merge", "exited"}
    /\ hdr \in Addresses

\* The blocks of a data page fill it without gap or overlap, each of a class
\* and aligned to its size: the buddy that kma_free computes is a block's
\* beginning.
PagesTiled ==
    \A a \in Blocks :
        /\ heap.size[a] \in Classes
        /\ a % heap.size[a] = 0
        /\ FirstBlock(Page(a)) \in Blocks
        /\ LET end == a + heap.size[a] IN
              end \in Blocks \/ end % PageSize = 0
        /\ \A b \in Blocks : a < b => a + heap.size[a] <= b

\* Each class lists its free blocks, all of them and each once, except the one
\* that kma_free is merging: the search for a buddy always finds it.
FreeListsRight ==
    \A c \in Classes :
        /\ ToSet(heap.free[c]) =
             {a \in Blocks \ Live : heap.size[a] = c /\ ~(pc = "merge" /\ a = hdr)}
        /\ IsInjective(heap.free[c])

\* Between calls no two buddies are free together and no free block is a page.
BuddiesMerged ==
    pc = "idle" => \A a \in Blocks \ Live :
        /\ heap.size[a] # PageSize
        /\ a % (2 * heap.size[a]) = 0 =>
              LET b == a + heap.size[a] IN
              b \in Live \/ heap.size[b] # heap.size[a]

\* Every data page has one entry in use, entries not in use lie in bookkeeping
\* pages too, and no other page is held: neither list leaks a page, though
\* WithoutEntries forgets entries of other bookkeeping pages.
PagesAccounted ==
    /\ \A p \in DataPages : \E e \in ToSet(heap.used) : heap.page[e] = p
    /\ IsInjective([i \in DOMAIN heap.used |-> heap.page[heap.used[i]]])
    /\ IsInjective(heap.used \o heap.unused)
    /\ LET books == {e[1] : e \in ToSet(heap.used)} IN
          /\ \A e \in ToSet(heap.unused) : e[1] \in books
          /\ Held(heap.stack) =
               books \cup DataPages \cup ({heap.root} \ {NoPage})

\* "not all pages freed" (kma.c:219-222): when every request was freed, every
\* page is back, bookkeeping pages and root page included.
AllFreed ==
    pc = "idle" /\ Live = {} => Held(heap.stack) = {} /\ heap.root = NoPage

\* kma_malloc and kma_free are the abstract heap's: enough memory, within a
\* page, and disjoint from what others have.
HeapSpec == INSTANCE Heap WITH
    Memory <- NumPages * PageSize,
    live   <- {[at    |-> a + AllocHeader,
                len   |-> heap.size[a] - AllocHeader,
                asked |-> live[a]] : a \in Live}
ImplementsHeap == HeapSpec!Spec
=============================================================================
