---------------------------- MODULE ResourceMap ----------------------------
(* The resource map allocator (kma/skeleton/kma_rm.c) over the page          *)
(* allocator of Pages: first fit on one list of free blocks, in address      *)
(* order over all pages and anchored in the root page.  A block is a header  *)
(* and a payload; it is named by the address of its header.                  *)
(*                                                                           *)
(* The doubly linked list is a sequence.  It stays one until the root page   *)
(* is freed while other pages are in use and the list does not reach all of  *)
(* them any more; the model ends there (Orphaned).                           *)
EXTENDS Pages, FiniteSets, FiniteSetsExt, SequencesExt

CONSTANTS PageSize,      \* PAGESIZE, in some unit
          ControlBlock,  \* CONTROL_BLOCK_SIZE
          AllocHeader,   \* ALLOC_HEADER_SIZE
          FreeHeader,    \* FREE_HEADER_SIZE
          Sizes          \* the sizes that are asked for

\* The payload of a block that spans a page.
WholePage == PageSize - ControlBlock - AllocHeader

ASSUME LayoutAssumption ==
    /\ {PageSize, ControlBlock, AllocHeader, FreeHeader} \subseteq Nat \ {0}
    /\ AllocHeader < FreeHeader
    /\ FreeHeader - AllocHeader <= WholePage
ASSUME SizesAssumption == Sizes \subseteq 1 .. WholePage

VARIABLES
    heap,   \* the pages, the root page, the list of free blocks, all sizes
    live,   \* the blocks that the client has, with the size it asked for
    pc,     \* "idle", inside kma_free's "coalesce", or "exited" by error()
    hdr     \* the block that coalesce works on

vars == <<heap, live, pc, hdr>>

Page(a)       == a \div PageSize
FirstBlock(p) == p * PageSize + ControlBlock
Blocks        == DOMAIN heap.size
Live          == DOMAIN live

Init ==
    /\ heap = [stack |-> Ascending, root |-> NoPage, list |-> <<>>,
               size |-> <<>>]
    /\ live = <<>>
    /\ pc = "idle"
    /\ hdr = 0

-----------------------------------------------------------------------------
(* What the steps of kma_malloc and kma_free make of a heap h.  A definition *)
(* whose name begins with Wrong is a plausible mistake in the one after it.  *)

\* add_and_insert_free_header: in front of the first block not below it.
WrongPlace(list, a) == 1
Place(list, a) == 1 + Cardinality({i \in DOMAIN list : list[i] < a})
Insert(h, a, n) ==
    [h EXCEPT !.list = InsertAt(@, Place(@, a), a),
              !.size = With(@, a, n)]

\* The first kma_malloc gets the root page, one free block.
WithRoot(h) ==
    IF h.root # NoPage THEN h
    ELSE LET p == Head(h.stack) IN
         [stack |-> AfterGet(h.stack),
          root  |-> p,
          list  |-> <<FirstBlock(p)>>,
          size  |-> With(h.size, FirstBlock(p), WholePage)]

\* The places of the list where n fits.
WrongFits(h, n) ==
    {i \in DOMAIN h.list : h.size[h.list[i]] + AllocHeader >= n}
Fits(h, n) == {i \in DOMAIN h.list : h.size[h.list[i]] >= n}

\* If it fits nowhere, another page, one free block.
WithRoom(h, n) ==
    IF Fits(h, n) # {} THEN h
    ELSE Insert([h EXCEPT !.stack = AfterGet(@)],
                FirstBlock(Head(h.stack)), WholePage)

\* How much of a free block is given for n: all of it, if the rest could not
\* hold a free block's header.
Given(free, n) == IF free - n < FreeHeader THEN free ELSE n

\* The block at place i leaves the list, and the rest of it comes back.
Carved(h, i, n) ==
    LET node  == h.list[i]
        free  == h.size[node]
        given == Given(free, n)
        taken == [h EXCEPT !.list = RemoveAt(@, i), !.size[node] = given]
    IN  IF given = free THEN taken
        ELSE Insert(taken, node + AllocHeader + given,
                    free - AllocHeader - given)

\* b begins where a ends, in the same page.
WrongAdjacent(h, a, b) == Page(a) = Page(b) /\ a + h.size[a] = b
Adjacent(h, a, b) == Page(a) = Page(b) /\ a + AllocHeader + h.size[a] = b

\* The block at place i + 1 of the list becomes part of the one at place i.
WrongJoint(m, n) == m + n
Joint(m, n) == m + AllocHeader + n
Merged(h, i) ==
    LET a == h.list[i]
        b == h.list[i + 1]
    IN  [h EXCEPT !.list = RemoveAt(@, i + 1),
                  !.size = [x \in DOMAIN @ \ {b} |->
                              IF x = a THEN Joint(@[a], @[b]) ELSE @[x]]]

IndexOf(h, a) == CHOOSE i \in DOMAIN h.list : h.list[i] = a

\* One call of coalesce: with the block in front, then with the one behind.
WithPrev(h, a) ==
    LET i == IndexOf(h, a) IN
    IF i > 1 /\ Adjacent(h, h.list[i - 1], a) THEN Merged(h, i - 1) ELSE h
WithNext(h, a) ==
    LET i == IndexOf(h, a) IN
    IF i < Len(h.list) /\ Adjacent(h, a, h.list[i + 1]) THEN Merged(h, i) ELSE h
Survivor(h, a) ==
    LET i == IndexOf(h, a) IN
    IF i > 1 /\ Adjacent(h, h.list[i - 1], a) THEN h.list[i - 1] ELSE a
Coalesced(h, a) == WithNext(WithPrev(h, a), Survivor(h, a))

\* A free block that spans its page is unlinked and the page is freed; if it
\* was the root page, the page of the next block becomes the root page and
\* that block the first of the list.
SpansPage(h, a) == h.size[a] = WholePage
Released(h, a) ==
    LET i    == IndexOf(h, a)
        root == h.root = Page(a)
        last == i = Len(h.list)
    IN  [stack |-> AfterPut(h.stack, Page(a)),
         root  |-> IF ~root THEN h.root
                   ELSE IF last THEN NoPage ELSE Page(h.list[i + 1]),
         list  |-> IF ~root THEN RemoveAt(h.list, i)
                   ELSE SubSeq(h.list, i + 1, Len(h.list)),
         size  |-> [x \in DOMAIN h.size \ {a} |-> h.size[x]]]

-----------------------------------------------------------------------------

\* Some block can no longer be found: the root page went and the blocks of
\* another page, or the free blocks below it, are not on any list.
Orphaned ==
    \/ heap.root = NoPage /\ Blocks # {}
    \/ Blocks # Live \cup ToSet(heap.list)

kma_malloc(n) ==
    LET m == Max({n, FreeHeader - AllocHeader})
        h == WithRoot(heap)
    IN  /\ pc = "idle"
        /\ \/ /\ Fits(h, m) = {} /\ h.stack = <<>>
              /\ pc' = "exited"
              /\ UNCHANGED <<heap, live>>
           \/ /\ Fits(h, m) # {} \/ h.stack # <<>>
              /\ LET r == WithRoom(h, m)
                     i == Min(Fits(r, m))
                 IN  /\ heap' = Carved(r, i, m)
                     /\ live' = With(live, r.list[i], n)
              /\ UNCHANGED pc
        /\ UNCHANGED hdr

kma_free(a) ==
    /\ pc = "idle"
    /\ a \in Live
    /\ heap' = Insert(heap, a, heap.size[a])
    /\ live' = [b \in Live \ {a} |-> live[b]]
    /\ hdr' = a
    /\ pc' = "coalesce"

\* One activation of coalesce: it calls itself again if it merged anything.
coalesce ==
    /\ pc = "coalesce"
    /\ \/ /\ Coalesced(heap, hdr) # heap
          /\ heap' = Coalesced(heap, hdr)
          /\ hdr' = Survivor(heap, hdr)
          /\ UNCHANGED pc
       \/ /\ Coalesced(heap, hdr) = heap
          /\ heap' = IF SpansPage(heap, hdr) THEN Released(heap, hdr) ELSE heap
          /\ pc' = "idle"
          /\ hdr' = 0
    /\ UNCHANGED live

Next ==
    /\ ~Orphaned
    /\ \/ \E n \in Sizes : kma_malloc(n)
       \/ \E a \in Live : kma_free(a)
       \/ coalesce

Spec == Init /\ [][Next]_vars

-----------------------------------------------------------------------------
(* Properties.                                                               *)

Addresses == 0 .. NumPages * PageSize - 1

TypeOK ==
    /\ heap.stack \in Seq(PageIds)
    /\ heap.root \in PageIds \cup {NoPage}
    /\ heap.list \in Seq(Addresses)
    /\ Blocks \subseteq Addresses
    /\ \A b \in Blocks : heap.size[b] \in 1 .. WholePage
    /\ live \in [Live -> Sizes] /\ Live \subseteq Blocks
    /\ pc \in {"idle", "coalesce", "exited"}
    /\ hdr \in Addresses

End(a) == a + AllocHeader + heap.size[a]

\* The blocks of a page in use, allocated and free, fill it from its control
\* block to its end without gap or overlap, and no other page has any, after
\* every split and every merge.
PagesTiled ==
    /\ \A p \in Held(heap.stack) : FirstBlock(p) \in Blocks
    /\ \A a \in Blocks :
          /\ Page(a) \in Held(heap.stack)
          /\ End(a) \in Blocks \/ End(a) = (Page(a) + 1) * PageSize
          /\ \A b \in Blocks : a < b => End(a) <= b

\* The list holds the free blocks in strictly ascending address order.
ListOrdered ==
    \A i, k \in DOMAIN heap.list :
        /\ i < k => heap.list[i] < heap.list[k]
        /\ heap.list[i] \notin Live

\* Between calls no two free blocks touch and none fills a page: merging and
\* giving back pages leave nothing undone.
FullyCoalesced ==
    pc = "idle" => \A a \in Blocks \ Live :
        /\ heap.size[a] # WholePage
        /\ End(a) \in Blocks /\ Page(End(a)) = Page(a) => End(a) \in Live

\* kma_malloc and kma_free are the abstract heap's: enough memory, within a
\* page, and disjoint from what others have.
HeapSpec == INSTANCE Heap WITH
    Memory <- NumPages * PageSize,
    live   <- {[at    |-> a + AllocHeader,
                len   |-> heap.size[a],
                asked |-> live[a]] : a \in Live}
ImplementsHeap == HeapSpec!Spec

\* "Frees the memory space pointed to by ptr" (kma.h:86): while the client has
\* blocks there is a root page for kma_free to put them back with.
RootServes == Live # {} => heap.root # NoPage
=============================================================================
