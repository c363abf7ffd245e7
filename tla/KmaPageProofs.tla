--------------------------- MODULE KmaPageProofs ---------------------------
(* Proofs about KmaPage for every number of pages, and about TraceDriver for *)
(* every size of a page and every trace.                                     *)
EXTENDS TraceDriver, PagesProofs

\* The pages that were given out: a get_page that fails has counted one more.
Given == IF halted THEN num_in_use - 1 ELSE num_in_use

\* A free page is on the list once, and a pool that is not there has the list
\* that a new one will have.
OrderInv ==
    /\ \A i, k \in 1 .. Len(order) : order[i] = order[k] => i = k
    /\ ~pool => order = Ascending /\ ~halted
    /\ halted => order = <<>>

\* The counter is the number of pages that clients have.
CountInv ==
    /\ IsFiniteSet(held)
    /\ Given = Cardinality(held)
    /\ pool <=> Given # 0

\* The inductive invariant.
PageInv == TypeOK /\ FreeListIntact /\ OrderInv /\ CountInv

-----------------------------------------------------------------------------

\* No page is in use at first.
LEMMA PageInit == Init => PageInv
<1> SUFFICES ASSUME Init PROVE PageInv
    OBVIOUS
<1>1. TypeOK
    <2>1. pool \in BOOLEAN /\ halted \in BOOLEAN
          BY ZenonT(10) DEF Init
    <2>2. next_free_page \in Words /\ held \subseteq PageIds
          BY DEF Init, Words
    <2>3. link \in [PageIds -> Words]
          BY NumPagesAssumption DEF Init, Words, PageIds
    <2>4. num_in_use \in 0 .. NumPages + 1 /\ order \in Seq(PageIds)
          BY NewPool, NumPagesAssumption DEF Init
    <2> QED BY <2>1, <2>2, <2>3, <2>4 DEF TypeOK
<1>2. FreeListIntact
      BY NewPool, NumPagesAssumption DEF Init, FreeListIntact
<1>3. OrderInv
      BY NewPool, NumPagesAssumption DEF Init, OrderInv
<1>4. CountInv
      BY FS_EmptySet DEF Init, CountInv, Given
<1> QED BY <1>1, <1>2, <1>3, <1>4 DEF PageInv

\* What get_page finds: the first page of the list, and the links of a list
\* that is as FreeListIntact says.
LEMMA FirstOfList ==
    ASSUME PageInv
    PROVE  /\ FirstFree = IF order = <<>> THEN NoPage ELSE order[1]
           /\ Links \in [PageIds -> Words]
           /\ \A i \in 1 .. Len(order) :
                Links[order[i]] = IF i < Len(order) THEN order[i + 1] ELSE NoPage
<1>1. CASE pool
      BY <1>1 DEF PageInv, TypeOK, FreeListIntact, FirstFree, Links
<1>2. CASE ~pool
    <2>1. order = Ascending
          BY <1>2 DEF PageInv, OrderInv
    <2>2. FirstFree = order[1] /\ order # <<>>
          BY <1>2, <2>1, NewPool, NumPagesAssumption DEF FirstFree
    <2>3. Links = Threaded
          BY <1>2 DEF Links
    <2>4. Links \in [PageIds -> Words]
          BY <2>3, NumPagesAssumption DEF Threaded, Words, PageIds
    <2>5. ASSUME NEW i \in 1 .. Len(order)
          PROVE  Links[order[i]] = IF i < Len(order) THEN order[i + 1] ELSE NoPage
        <3>1. i \in 1 .. NumPages /\ Len(order) = NumPages /\ order[i] = i - 1
              BY <2>1, NewPool
        <3>2. i < NumPages => order[i + 1] = i
              BY <2>1, <3>1, NewPool, NumPagesAssumption
        <3>3. Links[i - 1] = IF i - 1 < NumPages - 1 THEN (i - 1) + 1 ELSE NoPage
              BY <2>3, <3>1, NumPagesAssumption DEF Threaded, PageIds
        <3> QED BY <3>1, <3>2, <3>3, NumPagesAssumption
    <2> QED BY <2>2, <2>4, <2>5
<1> QED BY <1>1, <1>2

\* get_page keeps the invariant.
LEMMA GetStep ==
    ASSUME PageInv, get_page
    PROVE  PageInv'
<1> DEFINE p == FirstFree
<1> USE DEF PageInv
<1>1. order # <<>> /\ p = order[1]
      BY FirstOfList DEF get_page
<1>2. /\ order \in Seq(PageIds)
      /\ \A i, k \in 1 .. Len(order) : order[i] = order[k] => i = k
      BY DEF TypeOK, OrderInv
<1>3. /\ order' \in Seq(PageIds)
      /\ Len(order') = Len(order) - 1
      /\ \A i \in 1 .. Len(order) - 1 : order'[i] = order[i + 1]
      /\ p \in PageIds /\ p \notin Held(order)
      /\ Held(order') = Held(order) \cup {p}
      BY <1>1, <1>2, GetShifts DEF get_page
<1>4. Len(order) \in Nat \ {0} /\ Len(order') \in Nat
      BY <1>1, <1>2, <1>3
<1>5. /\ Links \in [PageIds -> Words]
      /\ \A i \in 1 .. Len(order) :
           Links[order[i]] = IF i < Len(order) THEN order[i + 1] ELSE NoPage
      BY FirstOfList
<1>6. ~halted /\ ~halted' /\ num_in_use \in Nat /\ num_in_use' = num_in_use + 1
      BY DEF get_page, TypeOK
<1>7. Len(order) = NumPages - num_in_use /\ held = Held(order)
      BY <1>6 DEF FreeListIntact
<1>8. TypeOK'
    <2>1. Links[p] \in Words
          BY <1>3, <1>5
    <2>2. num_in_use' \in 0 .. NumPages + 1
          BY <1>4, <1>6, <1>7, NumPagesAssumption
    <2>3. held' \subseteq PageIds
          BY <1>3 DEF get_page, TypeOK
    <2> QED BY <1>3, <1>5, <1>6, <2>1, <2>2, <2>3 DEF get_page, TypeOK
<1>9. FreeListIntact'
    <2>1. held' = Held(order')
          BY <1>3, <1>7 DEF get_page
    <2>2. Len(order') = NumPages - num_in_use'
          BY <1>3, <1>4, <1>6, <1>7, NumPagesAssumption
    <2>3. next_free_page' = IF order' = <<>> THEN NoPage ELSE order'[1]
        <3>1. next_free_page' = IF 1 < Len(order) THEN order[2] ELSE NoPage
              BY <1>1, <1>4, <1>5 DEF get_page
        <3>2. order' = <<>> <=> Len(order) = 1
              BY <1>3, <1>4
        <3>3. 1 < Len(order) => order'[1] = order[2]
              BY <1>3, <1>4
        <3>4. CASE 1 < Len(order)
              BY <1>4, <3>1, <3>2, <3>3, <3>4
        <3>5. CASE ~(1 < Len(order))
            <4>1. order' = <<>>
                  BY <1>3, <1>4, <3>5
            <4> QED BY <4>1, <3>1, <3>5
        <3> QED BY <3>4, <3>5
    <2>4. ASSUME NEW i \in 1 .. Len(order')
          PROVE  link'[order'[i]] = IF i < Len(order') THEN order'[i + 1] ELSE NoPage
        <3>1. i + 1 \in 1 .. Len(order) /\ order'[i] = order[i + 1]
              BY <1>3, <1>4
        <3>2. link'[order'[i]]
                = IF i + 1 < Len(order) THEN order[(i + 1) + 1] ELSE NoPage
              BY <1>5, <3>1 DEF get_page
        <3>3. i < Len(order') => order'[i + 1] = order[(i + 1) + 1]
              BY <1>3, <1>4
        <3>4. i < Len(order') <=> i + 1 < Len(order)
              BY <1>3, <1>4
        <3> QED BY <3>2, <3>3, <3>4
    <2> QED BY <1>6, <2>1, <2>2, <2>3, <2>4 DEF FreeListIntact
<1>10. OrderInv'
    <2>1. ASSUME NEW i \in 1 .. Len(order'), NEW k \in 1 .. Len(order'),
                 order'[i] = order'[k]
          PROVE  i = k
        <3>1. /\ i + 1 \in 1 .. Len(order) /\ order'[i] = order[i + 1]
              /\ k + 1 \in 1 .. Len(order) /\ order'[k] = order[k + 1]
              BY <1>3, <1>4
        <3>2. i + 1 = k + 1
              BY <1>2, <2>1, <3>1
        <3> QED BY <3>2
    <2>2. pool'
          BY DEF get_page
    <2> QED BY <1>6, <2>1, <2>2 DEF OrderInv
<1>11. CountInv'
    <2>1. p \notin held /\ held' = held \cup {p}
          BY <1>3, <1>7 DEF get_page
    <2>2. IsFiniteSet(held') /\ Cardinality(held') = Cardinality(held) + 1
          BY <2>1, FS_AddElement DEF CountInv
    <2>3. Given' = Given + 1 /\ Given' # 0 /\ pool'
          BY <1>6 DEF Given, get_page
    <2> QED BY <2>2, <2>3 DEF CountInv
<1> QED BY <1>8, <1>9, <1>10, <1>11

\* So does the call that finds no page.
LEMMA FailStep ==
    ASSUME PageInv, get_page_fails
    PROVE  PageInv'
<1> USE DEF PageInv, get_page_fails
<1>1. order = <<>>
    <2>1. order # <<>> => order[1] \in PageIds
          BY DEF TypeOK
    <2>2. NoPage \notin PageIds
          BY DEF NoPage, PageIds
    <2> QED BY <2>1, <2>2, FirstOfList
<1>2. num_in_use \in Nat /\ ~halted /\ halted' /\ num_in_use' = num_in_use + 1
      BY DEF TypeOK
<1>3. num_in_use = NumPages
      BY <1>1, <1>2, NumPagesAssumption DEF FreeListIntact
<1>4. pool
      BY <1>1, NewPool DEF OrderInv
<1>5. TypeOK'
      BY <1>2, <1>3, NumPagesAssumption DEF TypeOK
<1>6. FreeListIntact'
      BY <1>2 DEF FreeListIntact, Held
<1>7. OrderInv'
      BY <1>1, <1>4 DEF OrderInv
<1>8. CountInv'
      BY <1>2 DEF CountInv, Given
<1> QED BY <1>5, <1>6, <1>7, <1>8

\* free_page keeps it, and gives the pool back with the last page.
LEMMA PutStep ==
    ASSUME PageInv, NEW p \in PageIds, free_page(p)
    PROVE  PageInv'
<1> USE DEF PageInv
<1>1. /\ ~halted /\ ~halted' /\ p \in held /\ num_in_use \in Nat
      /\ num_in_use' = num_in_use - 1
      BY DEF free_page, TypeOK
<1>2. /\ order \in Seq(PageIds) /\ p \in Held(order) /\ held = Held(order)
      /\ Len(order) = NumPages - num_in_use
      /\ Len(order) \in Nat
      BY <1>1 DEF TypeOK, FreeListIntact
<1>3. /\ IsFiniteSet(held') /\ Cardinality(held') = num_in_use - 1
      /\ Cardinality(held') \in Nat
    <2>1. Cardinality(held) = num_in_use
          BY <1>1 DEF CountInv, Given
    <2>2. held' = held \ {p}
          BY DEF free_page
    <2> QED BY <1>1, <2>1, <2>2, FS_RemoveElement, FS_CardinalityType DEF CountInv
<1>4. pool
      BY <1>2, NewPool DEF OrderInv
<1>5. CASE LastInUse
    <2>1. num_in_use = 1
          BY <1>5 DEF LastInUse
    <2>2. held' = {}
          BY <2>1, <1>3, FS_EmptySet
    <2>3. order' = Ascending
          BY <2>1, <1>2, NumPagesAssumption DEF free_page, AfterPut
    <2>4. pool' = FALSE /\ next_free_page' = NoPage /\ num_in_use' = 0
        <3>1. pool' = FALSE /\ next_free_page' = NoPage
              BY <1>5, ZenonT(10) DEF free_page
        <3> QED BY <1>1, <2>1, <3>1
    <2>5. link' \in [PageIds -> Words]
          BY DEF free_page, Pushed, TypeOK
    <2>6. TypeOK'
        <3>1. pool' \in BOOLEAN /\ halted' \in BOOLEAN
              BY <2>4, ZenonT(10) DEF free_page, TypeOK
        <3>2. next_free_page' \in Words /\ num_in_use' \in 0 .. NumPages + 1
              BY <2>4, NumPagesAssumption DEF Words
        <3> QED BY <2>2, <2>3, <2>5, <3>1, <3>2, NewPool DEF TypeOK
    <2>7. FreeListIntact'
          BY <1>1, <2>2, <2>3, <2>4, NewPool, NumPagesAssumption DEF FreeListIntact
    <2>8. OrderInv'
          BY <1>1, <2>3, <2>4, NewPool, NumPagesAssumption DEF OrderInv
    <2>9. CountInv'
          BY <1>1, <2>1, <2>4, <1>3 DEF CountInv, Given
    <2> QED BY <2>6, <2>7, <2>8, <2>9
<1>6. CASE ~LastInUse
    <2>1. num_in_use # 1 /\ num_in_use - 1 \in Nat
          BY <1>1, <1>3, <1>6 DEF LastInUse
    <2>2. order' = <<p>> \o order
          BY <2>1, <1>1, <1>2, NumPagesAssumption DEF free_page, AfterPut
    <2>3. /\ order' \in Seq(PageIds)
          /\ Len(order') = Len(order) + 1
          /\ order'[1] = p
          /\ \A i \in 1 .. Len(order) : order'[i + 1] = order[i]
          /\ \A i \in 2 .. Len(order') : order'[i] = order[i - 1]
          /\ Held(order') = Held(order) \ {p}
          BY <1>2, <2>2, PutShifts
    <2>4. pool' /\ next_free_page' = p /\ held' = held \ {p}
          BY <1>6 DEF free_page
    <2>5. link' = [link EXCEPT ![p] = next_free_page] /\ link \in [PageIds -> Words]
          BY DEF free_page, Pushed, TypeOK
    <2>6. TypeOK'
        <3>1. num_in_use' \in 0 .. NumPages + 1
              BY <1>1, <2>1, NumPagesAssumption DEF TypeOK
        <3>2. link' \in [PageIds -> Words] /\ next_free_page' \in Words
              BY <2>4, <2>5 DEF TypeOK, Words
        <3>3. held' \subseteq PageIds
              BY <2>4 DEF TypeOK
        <3>4. pool' \in BOOLEAN /\ halted' \in BOOLEAN
              BY <1>6, ZenonT(10) DEF free_page, TypeOK
        <3> QED BY <2>3, <3>1, <3>2, <3>3, <3>4 DEF TypeOK
    <2>7. FreeListIntact'
        <3>1. held' = Held(order') /\ Len(order') = NumPages - num_in_use'
              BY <1>1, <1>2, <2>3, <2>4, NumPagesAssumption
        <3>2. order' # <<>> /\ next_free_page' = order'[1]
              BY <1>2, <2>3, <2>4
        <3>3. ASSUME NEW i \in 1 .. Len(order')
              PROVE  link'[order'[i]] = IF i < Len(order') THEN order'[i + 1] ELSE NoPage
            <4>1. CASE i = 1
                <5>1. link'[order'[i]] = next_free_page
                      BY <4>1, <2>3, <2>5
                <5>2. next_free_page = IF order = <<>> THEN NoPage ELSE order[1]
                      BY <1>4 DEF FreeListIntact
                <5>3. order = <<>> <=> ~(1 < Len(order'))
                      BY <1>2, <2>3
                <5>4. order # <<>> => order'[2] = order[1]
                      BY <1>2, <2>3
                <5> QED BY <4>1, <5>1, <5>2, <5>3, <5>4
            <4>2. CASE i # 1
                <5>1. /\ i - 1 \in 1 .. Len(order) /\ order'[i] = order[i - 1]
                      /\ i \in 2 .. Len(order')
                      BY <4>2, <1>2, <2>3
                <5>2. order[i - 1] # p /\ order[i - 1] \in PageIds
                      BY <5>1, <1>2 DEF Held
                <5>3. link'[order'[i]] = link[order[i - 1]]
                      BY <5>1, <5>2, <2>5
                <5>4. link[order[i - 1]]
                        = IF i - 1 < Len(order) THEN order[(i - 1) + 1] ELSE NoPage
                      BY <5>1, <1>4 DEF FreeListIntact
                <5>5. i < Len(order') => order'[i + 1] = order[(i - 1) + 1]
                      BY <5>1, <1>2, <2>3
                <5>6. i < Len(order') <=> i - 1 < Len(order)
                      BY <5>1, <1>2, <2>3
                <5> QED BY <5>3, <5>4, <5>5, <5>6
            <4> QED BY <4>1, <4>2
        <3> QED BY <1>1, <3>1, <3>2, <3>3 DEF FreeListIntact
    <2>8. OrderInv'
        <3>1. ASSUME NEW i \in 1 .. Len(order')
              PROVE  \/ i = 1 /\ order'[i] = p
                     \/ /\ i - 1 \in 1 .. Len(order)
                        /\ order'[i] = order[i - 1]
                        /\ order[i - 1] # p
              BY <1>2, <2>3 DEF Held
        <3>2. ASSUME NEW i \in 1 .. Len(order'), NEW k \in 1 .. Len(order'),
                     order'[i] = order'[k]
              PROVE  i = k
            <4>1. i - 1 \in 1 .. Len(order) /\ k - 1 \in 1 .. Len(order)
                    /\ order[i - 1] = order[k - 1] => i - 1 = k - 1
                  BY DEF OrderInv
            <4> QED BY <3>1, <3>2, <4>1, <1>2, <2>3
        <3> QED BY <1>1, <2>4, <3>2 DEF OrderInv
    <2>9. CountInv'
          BY <1>1, <1>3, <2>1, <2>4 DEF CountInv, Given
    <2> QED BY <2>6, <2>7, <2>8, <2>9
<1> QED BY <1>5, <1>6

\* What a client writes into its page touches no link of a free page.
LEMMA WriteStep ==
    ASSUME PageInv, NEW p \in PageIds, ClientWrites(p)
    PROVE  PageInv'
<1> USE DEF PageInv, ClientWrites
<1>1. PICK w \in Words : link' = [link EXCEPT ![p] = w]
      OBVIOUS
<1>2. TypeOK'
      BY <1>1 DEF TypeOK
<1>3. FreeListIntact'
    <2>1. \A i \in 1 .. Len(order) : order[i] # p
          BY DEF FreeListIntact, Held
    <2>2. \A i \in 1 .. Len(order) : order[i] \in PageIds
          BY DEF TypeOK
    <2>3. \A i \in 1 .. Len(order) : link'[order[i]] = link[order[i]]
          BY <1>1, <2>1, <2>2 DEF TypeOK
    <2> QED BY <2>3 DEF FreeListIntact, Held
<1>4. OrderInv' /\ CountInv'
      BY DEF OrderInv, CountInv, Given
<1> QED BY <1>2, <1>3, <1>4

\* The invariant is inductive.
LEMMA PageStep == PageInv /\ [Next]_vars => PageInv'
<1> SUFFICES ASSUME PageInv, [Next]_vars PROVE PageInv'
    OBVIOUS
<1>1. CASE get_page
      BY <1>1, GetStep
<1>2. CASE get_page_fails
      BY <1>2, FailStep
<1>3. CASE \E p \in PageIds : free_page(p)
      BY <1>3, PutStep
<1>4. CASE \E p \in PageIds : ClientWrites(p)
      BY <1>4, WriteStep
<1>5. CASE UNCHANGED vars
      BY <1>5 DEF vars, PageInv, TypeOK, FreeListIntact, OrderInv, CountInv,
                  Given, Held
<1> QED BY <1>1, <1>2, <1>3, <1>4, <1>5 DEF Next

\* In every reachable state of the page allocator the inductive invariant holds.
THEOREM PageInvariant == Spec => []PageInv
<1> QED BY PageInit, PageStep, PTL DEF Spec

-----------------------------------------------------------------------------

\* The fields of kma_page.c keep their types, and num_in_use its bounds.
THEOREM PageTypes == Spec => []TypeOK
<1>1. PageInv => TypeOK
      BY DEF PageInv
<1> QED BY <1>1, PageInvariant, PTL

\* However get_page, free_page and the clients' writes into their pages mix,
\* for every number of pages, the free list is a list of all the free pages.
THEOREM ListKept == Spec => []FreeListIntact
<1>1. PageInv => FreeListIntact
      BY DEF PageInv
<1> QED BY <1>1, PageInvariant, PTL

\* The pool is there exactly while a client has a page, and get_page gives up
\* only when clients have all of them.
THEOREM PoolKept == Spec => []PoolReturned
<1>1. ASSUME PageInv PROVE PoolReturned
    <2>1. held = {} <=> Given = 0
          BY <1>1, FS_EmptySet DEF PageInv, CountInv
    <2>2. halted => held = PageIds
          BY <1>1 DEF PageInv, OrderInv, FreeListIntact, Held
    <2> QED BY <1>1, <2>1, <2>2 DEF PageInv, CountInv, PoolReturned
<1> QED BY <1>1, PageInvariant, PTL

\* The list that is threaded through the pages is the stack of PageStack:
\* clients are given the page that was freed last, and a new pool starts in
\* order.
THEOREM PagesAreStack == Spec => ImplementsStack
<1> DEFINE s == IF pool THEN order ELSE Ascending
<1> DEFINE stackVars == <<s, held>>
<1>1. PageInv => s = order
      BY DEF PageInv, OrderInv
<1>2. Init => Stack!Init
      BY DEF Init, Stack!Init, Stack!Ascending, Ascending
<1>3. ASSUME PageInv, PageInv', [Next]_vars
      PROVE  [Stack!Next]_stackVars
    <2>1. s = order /\ s' = order'
          BY <1>1, <1>3 DEF PageInv, OrderInv, Ascending
    <2>2. CASE get_page
        <3>1. order # <<>> /\ FirstFree = Head(order)
              BY <1>3, <2>2, FirstOfList DEF get_page, PageInv, TypeOK
        <3>2. order' = AfterGet(order) /\ held' = held \cup {Head(order)}
              BY <2>2, <3>1 DEF get_page
        <3>3. Stack!Get
              BY <2>1, <3>1, <3>2 DEF Stack!Get, Stack!AfterGet, AfterGet
        <3> QED BY <3>3 DEF Stack!Next
    <2>3. CASE \E p \in PageIds : free_page(p)
        <3>1. PICK p \in PageIds : free_page(p)
              BY <2>3
        <3>2. p \in held /\ held' = held \ {p} /\ order' = AfterPut(order, p)
              BY <3>1 DEF free_page
        <3>3. order' = Stack!AfterPut(order, p)
              BY <3>2 DEF Stack!AfterPut, AfterPut, Stack!Ascending, Ascending
        <3>4. Stack!Put
              BY <2>1, <3>2, <3>3 DEF Stack!Put
        <3> QED BY <3>4 DEF Stack!Next
    <2>4. CASE get_page_fails \/ \E p \in PageIds : ClientWrites(p)
        <3>1. UNCHANGED <<order, held>>
              BY <2>4 DEF get_page_fails, ClientWrites
        <3> QED BY <2>1, <3>1
    <2>5. CASE UNCHANGED vars
        <3>1. UNCHANGED <<order, held>>
              BY <2>5 DEF vars
        <3> QED BY <2>1, <3>1
    <2> QED BY <1>3, <2>2, <2>3, <2>4, <2>5 DEF Next
<1>4. QED
      BY PageInvariant, <1>2, <1>3, PTL DEF Spec, ImplementsStack, Stack!Spec

-----------------------------------------------------------------------------
(* The trace driver.                                                         *)

\* The driver's requests, and where it is in one of them.
DriverInv ==
    /\ requests = [r \in Ids |-> requests[r]]
    /\ dpc.at \in {"command", "header", "size"}
    /\ dpc.at # "command" =>
          /\ dpc \in [at : {"header", "size"}, r : Ids, size : Sizes, page : PageIds]
          /\ requests[dpc.r].state = "FREE"
    /\ dpc.at = "size" => link[dpc.page] = dpc.page
    /\ ~anyMismatches

\* A block that is out lies behind the header of its page, within the page,
\* and holds what was written into it.
UsedInv ==
    /\ DOMAIN data = -1 .. NumPages * PageWords
    /\ \A r \in Used : LET q == requests[r] IN
          /\ q.size \in Nat \ {0} /\ ~TooLarge(q.size)
          /\ HeaderOf(r) \in PageIds /\ q.ptr = GivenAt(HeaderOf(r))
          /\ \A i \in 1 .. q.size : data[q.ptr + i - 1] = q.value[i]

\* Each of them has a page of its own.
OwnPages ==
    /\ held = Taken
    /\ \A r, s \in Used : HeaderOf(r) = HeaderOf(s) => r = s
    /\ dpc.at # "command" => \A r \in Used : HeaderOf(r) # dpc.page

\* The inductive invariant of the driver over the page allocator's.
TraceInv == PageInv /\ DriverInv /\ UsedInv /\ OwnPages

\* A number below k is what is left over a multiple of k.
LEMMA Quotient ==
    ASSUME NEW k \in Nat \ {0}, NEW p \in Nat, NEW i \in 0 .. k - 1
    PROVE  (p * k + i) \div k = p
<1> QED BY Z3

\* The words of page p, the first apart, are no page's first word.
LEMMA InnerWord ==
    ASSUME NEW p \in PageIds, NEW i \in 1 .. PageWords - 1, NEW q \in PageIds
    PROVE  p * PageWords + i # q * PageWords
<1>1. PageWords \in Nat \ {0} /\ p \in Nat /\ q \in Nat
      BY PageWordsAssumption DEF PageIds
<1>2. (p * PageWords + i) \div PageWords = p
      BY <1>1, Quotient
<1>3. (q * PageWords + 0) \div PageWords = q
      BY <1>1, Quotient
<1>4. ASSUME p * PageWords + i = q * PageWords PROVE FALSE
    <2>1. p = q
          BY <1>1, <1>2, <1>3, <1>4
    <2>2. p * PageWords \in Nat
          BY <1>1
    <2> QED BY <1>4, <2>1, <2>2
<1> QED BY <1>4

\* The first word of a page is link's.
LEMMA FirstWord ==
    ASSUME NEW p \in PageIds
    PROVE  /\ GivenAt(p) - 1 = p * PageWords
           /\ (p * PageWords) \div PageWords = p
           /\ Word(p * PageWords) = link[p]
<1>1. PageWords \in Nat \ {0} /\ p \in Nat /\ p * PageWords \in Nat
      BY PageWordsAssumption DEF PageIds
<1>2. (p * PageWords + 0) \div PageWords = p
      BY <1>1, Quotient
<1>3. (p * PageWords) \div PageWords = p
      BY <1>1, <1>2
<1>4. GivenAt(p) - 1 = p * PageWords
      BY <1>1 DEF GivenAt
<1> QED BY <1>3, <1>4 DEF Word

\* The other words are data's.
LEMMA LaterWord ==
    ASSUME NEW p \in PageIds, NEW n \in Nat, ~TooLarge(n), NEW i \in 1 .. n
    PROVE  /\ GivenAt(p) + i - 1 = p * PageWords + i
           /\ i \in 1 .. PageWords - 1
           /\ Word(GivenAt(p) + i - 1) = data[GivenAt(p) + i - 1]
           /\ GivenAt(p) + i - 1 \in -1 .. NumPages * PageWords
<1>1. PageWords \in Nat \ {0} /\ p \in Nat /\ p * PageWords \in Nat /\ p < NumPages
      BY PageWordsAssumption, NumPagesAssumption DEF PageIds
<1>2. i \in 1 .. PageWords - 1
      BY <1>1 DEF TooLarge
<1>3. GivenAt(p) + i - 1 = p * PageWords + i
      BY <1>1 DEF GivenAt
<1>4. \A q \in PageIds : p * PageWords + i # q * PageWords
      BY <1>2, InnerWord
<1>5. p * PageWords + i <= NumPages * PageWords
    <2>1. NumPages \in Nat /\ p + 1 <= NumPages
          BY <1>1, NumPagesAssumption
    <2>2. (p + 1) * PageWords <= NumPages * PageWords
          BY <1>1, <2>1
    <2>3. (p + 1) * PageWords = p * PageWords + PageWords
          BY <1>1
    <2>4. NumPages * PageWords \in Nat
          BY <1>1, <2>1
    <2> QED BY <1>1, <1>2, <2>2, <2>3, <2>4
<1>6. NumPages * PageWords \in Nat
      BY <1>1, NumPagesAssumption
<1>7. p * PageWords + i \in -1 .. NumPages * PageWords
      BY <1>1, <1>2, <1>5, <1>6
<1> QED BY <1>2, <1>3, <1>4, <1>7 DEF Word

\* A request keeps its page in a step that lets it and the header alone.
LEMMA HeaderStays ==
    ASSUME UsedInv, NEW r \in Used, requests'[r] = requests[r],
           link'[HeaderOf(r)] = link[HeaderOf(r)]
    PROVE  HeaderOf(r)' = HeaderOf(r) /\ link[HeaderOf(r)] = HeaderOf(r)
<1> DEFINE p == HeaderOf(r)
<1>1. p \in PageIds /\ requests[r].ptr = GivenAt(p)
      BY DEF UsedInv
<1>2. p = Word(requests[r].ptr - 1)
      BY DEF HeaderOf
<1> HIDE DEF p
<1>3. p = link[p]
      BY <1>1, <1>2, FirstWord
<1>4. HeaderOf(r)' = link'[p]
    <2>1. requests'[r].ptr - 1 = p * PageWords /\ (p * PageWords) \div PageWords = p
          BY <1>1, FirstWord
    <2> QED BY <1>1, <2>1 DEF HeaderOf, Word
<1> QED BY <1>3, <1>4 DEF p

\* So do all of them when no request and no word changes but first words of
\* other pages.
LEMMA RequestsStay ==
    ASSUME UsedInv, requests' = requests, data' = data,
           \A r \in Used : link'[HeaderOf(r)] = link[HeaderOf(r)]
    PROVE  /\ UsedInv'
           /\ Used' = Used
           /\ \A r \in Used : HeaderOf(r)' = HeaderOf(r)
<1>1. Used' = Used
      BY DEF Used
<1>2. \A r \in Used : HeaderOf(r)' = HeaderOf(r)
      BY HeaderStays
<1> QED BY <1>1, <1>2 DEF UsedInv

\* The pages that requests have are not free, and get_page takes another.
LEMMA GetIsFresh ==
    ASSUME PageInv, get_page
    PROVE  /\ FirstFree \in PageIds \ held
           /\ held' = held \cup {FirstFree}
           /\ \A p \in held : link'[p] = link[p]
<1>1. order # <<>> /\ FirstFree = order[1]
      BY FirstOfList DEF get_page
<1>2. order \in Seq(PageIds) /\ held = Held(order)
      BY DEF PageInv, TypeOK, FreeListIntact
<1>3. FirstFree \in PageIds \ held
    <2>1. 1 \in 1 .. Len(order)
          BY <1>1, <1>2
    <2> QED BY <1>1, <1>2, <2>1 DEF Held
<1>4. ~pool => held = {}
      BY FS_EmptySet DEF PageInv, CountInv
<1>5. \A p \in held : link'[p] = link[p]
      BY <1>4 DEF get_page, Links
<1> QED BY <1>3, <1>5 DEF get_page

\* Nothing is out at first.
LEMMA TraceFirst == TraceInit => TraceInv
<1> SUFFICES ASSUME TraceInit PROVE TraceInv
    OBVIOUS
<1>1. PageInv
      BY PageInit DEF TraceInit
<1>2. requests = [r \in Ids |-> Unused] /\ dpc.at = "command"
      BY DEF TraceInit, Between
<1>3. Used = {} /\ held = {} /\ Taken = {}
    <2>1. \A r \in Ids : requests[r].state = "FREE"
          BY <1>2 DEF Unused
    <2>2. Used = {}
          BY <2>1 DEF Used
    <2>3. {HeaderOf(r) : r \in Used} = {}
          BY <2>2
    <2> QED BY <1>2, <2>2, <2>3 DEF Taken, TraceInit, Init
<1>4. DriverInv
      BY <1>2 DEF DriverInv, TraceInit
<1>5. UsedInv
      BY <1>3 DEF UsedInv, TraceInit
<1>6. OwnPages
      BY <1>2, <1>3 DEF OwnPages
<1> QED BY <1>1, <1>4, <1>5, <1>6 DEF TraceInv

\* A request gets a page that nobody has, or ends the program.
LEMMA RequestStep ==
    ASSUME TraceInv, NEW r \in Ids, NEW size \in Sizes, Request(r, size)
    PROVE  TraceInv' /\ [Next]_vars
<1>1. /\ dpc.at = "command" /\ requests[r].state = "FREE"
      /\ requests' = requests /\ data' = data /\ anyMismatches' = anyMismatches
      BY DEF Request, Between, driverVars
<1>2. CASE /\ get_page
           /\ dpc' = [at |-> "header", r |-> r, size |-> size, page |-> FirstFree]
    <2>1. /\ FirstFree \in PageIds \ held
          /\ held' = held \cup {FirstFree}
          /\ \A p \in held : link'[p] = link[p]
          BY <1>2, GetIsFresh DEF TraceInv
    <2>2. \A s \in Used : HeaderOf(s) \in held
          BY DEF TraceInv, OwnPages, Taken
    <2>3. UsedInv' /\ Used' = Used /\ \A s \in Used : HeaderOf(s)' = HeaderOf(s)
          BY <1>1, <2>1, <2>2, RequestsStay DEF TraceInv
    <2>4. /\ dpc'.at = "header" /\ dpc'.page = FirstFree /\ dpc'.r = r
          /\ dpc' \in [at : {"header", "size"}, r : Ids, size : Sizes, page : PageIds]
          BY <1>2, <2>1
    <2>5. DriverInv'
          BY <1>1, <2>4 DEF DriverInv, TraceInv
    <2>6. held' = Taken'
          BY <1>1, <2>1, <2>3, <2>4 DEF Taken, TraceInv, OwnPages
    <2>7. OwnPages'
          BY <2>1, <2>2, <2>3, <2>4, <2>6 DEF TraceInv, OwnPages
    <2>8. PageInv' /\ Next
          BY <1>2, GetStep DEF TraceInv, Next
    <2> QED BY <2>3, <2>5, <2>7, <2>8 DEF TraceInv
<1>3. CASE get_page_fails /\ dpc' = dpc
    <2>1. link' = link /\ held' = held
          BY <1>3 DEF get_page_fails
    <2>2. UsedInv' /\ Used' = Used /\ \A s \in Used : HeaderOf(s)' = HeaderOf(s)
          BY <1>1, <2>1, RequestsStay DEF TraceInv
    <2>3. DriverInv'
          BY <1>1, <1>3 DEF DriverInv, TraceInv
    <2>4. OwnPages'
          BY <1>1, <1>3, <2>1, <2>2 DEF TraceInv, OwnPages, Taken
    <2>5. PageInv' /\ Next
          BY <1>3, FailStep DEF TraceInv, Next
    <2> QED BY <2>2, <2>3, <2>4, <2>5 DEF TraceInv
<1> QED BY <1>2, <1>3 DEF Request

\* The page's address goes into a page of the request's own.
LEMMA StoreHeaderStep ==
    ASSUME TraceInv, StoreHeader
    PROVE  TraceInv' /\ [Next]_vars
<1> DEFINE p == dpc.page
<1>1. /\ dpc.at = "header" /\ requests' = requests /\ data' = data
      /\ anyMismatches' = anyMismatches
      /\ dpc' = [dpc EXCEPT !.at = "size"]
      BY DEF StoreHeader, driverVars
<1>2. /\ dpc \in [at : {"header", "size"}, r : Ids, size : Sizes, page : PageIds]
      /\ requests[dpc.r].state = "FREE"
      BY <1>1 DEF TraceInv, DriverInv
<1>3. /\ dpc'.at = "size" /\ dpc'.page = p /\ dpc'.r = dpc.r
      /\ dpc' \in [at : {"header", "size"}, r : Ids, size : Sizes, page : PageIds]
      BY <1>1, <1>2
<1>4. /\ p \in PageIds /\ held' = held /\ link'[p] = p
      /\ \A q \in PageIds \ {p} : link'[q] = link[q]
      BY <1>2 DEF StoreHeader, ClientWrites, TraceInv, PageInv, TypeOK
<1>5. \A s \in Used : HeaderOf(s) \in PageIds \ {p}
      BY <1>1 DEF TraceInv, OwnPages, UsedInv
<1>6. UsedInv' /\ Used' = Used /\ \A s \in Used : HeaderOf(s)' = HeaderOf(s)
      BY <1>1, <1>4, <1>5, RequestsStay DEF TraceInv
<1>7. DriverInv'
      BY <1>1, <1>2, <1>3, <1>4 DEF DriverInv, TraceInv
<1>8. OwnPages'
    <2>1. held' = Taken'
          BY <1>1, <1>3, <1>4, <1>6 DEF Taken, TraceInv, OwnPages
    <2> QED BY <1>1, <1>3, <1>6, <2>1 DEF TraceInv, OwnPages
<1>9. PageInv' /\ Next
      BY <1>4, WriteStep DEF TraceInv, StoreHeader, Next
<1> QED BY <1>6, <1>7, <1>8, <1>9 DEF TraceInv

\* A request that is too large gives its page back.
LEMMA ReturnNullStep ==
    ASSUME TraceInv, ReturnNull
    PROVE  TraceInv' /\ [Next]_vars
<1> DEFINE p == dpc.page
<1>1. /\ dpc.at = "size" /\ requests' = requests /\ data' = data
      /\ anyMismatches' = anyMismatches
      /\ dpc'.at = "command" /\ free_page(p)
      BY DEF ReturnNull, Between
<1>2. dpc \in [at : {"header", "size"}, r : Ids, size : Sizes, page : PageIds]
      BY <1>1 DEF TraceInv, DriverInv
<1>3. /\ p \in PageIds /\ held' = held \ {p}
      /\ \A q \in PageIds \ {p} : link'[q] = link[q]
      BY <1>1, <1>2 DEF free_page, Pushed, TraceInv, PageInv, TypeOK
<1>4. \A s \in Used : HeaderOf(s) \in PageIds \ {p}
      BY <1>1 DEF TraceInv, OwnPages, UsedInv
<1>5. UsedInv' /\ Used' = Used /\ \A s \in Used : HeaderOf(s)' = HeaderOf(s)
      BY <1>1, <1>3, <1>4, RequestsStay DEF TraceInv
<1>6. DriverInv'
      BY <1>1 DEF DriverInv, TraceInv
<1>7. OwnPages'
    <2>1. held' = Taken'
          BY <1>1, <1>3, <1>4, <1>5 DEF Taken, TraceInv, OwnPages
    <2> QED BY <1>1, <1>5, <2>1 DEF TraceInv, OwnPages
<1>8. PageInv' /\ Next
      BY <1>1, <1>3, PutStep DEF TraceInv, Next
<1> QED BY <1>5, <1>6, <1>7, <1>8 DEF TraceInv

\* Words of different pages are different.
LEMMA WordsApart ==
    ASSUME NEW p \in PageIds, NEW i \in 1 .. PageWords - 1,
           NEW q \in PageIds, NEW j \in 1 .. PageWords - 1,
           p * PageWords + i = q * PageWords + j
    PROVE  p = q
<1>1. /\ PageWords \in Nat \ {0} /\ p \in Nat /\ q \in Nat
      /\ i \in 0 .. PageWords - 1 /\ j \in 0 .. PageWords - 1
      BY PageWordsAssumption DEF PageIds
<1>2. (p * PageWords + i) \div PageWords = p
      BY <1>1, Quotient
<1>3. (q * PageWords + j) \div PageWords = q
      BY <1>1, Quotient
<1> QED BY <1>2, <1>3

\* What Allocate makes of memory: the block holds what fill wrote, and nothing
\* else has changed.
LEMMA AllocateWrites ==
    ASSUME TraceInv, Allocate
    PROVE  /\ link' = link /\ DOMAIN data' = DOMAIN data
           /\ \A i \in 1 .. dpc.size : data'[GivenAt(dpc.page) + i - 1] = Filled[i]
           /\ \A s \in Used : \A i \in 1 .. requests[s].size :
                 data'[requests[s].ptr + i - 1] = data[requests[s].ptr + i - 1]
<1> DEFINE p   == dpc.page
           n   == dpc.size
           ptr == GivenAt(p)
<1>1. /\ p \in PageIds /\ n \in Nat \ {0} /\ ~TooLarge(n) /\ dpc.at = "size"
      BY SizesAssumption DEF Allocate, TraceInv, DriverInv
<1>2. ptr \in Nat
      BY <1>1, PageWordsAssumption DEF GivenAt, PageIds
<1>3. /\ data' = [a \in DOMAIN data |->
                    IF a \in ptr .. ptr + n - 1 THEN Filled[a - ptr + 1] ELSE data[a]]
      /\ link' = [q \in PageIds |->
                    IF q * PageWords \in ptr .. ptr + n - 1
                    THEN Filled[q * PageWords - ptr + 1] ELSE link[q]]
      BY DEF Allocate
<1>4. DOMAIN data = -1 .. NumPages * PageWords
      BY DEF TraceInv, UsedInv
<1>5. link \in [PageIds -> Words]
      BY DEF TraceInv, PageInv, TypeOK
<1> HIDE DEF p, n, ptr
<1>6. \A i \in 1 .. n : /\ ptr + i - 1 = p * PageWords + i
                        /\ i \in 1 .. PageWords - 1
                        /\ ptr + i - 1 \in DOMAIN data
      BY <1>1, <1>4, LaterWord DEF ptr
<1>7. ASSUME NEW a \in Int, a \in ptr .. ptr + n - 1
      PROVE  a - ptr + 1 \in 1 .. n /\ a = ptr + (a - ptr + 1) - 1
      BY <1>1, <1>2, <1>7
<1>8. ASSUME NEW q \in PageIds PROVE q * PageWords \notin ptr .. ptr + n - 1
    <2>1. q * PageWords \in Int
          BY PageWordsAssumption DEF PageIds
    <2>2. ASSUME q * PageWords \in ptr .. ptr + n - 1 PROVE FALSE
        <3>1. PICK i \in 1 .. n : q * PageWords = ptr + i - 1
              BY <1>7, <2>1, <2>2
        <3>2. q * PageWords = p * PageWords + i /\ i \in 1 .. PageWords - 1
              BY <1>6, <3>1
        <3> QED BY <1>1, <3>2, InnerWord
    <2> QED BY <2>2
<1>9. link' = link
      BY <1>3, <1>5, <1>8
<1>10. ASSUME NEW i \in 1 .. n PROVE data'[ptr + i - 1] = Filled[i]
    <2>1. ptr + i - 1 \in ptr .. ptr + n - 1 /\ (ptr + i - 1) - ptr + 1 = i
          BY <1>1, <1>2
    <2> QED BY <1>3, <1>6, <2>1
<1>11. ASSUME NEW s \in Used, NEW i \in 1 .. requests[s].size
       PROVE  data'[requests[s].ptr + i - 1] = data[requests[s].ptr + i - 1]
    <2> DEFINE h == HeaderOf(s)
               m == requests[s].size
               a == requests[s].ptr + i - 1
    <2>1. /\ m \in Nat /\ ~TooLarge(m) /\ h \in PageIds /\ requests[s].ptr = GivenAt(h)
          BY DEF TraceInv, UsedInv
    <2>2. h # p
          BY <1>1 DEF TraceInv, OwnPages, p
    <2>3. i \in 1 .. m
          OBVIOUS
    <2> HIDE DEF h, m
    <2>4. /\ a = h * PageWords + i /\ i \in 1 .. PageWords - 1
          /\ a \in -1 .. NumPages * PageWords
          BY <2>1, <2>3, LaterWord
    <2>5. ASSUME a \in ptr .. ptr + n - 1 PROVE FALSE
        <3>1. PICK j \in 1 .. n : a = ptr + j - 1
              BY <1>7, <2>4, <2>5
        <3>2. a = p * PageWords + j /\ j \in 1 .. PageWords - 1
              BY <1>6, <3>1
        <3> QED BY <1>1, <2>1, <2>2, <2>4, <3>2, WordsApart
    <2> HIDE DEF a
    <2>6. data'[a] = data[a]
          BY <1>3, <1>4, <2>4, <2>5
    <2> QED BY <2>6 DEF a
<1> QED BY <1>3, <1>9, <1>10, <1>11 DEF p, n, ptr

\* The block that is given out is a new request's, and the others stay.
LEMMA AllocateStep ==
    ASSUME TraceInv, Allocate
    PROVE  TraceInv' /\ [Next]_vars
<1> DEFINE p == dpc.page
           n == dpc.size
<1>0. PICK r \in Ids : r = dpc.r
      BY DEF TraceInv, DriverInv, Allocate
<1>1. /\ dpc.at = "size" /\ dpc'.at = "command" /\ ~TooLarge(n)
      /\ anyMismatches' = anyMismatches /\ held' = held
      /\ requests' = [requests EXCEPT ![r] =
            [state |-> "USED", size |-> n, ptr |-> GivenAt(p), value |-> Filled]]
      BY <1>0 DEF Allocate, Between
<1>2. /\ p \in PageIds /\ n \in Nat \ {0}
      /\ requests[r].state = "FREE" /\ link[p] = p
      BY <1>0, <1>1, SizesAssumption DEF TraceInv, DriverInv
<1>3. /\ link' = link /\ DOMAIN data' = DOMAIN data
      /\ \A i \in 1 .. n : data'[GivenAt(p) + i - 1] = Filled[i]
      /\ \A s \in Used : \A i \in 1 .. requests[s].size :
            data'[requests[s].ptr + i - 1] = data[requests[s].ptr + i - 1]
      BY AllocateWrites
<1>4. UNCHANGED vars
      BY <1>3 DEF Allocate, vars
<1>5. requests = [s \in Ids |-> requests[s]]
      BY DEF TraceInv, DriverInv
<1> HIDE DEF p, n
<1>6. /\ requests'[r].state = "USED" /\ requests'[r].size = n
      /\ requests'[r].ptr = GivenAt(p) /\ requests'[r].value = Filled
      /\ \A s \in Ids \ {r} : requests'[s] = requests[s]
      /\ requests' = [s \in Ids |-> requests'[s]]
      BY <1>1, <1>2, <1>5
<1>7. r \notin Used /\ Used' = Used \cup {r}
      BY <1>2, <1>6 DEF Used
<1>8. \A s \in Used : HeaderOf(s)' = HeaderOf(s) /\ requests'[s] = requests[s]
    <2>1. ASSUME NEW s \in Used PROVE requests'[s] = requests[s]
          BY <1>6, <1>7 DEF Used
    <2> QED BY <1>3, <2>1, HeaderStays DEF TraceInv
<1>9. HeaderOf(r)' = p
    <2>1. requests'[r].ptr - 1 = p * PageWords /\ (p * PageWords) \div PageWords = p
          BY <1>2, <1>6, FirstWord
    <2> QED BY <1>2, <1>3, <2>1 DEF HeaderOf, Word
<1>10. DriverInv'
      BY <1>1, <1>6 DEF DriverInv, TraceInv
<1>11. UsedInv'
    <2>1. ASSUME NEW s \in Used
          PROVE  LET q == requests'[s] IN
                 /\ q.size \in Nat \ {0} /\ ~TooLarge(q.size)
                 /\ HeaderOf(s)' \in PageIds /\ q.ptr = GivenAt(HeaderOf(s)')
                 /\ \A i \in 1 .. q.size : data'[q.ptr + i - 1] = q.value[i]
          BY <1>3, <1>8 DEF TraceInv, UsedInv
    <2>2. /\ requests'[r].size \in Nat \ {0} /\ ~TooLarge(requests'[r].size)
          /\ HeaderOf(r)' \in PageIds /\ requests'[r].ptr = GivenAt(HeaderOf(r)')
          /\ \A i \in 1 .. requests'[r].size :
                data'[requests'[r].ptr + i - 1] = requests'[r].value[i]
          BY <1>1, <1>2, <1>3, <1>6, <1>9 DEF n
    <2>3. DOMAIN data' = -1 .. NumPages * PageWords
          BY <1>3 DEF TraceInv, UsedInv
    <2> QED BY <1>7, <2>1, <2>2, <2>3 DEF UsedInv, TooLarge, GivenAt
<1>12. OwnPages'
    <2>1. held = {HeaderOf(s) : s \in Used} \cup {p}
          BY <1>1 DEF TraceInv, OwnPages, Taken, p
    <2>2. Taken' = {HeaderOf(s)' : s \in Used'}
          BY <1>1 DEF Taken
    <2>3. \A s \in Used : HeaderOf(s) # p
          BY <1>1 DEF TraceInv, OwnPages, p
    <2>4. held' = Taken'
          BY <1>1, <1>7, <1>8, <1>9, <2>1, <2>2
    <2>5. \A s, t \in Used : HeaderOf(s) = HeaderOf(t) => s = t
          BY DEF TraceInv, OwnPages
    <2> QED BY <1>1, <1>7, <1>8, <1>9, <2>3, <2>4, <2>5 DEF OwnPages
<1>13. PageInv'
      BY <1>4, PageStep DEF TraceInv
<1> QED BY <1>4, <1>10, <1>11, <1>12, <1>13 DEF TraceInv

\* kma_free finds the page of the block that is freed, and the block as it was.
LEMMA DeallocateStep ==
    ASSUME TraceInv, NEW r \in Ids, Deallocate(r)
    PROVE  TraceInv' /\ [Next]_vars
<1> DEFINE p == HeaderOf(r)
           q == requests[r]
<1>1. /\ dpc.at = "command" /\ dpc' = dpc /\ q.state = "USED" /\ data' = data
      /\ free_page(p) /\ requests' = [requests EXCEPT ![r] = Unused]
      /\ anyMismatches' = (anyMismatches
             \/ \E i \in 1 .. q.size : Word(q.ptr + i - 1) # q.value[i])
      BY DEF Deallocate, Between
<1>2. /\ r \in Used /\ p \in PageIds /\ q.ptr = GivenAt(p)
      /\ q.size \in Nat /\ ~TooLarge(q.size)
      /\ \A i \in 1 .. q.size : data[q.ptr + i - 1] = q.value[i]
      BY <1>1 DEF Used, TraceInv, UsedInv
<1>3. requests = [s \in Ids |-> requests[s]] /\ ~anyMismatches
      BY DEF TraceInv, DriverInv
<1> HIDE DEF p
<1>4. \A i \in 1 .. q.size : Word(q.ptr + i - 1) = q.value[i]
    <2> HIDE DEF q
    <2>1. \A i \in 1 .. q.size : Word(GivenAt(p) + i - 1) = data[GivenAt(p) + i - 1]
          BY <1>2, LaterWord
    <2> QED BY <1>2, <2>1
<1>5. ~anyMismatches'
    <2> HIDE DEF q
    <2> QED BY <1>1, <1>3, <1>4
<1>6. /\ requests'[r].state = "FREE"
      /\ \A s \in Ids \ {r} : requests'[s] = requests[s]
      /\ requests' = [s \in Ids |-> requests'[s]]
      BY <1>1, <1>3 DEF Unused
<1>7. Used' = Used \ {r}
      BY <1>6 DEF Used
<1>8. held' = held \ {p} /\ \A s \in PageIds \ {p} : link'[s] = link[s]
      BY <1>1, <1>2 DEF free_page, Pushed, TraceInv, PageInv, TypeOK
<1>9. \A s \in Used \ {r} : HeaderOf(s) \in PageIds \ {p} /\ requests'[s] = requests[s]
      BY <1>2, <1>6 DEF TraceInv, OwnPages, UsedInv, Used, p
<1>10. \A s \in Used \ {r} : HeaderOf(s)' = HeaderOf(s)
      BY <1>8, <1>9, HeaderStays DEF TraceInv
<1>11. DriverInv'
      BY <1>1, <1>5, <1>6 DEF DriverInv
<1>12. UsedInv'
      BY <1>1, <1>7, <1>9, <1>10 DEF TraceInv, UsedInv, TooLarge, GivenAt
<1>13. OwnPages'
    <2>1. held = {HeaderOf(s) : s \in Used} /\ Taken' = {HeaderOf(s)' : s \in Used'}
          BY <1>1 DEF TraceInv, OwnPages, Taken
    <2>2. held' = Taken'
          BY <1>2, <1>7, <1>8, <1>9, <1>10, <2>1 DEF p
    <2>3. \A s, t \in Used' : HeaderOf(s)' = HeaderOf(t)' => s = t
          BY <1>7, <1>10 DEF TraceInv, OwnPages
    <2> QED BY <1>1, <2>2, <2>3 DEF OwnPages
<1>14. PageInv' /\ Next
      BY <1>1, <1>2, PutStep DEF TraceInv, Next
<1> QED BY <1>11, <1>12, <1>13, <1>14 DEF TraceInv

\* The driver's steps keep its invariant, and are the page allocator's.
LEMMA TraceStep == TraceInv /\ [TraceNext]_traceVars => TraceInv' /\ [Next]_vars
<1> SUFFICES ASSUME TraceInv, [TraceNext]_traceVars PROVE TraceInv' /\ [Next]_vars
    OBVIOUS
<1>1. ASSUME UNCHANGED <<vars, driverVars, dpc>> PROVE TraceInv' /\ [Next]_vars
    <2>1. UsedInv' /\ Used' = Used /\ \A s \in Used : HeaderOf(s)' = HeaderOf(s)
          BY <1>1, RequestsStay DEF TraceInv, vars, driverVars
    <2>2. DriverInv' /\ OwnPages'
          BY <1>1, <2>1 DEF TraceInv, DriverInv, OwnPages, Taken, vars, driverVars
    <2>3. PageInv'
          BY <1>1, PageStep DEF TraceInv
    <2> QED BY <1>1, <2>1, <2>2, <2>3 DEF TraceInv
<1>2. ASSUME UnknownCommand \/ End PROVE TraceInv' /\ [Next]_vars
      BY <1>1, <1>2 DEF UnknownCommand, End
<1>3. CASE UNCHANGED traceVars
      BY <1>1, <1>3 DEF traceVars
<1> QED BY <1>2, <1>3, RequestStep, StoreHeaderStep, ReturnNullStep, AllocateStep,
           DeallocateStep DEF TraceNext

\* Whatever the trace: every request that is out has a page of its own, behind
\* whose header its block lies as fill left it.
THEOREM TraceInvariant == TraceSpec => []TraceInv
<1> QED BY TraceFirst, TraceStep, PTL DEF TraceSpec

\* The driver and its allocator use get_page and free_page as they are meant:
\* a run of them is a run of the page allocator and its clients.
THEOREM DriverUsesPages == TraceSpec => Spec
<1>1. TraceInit => Init
      BY DEF TraceInit
<1>2. TraceInv /\ [TraceNext]_traceVars => [Next]_vars
      BY TraceStep
<1> QED BY <1>1, <1>2, TraceInvariant, PTL DEF TraceSpec, Spec

\* No block, header or link of a free page ever lies on another block, and
\* kma_free finds the page of every block.
THEOREM BlocksKeepContents == TraceSpec => []ContentsKept
<1>1. TraceInv => ContentsKept
    <2> SUFFICES ASSUME TraceInv PROVE ContentsKept
        OBVIOUS
    <2>1. ASSUME NEW r \in Used, NEW i \in 1 .. requests[r].size
          PROVE  Word(requests[r].ptr + i - 1) = requests[r].value[i]
        <3> DEFINE p == HeaderOf(r)
                   n == requests[r].size
        <3>1. /\ n \in Nat /\ ~TooLarge(n) /\ p \in PageIds /\ i \in 1 .. n
              /\ requests[r].ptr = GivenAt(p)
              /\ data[requests[r].ptr + i - 1] = requests[r].value[i]
              BY DEF TraceInv, UsedInv
        <3> HIDE DEF p, n
        <3>2. Word(GivenAt(p) + i - 1) = data[GivenAt(p) + i - 1]
              BY <3>1, LaterWord
        <3> QED BY <3>1, <3>2
    <2>2. ~anyMismatches
          BY DEF TraceInv, DriverInv
    <2>3. held = Taken /\ \A r, s \in Used : HeaderOf(r) = HeaderOf(s) => r = s
          BY DEF TraceInv, OwnPages
    <2> QED BY <2>1, <2>2, <2>3 DEF ContentsKept
<1> QED BY <1>1, TraceInvariant, PTL

\* The count of pages in use is that of the requests that are out.
LEMMA NoneOutNoneUsed ==
    ASSUME TraceInv, Running, dpc = Between
    PROVE  PagesLeft <=> Used # {}
<1>1. num_in_use = Cardinality(held) /\ IsFiniteSet(held)
      BY DEF TraceInv, PageInv, CountInv, Given, Running
<1>2. held = {HeaderOf(r) : r \in Used}
      BY DEF TraceInv, OwnPages, Taken, Between
<1>3. held = {} <=> Used = {}
      BY <1>2
<1> QED BY <1>1, <1>3, FS_EmptySet DEF PagesLeft

\* The driver and its allocator agree on the sizes that get NULL, and the
\* program passes exactly the traces that freed all they got.
THEOREM PassMeansAllFreed == TraceSpec => []VerdictRight
<1>1. TraceInit => VerdictRight
      BY DEF TraceInit, VerdictRight
<1>2. ASSUME TraceInv, VerdictRight, [TraceNext]_traceVars PROVE VerdictRight'
    <2>1. ASSUME verdict' \in {"", "all pages already allocated", "assertion"}
          PROVE  VerdictRight'
          BY <2>1 DEF VerdictRight
    <2>2. ASSUME Running PROVE verdict = ""
          BY <2>2 DEF Running
    <2>3. ASSUME NEW r \in Ids, NEW size \in Sizes, Request(r, size)
          PROVE  VerdictRight'
          BY <2>1, <2>2, <2>3 DEF Request
    <2>4. CASE StoreHeader
          BY <2>1, <2>2, <2>4 DEF StoreHeader
    <2>5. ASSUME dpc.at = "size" PROVE TooLarge(dpc.size) <=> NullExpected(dpc.size)
        <3>1. dpc.size \in Nat
              BY <1>2, <2>5, SizesAssumption DEF TraceInv, DriverInv
        <3> QED BY <3>1, PageWordsAssumption DEF TooLarge, NullExpected
    <2>6. CASE ReturnNull
        <3>1. verdict' = ""
              BY <2>5, <2>6 DEF ReturnNull, Answered
        <3> QED BY <2>1, <3>1
    <2>7. CASE Allocate
        <3>1. dpc.at = "size" /\ ~TooLarge(dpc.size) /\ Answered(FALSE)
              BY <2>7 DEF Allocate
        <3>2. NullExpected(dpc.size) = FALSE
              BY <2>5, <3>1 DEF NullExpected
        <3>3. verdict' = ""
              BY <3>1, <3>2, Zenon DEF Answered
        <3> QED BY <2>1, <3>3
    <2>8. ASSUME NEW r \in Ids, Deallocate(r) PROVE VerdictRight'
          BY <2>1, <2>2, <2>8 DEF Deallocate
    <2>9. CASE UnknownCommand
          BY <2>1, <2>9 DEF UnknownCommand
    <2>10. CASE End
        <3>1. Used' = Used
              BY <2>10 DEF End, driverVars, Used
        <3>2. PagesLeft <=> Used # {}
              BY <1>2, <2>10, NoneOutNoneUsed DEF End
        <3>3. ~anyMismatches
              BY <1>2 DEF TraceInv, DriverInv
        <3>4. verdict' = IF PagesLeft THEN "not all pages freed" ELSE "PASS"
              BY <2>10, <3>3 DEF End
        <3> QED BY <3>1, <3>2, <3>4 DEF VerdictRight
    <2>11. CASE UNCHANGED traceVars
          BY <1>2, <2>11 DEF VerdictRight, traceVars, driverVars, Used
    <2> QED BY <1>2, <2>3, <2>4, <2>6, <2>7, <2>8, <2>9, <2>10, <2>11 DEF TraceNext
<1> QED BY <1>1, <1>2, TraceInvariant, PTL DEF TraceSpec

\* The blocks that are out: each as large as was asked for, no two overlapping.
BlocksApart ==
    /\ \A r \in Used : /\ IsFiniteSet(Block(r))
                       /\ Cardinality(Block(r)) = requests[r].size
    /\ \A r, s \in Used : r # s => Block(r) \cap Block(s) = {}

LEMMA OwnPagesApart == TraceInv => BlocksApart
<1> SUFFICES ASSUME TraceInv PROVE BlocksApart
    OBVIOUS
<1>1. ASSUME NEW r \in Used
      PROVE  /\ requests[r].size \in Nat \ {0} /\ ~TooLarge(requests[r].size)
             /\ HeaderOf(r) \in PageIds /\ requests[r].ptr = GivenAt(HeaderOf(r))
             /\ requests[r].ptr \in Nat
    <2>1. /\ requests[r].size \in Nat \ {0} /\ ~TooLarge(requests[r].size)
          /\ HeaderOf(r) \in PageIds /\ requests[r].ptr = GivenAt(HeaderOf(r))
          BY DEF TraceInv, UsedInv
    <2> QED BY <2>1, PageWordsAssumption DEF GivenAt, PageIds
<1>2. ASSUME NEW r \in Used
      PROVE  IsFiniteSet(Block(r)) /\ Cardinality(Block(r)) = requests[r].size
    <2> DEFINE a == requests[r].ptr
               n == requests[r].size
    <2>1. a \in Int /\ n \in Nat \ {0} /\ a + n - 1 \in Int
          BY <1>1
    <2> HIDE DEF a, n
    <2>2. /\ IsFiniteSet(a .. a + n - 1)
          /\ Cardinality(a .. a + n - 1) = (a + n - 1) - a + 1
          BY <2>1, FS_Interval
    <2> QED BY <2>1, <2>2 DEF Block, a, n
<1>3. ASSUME NEW r \in Used, NEW a \in Block(r)
      PROVE  \E i \in 1 .. PageWords - 1 : a = HeaderOf(r) * PageWords + i
    <2> DEFINE i == a - requests[r].ptr + 1
    <2>1. /\ i \in 1 .. requests[r].size /\ a = requests[r].ptr + i - 1
          BY <1>1 DEF Block
    <2> HIDE DEF i
    <2>2. /\ GivenAt(HeaderOf(r)) + i - 1 = HeaderOf(r) * PageWords + i
          /\ i \in 1 .. PageWords - 1
          BY <1>1, <2>1, LaterWord
    <2> QED BY <1>1, <2>1, <2>2
<1>4. ASSUME NEW r \in Used, NEW s \in Used, r # s,
             NEW a \in Block(r), a \in Block(s)
      PROVE  FALSE
    <2>1. PICK i \in 1 .. PageWords - 1 : a = HeaderOf(r) * PageWords + i
          BY <1>3
    <2>2. PICK j \in 1 .. PageWords - 1 : a = HeaderOf(s) * PageWords + j
          BY <1>3, <1>4
    <2>3. HeaderOf(r) = HeaderOf(s)
          BY <1>1, <2>1, <2>2, WordsApart
    <2> QED BY <1>4, <2>3 DEF TraceInv, OwnPages
<1> QED BY <1>2, <1>4 DEF BlocksApart

\* The words in the blocks that are out.
WordsOut == UNION {Block(r) : r \in Used}
CountOut == IsFiniteSet(WordsOut) /\ currentAllocBytes = Cardinality(WordsOut)

\* The words that are out are counted when a block comes to them ...
LEMMA AllocateCounts ==
    ASSUME TraceInv, CountOut, BlocksApart', Allocate
    PROVE  CountOut'
<1> DEFINE n == dpc.size
<1>1. PICK r \in Ids : r = dpc.r
      BY DEF TraceInv, DriverInv, Allocate
<1>2. /\ requests[r].state = "FREE" /\ n \in Nat
      /\ requests = [s \in Ids |-> requests[s]]
      BY <1>1, SizesAssumption DEF TraceInv, DriverInv, Allocate
<1>3. requests' = [requests EXCEPT ![r] =
          [state |-> "USED", size |-> n, ptr |-> GivenAt(dpc.page), value |-> Filled]]
      BY <1>1 DEF Allocate
<1>4. currentAllocBytes' = currentAllocBytes + n
      BY DEF Allocate, Counted
<1> HIDE DEF n
<1>5. /\ requests'[r].state = "USED" /\ requests'[r].size = n
      /\ \A s \in Ids \ {r} : requests'[s] = requests[s]
      BY <1>2, <1>3
<1>6. r \notin Used /\ Used' = Used \cup {r}
      BY <1>2, <1>5 DEF Used
<1>7. \A s \in Used : Block(s)' = Block(s)
      BY <1>5, <1>6 DEF Block, Used
<1> DEFINE B == Block(r)'
<1>8. WordsOut' = WordsOut \cup B
      BY <1>6, <1>7 DEF WordsOut
<1>9. WordsOut \cap B = {}
    <2>1. ASSUME NEW s \in Used PROVE Block(s) \cap B = {}
        <3>1. s \in Used' /\ r \in Used' /\ s # r
              BY <1>6
        <3>2. Block(s)' \cap B = {}
              BY <3>1 DEF BlocksApart
        <3> QED BY <1>7, <3>2
    <2> QED BY <2>1 DEF WordsOut
<1>10. IsFiniteSet(B) /\ Cardinality(B) = n
      BY <1>5, <1>6 DEF BlocksApart
<1> HIDE DEF B
<1>11. /\ IsFiniteSet(WordsOut \cup B)
       /\ Cardinality(WordsOut \cup B)
             = Cardinality(WordsOut) + Cardinality(B) - Cardinality(WordsOut \cap B)
      BY <1>10, FS_Union DEF CountOut
<1>12. Cardinality(WordsOut) \in Nat /\ Cardinality({}) = 0
      BY FS_CardinalityType, FS_EmptySet DEF CountOut
<1>13. Cardinality(WordsOut') = Cardinality(WordsOut) + n
    <2>1. Cardinality(WordsOut \cap B) = 0
          BY <1>9, <1>12, Zenon
    <2>2. Cardinality(WordsOut') = Cardinality(WordsOut \cup B)
          BY <1>8, Zenon
    <2> QED BY <1>2, <1>10, <1>11, <1>12, <2>1, <2>2
<1>14. IsFiniteSet(WordsOut') /\ currentAllocBytes' = Cardinality(WordsOut')
       BY <1>4, <1>8, <1>11, <1>13 DEF CountOut
<1> QED BY <1>14 DEF CountOut

\* ... and when it leaves them.
LEMMA DeallocateCounts ==
    ASSUME TraceInv, CountOut, BlocksApart, NEW r \in Ids, Deallocate(r)
    PROVE  CountOut'
<1> DEFINE n == requests[r].size
           B == Block(r)
<1>1. /\ requests[r].state = "USED" /\ requests' = [requests EXCEPT ![r] = Unused]
      /\ currentAllocBytes' = currentAllocBytes - n
      BY DEF Deallocate
<1>2. requests = [s \in Ids |-> requests[s]]
      BY DEF TraceInv, DriverInv
<1>3. /\ requests'[r].state = "FREE"
      /\ \A s \in Ids \ {r} : requests'[s] = requests[s]
      BY <1>1, <1>2 DEF Unused
<1>4. r \in Used /\ Used' = Used \ {r}
      BY <1>1, <1>3 DEF Used
<1>5. n \in Nat /\ IsFiniteSet(B) /\ Cardinality(B) = n
      BY <1>4 DEF TraceInv, UsedInv, BlocksApart
<1>6. \A s \in Used' : Block(s)' = Block(s)
      BY <1>3, <1>4 DEF Block, Used
<1>7. WordsOut' = UNION {Block(s) : s \in Used \ {r}}
      BY <1>4, <1>6 DEF WordsOut
<1>8. WordsOut = WordsOut' \cup B
      BY <1>4, <1>7 DEF WordsOut
<1>9. WordsOut' \cap B = {}
      BY <1>4, <1>7 DEF BlocksApart
<1>10. IsFiniteSet(WordsOut')
      BY <1>8, FS_Subset DEF CountOut
<1> HIDE DEF B, n
<1>11. Cardinality(WordsOut' \cup B)
           = Cardinality(WordsOut') + Cardinality(B) - Cardinality(WordsOut' \cap B)
      BY <1>5, <1>10, FS_Union
<1>12. Cardinality(WordsOut') \in Nat /\ Cardinality({}) = 0
      BY <1>10, FS_CardinalityType, FS_EmptySet
<1>13. Cardinality(WordsOut) = Cardinality(WordsOut') + n
    <2>1. Cardinality(WordsOut' \cap B) = 0
          BY <1>9, <1>12, Zenon
    <2>2. Cardinality(WordsOut) = Cardinality(WordsOut' \cup B)
          BY <1>8, Zenon
    <2> QED BY <1>5, <1>11, <1>12, <2>1, <2>2
<1>14. currentAllocBytes' = Cardinality(WordsOut')
       BY <1>1, <1>5, <1>12, <1>13 DEF CountOut
<1> QED BY <1>10, <1>14 DEF CountOut

\* currentAllocBytes is the number of words in the blocks that are out: nothing
\* is counted for a request that got NULL, and no word is in two blocks.
THEOREM BytesAreCounted == TraceSpec => []BytesCounted
<1>1. TraceInit => CountOut
    <2> SUFFICES ASSUME TraceInit PROVE CountOut
        OBVIOUS
    <2>1. \A r \in Ids : requests[r].state = "FREE"
          BY DEF TraceInit, Unused
    <2>2. WordsOut = {}
          BY <2>1 DEF WordsOut, Used
    <2> QED BY <2>2, FS_EmptySet DEF CountOut, TraceInit
<1>2. ASSUME TraceInv, CountOut, BlocksApart, BlocksApart', [TraceNext]_traceVars
      PROVE  CountOut'
    <2>1. ASSUME UNCHANGED <<requests, currentAllocBytes>> PROVE CountOut'
          BY <1>2, <2>1 DEF CountOut, WordsOut, Used, Block
    <2>2. CASE ReturnNull
        <3>1. currentAllocBytes \in Nat
              BY <1>2, FS_CardinalityType DEF CountOut
        <3> QED BY <2>1, <2>2, <3>1 DEF ReturnNull, Counted
    <2>3. ASSUME NEW r \in Ids, NEW size \in Sizes, Request(r, size) PROVE CountOut'
          BY <2>1, <2>3 DEF Request, driverVars
    <2>4. CASE StoreHeader \/ UnknownCommand \/ End \/ UNCHANGED traceVars
          BY <2>1, <2>4 DEF StoreHeader, UnknownCommand, End, driverVars, traceVars
    <2> QED BY <1>2, <2>2, <2>3, <2>4, AllocateCounts, DeallocateCounts DEF TraceNext
<1>3. CountOut => BytesCounted
      BY DEF CountOut, BytesCounted, WordsOut
<1> QED BY <1>1, <1>2, <1>3, OwnPagesApart, TraceInvariant, PTL DEF TraceSpec
=============================================================================
