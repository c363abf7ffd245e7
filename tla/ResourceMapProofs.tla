------------------------- MODULE ResourceMapProofs -------------------------
(* Proofs about ResourceMap for every number and size of pages, every layout *)
(* of headers and every set of sizes that are asked for.                     *)
EXTENDS ResourceMap, PagesProofs, SequenceTheorems

\* Where block a of a heap h ends, and where page p does.
EndIn(h, a) == a + AllocHeader + h.size[a]
PageEnd(p)  == p * PageSize + PageSize

\* The fields of a heap.
IsHeap(h) ==
    /\ DOMAIN h = {"stack", "root", "list", "size"}
    /\ IsStack(h.stack)
    /\ h.root \in PageIds \cup {NoPage}
    /\ h.list \in Seq(Addresses)
    /\ h.size \in [DOMAIN h.size -> 1 .. WholePage]
    /\ DOMAIN h.size \subseteq Addresses

\* Its blocks lie in the pages in use, fill them and do not overlap.
Inside(h, a) ==
    /\ Page(a) \in Held(h.stack)
    /\ FirstBlock(Page(a)) <= a
    /\ EndIn(h, a) <= PageEnd(Page(a))
    /\ EndIn(h, a) \in DOMAIN h.size \/ EndIn(h, a) = PageEnd(Page(a))
Tiled(h) ==
    /\ \A p \in Held(h.stack) : FirstBlock(p) \in DOMAIN h.size
    /\ \A a \in DOMAIN h.size : Inside(h, a)
    /\ \A a, b \in DOMAIN h.size : a < b => EndIn(h, a) <= b

\* Its list is in ascending order and holds blocks only.
Sorted(s) == \A i, k \in DOMAIN s : i < k => s[i] < s[k]
Listed(h) == Sorted(h.list) /\ ToSet(h.list) \subseteq DOMAIN h.size

Good(h) == IsHeap(h) /\ Tiled(h) /\ Listed(h)

\* No block of S spans its page, and no two of S touch.
Settled(h, S) ==
    \A a \in S :
        /\ ~SpansPage(h, a)
        /\ \A b \in S : EndIn(h, a) = b => Page(a) # Page(b)

\* The client's blocks are as large as it asked and not on the list.
LiveInv ==
    /\ live \in [Live -> Sizes]
    /\ Live \subseteq Blocks \ ToSet(heap.list)
    /\ \A a \in Live : live[a] <= heap.size[a]

\* Only the block that coalesce works on may have something left to do.
PcInv ==
    /\ pc \in {"idle", "coalesce", "exited"}
    /\ hdr \in Addresses
    /\ IF pc = "coalesce"
       THEN /\ hdr \in ToSet(heap.list)
            /\ Blocks = Live \cup ToSet(heap.list)
            /\ Settled(heap, Blocks \ (Live \cup {hdr}))
       ELSE Settled(heap, Blocks \ Live)

\* The inductive invariant.
MapInv == Good(heap) /\ LiveInv /\ PcInv

-----------------------------------------------------------------------------
(* Addresses and pages.                                                      *)

\* The constants are numbers, and a page holds a block that spans it.
LEMMA Layout ==
    /\ PageSize \in Nat \ {0} /\ ControlBlock \in Nat \ {0}
    /\ AllocHeader \in Nat \ {0} /\ FreeHeader \in Nat \ {0}
    /\ NumPages \in Nat \ {0}
    /\ AllocHeader < FreeHeader
    /\ WholePage \in Nat \ {0}
    /\ WholePage = PageSize - ControlBlock - AllocHeader
    /\ FreeHeader - AllocHeader \in 1 .. WholePage
<1> QED BY LayoutAssumption, NumPagesAssumption DEF WholePage

\* The addresses of page p, and the page of an address.
LEMMA PageOf ==
    ASSUME NEW a \in Nat
    PROVE  /\ Page(a) \in Nat
           /\ Page(a) * PageSize <= a /\ a < PageEnd(Page(a))
           /\ \A p \in Nat : p * PageSize <= a /\ a < PageEnd(p) => p = Page(a)
<1>1. PageSize \in Nat \ {0}
      BY Layout
<1>2. Page(a) \in Nat /\ Page(a) * PageSize <= a /\ a < PageEnd(Page(a))
      BY <1>1 DEF Page, PageEnd
<1>3. ASSUME NEW p \in Nat, p * PageSize <= a, a < PageEnd(p)
      PROVE  p = Page(a)
      BY <1>1, <1>3 DEF Page, PageEnd
<1> QED BY <1>2, <1>3

\* Pages follow one another, and all of them are memory.
LEMMA PagesFollow ==
    ASSUME NEW p \in PageIds
    PROVE  /\ p * PageSize \in Nat /\ PageEnd(p) \in Nat
           /\ PageEnd(p) <= NumPages * PageSize
           /\ PageEnd(p) = (p + 1) * PageSize
           /\ \A q \in PageIds : p < q => PageEnd(p) <= q * PageSize
<1>1. PageSize \in Nat \ {0} /\ NumPages \in Nat \ {0} /\ p \in Nat
      BY Layout DEF PageIds
<1>2. PageEnd(p) = (p + 1) * PageSize
      BY <1>1 DEF PageEnd
<1>3. \A q \in Nat : p < q => (p + 1) * PageSize <= q * PageSize
      BY <1>1
<1> QED BY <1>1, <1>2, <1>3 DEF PageIds

-----------------------------------------------------------------------------
(* The list of free blocks.                                                  *)

\* What RemoveAt leaves of a list.
LEMMA Removed ==
    ASSUME NEW s \in Seq(Addresses), Sorted(s), NEW i \in 1 .. Len(s)
    PROVE  /\ RemoveAt(s, i) \in Seq(Addresses)
           /\ Len(RemoveAt(s, i)) = Len(s) - 1
           /\ \A k \in 1 .. Len(s) - 1 :
                RemoveAt(s, i)[k] = IF k < i THEN s[k] ELSE s[k + 1]
           /\ Sorted(RemoveAt(s, i))
           /\ ToSet(RemoveAt(s, i)) = ToSet(s) \ {s[i]}
<1> DEFINE f == SubSeq(s, 1, i - 1)
           g == SubSeq(s, i + 1, Len(s))
           t == RemoveAt(s, i)
<1>1. Len(s) \in Nat /\ DOMAIN s = 1 .. Len(s) /\ \A k \in 1 .. Len(s) : s[k] \in Addresses
      OBVIOUS
<1>2. f \in Seq(Addresses) /\ Len(f) = i - 1 /\ \A k \in 1 .. i - 1 : f[k] = s[k]
      BY <1>1, SubSeqProperties
<1>3. /\ g \in Seq(Addresses) /\ Len(g) = Len(s) - i
      /\ \A k \in 1 .. Len(s) - i : g[k] = s[k + i]
    <2>1. i + 1 \in Int /\ \A k \in i + 1 .. Len(s) : s[k] \in Addresses
          BY <1>1
    <2>2. /\ g \in Seq(Addresses)
          /\ \A k \in 1 .. Len(s) - (i + 1) + 1 : g[k] = s[(i + 1) + k - 1]
          BY <1>1, <2>1, SubSeqProperties
    <2>3. \A k \in 1 .. Len(s) - i :
             /\ k \in 1 .. Len(s) - (i + 1) + 1
             /\ (i + 1) + k - 1 = k + i
          BY <1>1
    <2>4. Len(g) = IF i + 1 <= Len(s) THEN Len(s) - (i + 1) + 1 ELSE 0
          BY <1>1, <2>1, SubSeqProperties
    <2> HIDE DEF g
    <2>5. Len(g) = Len(s) - i
        <3>1. i \in Int /\ Len(s) \in Int /\ i <= Len(s)
              BY <1>1
        <3>2. CASE i + 1 <= Len(s)
              BY <2>4, <3>1, <3>2
        <3>3. CASE i = Len(s)
              BY <2>4, <3>1, <3>3
        <3> QED BY <3>1, <3>2, <3>3
    <2> QED BY <2>2, <2>3, <2>5
<1>4. t = f \o g
      BY DEF RemoveAt
<1> HIDE DEF f, g, t
<1>5. /\ t \in Seq(Addresses) /\ Len(t) = Len(f) + Len(g)
      /\ \A k \in 1 .. Len(f) + Len(g) :
            t[k] = IF k <= Len(f) THEN f[k] ELSE g[k - Len(f)]
      BY <1>2, <1>3, <1>4, ConcatProperties
<1>6. Len(t) = Len(s) - 1 /\ DOMAIN t = 1 .. Len(s) - 1
      BY <1>1, <1>2, <1>3, <1>5
<1>7. ASSUME NEW k \in 1 .. Len(s) - 1
      PROVE  t[k] = IF k < i THEN s[k] ELSE s[k + 1]
    <2>1. CASE k < i
        <3>1. k \in 1 .. i - 1 /\ k \in 1 .. Len(f) + Len(g) /\ k <= Len(f)
              BY <1>1, <1>2, <1>3, <2>1
        <3> QED BY <1>2, <1>5, <2>1, <3>1
    <2>2. CASE ~ (k < i)
        <3>1. t[k] = g[k - Len(f)]
            <4>1. k \in 1 .. Len(f) + Len(g) /\ ~ (k <= Len(f))
                  BY <1>1, <1>2, <1>3, <2>2
            <4> QED BY <1>5, <4>1
        <3>2. k - Len(f) \in 1 .. Len(s) - i /\ (k - Len(f)) + i = k + 1
              BY <1>1, <1>2, <2>2
        <3>3. g[k - Len(f)] = s[(k - Len(f)) + i]
              BY <1>3, <3>2
        <3> QED BY <2>2, <3>1, <3>2, <3>3
    <2> QED BY <2>1, <2>2
<1>8. \A k, l \in 1 .. Len(s) : k < l => s[k] < s[l]
      BY <1>1 DEF Sorted
<1>9. \A k \in 1 .. Len(s) : s[k] \in Int
      BY <1>1, Layout DEF Addresses
<1>10. Sorted(t)
    <2>1. ASSUME NEW k \in 1 .. Len(s) - 1, NEW l \in 1 .. Len(s) - 1, k < l
          PROVE  t[k] < t[l]
        <3>1. PICK k1 \in {k, k + 1} : t[k] = s[k1] /\ (k1 = k <=> k < i)
              BY <1>7
        <3>2. PICK l1 \in {l, l + 1} : t[l] = s[l1] /\ (l1 = l <=> l < i)
              BY <1>7
        <3>3. k1 \in 1 .. Len(s) /\ l1 \in 1 .. Len(s) /\ k1 < l1
              BY <1>1, <2>1, <3>1, <3>2
        <3> QED BY <1>8, <3>1, <3>2, <3>3
    <2> QED BY <1>6, <2>1 DEF Sorted
<1>11. ASSUME NEW x PROVE x \in ToSet(t) <=> x \in ToSet(s) /\ x # s[i]
    <2>1. ASSUME x \in ToSet(t) PROVE x \in ToSet(s) /\ x # s[i]
        <3>1. PICK k \in 1 .. Len(s) - 1 : x = t[k]
              BY <1>6, <2>1 DEF ToSet
        <3>2. PICK k1 \in 1 .. Len(s) : x = s[k1] /\ k1 # i
              BY <1>1, <1>7, <3>1
        <3>3. s[k1] # s[i]
              BY <1>8, <1>9, <3>2
        <3> QED BY <1>1, <3>2, <3>3 DEF ToSet
    <2>2. ASSUME x \in ToSet(s), x # s[i] PROVE x \in ToSet(t)
        <3>1. PICK k \in 1 .. Len(s) : x = s[k] /\ k # i
              BY <1>1, <2>2 DEF ToSet
        <3>2. CASE k < i
            <4>1. k \in 1 .. Len(s) - 1 /\ t[k] = x
                  BY <1>1, <1>7, <3>1, <3>2
            <4> QED BY <1>6, <4>1 DEF ToSet
        <3>3. CASE i < k
            <4>1. k - 1 \in 1 .. Len(s) - 1 /\ (k - 1) + 1 = k /\ ~ (k - 1 < i)
                  BY <1>1, <3>3
            <4>2. t[k - 1] = x
                  BY <1>7, <3>1, <4>1
            <4> QED BY <1>6, <4>1, <4>2 DEF ToSet
        <3> QED BY <3>1, <3>2, <3>3
    <2> QED BY <2>1, <2>2
<1>12. ToSet(t) = ToSet(s) \ {s[i]}
      BY <1>11
<1> QED BY <1>5, <1>6, <1>7, <1>10, <1>12 DEF t

\* What follows a block on the list.
LEMMA RestOfList ==
    ASSUME NEW s \in Seq(Addresses), Sorted(s), NEW i \in 1 .. Len(s)
    PROVE  LET t == SubSeq(s, i + 1, Len(s))
           IN  /\ t \in Seq(Addresses) /\ Sorted(t)
               /\ ToSet(t) \subseteq ToSet(s) \ {s[i]}
<1> DEFINE t == SubSeq(s, i + 1, Len(s))
<1>1. /\ Len(s) \in Nat /\ DOMAIN s = 1 .. Len(s) /\ i + 1 \in Int
      /\ \A k \in 1 .. Len(s) : s[k] \in Addresses
      OBVIOUS
<1>2. \A k \in i + 1 .. Len(s) : s[k] \in Addresses
      BY <1>1
<1>3. /\ t \in Seq(Addresses)
      /\ \A k \in 1 .. Len(s) - (i + 1) + 1 : t[k] = s[(i + 1) + k - 1]
      BY <1>1, <1>2, SubSeqProperties
<1>4. Len(t) = IF i + 1 <= Len(s) THEN Len(s) - (i + 1) + 1 ELSE 0
      BY <1>1, <1>2, SubSeqProperties
<1> HIDE DEF t
<1>5. DOMAIN t = 1 .. Len(s) - i
    <2>1. i \in Int /\ Len(s) \in Int /\ i <= Len(s) /\ DOMAIN t = 1 .. Len(t)
          BY <1>1, <1>3
    <2>2. CASE i + 1 <= Len(s)
          BY <1>4, <2>1, <2>2
    <2>3. CASE i = Len(s)
          BY <1>4, <2>1, <2>3
    <2> QED BY <2>1, <2>2, <2>3
<1>6. ASSUME NEW k \in 1 .. Len(s) - i
      PROVE  k + i \in 1 .. Len(s) /\ i < k + i /\ t[k] = s[k + i]
    <2>1. /\ k \in 1 .. Len(s) - (i + 1) + 1 /\ (i + 1) + k - 1 = k + i
          /\ k + i \in 1 .. Len(s) /\ i < k + i
          BY <1>1
    <2> QED BY <1>3, <2>1
<1>7. \A k, l \in 1 .. Len(s) : k < l => s[k] < s[l]
      BY <1>1 DEF Sorted
<1>8. \A k \in 1 .. Len(s) : s[k] \in Int
      BY <1>1 DEF Addresses
<1>9. Sorted(t)
    <2>1. ASSUME NEW k \in 1 .. Len(s) - i, NEW l \in 1 .. Len(s) - i, k < l
          PROVE  t[k] < t[l]
        <3>1. k + i < l + i
              BY <1>1, <2>1
        <3> QED BY <1>6, <1>7, <3>1
    <2> QED BY <1>5, <2>1 DEF Sorted
<1>10. ASSUME NEW x \in ToSet(t) PROVE x \in ToSet(s) /\ x # s[i]
    <2>1. PICK k \in 1 .. Len(s) - i : x = t[k]
          BY <1>5 DEF ToSet
    <2>2. x = s[k + i] /\ k + i \in 1 .. Len(s) /\ s[i] < s[k + i]
          BY <1>6, <1>7, <2>1
    <2> QED BY <1>1, <1>8, <2>2 DEF ToSet
<1> QED BY <1>3, <1>9, <1>10 DEF t

\* Place is where a block belongs: those in front are below it, the others
\* are not.
LEMMA PlaceSplits ==
    ASSUME NEW s \in Seq(Addresses), Sorted(s), NEW a \in Addresses
    PROVE  /\ Place(s, a) \in 1 .. Len(s) + 1
           /\ \A k \in 1 .. Len(s) : k < Place(s, a) <=> s[k] < a
<1> DEFINE below == {k \in DOMAIN s : s[k] < a}
           rest  == {k \in 1 .. Len(s) + 1 : k \notin below}
<1>1. /\ Len(s) \in Nat /\ DOMAIN s = 1 .. Len(s)
      /\ \A k \in 1 .. Len(s) : s[k] \in Int
      /\ a \in Int
      BY Layout DEF Addresses
<1>2. \A k, l \in 1 .. Len(s) : k < l => s[k] < s[l]
      BY <1>1 DEF Sorted
<1>3. Len(s) + 1 \in rest /\ rest \subseteq Nat
      BY <1>1
<1>4. PICK m \in rest : \A k \in rest : m <= k
      BY <1>3, LeastNat
<1>5. below = 1 .. m - 1
    <2>1. ASSUME NEW k \in 1 .. m - 1 PROVE k \in below
        <3>1. k \in 1 .. Len(s) + 1 /\ ~ (m <= k)
              BY <1>1, <1>4
        <3> QED BY <1>4, <3>1
    <2>2. ASSUME NEW k \in below PROVE k \in 1 .. m - 1
        <3>1. k \in 1 .. Len(s) /\ s[k] < a
              BY <1>1
        <3>2. k < m
            <4>1. SUFFICES ASSUME ~ (k < m) PROVE FALSE
                  OBVIOUS
            <4>2. m \in 1 .. Len(s) /\ m <= k
                  BY <1>1, <1>4, <3>1, <4>1
            <4>3. s[m] <= s[k]
                  BY <1>1, <1>2, <3>1, <4>2
            <4>4. m \in below
                  BY <1>1, <3>1, <4>2, <4>3
            <4> QED BY <1>4, <4>4
        <3> QED BY <1>1, <1>4, <3>1, <3>2
    <2> QED BY <2>1, <2>2
<1>6. m \in 1 .. Len(s) + 1
      BY <1>4
<1>7. Place(s, a) = 1 + Cardinality(below)
      BY DEF Place
<1>8. \A k \in 1 .. Len(s) : k \in below <=> s[k] < a
      BY <1>1
<1> HIDE DEF below, rest
<1>9. Cardinality(1 .. m - 1) = m - 1
      BY <1>1, <1>6, FS_Interval
<1>10. Place(s, a) = m
      BY <1>1, <1>5, <1>6, <1>7, <1>9
<1> QED BY <1>1, <1>5, <1>6, <1>8, <1>10

\* A block that is put at its place keeps the list in order.
LEMMA Inserted ==
    ASSUME NEW s \in Seq(Addresses), Sorted(s), NEW a \in Addresses,
           a \notin ToSet(s)
    PROVE  LET t == InsertAt(s, Place(s, a), a)
           IN  t \in Seq(Addresses) /\ Sorted(t) /\ ToSet(t) = ToSet(s) \cup {a}
<1> DEFINE m == Place(s, a)
           t == InsertAt(s, m, a)
           f == SubSeq(s, 1, m - 1)
           g == SubSeq(s, m, Len(s))
           h == f \o <<a>>
<1>1. /\ Len(s) \in Nat /\ DOMAIN s = 1 .. Len(s)
      /\ \A k \in 1 .. Len(s) : s[k] \in Addresses
      OBVIOUS
<1>2. /\ m \in 1 .. Len(s) + 1
      /\ \A k \in 1 .. Len(s) : k < m <=> s[k] < a
      BY PlaceSplits
<1> HIDE DEF m
<1>3. f \in Seq(Addresses) /\ Len(f) = m - 1 /\ \A k \in 1 .. m - 1 : f[k] = s[k]
      BY <1>1, <1>2, SubSeqProperties
<1>4. /\ g \in Seq(Addresses) /\ Len(g) = Len(s) - m + 1
      /\ \A k \in 1 .. Len(s) - m + 1 : g[k] = s[m + k - 1]
      BY <1>1, <1>2, SubSeqProperties
<1>5. t = h \o g
      BY DEF InsertAt
<1> HIDE DEF f, g, t
<1>6. /\ h \in Seq(Addresses) /\ Len(h) = m
      /\ h[m] = a /\ \A k \in 1 .. m - 1 : h[k] = s[k]
      BY <1>1, <1>2, <1>3
<1> HIDE DEF h
<1>7. /\ t \in Seq(Addresses) /\ Len(t) = Len(h) + Len(g)
      /\ \A k \in 1 .. Len(h) + Len(g) :
            t[k] = IF k <= Len(h) THEN h[k] ELSE g[k - Len(h)]
      BY <1>4, <1>5, <1>6, ConcatProperties
<1>8. Len(t) = Len(s) + 1 /\ DOMAIN t = 1 .. Len(s) + 1
      BY <1>1, <1>2, <1>4, <1>6, <1>7
<1>9. ASSUME NEW k \in 1 .. Len(s) + 1
      PROVE  t[k] = IF k < m THEN s[k] ELSE IF k = m THEN a ELSE s[k - 1]
    <2>1. CASE k <= m
          BY <1>1, <1>2, <1>4, <1>6, <1>7, <2>1
    <2>2. CASE ~ (k <= m)
        <3>1. t[k] = g[k - m]
              BY <1>1, <1>2, <1>4, <1>6, <1>7, <2>2
        <3>2. k - m \in 1 .. Len(s) - m + 1 /\ m + (k - m) - 1 = k - 1
              BY <1>1, <1>2, <2>2
        <3> QED BY <1>2, <1>4, <2>2, <3>1, <3>2
    <2> QED BY <2>1, <2>2
<1>10. \A k, l \in 1 .. Len(s) : k < l => s[k] < s[l]
      BY <1>1 DEF Sorted
<1>11. /\ a \in Int /\ \A k \in 1 .. Len(s) : s[k] \in Int /\ s[k] # a
      BY <1>1, Layout DEF Addresses, ToSet
<1>12. Sorted(t)
    <2>1. ASSUME NEW k \in 1 .. Len(s) + 1, NEW l \in 1 .. Len(s) + 1, k < l
          PROVE  t[k] < t[l]
        <3>1. CASE k # m /\ l # m
            <4>1. PICK k1 \in {k, k - 1} : t[k] = s[k1] /\ (k1 = k <=> k < m)
                  BY <1>9, <3>1
            <4>2. PICK l1 \in {l, l - 1} : t[l] = s[l1] /\ (l1 = l <=> l < m)
                  BY <1>9, <3>1
            <4>3. k1 \in 1 .. Len(s) /\ l1 \in 1 .. Len(s) /\ k1 < l1
                  BY <1>1, <1>2, <2>1, <3>1, <4>1, <4>2
            <4> QED BY <1>10, <4>1, <4>2, <4>3
        <3>2. CASE k = m
            <4>1. t[k] = a /\ t[l] = s[l - 1] /\ l - 1 \in 1 .. Len(s) /\ ~ (l - 1 < m)
                  BY <1>1, <1>2, <1>9, <2>1, <3>2
            <4> QED BY <1>2, <1>11, <4>1
        <3>3. CASE l = m
            <4>1. t[l] = a /\ t[k] = s[k] /\ k \in 1 .. Len(s) /\ k < m
                  BY <1>1, <1>2, <1>9, <2>1, <3>3
            <4> QED BY <1>2, <1>11, <4>1
        <3> QED BY <3>1, <3>2, <3>3
    <2> QED BY <1>8, <2>1 DEF Sorted
<1>13. ASSUME NEW x PROVE x \in ToSet(t) <=> x \in ToSet(s) \/ x = a
    <2>1. ASSUME x \in ToSet(t) PROVE x \in ToSet(s) \/ x = a
        <3>1. PICK k \in 1 .. Len(s) + 1 : x = t[k]
              BY <1>8, <2>1 DEF ToSet
        <3>2. CASE k < m
              BY <1>1, <1>2, <1>9, <3>1, <3>2 DEF ToSet
        <3>3. CASE k > m
            <4>1. k - 1 \in 1 .. Len(s) /\ x = s[k - 1]
                  BY <1>1, <1>2, <1>9, <3>1, <3>3
            <4> QED BY <1>1, <4>1 DEF ToSet
        <3>4. CASE k = m
              BY <1>9, <3>1, <3>4
        <3> QED BY <1>2, <3>2, <3>3, <3>4
    <2>2. ASSUME x = a PROVE x \in ToSet(t)
        <3>1. m \in 1 .. Len(s) + 1 /\ t[m] = a
              BY <1>2, <1>9
        <3> QED BY <1>8, <2>2, <3>1 DEF ToSet
    <2>3. ASSUME x \in ToSet(s) PROVE x \in ToSet(t)
        <3>1. PICK k \in 1 .. Len(s) : x = s[k]
              BY <1>1, <2>3 DEF ToSet
        <3>2. CASE k < m
            <4>1. k \in 1 .. Len(s) + 1 /\ t[k] = x
                  BY <1>1, <1>9, <3>1, <3>2
            <4> QED BY <1>8, <4>1 DEF ToSet
        <3>3. CASE ~ (k < m)
            <4>1. /\ k + 1 \in 1 .. Len(s) + 1 /\ ~ (k + 1 < m) /\ k + 1 # m
                  /\ (k + 1) - 1 = k
                  BY <1>1, <1>2, <3>3
            <4>2. t[k + 1] = x
                  BY <1>9, <3>1, <4>1
            <4> QED BY <1>8, <4>1, <4>2 DEF ToSet
        <3> QED BY <3>2, <3>3
    <2> QED BY <2>1, <2>2, <2>3
<1>14. ToSet(t) = ToSet(s) \cup {a}
      BY <1>13
<1> QED BY <1>7, <1>12, <1>14 DEF t, m

-----------------------------------------------------------------------------
(* Blocks and pages of a heap.                                               *)

\* The block that spans page p begins behind its control block.
LEMMA FirstOfPage ==
    ASSUME NEW p \in PageIds
    PROVE  /\ FirstBlock(p) \in Addresses /\ Page(FirstBlock(p)) = p
           /\ FirstBlock(p) \in Nat /\ PageEnd(p) \in Nat
           /\ FirstBlock(p) + AllocHeader + WholePage = PageEnd(p)
           /\ PageEnd(p) <= NumPages * PageSize
           /\ \A q \in PageIds : p < q => PageEnd(p) < FirstBlock(q)
<1>1. /\ p * PageSize \in Nat /\ PageEnd(p) \in Nat
      /\ PageEnd(p) <= NumPages * PageSize
      /\ \A q \in PageIds : p < q => PageEnd(p) <= q * PageSize
      BY PagesFollow
<1>2. /\ FirstBlock(p) = p * PageSize + ControlBlock
      /\ PageEnd(p) = p * PageSize + PageSize
      BY DEF FirstBlock, PageEnd
<1>3. FirstBlock(p) \in Nat /\ FirstBlock(p) + AllocHeader + WholePage = PageEnd(p)
      BY <1>1, <1>2, Layout
<1>4. p * PageSize <= FirstBlock(p) /\ FirstBlock(p) < PageEnd(p)
      BY <1>1, <1>2, <1>3, Layout
<1>5. Page(FirstBlock(p)) = p
      BY <1>3, <1>4, PageOf DEF PageIds
<1>6. FirstBlock(p) \in Addresses
      BY <1>1, <1>3, <1>4, Layout DEF Addresses
<1>7. ASSUME NEW q \in PageIds, p < q
      PROVE  PageEnd(p) < FirstBlock(q)
    <2>1. PageEnd(p) <= q * PageSize /\ q * PageSize \in Nat
          BY <1>1, <1>7, PagesFollow
    <2> QED BY <1>1, <2>1, Layout DEF FirstBlock
<1> QED BY <1>1, <1>3, <1>5, <1>6, <1>7

\* The numbers that describe a block.
LEMMA BlockNumbers ==
    ASSUME NEW h, IsHeap(h), NEW a \in DOMAIN h.size
    PROVE  /\ a \in Nat /\ a \in Addresses
           /\ h.size[a] \in Nat /\ h.size[a] >= 1 /\ h.size[a] <= WholePage
           /\ EndIn(h, a) \in Nat
           /\ EndIn(h, a) = a + AllocHeader + h.size[a]
           /\ a < EndIn(h, a)
<1>1. a \in Addresses /\ h.size[a] \in 1 .. WholePage
      BY DEF IsHeap
<1>2. a \in Nat
      BY <1>1 DEF Addresses
<1> QED BY <1>1, <1>2, Layout DEF EndIn

\* A block lies in a page in use, and another block of the heap lies behind
\* its end or ends at its beginning or in front of it.
LEMMA BlockInPage ==
    ASSUME NEW h, IsHeap(h), Tiled(h), NEW a \in DOMAIN h.size
    PROVE  /\ Page(a) \in PageIds /\ Page(a) \in Held(h.stack)
           /\ FirstBlock(Page(a)) \in Nat /\ PageEnd(Page(a)) \in Nat
           /\ FirstBlock(Page(a)) \in DOMAIN h.size
           /\ FirstBlock(Page(a)) <= a /\ EndIn(h, a) <= PageEnd(Page(a))
           /\ \A x \in Nat : a <= x /\ x < PageEnd(Page(a)) => Page(x) = Page(a)
<1>1. Inside(h, a)
      BY DEF Tiled
<1>2. Page(a) \in PageIds /\ Page(a) \in Held(h.stack)
      BY <1>1 DEF Inside, Held
<1>3. ASSUME NEW x \in Nat, a <= x, x < PageEnd(Page(a))
      PROVE  Page(x) = Page(a)
    <2>1. a \in Nat /\ Page(a) * PageSize \in Nat /\ Page(a) \in Nat
          BY <1>2, BlockNumbers, PagesFollow DEF PageIds
    <2>2. Page(a) * PageSize <= a
          BY <2>1, PageOf
    <2>3. Page(a) * PageSize <= x
          BY <1>3, <2>1, <2>2
    <2> QED BY <1>3, <2>1, <2>3, PageOf
<1> QED BY <1>1, <1>2, <1>3, FirstOfPage DEF Inside, Tiled

\* Blocks of different pages are apart.
LEMMA PagesApart ==
    ASSUME NEW h, IsHeap(h), Tiled(h),
           NEW a \in DOMAIN h.size, NEW b \in DOMAIN h.size, Page(a) # Page(b)
    PROVE  EndIn(h, a) # b /\ (a < b => EndIn(h, a) < FirstBlock(Page(b)))
<1>1. /\ Page(a) \in PageIds /\ Page(b) \in PageIds
      /\ EndIn(h, a) <= PageEnd(Page(a)) /\ EndIn(h, b) <= PageEnd(Page(b))
      /\ FirstBlock(Page(a)) <= a /\ FirstBlock(Page(b)) <= b
      BY BlockInPage
<1>2. /\ a \in Nat /\ b \in Nat /\ EndIn(h, a) \in Nat /\ EndIn(h, b) \in Nat
      /\ a < EndIn(h, a) /\ b < EndIn(h, b)
      BY BlockNumbers
<1>3. /\ PageEnd(Page(a)) \in Nat /\ PageEnd(Page(b)) \in Nat
      /\ FirstBlock(Page(a)) \in Nat /\ FirstBlock(Page(b)) \in Nat
      /\ Page(a) \in Nat /\ Page(b) \in Nat
      BY <1>1, FirstOfPage DEF PageIds
<1>4. CASE Page(a) < Page(b)
    <2>1. PageEnd(Page(a)) < FirstBlock(Page(b))
          BY <1>1, <1>4, FirstOfPage
    <2> QED BY <1>1, <1>2, <1>3, <2>1
<1>5. CASE Page(b) < Page(a)
    <2>1. PageEnd(Page(b)) < FirstBlock(Page(a))
          BY <1>1, <1>5, FirstOfPage
    <2> QED BY <1>1, <1>2, <1>3, <2>1
<1> QED BY <1>3, <1>4, <1>5

\* A block that spans its page is the only one there.
LEMMA SpanningAlone ==
    ASSUME NEW h, IsHeap(h), Tiled(h), NEW a \in DOMAIN h.size, SpansPage(h, a)
    PROVE  /\ a = FirstBlock(Page(a))
           /\ \A b \in DOMAIN h.size \ {a} : Page(b) # Page(a)
           /\ \A b \in DOMAIN h.size : EndIn(h, b) # a /\ EndIn(h, a) # b
<1>1. /\ Page(a) \in PageIds /\ EndIn(h, a) <= PageEnd(Page(a))
      /\ FirstBlock(Page(a)) <= a
      /\ PageEnd(Page(a)) \in Nat /\ FirstBlock(Page(a)) \in Nat
      BY BlockInPage
<1>2. /\ a \in Nat /\ EndIn(h, a) = a + AllocHeader + WholePage
      BY BlockNumbers DEF SpansPage
<1>3. a = FirstBlock(Page(a)) /\ EndIn(h, a) = PageEnd(Page(a))
    <2>1. FirstBlock(Page(a)) + AllocHeader + WholePage = PageEnd(Page(a))
          BY <1>1, FirstOfPage
    <2> QED BY <1>1, <1>2, <2>1, Layout
<1>4. ASSUME NEW b \in DOMAIN h.size, b # a PROVE Page(b) # Page(a)
    <2>1. SUFFICES ASSUME Page(b) = Page(a) PROVE FALSE
          OBVIOUS
    <2>2. /\ b \in Nat /\ EndIn(h, b) \in Nat /\ b < EndIn(h, b)
          /\ FirstBlock(Page(a)) <= b /\ EndIn(h, b) <= PageEnd(Page(a))
          BY <2>1, BlockNumbers, BlockInPage
    <2>3. CASE a < b
        <3>1. EndIn(h, a) <= b
              BY <2>3 DEF Tiled
        <3> QED BY <1>1, <1>3, <2>2, <3>1
    <2>4. CASE b < a
          BY <1>1, <1>2, <1>3, <2>2, <2>4
    <2> QED BY <1>2, <1>4, <2>2, <2>3, <2>4
<1>5. ASSUME NEW b \in DOMAIN h.size PROVE EndIn(h, b) # a /\ EndIn(h, a) # b
    <2>1. CASE b = a
          BY <2>1, BlockNumbers
    <2>2. CASE b # a
          BY <1>4, <2>2, PagesApart
    <2> QED BY <2>1, <2>2
<1> QED BY <1>3, <1>4, <1>5

-----------------------------------------------------------------------------
(* Heaps that differ in a few blocks.                                        *)

\* A new page with one block that spans it.
LEMMA PageTiles ==
    ASSUME NEW h, NEW g, IsHeap(h), IsHeap(g), Tiled(h),
           NEW p \in PageIds \ Held(h.stack),
           Held(g.stack) = Held(h.stack) \cup {p},
           DOMAIN g.size = DOMAIN h.size \cup {FirstBlock(p)},
           g.size[FirstBlock(p)] = WholePage,
           \A b \in DOMAIN h.size : g.size[b] = h.size[b]
    PROVE  /\ Tiled(g)
           /\ FirstBlock(p) \notin DOMAIN h.size
           /\ \A b \in DOMAIN h.size :
                /\ EndIn(g, b) = EndIn(h, b)
                /\ EndIn(g, b) # FirstBlock(p) /\ EndIn(g, FirstBlock(p)) # b
<1> DEFINE x == FirstBlock(p)
<1>1. /\ x \in Nat /\ Page(x) = p /\ PageEnd(p) \in Nat
      /\ x + AllocHeader + WholePage = PageEnd(p)
      BY FirstOfPage
<1>2. \A b \in DOMAIN h.size : Page(b) # p /\ Page(b) \in PageIds
      BY BlockInPage
<1>3. x \notin DOMAIN h.size
      BY <1>1, <1>2
<1>4. EndIn(g, x) = PageEnd(p)
      BY <1>1 DEF EndIn
<1>5. \A b \in DOMAIN h.size : EndIn(g, b) = EndIn(h, b)
      BY DEF EndIn
<1>6. ASSUME NEW b \in DOMAIN h.size
      PROVE  /\ b < x => EndIn(h, b) < x
             /\ x < b => PageEnd(p) < b
             /\ EndIn(h, b) # x /\ PageEnd(p) # b
    <2>1. /\ Page(b) \in PageIds /\ Page(b) # p
          /\ FirstBlock(Page(b)) <= b /\ EndIn(h, b) <= PageEnd(Page(b))
          /\ PageEnd(Page(b)) \in Nat /\ FirstBlock(Page(b)) \in Nat
          BY <1>2, BlockInPage
    <2>2. b \in Nat /\ EndIn(h, b) \in Nat /\ b < EndIn(h, b)
          BY BlockNumbers
    <2>3. Page(b) \in Nat /\ p \in Nat /\ x < PageEnd(p)
          BY <1>1, <2>1, Layout DEF PageIds
    <2>4. CASE Page(b) < p
        <3>1. PageEnd(Page(b)) < x
              BY <2>1, <2>4, FirstOfPage
        <3> QED BY <1>1, <2>1, <2>2, <2>3, <3>1
    <2>5. CASE p < Page(b)
        <3>1. PageEnd(p) < FirstBlock(Page(b))
              BY <2>1, <2>5, FirstOfPage
        <3> QED BY <1>1, <2>1, <2>2, <2>3, <3>1
    <2> QED BY <2>1, <2>3, <2>4, <2>5
<1> HIDE DEF x
<1>7. \A q \in Held(g.stack) : FirstBlock(q) \in DOMAIN g.size
      BY DEF Tiled, x
<1>8. Inside(g, x)
      BY <1>1, <1>4 DEF Inside, x
<1>9. \A b \in DOMAIN h.size : Inside(g, b)
      BY <1>5 DEF Tiled, Inside
<1>10. ASSUME NEW b \in DOMAIN g.size, NEW c \in DOMAIN g.size, b < c
       PROVE  EndIn(g, b) <= c
    <2>1. CASE b = x
        <3>1. c \in DOMAIN h.size /\ c \in Nat
              BY <1>1, <1>10, <2>1, BlockNumbers DEF x
        <3> QED BY <1>1, <1>4, <1>6, <1>10, <2>1, <3>1
    <2>2. CASE b # x /\ c = x
        <3>1. b \in DOMAIN h.size /\ EndIn(h, b) \in Nat
              BY <2>2, BlockNumbers DEF x
        <3> QED BY <1>1, <1>5, <1>6, <1>10, <2>2, <3>1
    <2>3. CASE b # x /\ c # x
        <3>1. b \in DOMAIN h.size /\ c \in DOMAIN h.size
              BY <2>3 DEF x
        <3> QED BY <1>5, <1>10, <3>1 DEF Tiled
    <2> QED BY <2>1, <2>2, <2>3
<1>11. Tiled(g)
      BY <1>7, <1>8, <1>9, <1>10 DEF Tiled, x
<1> QED BY <1>3, <1>4, <1>5, <1>6, <1>11 DEF x

\* A block that is split in two.
LEMMA SplitTiles ==
    ASSUME NEW h, NEW g, IsHeap(h), IsHeap(g), Tiled(h),
           NEW a \in DOMAIN h.size, NEW n \in Nat,
           n >= 1, n + AllocHeader < h.size[a],
           g.stack = h.stack,
           DOMAIN g.size = DOMAIN h.size \cup {a + AllocHeader + n},
           g.size[a] = n,
           g.size[a + AllocHeader + n] = h.size[a] - AllocHeader - n,
           \A b \in DOMAIN h.size \ {a} : g.size[b] = h.size[b]
    PROVE  /\ Tiled(g)
           /\ Page(a + AllocHeader + n) = Page(a)
           /\ EndIn(g, a + AllocHeader + n) = EndIn(h, a)
           /\ EndIn(g, a) = a + AllocHeader + n
           /\ \A b \in DOMAIN h.size \ {a} :
                /\ EndIn(g, b) = EndIn(h, b)
                /\ EndIn(g, b) # a + AllocHeader + n
<1> DEFINE x == a + AllocHeader + n
<1>1. /\ a \in Nat /\ h.size[a] \in Nat /\ EndIn(h, a) \in Nat
      /\ EndIn(h, a) = a + AllocHeader + h.size[a]
      BY BlockNumbers
<1>2. x \in Nat /\ a < x /\ x < EndIn(h, a)
      BY <1>1, Layout
<1>3. EndIn(g, a) = x /\ EndIn(g, x) = EndIn(h, a)
      BY <1>1, Layout DEF EndIn
<1>4. \A b \in DOMAIN h.size \ {a} : EndIn(g, b) = EndIn(h, b)
      BY DEF EndIn
<1>5. /\ Page(a) \in PageIds /\ Page(a) \in Held(h.stack)
      /\ FirstBlock(Page(a)) \in Nat /\ PageEnd(Page(a)) \in Nat
      /\ FirstBlock(Page(a)) <= a /\ EndIn(h, a) <= PageEnd(Page(a))
      BY BlockInPage
<1>6. Page(x) = Page(a)
      BY <1>1, <1>2, <1>5, BlockInPage
<1>7. ASSUME NEW b \in DOMAIN h.size, b # a
      PROVE  /\ b < x => EndIn(h, b) <= a
             /\ x <= b => EndIn(h, a) <= b
             /\ b \in Nat /\ EndIn(h, b) \in Nat /\ b < EndIn(h, b)
    <2>1. b \in Nat /\ EndIn(h, b) \in Nat /\ b < EndIn(h, b)
          BY BlockNumbers
    <2>2. (a < b => EndIn(h, a) <= b) /\ (b < a => EndIn(h, b) <= a)
          BY DEF Tiled
    <2> QED BY <1>1, <1>2, <1>7, <2>1, <2>2
<1> HIDE DEF x
<1>8. x \notin DOMAIN h.size
      BY <1>1, <1>2, <1>7
<1>9. DOMAIN g.size = DOMAIN h.size \cup {x}
      BY DEF x
<1>10. Inside(g, a) /\ Inside(g, x)
    <2>1. FirstBlock(Page(a)) <= x /\ x <= PageEnd(Page(a))
          BY <1>1, <1>2, <1>5
    <2>2. EndIn(h, a) \in DOMAIN h.size \/ EndIn(h, a) = PageEnd(Page(a))
          BY DEF Tiled, Inside
    <2> QED BY <1>3, <1>5, <1>6, <1>9, <2>1, <2>2 DEF Inside
<1>11. \A b \in DOMAIN h.size \ {a} : Inside(g, b)
      BY <1>4, <1>9 DEF Tiled, Inside
<1>12. ASSUME NEW b \in DOMAIN g.size, NEW c \in DOMAIN g.size, b < c
       PROVE  EndIn(g, b) <= c
    <2>1. CASE b = x
        <3>1. c \in DOMAIN h.size /\ c # a
              BY <1>1, <1>2, <1>9, <1>12, <2>1
        <3> QED BY <1>2, <1>3, <1>7, <1>12, <2>1, <3>1
    <2>2. CASE b = a /\ c # x
        <3>1. c \in DOMAIN h.size /\ c # a
              BY <1>1, <1>9, <1>12, <2>2
        <3>2. EndIn(h, a) <= c
              BY <1>12, <2>2, <3>1 DEF Tiled
        <3> QED BY <1>1, <1>2, <1>3, <1>7, <2>2, <3>1, <3>2
    <2>3. CASE c = x
        <3>1. b = a => EndIn(g, b) <= c
              BY <1>2, <1>3, <2>3
        <3>2. b # a => b \in DOMAIN h.size /\ b # a
              BY <1>2, <1>9, <1>12, <2>3
        <3> QED BY <1>1, <1>2, <1>4, <1>7, <1>12, <2>3, <3>1, <3>2
    <2>4. CASE b # x /\ c # x /\ b # a
        <3>1. b \in DOMAIN h.size \ {a} /\ c \in DOMAIN h.size
              BY <1>9, <2>4
        <3> QED BY <1>4, <1>12, <3>1 DEF Tiled
    <2> QED BY <2>1, <2>2, <2>3, <2>4
<1>13. Tiled(g)
    <2>1. \A p \in Held(g.stack) : FirstBlock(p) \in DOMAIN g.size
          BY <1>9 DEF Tiled
    <2> QED BY <1>9, <1>10, <1>11, <1>12, <2>1 DEF Tiled
<1>14. \A b \in DOMAIN h.size \ {a} : EndIn(g, b) # x
    <2>1. ASSUME NEW b \in DOMAIN h.size, b # a PROVE EndIn(h, b) # x
          BY <1>1, <1>2, <1>7, <2>1
    <2> QED BY <1>4, <2>1
<1> QED BY <1>3, <1>4, <1>6, <1>13, <1>14 DEF x

\* Two blocks of a page that touch, made one.
LEMMA MergeTiles ==
    ASSUME NEW h, NEW g, IsHeap(h), Tiled(h),
           NEW a \in DOMAIN h.size, NEW b \in DOMAIN h.size,
           EndIn(h, a) = b, Page(a) = Page(b),
           g.stack = h.stack,
           DOMAIN g.size = DOMAIN h.size \ {b},
           g.size[a] = h.size[a] + AllocHeader + h.size[b],
           \A c \in DOMAIN h.size \ {a, b} : g.size[c] = h.size[c]
    PROVE  /\ Tiled(g)
           /\ g.size[a] \in 1 .. WholePage
           /\ EndIn(g, a) = EndIn(h, b)
           /\ \A c \in DOMAIN h.size \ {a, b} : EndIn(g, c) = EndIn(h, c)
<1>1. /\ a \in Nat /\ h.size[a] \in Nat /\ h.size[a] >= 1
      /\ EndIn(h, a) = a + AllocHeader + h.size[a] /\ a < b
      /\ b \in Nat /\ h.size[b] \in Nat /\ EndIn(h, b) \in Nat
      /\ EndIn(h, b) = b + AllocHeader + h.size[b]
      BY BlockNumbers
<1>2. EndIn(g, a) = EndIn(h, b)
      BY <1>1, Layout DEF EndIn
<1>3. \A c \in DOMAIN h.size \ {a, b} : EndIn(g, c) = EndIn(h, c)
      BY DEF EndIn
<1>4. /\ Page(a) \in PageIds /\ Page(a) \in Held(h.stack)
      /\ FirstBlock(Page(a)) \in Nat /\ PageEnd(Page(a)) \in Nat
      /\ FirstBlock(Page(a)) <= a /\ EndIn(h, b) <= PageEnd(Page(a))
      BY BlockInPage
<1>5. g.size[a] \in 1 .. WholePage
    <2>1. FirstBlock(Page(a)) + AllocHeader + WholePage = PageEnd(Page(a))
          BY <1>4, FirstOfPage
    <2>2. a + AllocHeader + g.size[a] = EndIn(h, b)
          BY <1>1, Layout
    <2>3. g.size[a] \in Nat /\ g.size[a] >= 1
          BY <1>1, Layout
    <2> QED BY <1>1, <1>4, <2>1, <2>2, <2>3, Layout
<1>6. ASSUME NEW c \in DOMAIN h.size, c # a PROVE EndIn(h, c) # b
    <2>1. /\ c \in Nat /\ EndIn(h, c) \in Nat /\ c < EndIn(h, c)
          /\ c < a => EndIn(h, c) <= a
          /\ a < c => EndIn(h, a) <= c
          BY BlockNumbers DEF Tiled
    <2> QED BY <1>1, <1>6, <2>1
<1>7. \A p \in Held(g.stack) : FirstBlock(p) \in DOMAIN g.size
    <2>1. ASSUME NEW p \in Held(h.stack) PROVE FirstBlock(p) # b
        <3>1. SUFFICES ASSUME FirstBlock(p) = b PROVE FALSE
              OBVIOUS
        <3>2. p \in PageIds
              BY DEF Held
        <3>3. Page(b) = p
              BY <3>1, <3>2, FirstOfPage
        <3> QED BY <1>1, <1>4, <3>1, <3>3
    <2> QED BY <2>1 DEF Tiled
<1>8. Inside(g, a)
    <2>1. Inside(h, b)
          BY DEF Tiled
    <2>2. EndIn(h, b) # b
          BY <1>1, Layout
    <2> QED BY <1>2, <1>4, <2>1, <2>2 DEF Inside
<1>9. \A c \in DOMAIN h.size \ {a, b} : Inside(g, c)
      BY <1>3, <1>6 DEF Tiled, Inside
<1>10. ASSUME NEW c \in DOMAIN g.size, NEW d \in DOMAIN g.size, c < d
       PROVE  EndIn(g, c) <= d
    <2>1. CASE c = a
        <3>1. d \in DOMAIN h.size /\ d # b /\ d \in Nat
              BY <1>10, BlockNumbers
        <3>2. EndIn(h, a) <= d
              BY <1>10, <2>1, <3>1 DEF Tiled
        <3>3. b < d
              BY <1>1, <3>1, <3>2
        <3> QED BY <1>2, <2>1, <3>1, <3>3 DEF Tiled
    <2>2. CASE c # a
        <3>1. c \in DOMAIN h.size \ {a, b} /\ d \in DOMAIN h.size
              BY <2>2
        <3> QED BY <1>3, <1>10, <3>1 DEF Tiled
    <2> QED BY <2>1, <2>2
<1>11. Tiled(g)
      BY <1>7, <1>8, <1>9, <1>10 DEF Tiled
<1> QED BY <1>2, <1>3, <1>5, <1>11

\* A page given back with the block that spans it.
LEMMA ReleaseTiles ==
    ASSUME NEW h, NEW g, IsHeap(h), Tiled(h),
           NEW a \in DOMAIN h.size, SpansPage(h, a),
           Held(g.stack) = Held(h.stack) \ {Page(a)},
           DOMAIN g.size = DOMAIN h.size \ {a},
           \A b \in DOMAIN h.size \ {a} : g.size[b] = h.size[b]
    PROVE  /\ Tiled(g)
           /\ \A b \in DOMAIN h.size \ {a} : EndIn(g, b) = EndIn(h, b)
<1>1. /\ a = FirstBlock(Page(a))
      /\ \A b \in DOMAIN h.size \ {a} : Page(b) # Page(a)
      /\ \A b \in DOMAIN h.size : EndIn(h, b) # a
      BY SpanningAlone
<1>2. \A b \in DOMAIN h.size \ {a} : EndIn(g, b) = EndIn(h, b)
      BY DEF EndIn
<1>3. \A p \in Held(g.stack) : FirstBlock(p) \in DOMAIN g.size
    <2>1. ASSUME NEW p \in Held(h.stack), p # Page(a) PROVE FirstBlock(p) # a
        <3>1. p \in PageIds
              BY DEF Held
        <3> QED BY <2>1, <3>1, FirstOfPage
    <2> QED BY <2>1 DEF Tiled
<1>4. \A b \in DOMAIN h.size \ {a} : Inside(g, b)
      BY <1>1, <1>2 DEF Tiled, Inside
<1>5. \A b, c \in DOMAIN h.size \ {a} : b < c => EndIn(g, b) <= c
      BY <1>2 DEF Tiled
<1> QED BY <1>2, <1>3, <1>4, <1>5 DEF Tiled

-----------------------------------------------------------------------------
(* What the steps of kma_malloc and kma_free make of a heap.                 *)

\* Insert puts a block on the list, new or not, and changes no other.
LEMMA InsertEffect ==
    ASSUME NEW h, IsHeap(h), Listed(h), NEW a \in Addresses,
           a \notin ToSet(h.list), NEW n \in 1 .. WholePage
    PROVE  /\ IsHeap(Insert(h, a, n)) /\ Listed(Insert(h, a, n))
           /\ Insert(h, a, n).stack = h.stack /\ Insert(h, a, n).root = h.root
           /\ DOMAIN Insert(h, a, n).size = DOMAIN h.size \cup {a}
           /\ Insert(h, a, n).size[a] = n
           /\ \A b \in DOMAIN h.size \ {a} :
                Insert(h, a, n).size[b] = h.size[b]
           /\ ToSet(Insert(h, a, n).list) = ToSet(h.list) \cup {a}
<1> DEFINE list == InsertAt(h.list, Place(h.list, a), a)
           size == With(h.size, a, n)
           g    == Insert(h, a, n)
<1>1. /\ g.stack = h.stack /\ g.root = h.root /\ g.list = list /\ g.size = size
      /\ DOMAIN g = {"stack", "root", "list", "size"}
    <2>1. g = [h EXCEPT !.list = list, !.size = size]
          BY DEF Insert
    <2> HIDE DEF list, size, g
    <2> QED BY <2>1 DEF IsHeap
<1>2. list \in Seq(Addresses) /\ Sorted(list) /\ ToSet(list) = ToSet(h.list) \cup {a}
      BY Inserted DEF IsHeap, Listed
<1>3. /\ DOMAIN size = DOMAIN h.size \cup {a} /\ size[a] = n
      /\ \A b \in DOMAIN h.size \ {a} : size[b] = h.size[b]
      /\ size = [b \in DOMAIN size |-> size[b]]
      BY DEF With
<1> HIDE DEF list, size, g
<1>5. size \in [DOMAIN size -> 1 .. WholePage]
    <2>1. \A b \in DOMAIN size : size[b] \in 1 .. WholePage
          BY <1>3 DEF IsHeap
    <2> QED BY <1>3, <2>1
<1>6. IsHeap(g)
      BY <1>1, <1>2, <1>3, <1>5 DEF IsHeap
<1>7. Listed(g)
      BY <1>1, <1>2, <1>3 DEF Listed
<1> QED BY <1>1, <1>2, <1>3, <1>6, <1>7 DEF g

\* Merged takes the second of two neighbours off the list and its memory into
\* the first.
LEMMA MergeEffect ==
    ASSUME NEW h, Good(h), NEW i \in 1 .. Len(h.list), i + 1 \in 1 .. Len(h.list),
           Adjacent(h, h.list[i], h.list[i + 1])
    PROVE  LET a == h.list[i]
               b == h.list[i + 1]
           IN  /\ Good(Merged(h, i))
               /\ a \in DOMAIN h.size /\ b \in DOMAIN h.size /\ a # b
               /\ EndIn(h, a) = b
               /\ Merged(h, i).stack = h.stack /\ Merged(h, i).root = h.root
               /\ DOMAIN Merged(h, i).size = DOMAIN h.size \ {b}
               /\ EndIn(Merged(h, i), a) = EndIn(h, b)
               /\ \A c \in DOMAIN h.size \ {a, b} :
                    /\ EndIn(Merged(h, i), c) = EndIn(h, c)
                    /\ Merged(h, i).size[c] = h.size[c]
               /\ ToSet(Merged(h, i).list) = ToSet(h.list) \ {b}
<1> DEFINE a == h.list[i]
           b == h.list[i + 1]
           list == RemoveAt(h.list, i + 1)
           size == [x \in DOMAIN h.size \ {b} |->
                      IF x = a THEN Joint(h.size[a], h.size[b]) ELSE h.size[x]]
           g == Merged(h, i)
<1>1. /\ IsHeap(h) /\ Tiled(h) /\ Listed(h) /\ h.list \in Seq(Addresses)
      /\ Sorted(h.list)
      BY DEF Good, IsHeap, Listed
<1>2. a \in DOMAIN h.size /\ b \in DOMAIN h.size
      BY <1>1 DEF Listed, ToSet
<1>3. EndIn(h, a) = b /\ Page(a) = Page(b)
      BY DEF Adjacent, EndIn
<1>4. a # b
      BY <1>1, <1>2, <1>3, BlockNumbers
<1>5. /\ g.stack = h.stack /\ g.root = h.root /\ g.list = list /\ g.size = size
      /\ DOMAIN g = {"stack", "root", "list", "size"}
    <2>1. g = [h EXCEPT !.list = list, !.size = size]
          BY DEF Merged
    <2> HIDE DEF a, b, list, size, g
    <2> QED BY <1>1, <2>1 DEF IsHeap
<1>6. /\ list \in Seq(Addresses) /\ Sorted(list)
      /\ ToSet(list) = ToSet(h.list) \ {b}
      BY <1>1, Removed
<1>7. /\ DOMAIN size = DOMAIN h.size \ {b}
      /\ size[a] = h.size[a] + AllocHeader + h.size[b]
      /\ \A c \in DOMAIN h.size \ {a, b} : size[c] = h.size[c]
      /\ size = [c \in DOMAIN size |-> size[c]]
      BY <1>2, <1>4 DEF Joint
<1> HIDE DEF a, b, list, size, g
<1>8. /\ g.stack = h.stack
      /\ DOMAIN g.size = DOMAIN h.size \ {b}
      /\ g.size[a] = h.size[a] + AllocHeader + h.size[b]
      /\ \A c \in DOMAIN h.size \ {a, b} : g.size[c] = h.size[c]
      BY <1>5, <1>7
<1>9. /\ Tiled(g) /\ g.size[a] \in 1 .. WholePage
      /\ EndIn(g, a) = EndIn(h, b)
      /\ \A c \in DOMAIN h.size \ {a, b} : EndIn(g, c) = EndIn(h, c)
      BY <1>1, <1>2, <1>3, <1>8, MergeTiles
<1>10. size \in [DOMAIN size -> 1 .. WholePage]
    <2>1. \A c \in DOMAIN size : size[c] \in 1 .. WholePage
          BY <1>1, <1>5, <1>7, <1>9 DEF IsHeap
    <2> QED BY <1>7, <2>1
<1>11. IsHeap(g)
      BY <1>1, <1>5, <1>6, <1>7, <1>10 DEF IsHeap
<1>12. Listed(g)
      BY <1>1, <1>5, <1>6, <1>7 DEF Listed
<1> QED BY <1>2, <1>3, <1>4, <1>5, <1>6, <1>8, <1>9, <1>11, <1>12
        DEF Good, a, b, g

\* IndexOf finds a block that is on the list.
LEMMA IndexFinds ==
    ASSUME NEW h, IsHeap(h), NEW a \in ToSet(h.list)
    PROVE  IndexOf(h, a) \in 1 .. Len(h.list) /\ h.list[IndexOf(h, a)] = a
<1>1. \E i \in DOMAIN h.list : h.list[i] = a
      BY DEF ToSet
<1>2. IndexOf(h, a) \in DOMAIN h.list /\ h.list[IndexOf(h, a)] = a
      BY <1>1 DEF IndexOf
<1>3. DOMAIN h.list = 1 .. Len(h.list)
      BY DEF IsHeap
<1> QED BY <1>2, <1>3

\* Released takes a block that spans its page off the heap, and the page, even
\* when the list is cut because it was the root page.
LEMMA ReleaseEffect ==
    ASSUME NEW h, Good(h), NEW a \in ToSet(h.list), SpansPage(h, a)
    PROVE  /\ Good(Released(h, a))
           /\ DOMAIN Released(h, a).size = DOMAIN h.size \ {a}
           /\ \A b \in DOMAIN h.size \ {a} :
                /\ EndIn(Released(h, a), b) = EndIn(h, b)
                /\ Released(h, a).size[b] = h.size[b]
           /\ ToSet(Released(h, a).list) \subseteq ToSet(h.list) \ {a}
<1> DEFINE i    == IndexOf(h, a)
           size == [x \in DOMAIN h.size \ {a} |-> h.size[x]]
           g    == Released(h, a)
<1>1. /\ IsHeap(h) /\ Tiled(h) /\ Listed(h) /\ h.list \in Seq(Addresses)
      /\ Sorted(h.list) /\ a \in DOMAIN h.size
      BY DEF Good, IsHeap, Listed
<1>2. i \in 1 .. Len(h.list) /\ h.list[i] = a
      BY <1>1, IndexFinds
<1>3. Page(a) \in Held(h.stack)
      BY <1>1, BlockInPage
<1>4. /\ g.stack = AfterPut(h.stack, Page(a)) /\ g.size = size
      /\ \/ g.root = h.root
         \/ g.root = NoPage
         \/ i # Len(h.list) /\ g.root = Page(h.list[i + 1])
      /\ \/ g.list = RemoveAt(h.list, i)
         \/ g.list = SubSeq(h.list, i + 1, Len(h.list))
      /\ DOMAIN g = {"stack", "root", "list", "size"}
    <2> DEFINE cut  == h.root = Page(a)
               root == IF ~cut THEN h.root
                       ELSE IF i = Len(h.list) THEN NoPage
                       ELSE Page(h.list[i + 1])
               list == IF ~cut THEN RemoveAt(h.list, i)
                       ELSE SubSeq(h.list, i + 1, Len(h.list))
    <2>1. g = [stack |-> AfterPut(h.stack, Page(a)), root |-> root,
               list  |-> list, size |-> size]
          BY DEF Released
    <2>2. list = RemoveAt(h.list, i) \/ list = SubSeq(h.list, i + 1, Len(h.list))
          OBVIOUS
    <2>3. \/ root = h.root
          \/ root = NoPage
          \/ i # Len(h.list) /\ root = Page(h.list[i + 1])
          OBVIOUS
    <2> HIDE DEF root, list, size, g
    <2> QED BY <2>1, <2>2, <2>3
<1>5. /\ DOMAIN size = DOMAIN h.size \ {a}
      /\ \A b \in DOMAIN h.size \ {a} : size[b] = h.size[b]
      /\ size \in [DOMAIN size -> 1 .. WholePage]
      BY <1>1 DEF IsHeap
<1> HIDE DEF i, size, g
<1>6. /\ IsStack(g.stack)
      /\ Held(g.stack) = Held(h.stack) \ {Page(a)}
      BY <1>1, <1>3, <1>4, PutReturns DEF IsHeap
<1>7. g.root \in PageIds \cup {NoPage}
    <2>1. ASSUME i # Len(h.list) PROVE Page(h.list[i + 1]) \in PageIds
        <3>1. h.list[i + 1] \in DOMAIN h.size
              BY <1>1, <1>2, <2>1 DEF Listed, ToSet
        <3> QED BY <1>1, <3>1, BlockInPage
    <2> QED BY <1>1, <1>4, <2>1 DEF IsHeap
<1>8. /\ g.list \in Seq(Addresses) /\ Sorted(g.list)
      /\ ToSet(g.list) \subseteq ToSet(h.list) \ {a}
    <2>1. CASE g.list = RemoveAt(h.list, i)
          BY <1>1, <1>2, <2>1, Removed
    <2>2. CASE g.list = SubSeq(h.list, i + 1, Len(h.list))
          BY <1>1, <1>2, <2>2, RestOfList
    <2> QED BY <1>4, <2>1, <2>2
<1>9. /\ Tiled(g)
      /\ \A b \in DOMAIN h.size \ {a} : EndIn(g, b) = EndIn(h, b)
      BY <1>1, <1>4, <1>5, <1>6, ReleaseTiles
<1>10. IsHeap(g)
    <2>1. DOMAIN g.size \subseteq Addresses
          BY <1>1, <1>4, <1>5 DEF IsHeap
    <2>2. g.size \in [DOMAIN g.size -> 1 .. WholePage]
          BY <1>4, <1>5
    <2>3. DOMAIN g = {"stack", "root", "list", "size"}
          BY <1>4
    <2> QED BY <1>6, <1>7, <1>8, <2>1, <2>2, <2>3 DEF IsHeap
<1>11. Listed(g)
      BY <1>1, <1>4, <1>5, <1>8 DEF Listed
<1> QED BY <1>4, <1>5, <1>8, <1>9, <1>10, <1>11 DEF Good, g

-----------------------------------------------------------------------------
(* coalesce.                                                                 *)

\* A heap in which only the free block a may have something left to do, while
\* the client has the blocks of L.
Working(h, L, a) ==
    /\ Good(h)
    /\ a \in ToSet(h.list)
    /\ DOMAIN h.size = L \cup ToSet(h.list)
    /\ L \cap ToSet(h.list) = {}
    /\ Settled(h, DOMAIN h.size \ (L \cup {a}))

\* After one merge only the merged block may.
LEMMA MergeWorks ==
    ASSUME NEW h, NEW L, NEW a, Working(h, L, a),
           NEW i \in 1 .. Len(h.list), i + 1 \in 1 .. Len(h.list),
           Adjacent(h, h.list[i], h.list[i + 1]),
           a \in {h.list[i], h.list[i + 1]}
    PROVE  /\ Working(Merged(h, i), L, h.list[i])
           /\ DOMAIN Merged(h, i).size = DOMAIN h.size \ {h.list[i + 1]}
           /\ \A b \in L : Merged(h, i).size[b] = h.size[b]
<1> DEFINE x == h.list[i]
           y == h.list[i + 1]
           g == Merged(h, i)
<1>1. /\ Good(g)
      /\ x \in DOMAIN h.size /\ y \in DOMAIN h.size /\ x # y
      /\ DOMAIN g.size = DOMAIN h.size \ {y}
      /\ ToSet(g.list) = ToSet(h.list) \ {y}
      /\ \A c \in DOMAIN h.size \ {x, y} :
            EndIn(g, c) = EndIn(h, c) /\ g.size[c] = h.size[c]
      BY MergeEffect DEF Working
<1>2. x \in ToSet(h.list) /\ y \in ToSet(h.list)
      BY DEF ToSet, Working, Good, IsHeap
<1> HIDE DEF x, y, g
<1>3. a \in {x, y}
      BY DEF x, y
<1>4. x \notin L /\ y \notin L
      BY <1>2 DEF Working
<1>5. DOMAIN g.size = L \cup ToSet(g.list) /\ L \cap ToSet(g.list) = {}
      BY <1>1, <1>4 DEF Working
<1>6. Settled(g, DOMAIN g.size \ (L \cup {x}))
    <2>1. ASSUME NEW c \in DOMAIN g.size \ (L \cup {x}),
                 NEW d \in DOMAIN g.size \ (L \cup {x})
          PROVE  /\ ~SpansPage(g, c)
                 /\ EndIn(g, c) = d => Page(c) # Page(d)
        <3>1. /\ c \in DOMAIN h.size \ (L \cup {a}) /\ c \in DOMAIN h.size \ {x, y}
              /\ d \in DOMAIN h.size \ (L \cup {a}) /\ d \in DOMAIN h.size \ {x, y}
              BY <1>1, <1>3
        <3>2. EndIn(g, c) = EndIn(h, c) /\ g.size[c] = h.size[c]
              BY <1>1, <3>1
        <3> QED BY <3>1, <3>2 DEF Working, Settled, SpansPage
    <2> QED BY <2>1 DEF Settled
<1>7. Working(g, L, x)
      BY <1>1, <1>2, <1>5, <1>6 DEF Working
<1>8. \A b \in L : g.size[b] = h.size[b]
      BY <1>1, <1>4 DEF Working
<1> QED BY <1>1, <1>7, <1>8 DEF g, x, y

\* Merging with the block in front.
LEMMA PrevWorks ==
    ASSUME NEW h, NEW L, NEW a, Working(h, L, a)
    PROVE  LET i == IndexOf(h, a)
               merges == i > 1 /\ Adjacent(h, h.list[i - 1], a)
           IN  /\ Working(WithPrev(h, a), L, Survivor(h, a))
               /\ \A b \in L : WithPrev(h, a).size[b] = h.size[b]
               /\ merges => DOMAIN WithPrev(h, a).size = DOMAIN h.size \ {a}
               /\ ~merges => WithPrev(h, a) = h /\ Survivor(h, a) = a
<1> DEFINE i == IndexOf(h, a)
<1>1. i \in 1 .. Len(h.list) /\ h.list[i] = a
      BY IndexFinds DEF Working, Good
<1>2. CASE i > 1 /\ Adjacent(h, h.list[i - 1], a)
    <2>1. WithPrev(h, a) = Merged(h, i - 1) /\ Survivor(h, a) = h.list[i - 1]
          BY <1>2 DEF WithPrev, Survivor
    <2> HIDE DEF i
    <2>2. /\ i - 1 \in 1 .. Len(h.list) /\ (i - 1) + 1 \in 1 .. Len(h.list)
          /\ (i - 1) + 1 = i
          BY <1>1, <1>2
    <2> DEFINE k == i - 1
    <2>3. k \in 1 .. Len(h.list) /\ k + 1 \in 1 .. Len(h.list) /\ h.list[k + 1] = a
          BY <1>1, <2>2
    <2>4. Adjacent(h, h.list[k], h.list[k + 1])
          BY <1>2, <2>3
    <2> HIDE DEF k
    <2>5. /\ Working(Merged(h, k), L, h.list[k])
          /\ DOMAIN Merged(h, k).size = DOMAIN h.size \ {a}
          /\ \A b \in L : Merged(h, k).size[b] = h.size[b]
          BY <2>3, <2>4, MergeWorks
    <2> QED BY <1>2, <2>1, <2>5 DEF k, i
<1>3. CASE ~ (i > 1 /\ Adjacent(h, h.list[i - 1], a))
    <2>1. WithPrev(h, a) = h /\ Survivor(h, a) = a
          BY <1>3 DEF WithPrev, Survivor
    <2> QED BY <1>3, <2>1
<1> QED BY <1>2, <1>3

\* Merging with the block behind.
LEMMA NextWorks ==
    ASSUME NEW h, NEW L, NEW a, Working(h, L, a)
    PROVE  LET i == IndexOf(h, a)
               merges == i < Len(h.list) /\ Adjacent(h, a, h.list[i + 1])
           IN  /\ Working(WithNext(h, a), L, a)
               /\ \A b \in L : WithNext(h, a).size[b] = h.size[b]
               /\ DOMAIN WithNext(h, a).size \subseteq DOMAIN h.size
               /\ merges => DOMAIN WithNext(h, a).size # DOMAIN h.size
<1> DEFINE i == IndexOf(h, a)
<1>1. i \in 1 .. Len(h.list) /\ h.list[i] = a
      BY IndexFinds DEF Working, Good
<1>2. CASE i < Len(h.list) /\ Adjacent(h, a, h.list[i + 1])
    <2>1. WithNext(h, a) = Merged(h, i)
          BY <1>2 DEF WithNext
    <2> HIDE DEF i
    <2>2. i + 1 \in 1 .. Len(h.list) /\ Len(h.list) \in Nat
          BY <1>1, <1>2 DEF Working, Good, IsHeap
    <2>3. /\ Working(Merged(h, i), L, a)
          /\ DOMAIN Merged(h, i).size = DOMAIN h.size \ {h.list[i + 1]}
          /\ \A b \in L : Merged(h, i).size[b] = h.size[b]
          BY <1>1, <1>2, <2>2, MergeWorks
    <2>4. h.list[i + 1] \in DOMAIN h.size
          BY <2>2 DEF Working, Good, IsHeap, Listed, ToSet
    <2> QED BY <1>2, <2>1, <2>3, <2>4 DEF i
<1>3. CASE ~ (i < Len(h.list) /\ Adjacent(h, a, h.list[i + 1]))
    <2>1. WithNext(h, a) = h
          BY <1>3 DEF WithNext
    <2> QED BY <1>3, <2>1
<1> QED BY <1>2, <1>3

\* One activation of coalesce leaves the survivor to be looked at again; when
\* it changes nothing, the free blocks touch nowhere.
LEMMA CoalescedWorks ==
    ASSUME NEW h, NEW L, NEW a, Working(h, L, a)
    PROVE  /\ Working(Coalesced(h, a), L, Survivor(h, a))
           /\ \A b \in L : Coalesced(h, a).size[b] = h.size[b]
           /\ Coalesced(h, a) = h =>
                \A c, d \in DOMAIN h.size \ L :
                   EndIn(h, c) = d => Page(c) # Page(d)
<1> DEFINE i == IndexOf(h, a)
           g == WithPrev(h, a)
           s == Survivor(h, a)
           k == Coalesced(h, a)
           prev == i > 1 /\ Adjacent(h, h.list[i - 1], a)
           next == i < Len(h.list) /\ Adjacent(h, a, h.list[i + 1])
<1>1. /\ Working(g, L, s)
      /\ \A b \in L : g.size[b] = h.size[b]
      /\ prev => DOMAIN g.size = DOMAIN h.size \ {a}
      /\ ~prev => g = h /\ s = a
      BY PrevWorks
<1>2. k = WithNext(g, s)
      BY DEF Coalesced
<1>3. i \in 1 .. Len(h.list) /\ h.list[i] = a
      BY IndexFinds DEF Working, Good
<1>4. ASSUME prev PROVE k # h
    <2>1. DOMAIN k.size \subseteq DOMAIN g.size
          BY <1>1, <1>2, NextWorks
    <2>2. a \notin DOMAIN k.size
          BY <1>1, <1>4, <2>1
    <2>3. a \in DOMAIN h.size
          BY DEF Working
    <2> HIDE DEF k
    <2> QED BY <2>2, <2>3
<1>5. ASSUME ~prev, next PROVE k # h
    <2>1. k = WithNext(h, a)
          BY <1>1, <1>2, <1>5
    <2>2. DOMAIN k.size # DOMAIN h.size
          BY <1>5, <2>1, NextWorks
    <2> HIDE DEF k
    <2> QED BY <2>2
<1>6. Working(k, L, s) /\ \A b \in L : k.size[b] = h.size[b]
    <2> HIDE DEF g, s, k
    <2>1. Working(k, L, s) /\ \A b \in L : k.size[b] = g.size[b]
          BY <1>1, <1>2, NextWorks
    <2> QED BY <1>1, <2>1
<1> HIDE DEF i
<1>7. ASSUME ~prev, ~next,
             NEW c \in DOMAIN h.size \ L, NEW d \in DOMAIN h.size \ L,
             EndIn(h, c) = d, Page(c) = Page(d)
      PROVE  FALSE
    <2>1. /\ IsHeap(h) /\ Tiled(h) /\ Sorted(h.list) /\ h.list \in Seq(Addresses)
          /\ Len(h.list) \in Nat /\ DOMAIN h.list = 1 .. Len(h.list)
          /\ c \in ToSet(h.list) /\ d \in ToSet(h.list)
          BY <1>7 DEF Working, Good, Listed, IsHeap
    <2>2. PICK m \in 1 .. Len(h.list) : c = h.list[m]
          BY <2>1 DEF ToSet
    <2>3. PICK n \in 1 .. Len(h.list) : d = h.list[n]
          BY <2>1 DEF ToSet
    <2>4. c = a \/ d = a
          BY <1>7 DEF Working, Settled
    <2>5. \A p, q \in 1 .. Len(h.list) : p < q => h.list[p] < h.list[q]
          BY <2>1 DEF Sorted
    <2>6. \A p \in 1 .. Len(h.list) : h.list[p] \in DOMAIN h.size
          BY <2>1 DEF Working, Good, Listed, ToSet
    <2>7. \A p \in 1 .. Len(h.list) : h.list[p] \in Nat
          BY <2>1, <2>6, BlockNumbers
    <2>8. c < d /\ EndIn(h, c) = c + AllocHeader + h.size[c]
          BY <1>7, <2>1, BlockNumbers
    <2>9. m + 1 = n
        <3>1. m < n
            <4>1. SUFFICES ASSUME ~ (m < n) PROVE FALSE
                  OBVIOUS
            <4>2. n = m \/ n < m
                  BY <4>1
            <4>3. d <= c
                  BY <2>2, <2>3, <2>5, <2>7, <4>2
            <4> QED BY <2>2, <2>3, <2>7, <2>8, <4>3
        <3>2. ASSUME m + 1 < n PROVE FALSE
            <4>1. m + 1 \in 1 .. Len(h.list) /\ m < m + 1
                  BY <2>1, <3>2
            <4>2. c < h.list[m + 1] /\ h.list[m + 1] < d
                  BY <2>2, <2>3, <2>5, <3>2, <4>1
            <4>3. EndIn(h, c) <= h.list[m + 1]
                  BY <2>1, <2>6, <4>1, <4>2 DEF Tiled
            <4> QED BY <1>7, <2>3, <2>7, <4>1, <4>2, <4>3
        <3> QED BY <3>1, <3>2
    <2>10. Adjacent(h, c, d)
          BY <1>7, <2>8 DEF Adjacent
    <2>11. \A p \in 1 .. Len(h.list) : h.list[p] = a => p = i
        <3>1. \A p \in 1 .. Len(h.list) : p < i => h.list[p] < h.list[i]
              BY <1>3, <2>5
        <3>2. \A p \in 1 .. Len(h.list) : i < p => h.list[i] < h.list[p]
              BY <1>3, <2>5
        <3> QED BY <1>3, <2>7, <3>1, <3>2
    <2>12. CASE c = a
        <3>1. m = i
              BY <2>2, <2>11, <2>12
        <3>2. i + 1 = n
              BY <2>9, <3>1
        <3>3. h.list[i + 1] = d /\ i < Len(h.list)
              BY <1>3, <2>1, <2>3, <3>2
        <3> QED BY <1>7, <2>10, <2>12, <3>3
    <2>13. CASE d = a
        <3>1. n = i
              BY <2>3, <2>11, <2>13
        <3>2. i - 1 = m
              BY <2>9, <3>1
        <3>3. h.list[i - 1] = c /\ i > 1
              BY <1>3, <2>1, <2>2, <3>2
        <3> QED BY <1>7, <2>10, <2>13, <3>3
    <2> QED BY <2>4, <2>12, <2>13
<1>8. ASSUME k = h
      PROVE  \A c, d \in DOMAIN h.size \ L : EndIn(h, c) = d => Page(c) # Page(d)
    <2> HIDE DEF k
    <2> QED BY <1>4, <1>5, <1>7, <1>8
<1> QED BY <1>6, <1>8

-----------------------------------------------------------------------------
(* The actions.                                                              *)

\* Heaps with the same pages, blocks and sizes are tiled alike.
LEMMA SameTiles ==
    ASSUME NEW h, NEW g, Tiled(h), g.stack = h.stack,
           DOMAIN g.size = DOMAIN h.size,
           \A b \in DOMAIN h.size : g.size[b] = h.size[b]
    PROVE  Tiled(g) /\ \A b \in DOMAIN h.size : EndIn(g, b) = EndIn(h, b)
<1>1. \A b \in DOMAIN h.size : EndIn(g, b) = EndIn(h, b)
      BY DEF EndIn
<1> QED BY <1>1 DEF Tiled, Inside

\* The invariant holds at first: no page is in use.
LEMMA MapInit == Init => MapInv
<1> SUFFICES ASSUME Init PROVE MapInv
    OBVIOUS
<1>1. /\ heap.stack = Ascending /\ heap.root = NoPage /\ heap.list = <<>>
      /\ heap.size = <<>> /\ live = <<>> /\ pc = "idle" /\ hdr = 0
      /\ DOMAIN heap = {"stack", "root", "list", "size"}
      BY DEF Init
<1>2. Blocks = {} /\ Live = {} /\ ToSet(heap.list) = {}
      BY <1>1 DEF Blocks, Live, ToSet
<1>3. IsStack(heap.stack) /\ Held(heap.stack) = {}
      BY <1>1, NewPool DEF IsStack
<1>4. heap.list \in Seq(Addresses) /\ Sorted(heap.list)
      BY <1>1 DEF Sorted
<1>5. heap.size \in [DOMAIN heap.size -> 1 .. WholePage]
      BY <1>1
<1>6. Good(heap)
      BY <1>1, <1>2, <1>3, <1>4, <1>5
      DEF Good, IsHeap, Tiled, Listed, Blocks
<1>7. LiveInv
      BY <1>1, <1>2 DEF LiveInv, Live
<1>8. hdr \in Addresses
      BY <1>1, Layout DEF Addresses
<1>9. PcInv
      BY <1>1, <1>2, <1>8 DEF PcInv, Settled
<1> QED BY <1>6, <1>7, <1>9 DEF MapInv

\* coalesce keeps the invariant and lets the client's blocks alone.
LEMMA CoalesceStep ==
    ASSUME MapInv, coalesce
    PROVE  /\ MapInv'
           /\ live' = live /\ \A b \in Live : heap'.size[b] = heap.size[b]
<1>1. Working(heap, Live, hdr)
    <2>1. Live \cap ToSet(heap.list) = {}
          BY DEF MapInv, LiveInv
    <2> QED BY <2>1 DEF MapInv, PcInv, coalesce, Working, Blocks
<1>2. live' = live /\ Live' = Live
      BY DEF coalesce, Live
<1>3. /\ Working(Coalesced(heap, hdr), Live, Survivor(heap, hdr))
      /\ \A b \in Live : Coalesced(heap, hdr).size[b] = heap.size[b]
      /\ Coalesced(heap, hdr) = heap =>
            \A c, d \in DOMAIN heap.size \ Live :
               EndIn(heap, c) = d => Page(c) # Page(d)
      BY <1>1, CoalescedWorks
<1>4. \A b \in Live : b \in DOMAIN heap.size /\ live[b] <= heap.size[b]
      BY DEF MapInv, LiveInv, Blocks
<1>5. CASE heap' = Coalesced(heap, hdr) /\ hdr' = Survivor(heap, hdr) /\ pc' = pc
    <2>1. Working(heap', Live, hdr') /\ \A b \in Live : heap'.size[b] = heap.size[b]
          BY <1>3, <1>5
    <2>2. Good(heap')
          BY <2>1 DEF Working
    <2>3. LiveInv'
          BY <1>2, <1>4, <2>1 DEF MapInv, LiveInv, Live, Blocks, Working
    <2>4. pc' = "coalesce"
          BY <1>5 DEF coalesce
    <2>5. hdr' \in Addresses
          BY <2>1 DEF Working, Good, IsHeap, Listed
    <2>6. PcInv'
          BY <1>2, <2>1, <2>4, <2>5 DEF PcInv, Working, Blocks
    <2> QED BY <1>2, <2>1, <2>2, <2>3, <2>6 DEF MapInv
<1>6. CASE /\ Coalesced(heap, hdr) = heap /\ ~SpansPage(heap, hdr)
           /\ heap' = heap /\ pc' = "idle" /\ hdr' = 0
    <2>1. Settled(heap, Blocks \ Live)
          BY <1>1, <1>3, <1>6 DEF Settled, Working, Blocks
    <2>2. Good(heap') /\ LiveInv'
          BY <1>2, <1>6 DEF MapInv, LiveInv, Live, Blocks
    <2>3. hdr' \in Addresses
          BY <1>6, Layout DEF Addresses
    <2>4. PcInv'
          BY <1>2, <1>6, <2>1, <2>3 DEF PcInv, Blocks, Live
    <2> QED BY <1>2, <1>6, <2>2, <2>4 DEF MapInv
<1>7. CASE /\ Coalesced(heap, hdr) = heap /\ SpansPage(heap, hdr)
           /\ heap' = Released(heap, hdr) /\ pc' = "idle" /\ hdr' = 0
    <2>1. /\ Good(heap')
          /\ DOMAIN heap'.size = DOMAIN heap.size \ {hdr}
          /\ \A b \in DOMAIN heap.size \ {hdr} :
                EndIn(heap', b) = EndIn(heap, b) /\ heap'.size[b] = heap.size[b]
          /\ ToSet(heap'.list) \subseteq ToSet(heap.list) \ {hdr}
          BY <1>1, <1>7, ReleaseEffect DEF Working
    <2>2. hdr \notin Live
          BY <1>1 DEF Working
    <2>3. \A b \in Live : heap'.size[b] = heap.size[b]
          BY <1>4, <2>1, <2>2
    <2>4. LiveInv'
          BY <1>2, <1>4, <2>1, <2>2, <2>3 DEF MapInv, LiveInv, Live, Blocks
    <2>5. Settled(heap', DOMAIN heap'.size \ Live)
        <3>1. ASSUME NEW c \in DOMAIN heap'.size \ Live,
                     NEW d \in DOMAIN heap'.size \ Live
              PROVE  ~SpansPage(heap', c) /\ (EndIn(heap', c) = d => Page(c) # Page(d))
            <4>1. /\ c \in DOMAIN heap.size \ (Live \cup {hdr})
                  /\ d \in DOMAIN heap.size \ (Live \cup {hdr})
                  BY <2>1
            <4> QED BY <1>1, <2>1, <4>1 DEF Working, Settled, SpansPage
        <3> QED BY <3>1 DEF Settled
    <2>6. hdr' \in Addresses
          BY <1>7, Layout DEF Addresses
    <2>7. PcInv'
          BY <1>2, <1>7, <2>5, <2>6 DEF PcInv, Blocks
    <2> QED BY <1>2, <2>1, <2>3, <2>4, <2>7 DEF MapInv
<1> QED BY <1>5, <1>6, <1>7 DEF coalesce

\* kma_free keeps the invariant and the client's other blocks.
LEMMA FreeStep ==
    ASSUME MapInv, ~Orphaned, NEW a \in Live, kma_free(a)
    PROVE  /\ MapInv'
           /\ Live' = Live \ {a}
           /\ \A b \in Live' : live'[b] = live[b] /\ heap'.size[b] = heap.size[b]
<1>1. /\ pc = "idle" /\ pc' = "coalesce" /\ hdr' = a
      /\ heap' = Insert(heap, a, heap.size[a])
      /\ live' = [b \in Live \ {a} |-> live[b]]
      BY DEF kma_free
<1>2. /\ IsHeap(heap) /\ Tiled(heap) /\ Listed(heap)
      /\ a \in DOMAIN heap.size /\ a \notin ToSet(heap.list)
      /\ Blocks = Live \cup ToSet(heap.list)
      /\ Settled(heap, Blocks \ Live)
      BY <1>1 DEF MapInv, Good, LiveInv, PcInv, Orphaned, Blocks
<1>3. a \in Addresses /\ heap.size[a] \in 1 .. WholePage
      BY <1>2 DEF IsHeap
<1>4. /\ IsHeap(heap') /\ Listed(heap')
      /\ heap'.stack = heap.stack
      /\ DOMAIN heap'.size = DOMAIN heap.size
      /\ \A b \in DOMAIN heap.size : heap'.size[b] = heap.size[b]
      /\ ToSet(heap'.list) = ToSet(heap.list) \cup {a}
    <2> DEFINE n == heap.size[a]
    <2>1. n \in 1 .. WholePage /\ heap' = Insert(heap, a, n)
          BY <1>1, <1>3
    <2> HIDE DEF n
    <2>2. /\ IsHeap(heap') /\ Listed(heap')
          /\ heap'.stack = heap.stack
          /\ DOMAIN heap'.size = DOMAIN heap.size \cup {a}
          /\ heap'.size[a] = n
          /\ \A b \in DOMAIN heap.size \ {a} : heap'.size[b] = heap.size[b]
          /\ ToSet(heap'.list) = ToSet(heap.list) \cup {a}
          BY <1>2, <1>3, <2>1, InsertEffect
    <2> QED BY <1>2, <2>2 DEF n
<1>5. Tiled(heap') /\ \A b \in DOMAIN heap.size : EndIn(heap', b) = EndIn(heap, b)
      BY <1>2, <1>4, SameTiles
<1>6. Live' = Live \ {a} /\ \A b \in Live' : live'[b] = live[b]
      BY <1>1 DEF Live
<1>7. \A b \in Live : b \in DOMAIN heap.size
      BY DEF MapInv, LiveInv, Blocks
<1>8. LiveInv'
    <2>1. live' \in [Live' -> Sizes]
          BY <1>1, <1>6 DEF MapInv, LiveInv
    <2>2. Live' \subseteq DOMAIN heap'.size \ ToSet(heap'.list)
          BY <1>4, <1>6 DEF MapInv, LiveInv, Blocks
    <2>3. \A b \in Live' : live'[b] <= heap'.size[b]
          BY <1>4, <1>6, <1>7 DEF MapInv, LiveInv
    <2> QED BY <2>1, <2>2, <2>3 DEF LiveInv, Blocks
<1>9. Settled(heap', DOMAIN heap'.size \ (Live' \cup {a}))
    <2>1. DOMAIN heap'.size \ (Live' \cup {a}) = Blocks \ Live
          BY <1>2, <1>4, <1>6 DEF Blocks
    <2> QED BY <1>2, <1>4, <1>5, <2>1 DEF Settled, SpansPage, Blocks
<1>10. PcInv'
    <2>1. DOMAIN heap'.size = Live' \cup ToSet(heap'.list)
          BY <1>2, <1>4, <1>6 DEF Blocks
    <2> QED BY <1>1, <1>3, <1>4, <1>9, <2>1 DEF PcInv, Blocks
<1> QED BY <1>4, <1>5, <1>6, <1>7, <1>8, <1>10 DEF MapInv, Good

\* A heap in which nothing is left to do but, perhaps, to give away a block
\* that spans its page.
Quiet(h, L) ==
    /\ Good(h)
    /\ DOMAIN h.size = L \cup ToSet(h.list)
    /\ L \cap ToSet(h.list) = {}
    /\ \A c, d \in ToSet(h.list) : EndIn(h, c) = d => Page(c) # Page(d)

\* Where a block is split, no block begins yet.
LEMMA SplitFresh ==
    ASSUME NEW h, IsHeap(h), Tiled(h), NEW a \in DOMAIN h.size, NEW n \in Nat,
           n + AllocHeader < h.size[a]
    PROVE  a + AllocHeader + n \in Addresses \ DOMAIN h.size
<1> DEFINE x == a + AllocHeader + n
<1>1. /\ a \in Nat /\ h.size[a] \in Nat /\ EndIn(h, a) \in Nat
      /\ EndIn(h, a) = a + AllocHeader + h.size[a]
      BY BlockNumbers
<1>2. x \in Nat /\ a < x /\ x < EndIn(h, a)
      BY <1>1, Layout
<1>3. /\ Page(a) \in PageIds /\ EndIn(h, a) <= PageEnd(Page(a))
      /\ PageEnd(Page(a)) \in Nat /\ PageEnd(Page(a)) <= NumPages * PageSize
      BY BlockInPage, FirstOfPage
<1>4. NumPages * PageSize \in Nat
      BY Layout
<1> HIDE DEF x
<1>5. x \in Addresses
    <2>1. x < NumPages * PageSize
          BY <1>1, <1>2, <1>3, <1>4
    <2> QED BY <1>2, <1>4, <2>1 DEF Addresses
<1>6. x \notin DOMAIN h.size
    <2>1. ASSUME x \in DOMAIN h.size PROVE FALSE
        <3>1. EndIn(h, a) <= x
              BY <1>2, <2>1 DEF Tiled
        <3> QED BY <1>1, <1>2, <3>1
    <2> QED BY <2>1
<1> QED BY <1>5, <1>6 DEF x

\* The block at place i is large enough for n, and only it may span its page.
Chosen(h, i, n) ==
    /\ i \in 1 .. Len(h.list)
    /\ h.size[h.list[i]] >= n
    /\ \A c \in ToSet(h.list) : SpansPage(h, c) => c = h.list[i]

\* The heap g is what h becomes when its block a, at least n long, is given to
\* the client, who has the blocks L.
GivenTo(h, L, a, n, g) ==
    /\ Good(g)
    /\ a \in DOMAIN g.size /\ a \notin L /\ g.size[a] >= n
    /\ L \cup {a} \subseteq DOMAIN g.size \ ToSet(g.list)
    /\ \A b \in L : g.size[b] = h.size[b]
    /\ Settled(g, DOMAIN g.size \ (L \cup {a}))

\* The block that is given away is large enough, is on no list, and what is
\* left of it is a free block that touches no other.
LEMMA CarveEffect ==
    ASSUME NEW h, NEW L, NEW i, NEW n \in Nat, n >= 1, Quiet(h, L), Chosen(h, i, n)
    PROVE  GivenTo(h, L, h.list[i], n, Carved(h, i, n))
<1> SUFFICES LET a == h.list[i]
                 g == Carved(h, i, n)
             IN  /\ Good(g)
                 /\ a \in DOMAIN g.size /\ a \notin L /\ g.size[a] >= n
                 /\ L \cup {a} \subseteq DOMAIN g.size \ ToSet(g.list)
                 /\ \A b \in L : g.size[b] = h.size[b]
                 /\ Settled(g, DOMAIN g.size \ (L \cup {a}))
    BY DEF GivenTo
<1> DEFINE a     == h.list[i]
           given == Given(h.size[a], n)
           list  == RemoveAt(h.list, i)
           size  == [h.size EXCEPT ![a] = given]
           taken == [h EXCEPT !.list = list, !.size[a] = given]
           x     == a + AllocHeader + given
           rest  == h.size[a] - AllocHeader - given
           g     == Carved(h, i, n)
<1>1. /\ IsHeap(h) /\ Tiled(h) /\ Listed(h) /\ h.list \in Seq(Addresses)
      /\ Sorted(h.list) /\ DOMAIN h.list = 1 .. Len(h.list)
      /\ i \in 1 .. Len(h.list) /\ h.size[a] >= n
      /\ \A c \in ToSet(h.list) : SpansPage(h, c) => c = a
      BY DEF Quiet, Good, IsHeap, Listed, Chosen
<1>2. a \in ToSet(h.list) /\ a \in DOMAIN h.size /\ a \notin L
      BY <1>1 DEF ToSet, Listed, Quiet
<1>3. /\ a \in Nat /\ h.size[a] \in Nat /\ h.size[a] >= 1 /\ h.size[a] <= WholePage
      BY <1>1, <1>2, BlockNumbers
<1>4. /\ h.size[a] - n < FreeHeader => given = h.size[a]
      /\ ~ (h.size[a] - n < FreeHeader) => given = n /\ n + FreeHeader <= h.size[a]
      BY <1>3, Layout DEF Given
<1>5. g = IF given = h.size[a] THEN taken ELSE Insert(taken, x, rest)
      BY DEF Carved
<1>6. /\ taken.stack = h.stack /\ taken.root = h.root /\ taken.list = list
      /\ taken.size = size /\ DOMAIN taken = {"stack", "root", "list", "size"}
    <2> HIDE DEF a, given, list
    <2> QED BY <1>1 DEF IsHeap
<1>7. list \in Seq(Addresses) /\ Sorted(list) /\ ToSet(list) = ToSet(h.list) \ {a}
      BY <1>1, Removed
<1>8. given \in Nat /\ n <= given /\ given <= h.size[a]
      BY <1>1, <1>3, <1>4, Layout
<1>9. /\ DOMAIN size = DOMAIN h.size /\ size[a] = given
      /\ \A b \in DOMAIN h.size \ {a} : size[b] = h.size[b]
      /\ size \in [DOMAIN size -> 1 .. WholePage]
    <2> HIDE DEF a, given
    <2>1. given \in 1 .. WholePage
          BY <1>3, <1>8, Layout
    <2> QED BY <1>1, <1>2, <2>1 DEF IsHeap
<1> HIDE DEF a, given, list, size, taken, g
<1>10. IsHeap(taken) /\ Listed(taken)
      BY <1>1, <1>6, <1>7, <1>9 DEF IsHeap, Listed
<1>11. \A b \in L : b \in DOMAIN h.size \ {a} /\ b \notin ToSet(h.list)
      BY <1>2 DEF Quiet
<1>12. CASE h.size[a] - n < FreeHeader
    <2>1. given = h.size[a] /\ g = taken
          BY <1>4, <1>5, <1>12
    <2>2. /\ g.stack = h.stack /\ DOMAIN g.size = DOMAIN h.size
          /\ \A b \in DOMAIN h.size : g.size[b] = h.size[b]
          /\ ToSet(g.list) = ToSet(h.list) \ {a}
          BY <1>6, <1>7, <1>9, <2>1
    <2>3. Tiled(g) /\ \A b \in DOMAIN h.size : EndIn(g, b) = EndIn(h, b)
          BY <1>1, <2>2, SameTiles
    <2>4. Good(g)
          BY <1>10, <2>1, <2>3 DEF Good
    <2>5. Settled(g, DOMAIN g.size \ (L \cup {a}))
        <3>1. ASSUME NEW c \in DOMAIN g.size \ (L \cup {a}),
                     NEW d \in DOMAIN g.size \ (L \cup {a})
              PROVE  ~SpansPage(g, c) /\ (EndIn(g, c) = d => Page(c) # Page(d))
            <4>1. c \in ToSet(h.list) /\ d \in ToSet(h.list) /\ c # a
                  BY <2>2 DEF Quiet
            <4>2. c \in DOMAIN h.size
                  BY <2>2
            <4> QED BY <1>1, <2>2, <2>3, <4>1, <4>2 DEF Quiet, SpansPage, a
        <3> QED BY <3>1 DEF Settled
    <2>6. L \cup {a} \subseteq DOMAIN g.size \ ToSet(g.list)
          BY <1>2, <1>11, <2>2
    <2> QED BY <1>2, <1>8, <1>11, <2>1, <2>2, <2>4, <2>5, <2>6 DEF a, g
<1>13. CASE ~ (h.size[a] - n < FreeHeader)
    <2>1. /\ given = n /\ n + AllocHeader < h.size[a]
          /\ rest \in 1 .. WholePage /\ rest < WholePage
          /\ g = Insert(taken, x, rest)
        <3>1. given = n /\ n + FreeHeader <= h.size[a]
              BY <1>4, <1>13
        <3>2. n + AllocHeader < h.size[a] /\ given # h.size[a]
              BY <1>3, <3>1, Layout
        <3>3. rest = h.size[a] - AllocHeader - n
              BY <3>1
        <3> HIDE DEF rest
        <3>4. rest \in Nat /\ 1 <= rest /\ rest < WholePage
              BY <1>3, <3>2, <3>3, Layout
        <3> QED BY <1>5, <3>1, <3>2, <3>4, Layout DEF rest
    <2>2. x \in Addresses /\ x \notin DOMAIN h.size
          BY <1>1, <1>2, <2>1, SplitFresh
    <2> HIDE DEF x, rest
    <2>3. x \notin ToSet(taken.list)
          BY <1>1, <1>6, <1>7, <2>2 DEF Listed
    <2>4. /\ IsHeap(g) /\ Listed(g) /\ g.stack = h.stack
          /\ DOMAIN g.size = DOMAIN h.size \cup {x}
          /\ g.size[x] = rest /\ g.size[a] = n
          /\ \A b \in DOMAIN h.size \ {a} : g.size[b] = h.size[b]
          /\ ToSet(g.list) = (ToSet(h.list) \ {a}) \cup {x}
        <3>1. /\ IsHeap(g) /\ Listed(g) /\ g.stack = taken.stack
              /\ DOMAIN g.size = DOMAIN taken.size \cup {x}
              /\ g.size[x] = rest
              /\ \A b \in DOMAIN taken.size \ {x} : g.size[b] = taken.size[b]
              /\ ToSet(g.list) = ToSet(taken.list) \cup {x}
              BY <1>10, <2>1, <2>2, <2>3, InsertEffect
        <3> QED BY <1>2, <1>6, <1>7, <1>9, <2>1, <2>2, <3>1
    <2>5. /\ Tiled(g)
          /\ Page(x) = Page(a) /\ EndIn(g, x) = EndIn(h, a)
          /\ \A b \in DOMAIN h.size \ {a} :
                EndIn(g, b) = EndIn(h, b) /\ EndIn(g, b) # x
        <3>1. x = a + AllocHeader + n /\ rest = h.size[a] - AllocHeader - n
              BY <2>1 DEF x, rest
        <3> QED BY <1>1, <1>2, <2>1, <2>4, <3>1, SplitTiles
    <2>6. Settled(g, DOMAIN g.size \ (L \cup {a}))
        <3>1. ASSUME NEW c \in DOMAIN g.size \ (L \cup {a}),
                     NEW d \in DOMAIN g.size \ (L \cup {a})
              PROVE  ~SpansPage(g, c) /\ (EndIn(g, c) = d => Page(c) # Page(d))
            <4>1. /\ c # x => c \in ToSet(h.list) /\ c \in DOMAIN h.size \ {a}
                  /\ d # x => d \in ToSet(h.list)
                  BY <2>4 DEF Quiet
            <4>2. CASE c = x
                <5>1. ~SpansPage(g, c)
                      BY <2>1, <2>4, <4>2, Layout DEF SpansPage
                <5>2. d = x => EndIn(g, c) # d
                      BY <2>4, <4>2, BlockNumbers
                <5>3. d # x => (EndIn(h, a) = d => Page(a) # Page(d))
                      BY <1>2, <4>1 DEF Quiet
                <5> QED BY <2>5, <4>2, <5>1, <5>2, <5>3
            <4>3. CASE c # x
                <5>1. ~SpansPage(g, c)
                      BY <1>1, <2>4, <4>1, <4>3 DEF SpansPage, a
                <5>2. d # x => (EndIn(h, c) = d => Page(c) # Page(d))
                      BY <4>1, <4>3 DEF Quiet
                <5> QED BY <2>5, <4>1, <4>3, <5>1, <5>2
            <4> QED BY <4>2, <4>3
        <3> QED BY <3>1 DEF Settled
    <2>7. L \cup {a} \subseteq DOMAIN g.size \ ToSet(g.list)
          BY <1>2, <1>11, <2>2, <2>4
    <2>8. Good(g)
          BY <2>4, <2>5 DEF Good
    <2> QED BY <1>2, <1>11, <2>4, <2>6, <2>7, <2>8 DEF a, g
<1> QED BY <1>12, <1>13

\* A set of places that is not empty has a first one.
LEMMA MinIn ==
    ASSUME NEW S \in SUBSET Nat, S # {}
    PROVE  Min(S) \in S
<1>1. \E x \in S : \A y \in S : x <= y
      BY LeastNat
<1> QED BY <1>1 DEF Min

\* kma_malloc asks for enough, and never for more than a page holds.
LEMMA EnoughAsked ==
    ASSUME NEW n \in Sizes
    PROVE  LET m == Max({n, FreeHeader - AllocHeader})
           IN  m \in 1 .. WholePage /\ n <= m
<1> DEFINE o == FreeHeader - AllocHeader
           m == Max({n, o})
<1>1. n \in 1 .. WholePage /\ o \in 1 .. WholePage
      BY SizesAssumption, Layout
<1> HIDE DEF o
<1>2. \E x \in {n, o} : \A y \in {n, o} : x >= y
      BY <1>1, Layout
<1>3. m \in {n, o} /\ \A y \in {n, o} : m >= y
      BY <1>2 DEF Max
<1> QED BY <1>1, <1>3 DEF o

\* The heap g is h and one page more, all of it one free block.
OnePageMore(h, g) ==
    LET x == FirstBlock(Head(h.stack)) IN
    /\ h.stack # <<>> /\ g.stack = AfterGet(h.stack)
    /\ DOMAIN g.size = DOMAIN h.size \cup {x}
    /\ g.size[x] = WholePage
    /\ \A b \in DOMAIN h.size : g.size[b] = h.size[b]
    /\ ToSet(g.list) = ToSet(h.list) \cup {x}

\* Every free block of h is smaller than m, and smaller than a page.
TooSmall(h, m) == \A c \in ToSet(h.list) : ~SpansPage(h, c) /\ h.size[c] < m

\* With a new page there is exactly one block that fits.
LEMMA NewPageEffect ==
    ASSUME NEW h, NEW g, NEW L, NEW m \in 1 .. WholePage,
           Quiet(h, L), TooSmall(h, m), IsHeap(g), Listed(g), OnePageMore(h, g)
    PROVE  /\ Quiet(g, L)
           /\ \A b \in L : g.size[b] = h.size[b]
           /\ Fits(g, m) # {}
           /\ \A k \in Fits(g, m), c \in ToSet(g.list) :
                SpansPage(g, c) => c = g.list[k]
<1> DEFINE p == Head(h.stack)
           x == FirstBlock(p)
<1>1. /\ IsHeap(h) /\ Tiled(h) /\ Listed(h) /\ IsStack(h.stack)
      /\ h.stack # <<>> /\ g.stack = AfterGet(h.stack)
      /\ \A b \in DOMAIN h.size : g.size[b] = h.size[b]
      BY DEF Quiet, Good, IsHeap, OnePageMore
<1>2. p \in PageIds \ Held(h.stack) /\ Held(g.stack) = Held(h.stack) \cup {p}
      BY <1>1, GetHolds
<1>3. /\ DOMAIN g.size = DOMAIN h.size \cup {x} /\ g.size[x] = WholePage
      /\ ToSet(g.list) = ToSet(h.list) \cup {x}
      BY DEF OnePageMore
<1>4. /\ Tiled(g) /\ x \notin DOMAIN h.size
      /\ \A b \in DOMAIN h.size :
            /\ EndIn(g, b) = EndIn(h, b)
            /\ EndIn(g, b) # x /\ EndIn(g, x) # b
      BY <1>1, <1>2, <1>3, PageTiles
<1> HIDE DEF p, x
<1>5. \A c \in ToSet(h.list) : c \in DOMAIN h.size
      BY <1>1 DEF Listed
<1>6. ASSUME NEW c \in ToSet(g.list), NEW d \in ToSet(g.list), EndIn(g, c) = d
      PROVE  Page(c) # Page(d)
    <2>1. CASE c = x /\ d = x
        <3>1. x < EndIn(g, x) /\ x \in Nat
              BY <1>3, BlockNumbers
        <3> QED BY <1>6, <2>1, <3>1
    <2>2. CASE c = x /\ d # x
          BY <1>4, <1>3, <1>5, <1>6, <2>2
    <2>3. CASE c # x /\ d = x
          BY <1>4, <1>3, <1>5, <1>6, <2>3
    <2>4. CASE c # x /\ d # x
        <3>1. c \in ToSet(h.list) /\ d \in ToSet(h.list) /\ EndIn(h, c) = d
              BY <1>4, <1>3, <1>5, <1>6, <2>4
        <3> QED BY <3>1 DEF Quiet
    <2> QED BY <2>1, <2>2, <2>3, <2>4
<1>7. Quiet(g, L)
    <2>1. L \subseteq DOMAIN h.size
          BY DEF Quiet
    <2>2. DOMAIN g.size = L \cup ToSet(g.list) /\ L \cap ToSet(g.list) = {}
          BY <1>4, <1>3, <2>1 DEF Quiet
    <2> QED BY <1>4, <1>6, <2>2 DEF Quiet, Good
<1>8. \A b \in L : g.size[b] = h.size[b]
      BY <1>1 DEF Quiet
<1>9. DOMAIN g.list = 1 .. Len(g.list)
      BY DEF IsHeap
<1>10. Fits(g, m) # {}
    <2>1. PICK k \in DOMAIN g.list : g.list[k] = x
          BY <1>3 DEF ToSet
    <2>2. k \in Fits(g, m)
          BY <1>3, <2>1, Layout DEF Fits
    <2> QED BY <2>2
<1>11. \A k \in Fits(g, m) : g.list[k] = x
    <2>1. ASSUME NEW k \in DOMAIN g.list, g.size[g.list[k]] >= m, g.list[k] # x
          PROVE  FALSE
        <3>1. g.list[k] \in ToSet(h.list)
              BY <1>3, <2>1 DEF ToSet
        <3>2. /\ g.size[g.list[k]] = h.size[g.list[k]]
              /\ h.size[g.list[k]] < m /\ h.size[g.list[k]] \in Nat
              BY <1>1, <1>5, <3>1, BlockNumbers DEF TooSmall
        <3> QED BY <2>1, <3>2
    <2> QED BY <2>1 DEF Fits
<1>12. \A c \in ToSet(g.list) : SpansPage(g, c) => c = x
      BY <1>3, <1>5, <1>1 DEF SpansPage, TooSmall
<1> QED BY <1>7, <1>8, <1>10, <1>11, <1>12

\* What kma_malloc finds when it has seen to the root page and to room.
LEMMA RoomEffect ==
    ASSUME MapInv, ~Orphaned, pc = "idle", NEW m \in 1 .. WholePage,
           Fits(WithRoot(heap), m) # {} \/ WithRoot(heap).stack # <<>>
    PROVE  LET r == WithRoom(WithRoot(heap), m)
               i == Min(Fits(r, m))
           IN  /\ Quiet(r, Live)
               /\ \A b \in Live : r.size[b] = heap.size[b]
               /\ Chosen(r, i, m)
<1> DEFINE h == WithRoot(heap)
           r == WithRoom(h, m)
<1>1. /\ Good(heap) /\ Blocks = Live \cup ToSet(heap.list)
      /\ Live \cap ToSet(heap.list) = {}
      /\ Settled(heap, Blocks \ Live)
      BY DEF MapInv, LiveInv, PcInv, Orphaned
<1>2. ToSet(heap.list) = Blocks \ Live
      BY <1>1
<1>3. /\ Quiet(heap, Live)
      /\ \A c \in ToSet(heap.list) : ~SpansPage(heap, c)
      BY <1>1, <1>2 DEF Quiet, Settled, Blocks
<1>4. IsHeap(heap) /\ Tiled(heap) /\ Listed(heap) /\ IsStack(heap.stack)
      BY <1>1 DEF Good, IsHeap
<1>5. SUFFICES /\ Quiet(r, Live)
               /\ \A b \in Live : r.size[b] = heap.size[b]
               /\ Fits(r, m) # {}
               /\ \A k \in Fits(r, m), c \in ToSet(r.list) :
                     SpansPage(r, c) => c = r.list[k]
    <2> HIDE DEF r
    <2>1. DOMAIN r.list = 1 .. Len(r.list)
          BY <1>5 DEF Quiet, Good, IsHeap
    <2>2. Fits(r, m) \in SUBSET Nat
          BY <2>1 DEF Fits
    <2>3. Min(Fits(r, m)) \in Fits(r, m)
          BY <1>5, <2>2, MinIn
    <2>4. /\ Min(Fits(r, m)) \in 1 .. Len(r.list)
          /\ r.size[r.list[Min(Fits(r, m))]] >= m
          BY <2>1, <2>3 DEF Fits
    <2> QED BY <1>5, <2>3, <2>4 DEF r, Chosen
<1>6. CASE heap.root # NoPage /\ Fits(heap, m) # {}
    <2>1. r = heap
          BY <1>6 DEF WithRoot, WithRoom
    <2> QED BY <1>3, <1>6, <2>1
<1>7. CASE heap.root # NoPage /\ Fits(heap, m) = {}
    <2> DEFINE p == Head(heap.stack)
               k == [heap EXCEPT !.stack = AfterGet(heap.stack)]
    <2>1. h = heap
          BY <1>7 DEF WithRoot
    <2>2. r = Insert(k, FirstBlock(p), WholePage) /\ heap.stack # <<>>
          BY <1>7, <2>1 DEF WithRoom
    <2>3. /\ k.stack = AfterGet(heap.stack) /\ k.root = heap.root
          /\ k.list = heap.list /\ k.size = heap.size
          /\ DOMAIN k = {"stack", "root", "list", "size"}
          BY <1>4 DEF IsHeap
    <2>4. /\ p \in PageIds \ Held(heap.stack) /\ IsStack(AfterGet(heap.stack))
          BY <1>4, <2>2, GetHolds
    <2> HIDE DEF k, r, h
    <2>5. IsHeap(k) /\ Listed(k)
          BY <1>4, <2>3, <2>4 DEF IsHeap, Listed
    <2>6. FirstBlock(p) \in Addresses /\ FirstBlock(p) \notin DOMAIN heap.size
        <3>1. \A b \in DOMAIN heap.size : Page(b) # p
              BY <1>4, <2>4, BlockInPage
        <3> QED BY <2>4, <3>1, FirstOfPage
    <2>7. /\ IsHeap(r) /\ Listed(r) /\ r.stack = AfterGet(heap.stack)
          /\ DOMAIN r.size = DOMAIN heap.size \cup {FirstBlock(p)}
          /\ r.size[FirstBlock(p)] = WholePage
          /\ \A b \in DOMAIN heap.size : r.size[b] = heap.size[b]
          /\ ToSet(r.list) = ToSet(heap.list) \cup {FirstBlock(p)}
        <3>1. FirstBlock(p) \notin ToSet(k.list) /\ WholePage \in 1 .. WholePage
              BY <1>4, <2>3, <2>6, Layout DEF Listed
        <3>2. /\ IsHeap(r) /\ Listed(r) /\ r.stack = k.stack
              /\ DOMAIN r.size = DOMAIN k.size \cup {FirstBlock(p)}
              /\ r.size[FirstBlock(p)] = WholePage
              /\ \A b \in DOMAIN k.size \ {FirstBlock(p)} : r.size[b] = k.size[b]
              /\ ToSet(r.list) = ToSet(k.list) \cup {FirstBlock(p)}
              BY <2>2, <2>5, <2>6, <3>1, InsertEffect
        <3> QED BY <2>3, <2>6, <3>2
    <2>8. TooSmall(heap, m)
        <3>1. ASSUME NEW c \in ToSet(heap.list) PROVE heap.size[c] < m
            <4>1. PICK j \in DOMAIN heap.list : c = heap.list[j]
                  BY DEF ToSet
            <4>2. ~ (heap.size[c] >= m)
                  BY <1>7, <4>1 DEF Fits
            <4>3. heap.size[c] \in Nat
                  BY <1>4, BlockNumbers DEF Listed
            <4> QED BY <4>2, <4>3
        <3> QED BY <1>3, <3>1 DEF TooSmall
    <2>9. OnePageMore(heap, r)
          BY <2>2, <2>7 DEF OnePageMore
    <2> QED BY <1>3, <2>7, <2>8, <2>9, NewPageEffect
<1>8. CASE heap.root = NoPage
    <2> DEFINE p == Head(heap.stack)
               x == FirstBlock(p)
    <2>1. Blocks = {} /\ Live = {} /\ ToSet(heap.list) = {}
          BY <1>1, <1>8 DEF Orphaned
    <2>2. heap.stack # <<>>
        <3>1. Held(heap.stack) = {}
              BY <1>4, <2>1 DEF Tiled, Blocks
        <3>2. heap.stack = <<>> => Held(heap.stack) = PageIds
              BY DEF Held
        <3> QED BY <3>1, <3>2, Layout DEF PageIds
    <2>3. /\ p \in PageIds \ Held(heap.stack) /\ IsStack(AfterGet(heap.stack))
          BY <1>4, <2>2, GetHolds
    <2>4. /\ h.stack = AfterGet(heap.stack) /\ h.root = p /\ h.list = <<x>>
          /\ h.size = With(heap.size, x, WholePage)
          /\ DOMAIN h = {"stack", "root", "list", "size"}
          BY <1>8 DEF WithRoot
    <2>5. x \in Addresses
          BY <2>3, FirstOfPage
    <2> HIDE DEF x, h, r
    <2>6. DOMAIN h.size = {x} /\ h.size[x] = WholePage /\ h.size = [b \in {x} |-> WholePage]
          BY <2>1, <2>4 DEF With, Blocks
    <2>7. ToSet(h.list) = {x} /\ Sorted(h.list) /\ h.list \in Seq(Addresses)
          BY <2>4, <2>5 DEF ToSet, Sorted
    <2>8. IsHeap(h) /\ Listed(h)
        <3>1. h.size \in [DOMAIN h.size -> 1 .. WholePage]
              BY <2>6, Layout
        <3> QED BY <2>3, <2>4, <2>5, <2>6, <2>7, <3>1 DEF IsHeap, Listed
    <2>9. /\ Quiet(h, Live)
          /\ \A b \in Live : h.size[b] = heap.size[b]
          /\ Fits(h, m) # {}
          /\ \A k \in Fits(h, m), c \in ToSet(h.list) :
                SpansPage(h, c) => c = h.list[k]
        <3>1. OnePageMore(heap, h)
              BY <2>1, <2>2, <2>4, <2>6, <2>7 DEF OnePageMore, Blocks, x
        <3>2. TooSmall(heap, m)
              BY <2>1 DEF TooSmall
        <3> QED BY <1>3, <2>8, <3>1, <3>2, NewPageEffect
    <2>10. r = h
          BY <2>9 DEF WithRoom, r
    <2> QED BY <2>9, <2>10
<1> QED BY <1>6, <1>7, <1>8

\* kma_malloc keeps the invariant; unless it gives up, the client has one
\* block more, as large as it asked, and the others as before.
LEMMA MallocStep ==
    ASSUME MapInv, ~Orphaned, NEW n \in Sizes, kma_malloc(n)
    PROVE  /\ MapInv'
           /\ \/ UNCHANGED <<heap, live>>
              \/ \E a \in Live' \ Live :
                    /\ Live' = Live \cup {a}
                    /\ live'[a] = n
                    /\ \A b \in Live :
                          live'[b] = live[b] /\ heap'.size[b] = heap.size[b]
<1> DEFINE m == Max({n, FreeHeader - AllocHeader})
           h == WithRoot(heap)
           r == WithRoom(h, m)
           i == Min(Fits(r, m))
           a == r.list[i]
<1>1. m \in 1 .. WholePage /\ n <= m
      BY EnoughAsked
<1>2. pc = "idle" /\ hdr' = hdr
      BY DEF kma_malloc
<1>3. \/ pc' = "exited" /\ UNCHANGED <<heap, live>>
      \/ /\ Fits(h, m) # {} \/ h.stack # <<>>
         /\ heap' = Carved(r, i, m)
         /\ live' = With(live, a, n)
         /\ pc' = pc
      BY DEF kma_malloc
<1>4. CASE pc' = "exited" /\ UNCHANGED <<heap, live>>
      BY <1>2, <1>4 DEF MapInv, LiveInv, PcInv, Live, Blocks
<1>5. CASE /\ Fits(h, m) # {} \/ h.stack # <<>>
           /\ heap' = Carved(r, i, m)
           /\ live' = With(live, a, n)
           /\ pc' = pc
    <2>1. /\ Quiet(r, Live)
          /\ \A b \in Live : r.size[b] = heap.size[b]
          /\ Chosen(r, i, m)
        <3> HIDE DEF m
        <3> QED BY <1>1, <1>2, <1>5, RoomEffect
    <2> HIDE DEF r, m, h, i
    <2>2. /\ Good(heap')
          /\ a \in DOMAIN heap'.size /\ a \notin Live /\ heap'.size[a] >= m
          /\ Live \cup {a} \subseteq DOMAIN heap'.size \ ToSet(heap'.list)
          /\ \A b \in Live : heap'.size[b] = r.size[b]
          /\ Settled(heap', DOMAIN heap'.size \ (Live \cup {a}))
        <3>1. m \in Nat /\ m >= 1
              BY <1>1
        <3>2. GivenTo(r, Live, a, m, Carved(r, i, m))
              BY <2>1, <3>1, CarveEffect
        <3> HIDE DEF a
        <3> QED BY <1>5, <3>2 DEF GivenTo
    <2> HIDE DEF a
    <2>3. /\ Live' = Live \cup {a} /\ live'[a] = n
          /\ \A b \in Live : live'[b] = live[b]
          /\ live' = [b \in Live \cup {a} |-> live'[b]]
          BY <1>5, <2>2 DEF With, Live
    <2>4. n <= heap'.size[a]
        <3>1. heap'.size[a] \in Nat
              BY <2>2, BlockNumbers DEF Good
        <3> QED BY <1>1, <2>2, <3>1, Layout, SizesAssumption
    <2>5. LiveInv'
        <3>1. live' \in [Live' -> Sizes]
              BY <2>3 DEF MapInv, LiveInv
        <3>2. Live' \subseteq DOMAIN heap'.size \ ToSet(heap'.list)
              BY <2>2, <2>3
        <3>3. \A b \in Live' : live'[b] <= heap'.size[b]
              BY <2>1, <2>2, <2>3, <2>4 DEF MapInv, LiveInv
        <3> QED BY <3>1, <3>2, <3>3 DEF LiveInv, Blocks
    <2>6. PcInv'
          BY <1>2, <1>5, <2>2, <2>3 DEF MapInv, PcInv, Blocks
    <2>7. \A b \in Live : heap'.size[b] = heap.size[b]
          BY <2>1, <2>2
    <2> QED BY <2>2, <2>3, <2>5, <2>6, <2>7 DEF MapInv
<1> QED BY <1>3, <1>4, <1>5

-----------------------------------------------------------------------------
(* What holds of every run of kma_malloc, kma_free and coalesce.             *)

\* A step that changes nothing keeps the invariant.
LEMMA MapStutter == MapInv /\ UNCHANGED vars => MapInv'
BY DEF MapInv, LiveInv, PcInv, Live, Blocks, vars

\* The invariant is inductive.
LEMMA MapStep == MapInv /\ [Next]_vars => MapInv'
<1> SUFFICES ASSUME MapInv, [Next]_vars PROVE MapInv'
    OBVIOUS
<1>1. ASSUME NEW n \in Sizes, ~Orphaned, kma_malloc(n) PROVE MapInv'
      BY <1>1, MallocStep
<1>2. ASSUME NEW a \in Live, ~Orphaned, kma_free(a) PROVE MapInv'
      BY <1>2, FreeStep
<1>3. ASSUME coalesce PROVE MapInv'
      BY <1>3, CoalesceStep
<1> QED BY <1>1, <1>2, <1>3, MapStutter DEF Next

\* Between all calls and between all activations of coalesce: the blocks tile
\* the pages in use, the list is sorted and holds blocks the client has not,
\* the client's blocks are as large as asked, and only the block that coalesce
\* works on can have a free neighbour or span its page.
THEOREM MapInvariant == Spec => []MapInv
<1> QED BY MapInit, MapStep, PTL DEF Spec

\* The fields of the heap keep their types: blocks and list entries are addresses,
\* sizes are at most a page.  (That blocks are in pages in use is PagesTiled.)
THEOREM MapTypes == Spec => []TypeOK
<1>1. MapInv => TypeOK
    <2> SUFFICES ASSUME MapInv PROVE TypeOK
        OBVIOUS
    <2>1. IsHeap(heap)
          BY DEF MapInv, Good
    <2>2. heap.stack \in Seq(PageIds)
          BY <2>1 DEF IsHeap, IsStack
    <2>3. Blocks \subseteq Addresses /\ \A b \in Blocks : heap.size[b] \in 1 .. WholePage
          BY <2>1 DEF IsHeap, Blocks
    <2>4. live \in [Live -> Sizes] /\ Live \subseteq Blocks
          BY DEF MapInv, LiveInv
    <2>5. pc \in {"idle", "coalesce", "exited"} /\ hdr \in Addresses
          BY DEF MapInv, PcInv
    <2> QED BY <2>1, <2>2, <2>3, <2>4, <2>5 DEF TypeOK, IsHeap
<1> QED BY <1>1, MapInvariant, PTL

\* Splitting, merging, taking and giving back pages leave no gap and no
\* overlap in any page.
THEOREM PagesStayTiled == Spec => []PagesTiled
<1>1. MapInv => PagesTiled
    <2> SUFFICES ASSUME MapInv PROVE PagesTiled
        OBVIOUS
    <2>1. IsHeap(heap) /\ Tiled(heap)
          BY DEF MapInv, Good
    <2>2. \A a \in Blocks : End(a) = EndIn(heap, a)
          BY DEF End, EndIn
    <2>3. ASSUME NEW a \in Blocks PROVE PageEnd(Page(a)) = (Page(a) + 1) * PageSize
          BY <2>1, BlockInPage, PagesFollow DEF Blocks
    <2> QED BY <2>1, <2>2, <2>3 DEF PagesTiled, Tiled, Inside, Blocks
<1> QED BY <1>1, MapInvariant, PTL

\* Blocks come back to their place in the list, whatever was merged or freed.
THEOREM ListStaysOrdered == Spec => []ListOrdered
<1>1. MapInv => ListOrdered
    <2> SUFFICES ASSUME MapInv PROVE ListOrdered
        OBVIOUS
    <2>1. Sorted(heap.list)
          BY DEF MapInv, Good, Listed
    <2>2. \A i \in DOMAIN heap.list : heap.list[i] \in ToSet(heap.list)
          BY DEF ToSet
    <2>3. Live \cap ToSet(heap.list) = {}
          BY DEF MapInv, LiveInv
    <2> QED BY <2>1, <2>2, <2>3 DEF ListOrdered, Sorted
<1> QED BY <1>1, MapInvariant, PTL

\* When kma_free returns, nothing is left to merge and no page to give back.
THEOREM FreeMergesAll == Spec => []FullyCoalesced
<1>1. MapInv => FullyCoalesced
    <2> SUFFICES ASSUME MapInv, pc = "idle", NEW a \in Blocks \ Live
                 PROVE  /\ heap.size[a] # WholePage
                        /\ End(a) \in Blocks /\ Page(End(a)) = Page(a)
                              => End(a) \in Live
        BY DEF FullyCoalesced
    <2>1. Settled(heap, Blocks \ Live)
          BY DEF MapInv, PcInv
    <2>2. End(a) = EndIn(heap, a)
          BY DEF End, EndIn
    <2> QED BY <2>1, <2>2 DEF Settled, SpansPage
<1> QED BY <1>1, MapInvariant, PTL

-----------------------------------------------------------------------------
(* The resource map implements the abstract heap.                            *)

\* What is left of a number after division.
LEMMA QuotientAndRest ==
    ASSUME NEW x \in Nat, NEW k \in Nat \ {0}
    PROVE  x % k = x - (x \div k) * k
OBVIOUS

\* A block's payload is memory and lies within one page.
LEMMA PayloadInPage ==
    ASSUME NEW h, IsHeap(h), Tiled(h), NEW a \in DOMAIN h.size
    PROVE  /\ a + AllocHeader \in 0 .. NumPages * PageSize - 1
           /\ ((a + AllocHeader) % PageSize) + h.size[a] <= PageSize
<1> DEFINE x == a + AllocHeader
           p == Page(a)
<1>1. /\ a \in Nat /\ h.size[a] \in Nat /\ h.size[a] >= 1
      /\ EndIn(h, a) = x + h.size[a]
      BY BlockNumbers
<1>2. /\ p \in PageIds /\ EndIn(h, a) <= PageEnd(p)
      BY BlockInPage
<1>3. /\ p * PageSize \in Nat /\ PageEnd(p) \in Nat
      /\ PageEnd(p) <= NumPages * PageSize
      BY <1>2, PagesFollow
<1>4. p * PageSize <= a
      BY <1>1, PageOf
<1>5. AllocHeader \in Nat /\ PageSize \in Nat \ {0} /\ NumPages * PageSize \in Nat
      BY Layout
<1>6. x \in Nat /\ x + h.size[a] <= PageEnd(p) /\ p * PageSize <= x
    <2> DEFINE s == p * PageSize
    <2>1. s \in Nat /\ s <= a
          BY <1>3, <1>4
    <2> HIDE DEF s, p
    <2>2. x \in Nat /\ s <= x
          BY <1>1, <1>5, <2>1
    <2> QED BY <1>1, <1>2, <2>2 DEF s
<1>7. PageEnd(p) = p * PageSize + PageSize /\ p \in Nat
      BY <1>2 DEF PageEnd, PageIds
<1> HIDE DEF x, p
<1>8. x \in 0 .. NumPages * PageSize - 1
      BY <1>1, <1>3, <1>5, <1>6
<1>9. x % PageSize = x - p * PageSize
    <2>1. x < PageEnd(p)
          BY <1>1, <1>3, <1>6
    <2>2. p = x \div PageSize
          BY <1>6, <1>7, <2>1, PageOf DEF Page
    <2>3. x % PageSize = x - (x \div PageSize) * PageSize
          BY <1>5, <1>6, QuotientAndRest
    <2> QED BY <2>2, <2>3
<1>10. (x % PageSize) + h.size[a] <= PageSize
      BY <1>1, <1>3, <1>5, <1>6, <1>7, <1>9
<1> QED BY <1>8, <1>10 DEF x

\* Two blocks' payloads are disjoint.
LEMMA PayloadsApart ==
    ASSUME NEW h, IsHeap(h), Tiled(h),
           NEW a \in DOMAIN h.size, NEW b \in DOMAIN h.size, a # b
    PROVE  \/ a + AllocHeader + h.size[a] <= b + AllocHeader
           \/ b + AllocHeader + h.size[b] <= a + AllocHeader
<1>1. /\ a \in Nat /\ b \in Nat /\ AllocHeader \in Nat
      /\ EndIn(h, a) \in Nat /\ EndIn(h, b) \in Nat
      /\ EndIn(h, a) = a + AllocHeader + h.size[a]
      /\ EndIn(h, b) = b + AllocHeader + h.size[b]
      BY BlockNumbers, Layout
<1>2. (a < b => EndIn(h, a) <= b) /\ (b < a => EndIn(h, b) <= a)
      BY DEF Tiled
<1> QED BY <1>1, <1>2

\* The abstract block that is the client's block a of the heap h, with the
\* sizes l that were asked for.
Payload(h, l, a) == [at |-> a + AllocHeader, len |-> h.size[a], asked |-> l[a]]
Payloads(h, l)   == {Payload(h, l, a) : a \in DOMAIN l}

\* Different blocks are different abstract blocks.
LEMMA PayloadsDiffer ==
    ASSUME NEW h, NEW g, NEW l, NEW k, NEW a \in Addresses, NEW b \in Addresses,
           a # b
    PROVE  Payload(h, l, a) # Payload(g, k, b)
<1>1. a \in Nat /\ b \in Nat /\ AllocHeader \in Nat
      BY Layout DEF Addresses
<1>2. Payload(h, l, a).at = a + AllocHeader /\ Payload(g, k, b).at = b + AllocHeader
      BY DEF Payload
<1> QED BY <1>1, <1>2

\* What a kma_malloc that succeeds adds is the abstract heap's Malloc.
LEMMA MallocIsMalloc ==
    ASSUME MapInv, MapInv', NEW a \in Live' \ Live, live'[a] \in Sizes,
           Live' = Live \cup {a},
           \A b \in Live : live'[b] = live[b] /\ heap'.size[b] = heap.size[b]
    PROVE  HeapSpec!Malloc
<1> DEFINE x == Payload(heap', live', a)
<1>1. /\ IsHeap(heap') /\ Tiled(heap')
      /\ Live' \subseteq DOMAIN heap'.size
      /\ \A b \in Live' : live'[b] <= heap'.size[b]
      BY DEF MapInv, Good, LiveInv, Blocks
<1>2. \A b \in Live' : b \in Addresses
      BY <1>1, BlockNumbers
<1>3. \A b \in Live : Payload(heap', live', b) = Payload(heap, live, b)
      BY DEF Payload
<1>4. Payloads(heap', live') = Payloads(heap, live) \cup {x}
    <2>1. Payloads(heap', live') = {Payload(heap', live', b) : b \in Live \cup {a}}
          BY DEF Payloads, Live
    <2>2. Payloads(heap, live) = {Payload(heap', live', b) : b \in Live}
          BY <1>3 DEF Payloads, Live
    <2> QED BY <2>1, <2>2
<1>5. x \notin Payloads(heap, live)
    <2>1. ASSUME NEW b \in Live PROVE x # Payload(heap, live, b)
          BY <1>2, PayloadsDiffer
    <2> QED BY <2>1 DEF Payloads, Live
<1>6. /\ x.at = a + AllocHeader /\ x.len = heap'.size[a] /\ x.asked = live'[a]
      /\ x = [at |-> x.at, len |-> x.len, asked |-> x.asked]
      BY DEF Payload
<1>7. /\ x.at \in 0 .. NumPages * PageSize - 1
      /\ (x.at % PageSize) + x.len <= PageSize
      BY <1>1, <1>6, PayloadInPage
<1>8. x.len \in Nat /\ x.asked \in Sizes /\ x.len >= x.asked
      BY <1>1, <1>6, BlockNumbers, SizesAssumption, Layout
<1>9. \A c \in Payloads(heap, live) :
          x.at + x.len <= c.at \/ c.at + c.len <= x.at
    <2>1. ASSUME NEW b \in Live
          PROVE  LET c == Payload(heap, live, b) IN
                 x.at + x.len <= c.at \/ c.at + c.len <= x.at
        <3>1. a # b /\ a \in DOMAIN heap'.size /\ b \in DOMAIN heap'.size
              BY <1>1
        <3>2. \/ a + AllocHeader + heap'.size[a] <= b + AllocHeader
              \/ b + AllocHeader + heap'.size[b] <= a + AllocHeader
              BY <1>1, <3>1, PayloadsApart
        <3>3. /\ Payload(heap, live, b).at = b + AllocHeader
              /\ Payload(heap, live, b).len = heap'.size[b]
              BY DEF Payload
        <3> HIDE DEF x
        <3> QED BY <1>6, <3>2, <3>3
    <2> HIDE DEF x
    <2> QED BY <2>1 DEF Payloads, Live
<1> HIDE DEF x
<1>10. x \in HeapSpec!Block /\ HeapSpec!Within(x)
      BY <1>6, <1>7, <1>8 DEF HeapSpec!Block, HeapSpec!Within
<1>11. \A c \in Payloads(heap, live) : HeapSpec!Disjoint(x, c)
      BY <1>9 DEF HeapSpec!Disjoint
<1>12. x \in Payloads(heap', live') \ Payloads(heap, live)
      BY <1>4, <1>5
<1> QED BY <1>4, <1>8, <1>10, <1>11, <1>12
        DEF HeapSpec!Malloc, Payloads, Payload, Live

\* What kma_free takes away is the abstract heap's Free.
LEMMA FreeIsFree ==
    ASSUME MapInv, MapInv', NEW a \in Live, Live' = Live \ {a},
           \A b \in Live' : live'[b] = live[b] /\ heap'.size[b] = heap.size[b]
    PROVE  HeapSpec!Free
<1> DEFINE x == Payload(heap, live, a)
<1>1. \A b \in Live : b \in Addresses
      BY BlockNumbers DEF MapInv, Good, LiveInv, Blocks
<1>2. \A b \in Live' : Payload(heap', live', b) = Payload(heap, live, b)
      BY DEF Payload
<1>3. Payloads(heap', live') = Payloads(heap, live) \ {x}
    <2>1. Payloads(heap', live') = {Payload(heap, live, b) : b \in Live \ {a}}
          BY <1>2 DEF Payloads, Live
    <2>2. \A b \in Live \ {a} : Payload(heap, live, b) # x
          BY <1>1, PayloadsDiffer
    <2> HIDE DEF x
    <2>3. x = Payload(heap, live, a)
          BY DEF x
    <2>4. Payloads(heap, live) = {Payload(heap, live, b) : b \in Live}
          BY DEF Payloads, Live
    <2> QED BY <2>1, <2>2, <2>3, <2>4
<1>4. x \in Payloads(heap, live)
      BY DEF Payloads, Live
<1> HIDE DEF x
<1> QED BY <1>3, <1>4 DEF HeapSpec!Free, Payloads, Payload, Live

\* Each call of kma_malloc that succeeds and each call of kma_free is one step
\* of the abstract heap; merging and giving back pages are none.
THEOREM MapIsHeap == Spec => ImplementsHeap
<1> DEFINE Map == {[at    |-> a + AllocHeader,
                    len   |-> heap.size[a],
                    asked |-> live[a]] : a \in Live}
<1>1. Init => HeapSpec!Init
      BY DEF Init, HeapSpec!Init, Live
<1>2. ASSUME MapInv, MapInv', [Next]_vars
      PROVE  HeapSpec!Next \/ UNCHANGED Map
    <2>1. ASSUME UNCHANGED <<Live, live>>, \A b \in Live : heap'.size[b] = heap.size[b]
          PROVE  UNCHANGED Map
          BY <2>1
    <2>2. ASSUME ~Orphaned, NEW n \in Sizes, kma_malloc(n)
          PROVE  HeapSpec!Next \/ UNCHANGED Map
        <3>1. CASE UNCHANGED <<heap, live>>
              BY <2>1, <3>1 DEF Live
        <3>2. CASE \E a \in Live' \ Live :
                    /\ Live' = Live \cup {a}
                    /\ live'[a] = n
                    /\ \A b \in Live :
                          live'[b] = live[b] /\ heap'.size[b] = heap.size[b]
              BY <1>2, <2>2, <3>2, MallocIsMalloc DEF HeapSpec!Next
        <3> QED BY <1>2, <2>2, <3>1, <3>2, MallocStep
    <2>3. ASSUME ~Orphaned, NEW a \in Live, kma_free(a)
          PROVE  HeapSpec!Next
          BY <1>2, <2>3, FreeStep, FreeIsFree DEF HeapSpec!Next
    <2>4. ASSUME coalesce PROVE UNCHANGED Map
          BY <1>2, <2>1, <2>4, CoalesceStep DEF Live
    <2>5. CASE UNCHANGED vars
          BY <2>1, <2>5 DEF vars, Live
    <2> QED BY <1>2, <2>2, <2>3, <2>4, <2>5 DEF Next
<1>3. MapInv /\ MapInv' /\ [Next]_vars => [HeapSpec!Next]_Map
      BY <1>2
<1> QED BY <1>1, <1>3, MapInvariant, PTL DEF Spec, ImplementsHeap, HeapSpec!Spec
=============================================================================
