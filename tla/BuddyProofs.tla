---------------------------- MODULE BuddyProofs ----------------------------
(* Proofs about Buddy for every number of pages, every page that is a power  *)
(* of two, every layout of headers and every set of sizes that are asked for.*)
EXTENDS Buddy, PagesProofs, SequenceTheorems

\* The fields of a heap.
IsHeap(h) ==
    /\ DOMAIN h = {"stack", "root", "free", "size", "used", "unused", "page"}
    /\ IsStack(h.stack)
    /\ h.root \in PageIds \cup {NoPage}
    /\ h.free \in [Classes -> Seq(Addresses)]
    /\ h.used \in Seq(Entries) /\ h.unused \in Seq(Entries)
    /\ h.page \in [ToSet(h.used) -> PageIds]

\* The sizes s of the blocks: each is a class to which its block is aligned,
\* and the blocks fill the pages that they begin.
EndIn(s, a) == a + s[a]
Tile(s, a) ==
    /\ a % s[a] = 0
    /\ FirstBlock(Page(a)) \in DOMAIN s
    /\ EndIn(s, a) \in DOMAIN s \/ EndIn(s, a) % PageSize = 0
Tiled(s) ==
    /\ s \in [DOMAIN s -> Classes]
    /\ DOMAIN s \subseteq Addresses
    /\ \A a \in DOMAIN s : Tile(s, a)
    /\ \A a, b \in DOMAIN s : a < b => EndIn(s, a) <= b

\* The lists hold the blocks of S, each once and in the list of its class.
Lists(free, s, S) ==
    \A c \in Classes :
        /\ IsInjective(free[c])
        /\ ToSet(free[c]) = {a \in S : s[a] = c}

\* No block of S spans its page, and no two of S are buddies.
Settled(s, S) ==
    \A a \in S :
        /\ s[a] # PageSize
        /\ \A b \in S : b = EndIn(s, a) /\ a % (2 * s[a]) = 0 => s[b] # s[a]

\* The pages: bookkeeping pages, data pages and the root page, all different;
\* an entry in use for each data page, and no entry twice on the two lists.
Books(h)  == {e[1] : e \in ToSet(h.used)}
DataOf(h) == {Page(a) : a \in DOMAIN h.size}
EntriesRight(h) ==
    /\ IsInjective(h.used) /\ IsInjective(h.unused)
    /\ ToSet(h.used) \cap ToSet(h.unused) = {}
    /\ \A e \in ToSet(h.unused) : e[1] \in Books(h)
    /\ \A e, f \in ToSet(h.used) : h.page[e] = h.page[f] => e = f
    /\ DataOf(h) = {h.page[e] : e \in ToSet(h.used)}
PagesRight(h) ==
    /\ Books(h) \cap DataOf(h) = {}
    /\ h.root \notin Books(h) \cup DataOf(h)
    /\ Held(h.stack) = Books(h) \cup DataOf(h) \cup ({h.root} \ {NoPage})

Good(h) == IsHeap(h) /\ Tiled(h.size) /\ EntriesRight(h) /\ PagesRight(h)

\* The client's blocks are as large as it asked.
LiveInv ==
    /\ live \in [Live -> Sizes]
    /\ Live \subseteq Blocks
    /\ \A a \in Live : live[a] + AllocHeader <= heap.size[a]

\* The free blocks but the one that kma_free is merging are listed and merged.
Resting == Blocks \ (Live \cup (IF pc = "merge" THEN {hdr} ELSE {}))
PcInv ==
    /\ pc \in {"idle", "merge", "exited"}
    /\ hdr \in Addresses
    /\ pc = "merge" => hdr \in Blocks \ Live
    /\ Lists(heap.free, heap.size, Resting)
    /\ Settled(heap.size, Resting)

\* Between calls there is a root page iff a data page is in use.
Rooted(h) == h.root = NoPage <=> h.used = <<>>

\* The inductive invariant.
BuddyInv == Good(heap) /\ Rooted(heap) /\ LiveInv /\ PcInv

-----------------------------------------------------------------------------
(* Powers of two and size classes.                                           *)

\* A set with one element more has twice as many subsets.
LEMMA PowerDoubles ==
    ASSUME NEW k \in Nat
    PROVE  2 ^ (k + 1) = 2 * 2 ^ k /\ 2 ^ k \in Nat \ {0}
<1> DEFINE old == SUBSET (1 .. k)
           new == {A \cup {k + 1} : A \in old}
           f   == [A \in old |-> A \cup {k + 1}]
<1>1. IsFiniteSet(1 .. k) /\ Cardinality(1 .. k) = k
      BY FS_Interval
<1>2. IsFiniteSet(1 .. k + 1) /\ Cardinality(1 .. k + 1) = k + 1
      BY FS_Interval
<1>3. IsFiniteSet(old) /\ Cardinality(old) = 2 ^ k
      BY <1>1, FS_SUBSET
<1>4. Cardinality(SUBSET (1 .. k + 1)) = 2 ^ (k + 1)
      BY <1>2, FS_SUBSET
<1>5. SUBSET (1 .. k + 1) = old \cup new
    <2>1. ASSUME NEW A \in SUBSET (1 .. k + 1) PROVE A \in old \cup new
        <3>1. A \ {k + 1} \in old
              OBVIOUS
        <3>2. CASE k + 1 \in A
              BY <3>1, <3>2, A = (A \ {k + 1}) \cup {k + 1}
        <3>3. CASE k + 1 \notin A
              BY <3>1, <3>3, A = A \ {k + 1}
        <3> QED BY <3>2, <3>3
    <2>2. ASSUME NEW A \in old PROVE A \in SUBSET (1 .. k + 1)
          OBVIOUS
    <2>3. ASSUME NEW A \in new PROVE A \in SUBSET (1 .. k + 1)
        <3>1. PICK B \in old : A = B \cup {k + 1}
              OBVIOUS
        <3>2. k + 1 \in 1 .. k + 1 /\ \A x \in 1 .. k : x \in 1 .. k + 1
              OBVIOUS
        <3> QED BY <3>1, <3>2
    <2> QED BY <2>1, <2>2, <2>3
<1>6. old \cap new = {}
      OBVIOUS
<1>7. f \in Bijection(old, new)
    <2>1. ASSUME NEW A \in old, NEW B \in old, A \cup {k + 1} = B \cup {k + 1}
          PROVE  A = B
        <3>1. k + 1 \notin A /\ k + 1 \notin B
              OBVIOUS
        <3>2. A = (A \cup {k + 1}) \ {k + 1} /\ B = (B \cup {k + 1}) \ {k + 1}
              BY <3>1
        <3> QED BY <2>1, <3>2
    <2>2. IsInjective(f)
          BY <2>1 DEF IsInjective
    <2>3. f \in [old -> new] /\ \A y \in new : \E A \in old : f[A] = y
          OBVIOUS
    <2> QED BY <2>2, <2>3 DEF Bijection, Injection, Surjection
<1>8. IsFiniteSet(new) /\ Cardinality(new) = Cardinality(old)
      BY <1>3, <1>7, FS_Bijection DEF ExistsBijection
<1>9. Cardinality(old) \in Nat \ {0}
    <2>1. old # {}
          BY {} \in old
    <2> QED BY <1>3, <2>1, FS_CardinalityType, FS_EmptySet
<1>10. Cardinality(old \cap new) = 0
       BY <1>6, FS_EmptySet
<1> HIDE DEF old, new
<1>11. Cardinality(old \cup new) = Cardinality(old) + Cardinality(new) - Cardinality(old \cap new)
       BY <1>3, <1>8, FS_Union
<1>12. Cardinality(old \cup new) = 2 * Cardinality(old)
       BY <1>8, <1>9, <1>10, <1>11
<1>13. 2 ^ (k + 1) = Cardinality(old \cup new)
       BY <1>4, <1>5
<1> QED BY <1>3, <1>9, <1>12, <1>13

\* Of two numbers whose multiples by powers of two are equal, one is such a
\* multiple of the other.
Meet(c, d, i, j) == c * 2 ^ (i + j) = d * 2 ^ j
LEMMA PowersCancel ==
    ASSUME NEW c \in Nat, NEW d \in Nat, NEW i \in Nat, NEW j \in Nat,
           Meet(c, d, i, j)
    PROVE  d = c * 2 ^ i
<1> DEFINE wrong == {n \in Nat : c * 2 ^ (i + n) = d * 2 ^ n}
<1>1. wrong \in SUBSET Nat /\ wrong # {}
      BY DEF Meet
<1>2. PICK n \in wrong : \A k \in wrong : n <= k
      BY <1>1, LeastNat
<1>3. CASE n = 0
    <2>1. 2 ^ 0 = 1
          OBVIOUS
    <2>2. i + n = i /\ c * 2 ^ i = d * 1
          BY <1>2, <1>3, <2>1
    <2> QED BY <2>2
<1>4. CASE n # 0
    <2>1. n - 1 \in Nat /\ (n - 1) + 1 = n /\ (i + (n - 1)) + 1 = i + n /\ i + (n - 1) \in Nat
          BY <1>2, <1>4
    <2>2. 2 ^ n = 2 * 2 ^ (n - 1) /\ 2 ^ (n - 1) \in Nat
          BY <2>1, PowerDoubles
    <2>3. 2 ^ (i + n) = 2 * 2 ^ (i + (n - 1)) /\ 2 ^ (i + (n - 1)) \in Nat
          BY <2>1, PowerDoubles
    <2>4. \A x, y \in Nat : c * (2 * x) = d * (2 * y) => c * x = d * y
          OBVIOUS
    <2>5. c * 2 ^ (i + (n - 1)) = d * 2 ^ (n - 1)
          BY <1>2, <2>2, <2>3, <2>4
    <2>6. n - 1 \in wrong
          BY <2>1, <2>5
    <2>7. n <= n - 1
          BY <1>2, <2>6
    <2> QED BY <1>2, <2>7
<1> QED BY <1>3, <1>4

\* The constants are numbers, a class holds a header and something, and a page
\* is the largest class.
LEMMA Layout ==
    /\ PageSize \in Nat \ {0} /\ AllocHeader \in Nat \ {0} /\ NumPages \in Nat \ {0}
    /\ FreeHeader \in Nat \ {0} /\ EntriesPerPage \in Nat \ {0, 1}
    /\ \A c \in Classes : c \in Nat \ {0} /\ AllocHeader < c /\ c <= PageSize
    /\ PageSize \in Classes
<1>1. /\ PageSize \in Nat \ {0} /\ AllocHeader \in Nat \ {0} /\ NumPages \in Nat \ {0}
      /\ FreeHeader \in Nat \ {0} /\ EntriesPerPage \in Nat \ {0, 1}
      /\ AllocHeader < FreeHeader /\ FreeHeader <= PageSize
      BY LayoutAssumption, NumPagesAssumption
<1>2. \A c \in Classes : c \in Nat \ {0} /\ AllocHeader < c /\ c <= PageSize
      BY <1>1 DEF Classes
<1>3. PageSize * 2 ^ 0 = PageSize /\ 0 \in 0 .. PageSize
      BY <1>1
<1>4. PageSize \in FreeHeader .. PageSize
      BY <1>1
<1>5. PageSize \in Classes
      BY <1>3, <1>4 DEF Classes
<1> QED BY <1>1, <1>2, <1>5

\* Of two classes the larger is a multiple of twice the smaller, and twice the
\* smaller is a class.
LEMMA ClassesNest ==
    ASSUME NEW c \in Classes, NEW d \in Classes, c < d
    PROVE  2 * c \in Classes /\ \E m \in Nat \ {0} : d = (2 * c) * m
<1>1. /\ c \in Nat \ {0} /\ d \in Nat \ {0} /\ PageSize \in Nat \ {0}
      /\ c <= PageSize /\ d <= PageSize /\ FreeHeader \in Nat /\ FreeHeader <= c
      BY Layout DEF Classes
<1>2. PICK k \in 0 .. PageSize : c * 2 ^ k = PageSize
      BY DEF Classes
<1>3. PICK j \in 0 .. PageSize : d * 2 ^ j = PageSize
      BY DEF Classes
<1>4. j < k
    <2>1. SUFFICES ASSUME k <= j PROVE FALSE
          BY <1>1
    <2>2. j - k \in Nat /\ k \in Nat /\ (j - k) + k = j
          BY <1>1, <2>1
    <2>3. Meet(d, c, j - k, k)
          BY <1>2, <1>3, <2>2 DEF Meet
    <2>4. c = d * 2 ^ (j - k)
          BY <1>1, <2>2, <2>3, PowersCancel
    <2>5. 2 ^ (j - k) \in Nat \ {0}
          BY <2>2, PowerDoubles
    <2>6. \A x \in Nat \ {0} : d <= d * x
          BY <1>1
    <2> QED BY <1>1, <2>4, <2>5, <2>6
<1>5. k - j - 1 \in Nat /\ j \in Nat /\ ((k - j - 1) + 1) + j = k /\ (k - j - 1) + 1 \in Nat
      BY <1>1, <1>4
<1>6. Meet(c, d, (k - j - 1) + 1, j)
      BY <1>2, <1>3, <1>5 DEF Meet
<1>7. d = c * 2 ^ ((k - j - 1) + 1)
      BY <1>1, <1>5, <1>6, PowersCancel
<1>8. 2 ^ ((k - j - 1) + 1) = 2 * 2 ^ (k - j - 1) /\ 2 ^ (k - j - 1) \in Nat \ {0}
      BY <1>5, PowerDoubles
<1>9. \A x \in Nat \ {0} : c * (2 * x) = (2 * c) * x /\ 2 * c <= (2 * c) * x
      BY <1>1
<1>10. d = (2 * c) * 2 ^ (k - j - 1) /\ 2 * c <= d
       BY <1>7, <1>8, <1>9
<1>11. 2 * c \in Classes
    <2>1. k - 1 \in 0 .. PageSize /\ k - 1 \in Nat /\ (k - 1) + 1 = k
          BY <1>1, <1>4
    <2>2. 2 ^ k = 2 * 2 ^ (k - 1) /\ 2 ^ (k - 1) \in Nat \ {0}
          BY <2>1, PowerDoubles
    <2>3. (2 * c) * 2 ^ (k - 1) = PageSize
          BY <1>2, <1>9, <2>2
    <2>4. 2 * c \in FreeHeader .. PageSize
          BY <1>1, <1>10
    <2> QED BY <2>1, <2>3, <2>4 DEF Classes
<1> QED BY <1>8, <1>10, <1>11

-----------------------------------------------------------------------------
(* Multiples: how blocks are aligned.                                        *)

Divides(n, a) == \E q \in Nat : a = n * q

\* What division leaves.
LEMMA Quotient ==
    ASSUME NEW a \in Nat, NEW n \in Nat \ {0}
    PROVE  a \div n \in Nat /\ a % n \in 0 .. n - 1 /\ a = n * (a \div n) + (a % n)
<1>1. a % n = a - (a \div n) * n
      OBVIOUS
<1>2. a \div n \in Nat
      OBVIOUS
<1>3. a % n \in 0 .. n - 1
      OBVIOUS
<1>4. \A d \in Nat, r \in Int : r = a - d * n => a = n * d + r
      OBVIOUS
<1> QED BY <1>1, <1>2, <1>3, <1>4

\* An address without a rest is a multiple.
LEMMA NoRest ==
    ASSUME NEW a \in Nat, NEW n \in Nat \ {0}
    PROVE  /\ a % n = 0 <=> Divides(n, a)
           /\ \A q \in Nat : a = n * q => a \div n = q
<1>1. a \div n \in Nat /\ a = n * (a \div n) + (a % n) /\ a % n \in 0 .. n - 1
      BY Quotient
<1>2. ASSUME NEW q \in Nat, a = n * q PROVE a \div n = q /\ a % n = 0
    <2>1. PICK d \in Nat : d = a \div n
          BY <1>1
    <2>2. PICK r \in 0 .. n - 1 : r = a % n
          BY <1>1
    <2>3. n * q = n * d + r
          BY <1>1, <1>2, <2>1, <2>2
    <2>4. CASE q < d
        <3>1. n * (q + 1) <= n * d /\ n * (q + 1) = n * q + n
              BY <2>4
        <3> QED BY <2>3, <3>1
    <2>5. CASE d < q
        <3>1. n * (d + 1) <= n * q /\ n * (d + 1) = n * d + n
              BY <2>5
        <3> QED BY <2>3, <3>1
    <2>6. CASE q = d
          BY <2>1, <2>2, <2>3, <2>6
    <2> QED BY <2>4, <2>5, <2>6
<1>3. ASSUME a % n = 0 PROVE Divides(n, a)
    <2>1. a = n * (a \div n)
          BY <1>1, <1>3
    <2> QED BY <1>1, <2>1 DEF Divides
<1> QED BY <1>2, <1>3 DEF Divides

\* Sums and differences of multiples are multiples, and differ by n at least.
LEMMA Multiples ==
    ASSUME NEW n \in Nat \ {0}, NEW a \in Nat, NEW b \in Nat,
           Divides(n, a), Divides(n, b)
    PROVE  /\ Divides(n, a + b)
           /\ a <= b => Divides(n, b - a)
           /\ a < b => a + n <= b
<1>1. PICK q \in Nat : a = n * q
      BY DEF Divides
<1>2. PICK r \in Nat : b = n * r
      BY DEF Divides
<1>3. Divides(n, a + b)
    <2>1. a + b = n * (q + r) /\ q + r \in Nat
          BY <1>1, <1>2
    <2> QED BY <2>1 DEF Divides
<1>4. ASSUME a <= b PROVE Divides(n, b - a)
    <2>1. q <= r
        <3>1. SUFFICES ASSUME r < q PROVE FALSE
              OBVIOUS
        <3>2. n * (r + 1) <= n * q /\ n * (r + 1) = n * r + n
              BY <3>1
        <3> QED BY <1>1, <1>2, <1>4, <3>2
    <2>2. b - a = n * (r - q) /\ r - q \in Nat
          BY <1>1, <1>2, <2>1
    <2> QED BY <2>2 DEF Divides
<1>5. ASSUME a < b PROVE a + n <= b
    <2>1. q < r
        <3>1. SUFFICES ASSUME r <= q PROVE FALSE
              OBVIOUS
        <3>2. n * r <= n * q
              BY <3>1
        <3> QED BY <1>1, <1>2, <1>5, <3>2
    <2>2. n * (q + 1) <= n * r /\ n * (q + 1) = n * q + n
          BY <2>1
    <2> QED BY <1>1, <1>2, <2>2
<1> QED BY <1>3, <1>4, <1>5

\* What is aligned to a multiple is aligned.
LEMMA Aligned ==
    ASSUME NEW n \in Nat, NEW m \in Nat, NEW a \in Nat, Divides(n, m), Divides(m, a)
    PROVE  Divides(n, a)
<1>1. PICK q \in Nat : m = n * q
      BY DEF Divides
<1>2. PICK r \in Nat : a = m * r
      BY DEF Divides
<1>3. a = n * (q * r) /\ q * r \in Nat
      BY <1>1, <1>2
<1> QED BY <1>3 DEF Divides

\* A multiple of n, or the one before it, is a multiple of 2n, and not both.
LEMMA Halves ==
    ASSUME NEW n \in Nat \ {0}, NEW a \in Nat, Divides(n, a)
    PROVE  /\ (a \div n) % 2 = 0 <=> Divides(2 * n, a)
           /\ Divides(2 * n, a) => ~Divides(2 * n, a + n)
           /\ ~Divides(2 * n, a) =>
                 n <= a /\ Divides(2 * n, a - n) /\ Divides(2 * n, a + n)
<1>1. PICK q \in Nat : a = n * q
      BY DEF Divides
<1>2. a \div n = q
      BY <1>1, NoRest
<1>3. 2 * n \in Nat \ {0} /\ n < 2 * n
      OBVIOUS
<1>4. ASSUME Divides(2 * n, a), Divides(2 * n, a + n) PROVE FALSE
    <2>1. a + 2 * n <= a + n
          BY <1>3, <1>4, Multiples
    <2> QED BY <2>1
<1>5. ASSUME NEW k \in Nat, q = 2 * k PROVE Divides(2 * n, a)
    <2>1. a = (2 * n) * k
          BY <1>1, <1>5
    <2> QED BY <2>1 DEF Divides
<1>6. ASSUME NEW k \in Nat, q = 2 * k + 1
      PROVE  n <= a /\ Divides(2 * n, a - n) /\ Divides(2 * n, a + n)
    <2>1. n * q = n * (2 * k) + n /\ n * (2 * k) = (2 * n) * k /\ (2 * n) * k \in Nat
          BY <1>6
    <2>2. a - n = (2 * n) * k /\ n <= a
          BY <1>1, <2>1
    <2>3. (2 * n) * (k + 1) = (2 * n) * k + 2 * n
          OBVIOUS
    <2>4. a + n = (2 * n) * (k + 1) /\ k + 1 \in Nat
          BY <2>2, <2>3
    <2> QED BY <2>2, <2>4 DEF Divides
<1>7. \/ q % 2 = 0 /\ \E k \in Nat : q = 2 * k
      \/ q % 2 = 1 /\ \E k \in Nat : q = 2 * k + 1
    <2>1. q \div 2 \in Nat /\ q = 2 * (q \div 2) + (q % 2) /\ q % 2 \in 0 .. 1
          BY Quotient
    <2> QED BY <2>1
<1>8. CASE q % 2 = 0
      BY <1>2, <1>4, <1>5, <1>7, <1>8
<1>9. CASE q % 2 = 1
    <2>1. n <= a /\ Divides(2 * n, a - n) /\ Divides(2 * n, a + n)
          BY <1>6, <1>7, <1>9
    <2>2. ~Divides(2 * n, a)
        <3>1. SUFFICES ASSUME Divides(2 * n, a) PROVE FALSE
              OBVIOUS
        <3> QED BY <2>1, <3>1, <1>4
    <2> QED BY <1>2, <1>9, <2>1, <2>2
<1> QED BY <1>7, <1>8, <1>9

-----------------------------------------------------------------------------
(* Pages, blocks and buddies.                                                *)

\* The addresses of a page.
LEMMA PageOf ==
    ASSUME NEW a \in Nat
    PROVE  /\ Page(a) \in Nat /\ FirstBlock(Page(a)) \in Nat
           /\ FirstBlock(Page(a)) <= a /\ a < FirstBlock(Page(a)) + PageSize
           /\ Divides(PageSize, FirstBlock(Page(a)))
           /\ \A p \in Nat : FirstBlock(p) <= a /\ a < FirstBlock(p) + PageSize
                               => p = Page(a)
<1>1. PageSize \in Nat \ {0}
      BY Layout
<1>2. /\ Page(a) \in Nat /\ a % PageSize \in 0 .. PageSize - 1
      /\ a = PageSize * Page(a) + (a % PageSize)
      BY <1>1, Quotient DEF Page
<1>3. FirstBlock(Page(a)) = PageSize * Page(a) /\ PageSize * Page(a) \in Nat
      BY <1>1, <1>2 DEF FirstBlock
<1>4. Divides(PageSize, FirstBlock(Page(a)))
      BY <1>2, <1>3 DEF Divides
<1>5. ASSUME NEW p \in Nat, FirstBlock(p) <= a, a < FirstBlock(p) + PageSize
      PROVE  p = Page(a)
    <2>1. PICK q \in Nat : q = Page(a)
          BY <1>2
    <2>2. FirstBlock(p) = p * PageSize /\ FirstBlock(q) = q * PageSize
          BY DEF FirstBlock
    <2>3. FirstBlock(q) <= a /\ a < FirstBlock(q) + PageSize
          BY <1>1, <1>2, <1>3, <2>1
    <2>4. CASE p < q
        <3>1. (p + 1) * PageSize <= q * PageSize /\ (p + 1) * PageSize = p * PageSize + PageSize
              BY <1>1, <2>4
        <3> QED BY <1>1, <1>5, <2>2, <2>3, <3>1
    <2>5. CASE q < p
        <3>1. (q + 1) * PageSize <= p * PageSize /\ (q + 1) * PageSize = q * PageSize + PageSize
              BY <1>1, <2>5
        <3> QED BY <1>1, <1>5, <2>2, <2>3, <3>1
    <2> QED BY <2>1, <2>4, <2>5
<1>6. FirstBlock(Page(a)) <= a /\ a < FirstBlock(Page(a)) + PageSize
      BY <1>1, <1>2, <1>3
<1> QED BY <1>2, <1>3, <1>4, <1>5, <1>6

\* A page is memory and begins at its first block.
LEMMA PageBegins ==
    ASSUME NEW p \in PageIds
    PROVE  /\ FirstBlock(p) \in Addresses /\ Page(FirstBlock(p)) = p
           /\ FirstBlock(p) + PageSize <= NumPages * PageSize
<1>1. PageSize \in Nat \ {0} /\ NumPages \in Nat \ {0} /\ p \in Nat /\ p + 1 <= NumPages
      BY Layout DEF PageIds
<1>2. /\ FirstBlock(p) = p * PageSize /\ p * PageSize \in Nat
      /\ (p + 1) * PageSize = p * PageSize + PageSize
      /\ (p + 1) * PageSize <= NumPages * PageSize /\ NumPages * PageSize \in Nat
      BY <1>1 DEF FirstBlock
<1>3. FirstBlock(p) \in Nat /\ FirstBlock(p) < FirstBlock(p) + PageSize
      BY <1>1, <1>2
<1>4. Page(FirstBlock(p)) = p
      BY <1>1, <1>3, PageOf
<1> QED BY <1>1, <1>2, <1>4 DEF Addresses

\* An address is in a page.
LEMMA AddressInPage ==
    ASSUME NEW a \in Addresses
    PROVE  a \in Nat /\ Page(a) \in PageIds
<1>1. PageSize \in Nat \ {0} /\ NumPages \in Nat \ {0} /\ NumPages * PageSize \in Nat
      BY Layout
<1>2. a \in Nat /\ a < NumPages * PageSize
      BY <1>1 DEF Addresses
<1>3. Page(a) \in Nat /\ FirstBlock(Page(a)) <= a
      BY <1>2, PageOf
<1>4. Page(a) < NumPages
    <2>1. SUFFICES ASSUME NumPages <= Page(a) PROVE FALSE
          BY <1>1, <1>3
    <2>2. NumPages * PageSize <= Page(a) * PageSize
          BY <1>1, <1>3, <2>1
    <2> QED BY <1>1, <1>2, <1>3, <2>2 DEF FirstBlock
<1> QED BY <1>1, <1>2, <1>3, <1>4 DEF PageIds

\* Classes divide one another, and the page.
LEMMA ClassesDivide ==
    ASSUME NEW c \in Classes, NEW d \in Classes
    PROVE  /\ c <= d => Divides(c, d)
           /\ c < d => 2 * c \in Classes /\ 2 * c <= d /\ Divides(2 * c, d)
           /\ Divides(c, PageSize)
<1>1. /\ PageSize \in Classes
      /\ \A x \in Classes : x \in Nat \ {0} /\ x <= PageSize
      BY Layout
<1>2. ASSUME NEW x \in Classes, NEW y \in Classes, x < y
      PROVE  2 * x \in Classes /\ 2 * x <= y /\ Divides(2 * x, y) /\ Divides(x, y)
    <2>1. 2 * x \in Classes
          BY <1>2, ClassesNest
    <2>2. PICK m \in Nat \ {0} : y = (2 * x) * m
          BY <1>2, ClassesNest
    <2>3. /\ (2 * x) * m = x * (2 * m) /\ 2 * m \in Nat
          /\ 2 * x <= (2 * x) * m
          BY <1>1
    <2> QED BY <2>1, <2>2, <2>3 DEF Divides
<1>3. \A x \in Classes : Divides(x, x)
    <2>1. \A x \in Nat : x = x * 1
          OBVIOUS
    <2> QED BY <1>1, <2>1 DEF Divides
<1> QED BY <1>1, <1>2, <1>3

\* A block that is aligned to its size lies within its page.
LEMMA AlignedInPage ==
    ASSUME NEW a \in Nat, NEW c \in Classes, Divides(c, a)
    PROVE  /\ a + c <= FirstBlock(Page(a)) + PageSize
           /\ \A x \in Nat : a <= x /\ x < a + c => Page(x) = Page(a)
<1>1. PageSize \in Nat \ {0} /\ c \in Nat \ {0}
      BY Layout
<1>2. /\ FirstBlock(Page(a)) \in Nat /\ FirstBlock(Page(a)) <= a
      /\ a < FirstBlock(Page(a)) + PageSize /\ Page(a) \in Nat
      /\ Divides(PageSize, FirstBlock(Page(a)))
      BY PageOf
<1>3. Divides(c, PageSize)
      BY ClassesDivide
<1>4. Divides(c, FirstBlock(Page(a)))
      BY <1>1, <1>2, <1>3, Aligned
<1>5. Divides(c, FirstBlock(Page(a)) + PageSize)
      BY <1>1, <1>2, <1>3, <1>4, Multiples
<1>6. a + c <= FirstBlock(Page(a)) + PageSize
      BY <1>1, <1>2, <1>5, Multiples
<1>7. ASSUME NEW x \in Nat, a <= x, x < a + c PROVE Page(x) = Page(a)
    <2>1. FirstBlock(Page(a)) <= x /\ x < FirstBlock(Page(a)) + PageSize
          BY <1>1, <1>2, <1>6, <1>7
    <2> QED BY <1>2, <2>1, PageOf
<1> QED BY <1>6, <1>7

\* BuddyOf is the other half of the block of twice the size, in the same page.
LEMMA BuddyIsHalf ==
    ASSUME NEW a \in Nat, NEW c \in Classes, c < PageSize, Divides(c, a)
    PROVE  /\ 2 * c \in Classes /\ BuddyOf(a, c) \in Nat
           /\ Page(BuddyOf(a, c)) = Page(a)
           /\ Divides(2 * c, a) => BuddyOf(a, c) = a + c
           /\ ~Divides(2 * c, a) =>
                 c <= a /\ BuddyOf(a, c) = a - c /\ Divides(2 * c, a - c)
<1>1. PageSize \in Classes /\ c \in Nat \ {0} /\ 2 * c \in Nat \ {0}
      BY Layout
<1>2. 2 * c \in Classes
      BY <1>1, ClassesDivide
<1>3. (a \div c) % 2 = 0 <=> Divides(2 * c, a)
      BY <1>1, Halves
<1>4. CASE Divides(2 * c, a)
    <2>1. BuddyOf(a, c) = a + c
          BY <1>3, <1>4 DEF BuddyOf
    <2>2. a + c \in Nat /\ a <= a + c /\ a + c < a + 2 * c
          BY <1>1
    <2>3. Page(a + c) = Page(a)
          BY <1>2, <1>4, <2>2, AlignedInPage
    <2> QED BY <1>2, <1>4, <2>1, <2>2, <2>3
<1>5. CASE ~Divides(2 * c, a)
    <2>1. BuddyOf(a, c) = a - c
          BY <1>3, <1>5 DEF BuddyOf
    <2>2. c <= a /\ Divides(2 * c, a - c)
          BY <1>1, <1>5, Halves
    <2>3. a - c \in Nat /\ a - c <= a /\ a < (a - c) + 2 * c
          BY <1>1, <2>2
    <2>4. Page(a) = Page(a - c)
          BY <1>2, <2>2, <2>3, AlignedInPage
    <2> QED BY <1>2, <1>5, <2>1, <2>2, <2>3, <2>4
<1> QED BY <1>4, <1>5

-----------------------------------------------------------------------------
(* Tilings.                                                                  *)

\* A block begins and ends in its page; there another begins, or the page ends.
Fitted(s, a) ==
    /\ Divides(s[a], a)
    /\ FirstBlock(Page(a)) \in DOMAIN s
    /\ EndIn(s, a) \in DOMAIN s \/ EndIn(s, a) = FirstBlock(Page(a)) + PageSize

\* A block's address, class and end are numbers, and its page is a page.
LEMMA BlockNumbers ==
    ASSUME NEW s, s \in [DOMAIN s -> Classes], DOMAIN s \subseteq Addresses,
           NEW a \in DOMAIN s
    PROVE  /\ a \in Addresses /\ a \in Nat /\ s[a] \in Classes
           /\ s[a] \in Nat \ {0} /\ AllocHeader < s[a] /\ s[a] <= PageSize
           /\ EndIn(s, a) \in Nat /\ a < EndIn(s, a)
           /\ Page(a) \in PageIds
<1>1. s[a] \in Classes /\ a \in Addresses
      OBVIOUS
<1>2. s[a] \in Nat \ {0} /\ AllocHeader < s[a] /\ s[a] <= PageSize
      BY <1>1, Layout
<1>3. a \in Nat /\ Page(a) \in PageIds
      BY <1>1, AddressInPage
<1> QED BY <1>1, <1>2, <1>3 DEF EndIn

\* The end of an aligned block is the end of its page iff it is the beginning
\* of one.
LEMMA EndOfPage ==
    ASSUME NEW a \in Nat, NEW c \in Classes, Divides(c, a)
    PROVE  (a + c) % PageSize = 0 <=> a + c = FirstBlock(Page(a)) + PageSize
<1>1. PageSize \in Nat \ {0} /\ c \in Nat \ {0} /\ a + c \in Nat
      BY Layout
<1>2. /\ FirstBlock(Page(a)) \in Nat /\ FirstBlock(Page(a)) <= a
      /\ Divides(PageSize, FirstBlock(Page(a)))
      BY PageOf
<1>3. a + c <= FirstBlock(Page(a)) + PageSize
      BY AlignedInPage
<1>4. (a + c) % PageSize = 0 <=> Divides(PageSize, a + c)
      BY <1>1, NoRest
<1>5. ASSUME Divides(PageSize, a + c) PROVE a + c = FirstBlock(Page(a)) + PageSize
    <2>1. FirstBlock(Page(a)) + PageSize <= a + c
          BY <1>1, <1>2, <1>5, Multiples
    <2> QED BY <1>1, <1>2, <1>3, <2>1
<1>6. Divides(PageSize, FirstBlock(Page(a)) + PageSize)
    <2>1. Divides(PageSize, PageSize)
          BY Layout, ClassesDivide
    <2> QED BY <1>1, <1>2, <2>1, Multiples
<1> QED BY <1>4, <1>5, <1>6

\* In terms of multiples, the blocks of a tiling fit, and
LEMMA TiledFits ==
    ASSUME NEW s, Tiled(s), NEW a \in DOMAIN s
    PROVE  /\ Fitted(s, a) /\ FirstBlock(Page(a)) \in Nat
           /\ FirstBlock(Page(a)) <= a
           /\ EndIn(s, a) <= FirstBlock(Page(a)) + PageSize
<1>1. /\ a \in Nat /\ s[a] \in Classes /\ s[a] \in Nat \ {0}
      BY BlockNumbers DEF Tiled
<1>2. Tile(s, a)
      BY DEF Tiled
<1>3. Divides(s[a], a)
      BY <1>1, <1>2, NoRest DEF Tile
<1>4. (a + s[a]) % PageSize = 0 <=> a + s[a] = FirstBlock(Page(a)) + PageSize
      BY <1>1, <1>3, EndOfPage
<1>5. a + s[a] <= FirstBlock(Page(a)) + PageSize
      BY <1>1, <1>3, AlignedInPage
<1>6. Fitted(s, a)
      BY <1>2, <1>3, <1>4 DEF Tile, Fitted, EndIn
<1> QED BY <1>1, <1>5, <1>6, PageOf DEF EndIn

\* blocks that fit and do not overlap are a tiling.
LEMMA FitsTile ==
    ASSUME NEW s, s \in [DOMAIN s -> Classes], DOMAIN s \subseteq Addresses,
           \A a \in DOMAIN s : Fitted(s, a),
           \A a, b \in DOMAIN s : a < b => EndIn(s, a) <= b
    PROVE  Tiled(s)
<1>1. ASSUME NEW a \in DOMAIN s PROVE Tile(s, a)
    <2>1. /\ a \in Nat /\ s[a] \in Classes /\ s[a] \in Nat \ {0}
          BY BlockNumbers
    <2>2. Fitted(s, a)
          OBVIOUS
    <2>3. a % s[a] = 0
          BY <2>1, <2>2, NoRest DEF Fitted
    <2>4. (a + s[a]) % PageSize = 0 <=> a + s[a] = FirstBlock(Page(a)) + PageSize
          BY <2>1, <2>2, EndOfPage DEF Fitted
    <2> QED BY <2>2, <2>3, <2>4 DEF Tile, Fitted, EndIn
<1> QED BY <1>1 DEF Tiled

\* Two buddies of class c, the lower half first, become one block.
Pair(s, a, b, c) ==
    /\ s[a] = c /\ s[b] = c /\ b = a + c
    /\ Divides(2 * c, a) /\ Page(b) = Page(a)
MergeAt(s, a, b, c) == [x \in DOMAIN s \ {b} |-> IF x = a THEN 2 * c ELSE s[x]]
LEMMA MergeTiles ==
    ASSUME NEW s, Tiled(s), NEW a \in DOMAIN s, NEW b \in DOMAIN s,
           NEW c, Pair(s, a, b, c)
    PROVE  LET t == MergeAt(s, a, b, c)
           IN  /\ Tiled(t)
               /\ {Page(x) : x \in DOMAIN t} = {Page(x) : x \in DOMAIN s}
<1> DEFINE t == MergeAt(s, a, b, c)
<1> USE DEF Pair
<1>1. /\ s \in [DOMAIN s -> Classes] /\ DOMAIN s \subseteq Addresses
      /\ \A x, y \in DOMAIN s : x < y => EndIn(s, x) <= y
      BY DEF Tiled
<1>2. \A x \in DOMAIN s :
          /\ x \in Nat /\ s[x] \in Nat \ {0} /\ s[x] \in Classes
          /\ EndIn(s, x) \in Nat /\ x < EndIn(s, x)
          /\ Fitted(s, x) /\ FirstBlock(Page(x)) \in Nat
          /\ FirstBlock(Page(x)) <= x
          /\ EndIn(s, x) <= FirstBlock(Page(x)) + PageSize
      BY <1>1, BlockNumbers, TiledFits
<1>3. /\ c \in Nat \ {0} /\ c \in Classes /\ PageSize \in Nat \ {0}
      /\ PageSize \in Classes /\ a < b /\ c <= PageSize
      BY <1>2, Layout
<1>4. 2 * c \in Classes
    <2>1. c # PageSize
        <3>1. b < FirstBlock(Page(a)) + PageSize /\ FirstBlock(Page(a)) <= a
              BY <1>2, <1>3
        <3> QED BY <1>2, <1>3, <3>1
    <2> QED BY <1>3, <2>1, ClassesDivide
<1>5. /\ DOMAIN t = DOMAIN s \ {b} /\ t[a] = 2 * c
      /\ \A x \in DOMAIN t : x # a => t[x] = s[x]
      /\ a \in DOMAIN t
      BY <1>2, <1>3 DEF MergeAt
<1>6. EndIn(s, a) = b /\ EndIn(t, a) = EndIn(s, b)
      BY <1>2, <1>3, <1>5 DEF EndIn
<1>7. \A x \in DOMAIN t : x # a => EndIn(t, x) = EndIn(s, x)
      BY <1>5 DEF EndIn
<1> HIDE DEF t
<1>8. t \in [DOMAIN t -> Classes] /\ DOMAIN t \subseteq Addresses
    <2>1. \A x \in DOMAIN t : t[x] \in Classes
          BY <1>2, <1>4, <1>5
    <2>2. t = [x \in DOMAIN t |-> t[x]]
          BY <1>5 DEF t, MergeAt
    <2> QED BY <1>1, <1>5, <2>1, <2>2
<1>9. ASSUME NEW x \in DOMAIN s PROVE FirstBlock(Page(x)) \in DOMAIN t
    <2>1. FirstBlock(Page(x)) \in DOMAIN s
          BY <1>2 DEF Fitted
    <2>2. FirstBlock(Page(x)) # b
        <3>1. SUFFICES ASSUME FirstBlock(Page(x)) = b PROVE FALSE
              OBVIOUS
        <3>2. Page(x) \in PageIds
              BY <1>1, BlockNumbers
        <3>3. Page(b) = Page(x)
              BY <3>1, <3>2, PageBegins
        <3>4. FirstBlock(Page(a)) = b
              BY <3>1, <3>3
        <3> QED BY <1>2, <1>3, <3>4
    <2> QED BY <1>5, <2>1, <2>2
<1>10. ASSUME NEW x \in DOMAIN t PROVE Fitted(t, x)
    <2>1. x \in DOMAIN s /\ FirstBlock(Page(x)) \in DOMAIN t
          BY <1>5, <1>9
    <2>2. CASE x = a
        <3>1. EndIn(s, b) \in DOMAIN s \/ EndIn(s, b) = FirstBlock(Page(a)) + PageSize
              BY <1>2 DEF Fitted
        <3>2. EndIn(s, b) # b
              BY <1>2
        <3> QED BY <1>5, <1>6, <2>1, <2>2, <3>1, <3>2 DEF Fitted
    <2>3. CASE x # a
        <3>1. /\ Divides(s[x], x)
              /\ EndIn(s, x) \in DOMAIN s \/ EndIn(s, x) = FirstBlock(Page(x)) + PageSize
              BY <1>2, <2>1 DEF Fitted
        <3>2. EndIn(s, x) # b
            <4>1. SUFFICES ASSUME EndIn(s, x) = b PROVE FALSE
                  OBVIOUS
            <4>2. x < b /\ ~ (a < x) /\ ~ (x < a)
                  BY <1>1, <1>2, <1>3, <1>6, <2>1, <4>1
            <4> QED BY <1>2, <2>1, <2>3, <4>2
        <3>3. t[x] = s[x] /\ EndIn(t, x) = EndIn(s, x)
              BY <1>5, <1>7, <2>3
        <3> QED BY <1>5, <2>1, <3>1, <3>2, <3>3 DEF Fitted
    <2> QED BY <2>2, <2>3
<1>11. ASSUME NEW x \in DOMAIN t, NEW y \in DOMAIN t, x < y
       PROVE  EndIn(t, x) <= y
    <2>1. x \in DOMAIN s /\ y \in DOMAIN s /\ y # b /\ EndIn(s, x) <= y
          BY <1>1, <1>5, <1>11
    <2>2. CASE x = a
        <3>1. b < y
              BY <1>2, <1>6, <2>1, <2>2
        <3> QED BY <1>1, <1>6, <2>1, <2>2, <3>1
    <2>3. CASE x # a
          BY <1>7, <2>1, <2>3
    <2> QED BY <2>2, <2>3
<1>12. Tiled(t)
       BY <1>8, <1>10, <1>11, FitsTile
<1>13. {Page(x) : x \in DOMAIN t} = {Page(x) : x \in DOMAIN s}
       BY <1>5
<1> QED BY <1>12, <1>13 DEF t

\* A block that spans its page is the only one there.
LEMMA SpanningAlone ==
    ASSUME NEW s, Tiled(s), NEW a \in DOMAIN s, s[a] = PageSize
    PROVE  /\ a = FirstBlock(Page(a)) /\ a % PageSize = 0
           /\ \A x \in DOMAIN s : Page(x) = Page(a) => x = a
<1>1. /\ s \in [DOMAIN s -> Classes] /\ DOMAIN s \subseteq Addresses
      /\ \A x, y \in DOMAIN s : x < y => EndIn(s, x) <= y
      BY DEF Tiled
<1>2. \A x \in DOMAIN s :
          /\ x \in Nat /\ EndIn(s, x) \in Nat /\ x < EndIn(s, x)
          /\ FirstBlock(Page(x)) \in Nat /\ FirstBlock(Page(x)) <= x
          /\ EndIn(s, x) <= FirstBlock(Page(x)) + PageSize
      BY <1>1, BlockNumbers, TiledFits
<1>3. EndIn(s, a) = a + PageSize /\ PageSize \in Nat \ {0} /\ a \in Nat
      BY <1>2, Layout DEF EndIn
<1>4. a = FirstBlock(Page(a))
      BY <1>2, <1>3
<1>5. ASSUME NEW x \in DOMAIN s, Page(x) = Page(a), x # a PROVE FALSE
    <2>1. a < x
          BY <1>2, <1>4, <1>5
    <2>2. a + PageSize <= x
          BY <1>1, <1>3, <2>1
    <2> QED BY <1>2, <1>3, <1>4, <1>5, <2>2
<1>6. Divides(PageSize, a)
      BY <1>3, <1>4, PageOf
<1> QED BY <1>3, <1>4, <1>5, <1>6, NoRest

\* Such a block leaves, and its page with it.
Without(s, a) == [x \in DOMAIN s \ {a} |-> s[x]]
LEMMA ReleaseTiles ==
    ASSUME NEW s, Tiled(s), NEW a \in DOMAIN s, s[a] = PageSize
    PROVE  /\ Tiled(Without(s, a))
           /\ {Page(x) : x \in DOMAIN Without(s, a)}
                = {Page(x) : x \in DOMAIN s} \ {Page(a)}
<1> DEFINE t == Without(s, a)
<1>1. /\ s \in [DOMAIN s -> Classes] /\ DOMAIN s \subseteq Addresses
      /\ \A x, y \in DOMAIN s : x < y => EndIn(s, x) <= y
      /\ \A x \in DOMAIN s : Tile(s, x)
      BY DEF Tiled
<1>2. /\ a = FirstBlock(Page(a)) /\ a % PageSize = 0
      /\ \A x \in DOMAIN s : Page(x) = Page(a) => x = a
      BY SpanningAlone
<1>3. /\ DOMAIN t = DOMAIN s \ {a}
      /\ \A x \in DOMAIN t : t[x] = s[x] /\ EndIn(t, x) = EndIn(s, x)
      BY DEF Without, EndIn
<1>4. t \in [DOMAIN t -> Classes] /\ DOMAIN t \subseteq Addresses
      BY <1>1 DEF Without
<1> HIDE DEF t
<1>5. ASSUME NEW x \in DOMAIN t PROVE Tile(t, x)
    <2>1. x \in DOMAIN s /\ x # a /\ Tile(s, x)
          BY <1>1, <1>3
    <2>2. FirstBlock(Page(x)) # a
        <3>1. SUFFICES ASSUME FirstBlock(Page(x)) = a PROVE FALSE
              OBVIOUS
        <3>2. Page(x) \in PageIds
              BY <1>1, <2>1, BlockNumbers
        <3>3. Page(a) = Page(x)
              BY <3>1, <3>2, PageBegins
        <3> QED BY <1>2, <2>1, <3>3
    <2> QED BY <1>2, <1>3, <2>1, <2>2 DEF Tile
<1>6. \A x, y \in DOMAIN t : x < y => EndIn(t, x) <= y
      BY <1>1, <1>3
<1>7. Tiled(t)
      BY <1>4, <1>5, <1>6 DEF Tiled
<1>8. {Page(x) : x \in DOMAIN t} = {Page(x) : x \in DOMAIN s} \ {Page(a)}
      BY <1>2, <1>3
<1> QED BY <1>7, <1>8 DEF t

\* A block of class d becomes one of class c and free ones of the classes from
\* c to below d.
PartsAt(a, c, d) == {a + x : x \in Parts(c, d)}
SplitAt(s, a, c, d) ==
    [b \in DOMAIN s \cup PartsAt(a, c, d) |->
       IF b = a THEN c ELSE IF b - a \in Parts(c, d) THEN b - a ELSE s[b]]

\* The parts are new blocks in the page of the old one; the others stay.
AfterSplit(s, t, a, c, d) ==
    /\ DOMAIN t = DOMAIN s \cup PartsAt(a, c, d)
    /\ t[a] = c
    /\ \A x \in DOMAIN s : x # a => t[x] = s[x]
    /\ \A x \in Parts(c, d) :
          /\ x \in Classes /\ x \in Nat /\ c <= x /\ x < d
          /\ a + x \notin DOMAIN s /\ t[a + x] = x
          /\ a + x \in Addresses /\ Page(a + x) = Page(a)
          /\ Divides(x, a + x) /\ Divides(2 * x, a)
          /\ 2 * x = d \/ 2 * x \in Parts(c, d)
LEMMA SplitParts ==
    ASSUME NEW s, Tiled(s), NEW a \in DOMAIN s, NEW c \in Classes, c <= s[a]
    PROVE  AfterSplit(s, SplitAt(s, a, c, s[a]), a, c, s[a])
<1> DEFINE d == s[a]
           t == SplitAt(s, a, c, d)
<1>1. /\ s \in [DOMAIN s -> Classes] /\ DOMAIN s \subseteq Addresses
      /\ \A x, y \in DOMAIN s : x < y => EndIn(s, x) <= y
      BY DEF Tiled
<1>2. \A x \in DOMAIN s : x \in Nat /\ x < EndIn(s, x) /\ EndIn(s, x) \in Nat
      BY <1>1, BlockNumbers
<1>3. /\ a \in Nat /\ d \in Classes /\ d \in Nat \ {0} /\ c \in Nat \ {0}
      /\ Page(a) \in PageIds /\ EndIn(s, a) = a + d
      /\ Divides(d, a) /\ EndIn(s, a) <= FirstBlock(Page(a)) + PageSize
      BY <1>1, BlockNumbers, TiledFits, Layout DEF EndIn, Fitted
<1> HIDE DEF d
<1>4. ASSUME NEW x \in Parts(c, d)
      PROVE  /\ x \in Classes /\ x \in Nat \ {0} /\ c <= x /\ x < d
             /\ 2 * x \in Classes /\ 2 * x <= d
             /\ Divides(2 * x, d) /\ Divides(x, d)
    <2>1. x \in Classes /\ c <= x /\ x < d
          BY DEF Parts
    <2>2. x \in Nat \ {0} /\ x <= d
          BY <1>3, <2>1, Layout
    <2> QED BY <1>3, <2>1, <2>2, ClassesDivide
<1>5. ASSUME NEW x \in Parts(c, d), NEW y \in DOMAIN s PROVE a + x # y
    <2>1. x \in Nat \ {0} /\ x < d
          BY <1>4
    <2>2. SUFFICES ASSUME a + x = y PROVE FALSE
          OBVIOUS
    <2>3. a < y /\ y < EndIn(s, a)
          BY <1>3, <2>1, <2>2
    <2> QED BY <1>1, <1>2, <2>3
<1>6. \A y \in DOMAIN s : y - a \notin Parts(c, d)
    <2>1. SUFFICES ASSUME NEW y \in DOMAIN s, y - a \in Parts(c, d) PROVE FALSE
          OBVIOUS
    <2>2. a + (y - a) = y
          BY <1>2, <1>3
    <2> QED BY <1>5, <2>1, <2>2
<1>7. /\ DOMAIN t = DOMAIN s \cup PartsAt(a, c, d)
      /\ t[a] = c
      /\ \A x \in DOMAIN s : x # a => t[x] = s[x]
      BY <1>6 DEF SplitAt
<1>8. ASSUME NEW x \in Parts(c, d)
      PROVE  /\ x \in Classes /\ x \in Nat /\ c <= x /\ x < d
             /\ a + x \notin DOMAIN s /\ t[a + x] = x
             /\ a + x \in Addresses /\ Page(a + x) = Page(a)
             /\ Divides(x, a + x) /\ Divides(2 * x, a)
             /\ 2 * x = d \/ 2 * x \in Parts(c, d)
    <2>1. /\ x \in Classes /\ x \in Nat \ {0} /\ c <= x /\ x < d
          /\ 2 * x \in Classes /\ 2 * x <= d
          /\ Divides(2 * x, d) /\ Divides(x, d)
          BY <1>4
    <2>2. a + x \notin DOMAIN s
          BY <1>5
    <2>3. t[a + x] = x
        <3>1. a + x # a /\ (a + x) - a = x /\ a + x \in PartsAt(a, c, d)
              BY <1>3, <2>1 DEF PartsAt
        <3> QED BY <3>1 DEF SplitAt
    <2>4. Page(a + x) = Page(a)
        <3>1. a + x \in Nat /\ a <= a + x /\ a + x < a + d
              BY <1>3, <2>1
        <3> QED BY <1>3, <3>1, AlignedInPage
    <2>5. a + x \in Addresses
        <3>1. /\ FirstBlock(Page(a)) + PageSize <= NumPages * PageSize
              /\ FirstBlock(Page(a)) \in Addresses
              BY <1>3, PageBegins
        <3>2. PageSize \in Nat /\ NumPages * PageSize \in Nat /\ FirstBlock(Page(a)) \in Nat
              BY <1>3, <3>1, Layout, PageOf
        <3>3. a + x \in Nat /\ a + x < NumPages * PageSize
              BY <1>3, <2>1, <3>1, <3>2
        <3> QED BY <3>2, <3>3 DEF Addresses
    <2>6. Divides(x, a) /\ Divides(2 * x, a) /\ Divides(x, x)
        <3>1. 2 * x \in Nat
              BY <2>1
        <3> QED BY <1>3, <2>1, <3>1, Aligned, ClassesDivide
    <2>7. Divides(x, a + x)
          BY <1>3, <2>1, <2>6, Multiples
    <2>8. 2 * x = d \/ 2 * x \in Parts(c, d)
          BY <1>3, <2>1 DEF Parts
    <2> QED BY <2>1, <2>2, <2>3, <2>4, <2>5, <2>6, <2>7, <2>8
<1> QED BY <1>7, <1>8 DEF d, AfterSplit

\* A split leaves the same pages filled.
LEMMA SplitTiles ==
    ASSUME NEW s, Tiled(s), NEW a \in DOMAIN s, NEW c \in Classes, c <= s[a]
    PROVE  /\ Tiled(SplitAt(s, a, c, s[a]))
           /\ {Page(x) : x \in DOMAIN SplitAt(s, a, c, s[a])}
                = {Page(x) : x \in DOMAIN s}
<1> DEFINE d == s[a]
           t == SplitAt(s, a, c, d)
<1>1. /\ s \in [DOMAIN s -> Classes] /\ DOMAIN s \subseteq Addresses
      /\ \A x, y \in DOMAIN s : x < y => EndIn(s, x) <= y
      BY DEF Tiled
<1>2. \A x \in DOMAIN s :
          /\ x \in Nat /\ s[x] \in Nat \ {0} /\ s[x] \in Classes
          /\ EndIn(s, x) \in Nat /\ x < EndIn(s, x)
          /\ Fitted(s, x)
      BY <1>1, BlockNumbers, TiledFits
<1>3. /\ d \in Classes /\ d \in Nat \ {0} /\ c \in Nat \ {0} /\ EndIn(s, a) = a + d
      /\ c <= d /\ a \in Nat
      BY <1>2, Layout DEF EndIn
<1>4. /\ DOMAIN t = DOMAIN s \cup PartsAt(a, c, d)
      /\ t[a] = c
      /\ \A x \in DOMAIN s : x # a => t[x] = s[x]
      /\ \A x \in Parts(c, d) :
            /\ x \in Classes /\ x \in Nat /\ c <= x /\ x < d
            /\ a + x \notin DOMAIN s /\ t[a + x] = x
            /\ a + x \in Addresses /\ Page(a + x) = Page(a)
            /\ Divides(x, a + x) /\ Divides(2 * x, a)
            /\ 2 * x = d \/ 2 * x \in Parts(c, d)
    <2>1. AfterSplit(s, t, a, c, d)
          BY SplitParts
    <2> QED BY <2>1 DEF AfterSplit
<1>5. \A x, y \in Parts(c, d) : x < y => 2 * x <= y
      BY <1>4, ClassesDivide
<1>6. t = [x \in DOMAIN t |-> t[x]]
      BY <1>4 DEF SplitAt
<1>7. Divides(c, a)
    <2>1. Divides(d, a) /\ Divides(c, d)
          BY <1>2, <1>3, ClassesDivide DEF Fitted
    <2> QED BY <1>3, <2>1, Aligned
<1>8. c = d \/ c \in Parts(c, d)
      BY <1>3 DEF Parts
<1> HIDE DEF t, d
<1>9. t \in [DOMAIN t -> Classes] /\ DOMAIN t \subseteq Addresses
    <2>1. \A x \in DOMAIN t : t[x] \in Classes /\ x \in Addresses
          BY <1>1, <1>2, <1>4 DEF PartsAt
    <2> QED BY <1>6, <2>1
    \* Where the blocks end now.
<1>10. EndIn(t, a) = a + c
       BY <1>4 DEF EndIn
<1>11. \A x \in Parts(c, d) : EndIn(t, a + x) = a + 2 * x
       BY <1>3, <1>4 DEF EndIn
<1>12. \A x \in DOMAIN s : x # a => EndIn(t, x) = EndIn(s, x)
       BY <1>4 DEF EndIn
<1>13. EndIn(s, a) \in DOMAIN t \/ EndIn(s, a) = FirstBlock(Page(a)) + PageSize
       BY <1>2, <1>4 DEF Fitted
<1>14. \A x \in DOMAIN s : FirstBlock(Page(x)) \in DOMAIN t
       BY <1>2, <1>4 DEF Fitted
<1>15. ASSUME NEW x \in DOMAIN t PROVE Fitted(t, x)
    <2>1. CASE x \in DOMAIN s /\ x # a
          BY <1>2, <1>4, <1>12, <2>1 DEF Fitted
    <2>2. CASE x = a
        <3>1. a + c \in DOMAIN t \/ a + c = EndIn(s, a)
              BY <1>3, <1>4, <1>8 DEF PartsAt
        <3> QED BY <1>4, <1>7, <1>10, <1>13, <1>14, <2>2, <3>1 DEF Fitted
    <2>3. CASE x \in PartsAt(a, c, d)
        <3>1. PICK y \in Parts(c, d) : x = a + y
              BY <2>3 DEF PartsAt
        <3>2. a + 2 * y \in DOMAIN t \/ a + 2 * y = EndIn(s, a)
              BY <1>3, <1>4 DEF PartsAt
        <3>3. t[x] = y /\ Divides(y, x) /\ Page(x) = Page(a) /\ EndIn(t, x) = a + 2 * y
              BY <1>4, <1>11, <3>1
        <3> QED BY <1>13, <1>14, <3>2, <3>3 DEF Fitted
    <2> QED BY <1>4, <2>1, <2>2, <2>3
<1>16. \A x \in PartsAt(a, c, d) : \E y \in Parts(c, d) : x = a + y /\ EndIn(t, x) = a + 2 * y
       BY <1>11 DEF PartsAt
    \* Everything that was made of the old block ends where it did at the latest.
<1>17. ASSUME NEW x \in PartsAt(a, c, d) \cup {a}
       PROVE  a <= x /\ x < EndIn(s, a) /\ EndIn(t, x) <= EndIn(s, a)
    <2>1. CASE x = a
          BY <1>3, <1>10, <2>1
    <2>2. CASE x \in PartsAt(a, c, d)
        <3>1. PICK y \in Parts(c, d) : x = a + y /\ EndIn(t, x) = a + 2 * y
              BY <1>16, <2>2
        <3>2. y \in Nat /\ y < d /\ y \in Classes /\ 2 * y <= d
              BY <1>3, <1>4, <3>1, ClassesDivide
        <3> QED BY <1>3, <3>1, <3>2
    <2> QED BY <2>1, <2>2
<1>18. ASSUME NEW x \in DOMAIN t, NEW y \in DOMAIN t, x < y
       PROVE  EndIn(t, x) <= y
    <2>1. CASE x \in DOMAIN s /\ x # a /\ y \in DOMAIN s
          BY <1>1, <1>12, <1>18, <2>1
    <2>2. CASE x \in DOMAIN s /\ x # a /\ y \in PartsAt(a, c, d)
        <3>1. a <= y /\ y < EndIn(s, a) /\ y \in Nat
              BY <1>4, <1>3, <1>17, <2>2 DEF PartsAt
        <3>2. x < a
            <4>1. SUFFICES ASSUME a < x PROVE FALSE
                  BY <1>2, <1>3, <2>2
            <4> QED BY <1>1, <1>2, <1>18, <2>2, <3>1, <4>1
        <3>3. EndIn(s, x) <= a
              BY <1>1, <2>2, <3>2
        <3> QED BY <1>2, <1>3, <1>12, <2>2, <3>1, <3>3
    <2>3. CASE x \in PartsAt(a, c, d) \cup {a} /\ y \in DOMAIN s
        <3>1. a <= x /\ x < EndIn(s, a) /\ EndIn(t, x) <= EndIn(s, a)
              BY <1>17, <2>3
        <3>2. x \in Nat /\ EndIn(t, x) \in Nat
              BY <1>9, BlockNumbers, AddressInPage
        <3>3. a < y
              BY <1>2, <1>3, <1>18, <2>3, <3>1, <3>2
        <3>4. EndIn(s, a) <= y
              BY <1>1, <2>3, <3>3
        <3> QED BY <1>2, <1>3, <2>3, <3>1, <3>2, <3>4
    <2>4. CASE x = a /\ y \in PartsAt(a, c, d)
        <3>1. PICK v \in Parts(c, d) : y = a + v
              BY <2>4 DEF PartsAt
        <3> QED BY <1>3, <1>4, <1>10, <2>4, <3>1
    <2>5. CASE x \in PartsAt(a, c, d) /\ y \in PartsAt(a, c, d)
        <3>1. PICK u \in Parts(c, d) : x = a + u /\ EndIn(t, x) = a + 2 * u
              BY <1>16, <2>5
        <3>2. PICK v \in Parts(c, d) : y = a + v
              BY <2>5 DEF PartsAt
        <3>3. u \in Nat /\ v \in Nat
              BY <1>4
        <3>4. u < v
              BY <1>3, <1>18, <3>1, <3>2, <3>3
        <3> QED BY <1>3, <1>5, <3>1, <3>2, <3>3, <3>4
    <2> QED BY <1>4, <2>1, <2>2, <2>3, <2>4, <2>5
<1>19. Tiled(t)
       BY <1>9, <1>15, <1>18, FitsTile
<1>20. {Page(x) : x \in DOMAIN t} = {Page(x) : x \in DOMAIN s}
       BY <1>4 DEF PartsAt
<1> QED BY <1>19, <1>20 DEF t, d

\* A new data page is one block.
LEMMA NewTiles ==
    ASSUME NEW s, Tiled(s), NEW p \in PageIds \ {Page(x) : x \in DOMAIN s}
    PROVE  LET t == With(s, FirstBlock(p), PageSize)
           IN  /\ FirstBlock(p) \notin DOMAIN s
               /\ Tiled(t)
               /\ {Page(x) : x \in DOMAIN t} = {Page(x) : x \in DOMAIN s} \cup {p}
<1> DEFINE b == FirstBlock(p)
           t == With(s, b, PageSize)
<1>1. /\ s \in [DOMAIN s -> Classes] /\ DOMAIN s \subseteq Addresses
      /\ \A x, y \in DOMAIN s : x < y => EndIn(s, x) <= y
      BY DEF Tiled
<1>2. \A x \in DOMAIN s :
          /\ x \in Nat /\ EndIn(s, x) \in Nat /\ x < EndIn(s, x)
          /\ Fitted(s, x)
          /\ FirstBlock(Page(x)) \in Nat /\ FirstBlock(Page(x)) <= x
          /\ EndIn(s, x) <= FirstBlock(Page(x)) + PageSize
      BY <1>1, BlockNumbers, TiledFits
<1>3. /\ b \in Addresses /\ Page(b) = p /\ b \in Nat
      /\ PageSize \in Nat \ {0} /\ PageSize \in Classes
      BY PageBegins, AddressInPage, Layout
<1>4. b \notin DOMAIN s
      BY <1>3
<1>5. /\ DOMAIN t = DOMAIN s \cup {b} /\ t[b] = PageSize
      /\ \A x \in DOMAIN s : t[x] = s[x] /\ EndIn(t, x) = EndIn(s, x)
      /\ EndIn(t, b) = b + PageSize
      BY <1>4 DEF With, EndIn
<1>6. t = [x \in DOMAIN t |-> t[x]]
      BY <1>5 DEF With
<1> HIDE DEF t, b
<1>7. t \in [DOMAIN t -> Classes] /\ DOMAIN t \subseteq Addresses
    <2>1. \A x \in DOMAIN t : t[x] \in Classes /\ x \in Addresses
          BY <1>1, <1>3, <1>5
    <2> QED BY <1>6, <2>1
<1>8. Divides(PageSize, b)
      BY <1>3, PageOf DEF b
<1>9. FirstBlock(Page(b)) = b
      BY <1>3 DEF b
<1>10. ASSUME NEW x \in DOMAIN t PROVE Fitted(t, x)
    <2>1. CASE x = b
          BY <1>5, <1>8, <1>9, <2>1 DEF Fitted
    <2>2. CASE x \in DOMAIN s
          BY <1>2, <1>5, <2>2 DEF Fitted
    <2> QED BY <1>5, <2>1, <2>2
<1>11. ASSUME NEW x \in DOMAIN s PROVE x < b => EndIn(s, x) <= b
    <2>1. SUFFICES ASSUME x < b PROVE EndIn(s, x) <= b
          OBVIOUS
    <2>2. Divides(PageSize, FirstBlock(Page(x)))
          BY <1>2, PageOf
    <2>3. FirstBlock(Page(x)) < b /\ FirstBlock(Page(x)) \in Nat
          BY <1>2, <1>3, <2>1
    <2>4. FirstBlock(Page(x)) + PageSize <= b
          BY <1>3, <1>8, <2>2, <2>3, Multiples
    <2> QED BY <1>2, <1>3, <2>4
<1>12. ASSUME NEW y \in DOMAIN s PROVE b < y => b + PageSize <= y
    <2>1. SUFFICES ASSUME b < y, y < b + PageSize PROVE FALSE
          BY <1>2, <1>3
    <2>2. y \in Nat /\ b <= y /\ p \in Nat
          BY <1>2, <1>3, <2>1 DEF PageIds
    <2>3. p = Page(y)
          BY <2>1, <2>2, PageOf DEF b
    <2> QED BY <2>3
<1>13. \A x, y \in DOMAIN t : x < y => EndIn(t, x) <= y
       BY <1>1, <1>3, <1>5, <1>11, <1>12
<1>14. Tiled(t)
       BY <1>7, <1>10, <1>13, FitsTile
<1>15. {Page(x) : x \in DOMAIN t} = {Page(x) : x \in DOMAIN s} \cup {p}
       BY <1>3, <1>5
<1> QED BY <1>4, <1>14, <1>15 DEF t, b

\* In front of a block that does not begin its page another one ends.
LEMMA BlockBefore ==
    ASSUME NEW s, Tiled(s), NEW a \in DOMAIN s, a # FirstBlock(Page(a))
    PROVE  \E b \in DOMAIN s : EndIn(s, b) = a
<1> DEFINE gaps == {a - x : x \in {y \in DOMAIN s : y < a /\ Page(y) = Page(a)}}
<1>1. /\ s \in [DOMAIN s -> Classes] /\ DOMAIN s \subseteq Addresses
      /\ \A x, y \in DOMAIN s : x < y => EndIn(s, x) <= y
      BY DEF Tiled
<1>2. \A x \in DOMAIN s :
          /\ x \in Nat /\ EndIn(s, x) \in Nat /\ x < EndIn(s, x)
          /\ Page(x) \in PageIds /\ Fitted(s, x)
          /\ FirstBlock(Page(x)) \in Nat /\ FirstBlock(Page(x)) <= x
          /\ x < FirstBlock(Page(x)) + PageSize
      BY <1>1, BlockNumbers, TiledFits, PageOf
<1>3. /\ FirstBlock(Page(a)) \in DOMAIN s /\ FirstBlock(Page(a)) < a
      /\ Page(FirstBlock(Page(a))) = Page(a)
      BY <1>2, PageBegins DEF Fitted
<1>4. gaps \in SUBSET Nat /\ gaps # {}
      BY <1>2, <1>3
<1>5. PICK n \in gaps : \A k \in gaps : n <= k
      BY <1>4, LeastNat
<1>6. PICK b \in DOMAIN s : b < a /\ Page(b) = Page(a) /\ n = a - b
      BY <1>5
<1>7. EndIn(s, b) <= a
      BY <1>1, <1>6
<1>8. ASSUME EndIn(s, b) < a PROVE FALSE
    <2> DEFINE e == EndIn(s, b)
    <2>1. e \in DOMAIN s
          BY <1>2, <1>6, <1>8, Layout DEF Fitted
    <2>2. Page(e) = Page(a)
        <3>1. /\ FirstBlock(Page(a)) <= e /\ e < FirstBlock(Page(a)) + PageSize
              /\ Page(a) \in Nat /\ e \in Nat
            <4>1. PageSize \in Nat /\ Page(a) \in Nat /\ a \in Nat /\ e \in Nat
                  BY <1>2, Layout, PageOf
            <4>2. FirstBlock(Page(a)) \in Nat /\ a < FirstBlock(Page(a)) + PageSize
                  BY <1>2
            <4>3. FirstBlock(Page(a)) <= b /\ b \in Nat /\ b < e
                  BY <1>2, <1>6
            <4> QED BY <1>8, <4>1, <4>2, <4>3
        <3> HIDE DEF e
        <3>2. \A p \in Nat : FirstBlock(p) <= e /\ e < FirstBlock(p) + PageSize => p = Page(e)
              BY <3>1, PageOf
        <3> QED BY <3>1, <3>2
    <2>3. a - e \in gaps
          BY <1>8, <2>1, <2>2
    <2>4. a - b <= a - e
          BY <1>5, <1>6, <2>3
    <2>5. b \in Nat /\ a \in Nat /\ e \in Nat /\ b < e
          BY <1>2, <2>1
    <2> HIDE DEF e
    <2> QED BY <2>4, <2>5
<1> QED BY <1>2, <1>7, <1>8

\* Blocks that are free altogether always leave something to merge: the
\* smallest of them has its buddy beside it.
LEMMA NoneSettled ==
    ASSUME NEW s, Tiled(s), Settled(s, DOMAIN s)
    PROVE  DOMAIN s = {}
<1> SUFFICES ASSUME DOMAIN s # {} PROVE FALSE
    OBVIOUS
<1> DEFINE sizes == {s[x] : x \in DOMAIN s}
<1>1. /\ s \in [DOMAIN s -> Classes] /\ DOMAIN s \subseteq Addresses
      BY DEF Tiled
<1>2. \A x \in DOMAIN s :
          /\ x \in Nat /\ s[x] \in Nat \ {0} /\ s[x] \in Classes /\ s[x] <= PageSize
          /\ EndIn(s, x) = x + s[x] /\ s[x] # PageSize
          /\ Fitted(s, x) /\ Divides(s[x], x) /\ FirstBlock(Page(x)) \in Nat
          /\ Divides(PageSize, FirstBlock(Page(x)))
      BY <1>1, BlockNumbers, TiledFits, PageOf DEF EndIn, Settled, Fitted
<1>3. sizes \in SUBSET Nat /\ sizes # {}
      BY <1>2
<1>4. PICK c \in sizes : \A k \in sizes : c <= k
      BY <1>3, LeastNat
<1>5. PICK a \in DOMAIN s : s[a] = c
      BY <1>4
<1>6. /\ c \in Classes /\ c \in Nat \ {0} /\ c < PageSize
      /\ PageSize \in Classes /\ PageSize \in Nat \ {0}
      /\ 2 * c \in Classes /\ 2 * c \in Nat \ {0} /\ Divides(2 * c, PageSize)
    <2>1. /\ c \in Classes /\ c \in Nat \ {0} /\ c < PageSize
          /\ PageSize \in Classes /\ PageSize \in Nat \ {0}
          BY <1>2, <1>5, Layout
    <2> QED BY <2>1, ClassesDivide
<1>7. \A x \in DOMAIN s : c <= s[x]
      BY <1>4
<1>8. ASSUME NEW x \in DOMAIN s, s[x] # c PROVE Divides(2 * c, s[x]) /\ Divides(2 * c, x)
    <2>1. c < s[x]
          BY <1>2, <1>6, <1>7, <1>8
    <2>2. Divides(2 * c, s[x])
          BY <1>2, <1>6, <2>1, ClassesDivide
    <2> QED BY <1>2, <1>6, <2>2, Aligned
<1>9. ASSUME NEW x \in DOMAIN s PROVE Divides(2 * c, FirstBlock(Page(x)))
      BY <1>2, <1>6, Aligned
    \* A smallest block that is a lower half is followed by its buddy.
<1>10. ASSUME NEW x \in DOMAIN s, s[x] = c, Divides(2 * c, x) PROVE FALSE
    <2>1. ~Divides(2 * c, x + c)
          BY <1>2, <1>6, <1>10, Halves
    <2>2. EndIn(s, x) = x + c /\ x + c # FirstBlock(Page(x)) + PageSize
        <3>1. Divides(2 * c, FirstBlock(Page(x)) + PageSize)
              BY <1>2, <1>6, <1>9, Multiples
        <3> QED BY <1>2, <1>10, <2>1, <3>1
    <2>3. x + c \in DOMAIN s
          BY <1>2, <2>2 DEF Fitted
    <2>4. s[x + c] = c
          BY <1>8, <2>1, <2>3
    <2>5. x % (2 * c) = 0
          BY <1>2, <1>6, <1>10, NoRest
    <2> QED BY <1>10, <2>2, <2>3, <2>4, <2>5 DEF Settled
<1>11. ~Divides(2 * c, a)
       BY <1>5, <1>10
<1>12. PICK b \in DOMAIN s : EndIn(s, b) = a
       BY <1>9, <1>11, BlockBefore
<1>13. s[b] = c
    <2>1. SUFFICES ASSUME s[b] # c PROVE FALSE
          OBVIOUS
    <2>2. Divides(2 * c, s[b]) /\ Divides(2 * c, b)
          BY <1>8, <2>1
    <2>3. Divides(2 * c, b + s[b])
          BY <1>2, <1>6, <2>2, Multiples
    <2> QED BY <1>2, <1>11, <1>12, <2>3
<1>14. Divides(2 * c, b)
    <2>1. a = b + c /\ b \in Nat /\ Divides(c, b)
          BY <1>2, <1>12, <1>13
    <2>2. ~Divides(2 * c, b) => Divides(2 * c, b + c)
          BY <1>6, <2>1, Halves
    <2> QED BY <1>11, <2>1, <2>2
<1> QED BY <1>10, <1>13, <1>14

\* A block without a free buddy of its size joins those that are settled.
Apart(s, S, a) ==
    LET b == BuddyOf(a, s[a]) IN ~ (b \in S /\ Page(b) = Page(a) /\ s[b] = s[a])
LEMMA SettledWith ==
    ASSUME NEW s, Tiled(s), NEW S \in SUBSET DOMAIN s, Settled(s, S),
           NEW a \in DOMAIN s, s[a] # PageSize, Apart(s, S, a)
    PROVE  Settled(s, S \cup {a})
<1> DEFINE c == s[a]
           b == BuddyOf(a, c)
<1>1. s \in [DOMAIN s -> Classes] /\ DOMAIN s \subseteq Addresses
      BY DEF Tiled
<1>2. \A x \in DOMAIN s :
          /\ x \in Nat /\ s[x] \in Nat \ {0} /\ s[x] \in Classes /\ s[x] <= PageSize
          /\ EndIn(s, x) = x + s[x] /\ x # EndIn(s, x)
          /\ Divides(s[x], x)
      BY <1>1, BlockNumbers, TiledFits DEF EndIn, Fitted
<1>3. c \in Classes /\ c \in Nat \ {0} /\ c < PageSize /\ a \in Nat /\ Divides(c, a)
      BY <1>2, Layout
<1>4. /\ Page(b) = Page(a)
      /\ Divides(2 * c, a) => b = a + c
      /\ ~Divides(2 * c, a) => b = a - c
      BY <1>3, BuddyIsHalf
<1>5. \A x \in DOMAIN s : x % (2 * s[x]) = 0 => Divides(2 * s[x], x)
    <2>1. ASSUME NEW x \in DOMAIN s PROVE x \in Nat /\ 2 * s[x] \in Nat \ {0}
          BY <1>2
    <2> QED BY <2>1, NoRest
<1>6. ASSUME NEW x \in S \cup {a}, NEW y \in S \cup {a},
             y = EndIn(s, x), x % (2 * s[x]) = 0, s[y] = s[x]
      PROVE  FALSE
    <2>1. x \in DOMAIN s /\ y \in DOMAIN s /\ x # y
          BY <1>2, <1>6
    <2>2. Divides(2 * s[x], x)
          BY <1>5, <1>6, <2>1
    <2>3. CASE x = a
        <3>1. y = b /\ y \in S
              BY <1>2, <1>4, <1>6, <2>1, <2>2, <2>3
        <3> QED BY <1>4, <1>6, <2>3, <3>1 DEF Apart
    <2>4. CASE y = a
        <3>1. x \in S /\ a = x + c /\ s[x] = c /\ Divides(2 * c, x) /\ x \in Nat
              BY <1>2, <1>6, <2>1, <2>2, <2>4
        <3>2. ~Divides(2 * c, a)
              BY <1>2, <1>3, <2>1, <3>1, Halves
        <3>3. b = x
              BY <1>3, <1>4, <3>1, <3>2
        <3> QED BY <1>4, <3>1, <3>3 DEF Apart
    <2>5. CASE x \in S /\ y \in S
          BY <1>6, <2>5 DEF Settled
    <2> QED BY <2>3, <2>4, <2>5
<1>7. \A x \in S \cup {a} : s[x] # PageSize
      BY DEF Settled
<1> QED BY <1>6, <1>7 DEF Settled

-----------------------------------------------------------------------------
(* Lists.                                                                    *)

IsList(l, T) == l \in Seq(T) /\ IsInjective(l)

\* A new element at the front of a list.
LEMMA ListWith ==
    ASSUME NEW T, NEW l, IsList(l, T), NEW x \in T, x \notin ToSet(l)
    PROVE  /\ IsList(<<x>> \o l, T)
           /\ ToSet(<<x>> \o l) = ToSet(l) \cup {x}
<1> DEFINE m == <<x>> \o l
<1>1. /\ l \in Seq(T) /\ Len(l) \in Nat /\ DOMAIN l = 1 .. Len(l)
      /\ \A i, k \in 1 .. Len(l) : l[i] = l[k] => i = k
      /\ \A i \in 1 .. Len(l) : l[i] # x
      BY DEF IsList, IsInjective, ToSet
<1>2. /\ m \in Seq(T) /\ Len(m) = Len(l) + 1 /\ DOMAIN m = 1 .. Len(l) + 1 /\ m[1] = x
      /\ \A i \in 2 .. Len(m) : m[i] = l[i - 1]
      BY <1>1
<1> HIDE DEF m
<1>3. \A i \in 2 .. Len(m) : i - 1 \in 1 .. Len(l) /\ m[i] = l[i - 1] /\ m[i] # x
      BY <1>1, <1>2
<1>4. ASSUME NEW i \in 1 .. Len(m), NEW k \in 1 .. Len(m), m[i] = m[k] PROVE i = k
    <2>1. CASE i = 1 \/ k = 1
          BY <1>1, <1>2, <1>3, <1>4, <2>1
    <2>2. CASE i # 1 /\ k # 1
        <3>1. i \in 2 .. Len(m) /\ k \in 2 .. Len(m)
              BY <1>1, <1>2, <2>2
        <3>2. i - 1 = k - 1
              BY <1>1, <1>3, <1>4, <3>1
        <3> QED BY <3>1, <3>2
    <2> QED BY <2>1, <2>2
<1>5. IsList(m, T)
      BY <1>2, <1>4 DEF IsList, IsInjective
<1>6. ASSUME NEW y PROVE y \in ToSet(m) <=> y \in ToSet(l) \cup {x}
    <2>1. ASSUME y \in ToSet(m) PROVE y \in ToSet(l) \cup {x}
        <3>1. PICK i \in 1 .. Len(m) : y = m[i]
              BY <1>2, <2>1 DEF ToSet
        <3>2. CASE i = 1
              BY <1>2, <3>1, <3>2
        <3>3. CASE i # 1
            <4>1. i \in 2 .. Len(m)
                  BY <1>1, <1>2, <3>3
            <4> QED BY <1>1, <1>3, <3>1, <4>1 DEF ToSet
        <3> QED BY <3>2, <3>3
    <2>2. ASSUME y \in ToSet(l) PROVE y \in ToSet(m)
        <3>1. PICK i \in 1 .. Len(l) : y = l[i]
              BY <1>1, <2>2 DEF ToSet
        <3>2. i + 1 \in 2 .. Len(m) /\ (i + 1) - 1 = i /\ i + 1 \in DOMAIN m
              BY <1>1, <1>2
        <3>3. y = m[i + 1]
              BY <1>3, <3>1, <3>2
        <3> QED BY <3>2, <3>3 DEF ToSet
    <2>3. x \in ToSet(m)
        <3>1. 1 \in DOMAIN m
              BY <1>1, <1>2
        <3> QED BY <1>2, <3>1 DEF ToSet
    <2> QED BY <2>1, <2>2, <2>3
<1> QED BY <1>5, <1>6 DEF m

\* A list without its first element.
LEMMA ListTail ==
    ASSUME NEW T, NEW l, IsList(l, T), l # <<>>
    PROVE  /\ IsList(Tail(l), T) /\ Head(l) \in ToSet(l) /\ Head(l) \in T
           /\ ToSet(Tail(l)) = ToSet(l) \ {Head(l)}
<1> DEFINE m == Tail(l)
<1>1. /\ l \in Seq(T) /\ Len(l) \in Nat \ {0} /\ DOMAIN l = 1 .. Len(l)
      /\ Head(l) = l[1]
      /\ \A i, k \in 1 .. Len(l) : l[i] = l[k] => i = k
      BY DEF IsList, IsInjective
<1>2. /\ m \in Seq(T) /\ DOMAIN m = 1 .. Len(l) - 1
      /\ \A i \in 1 .. Len(l) - 1 : m[i] = l[i + 1]
      BY <1>1
<1> HIDE DEF m
<1>3. ASSUME NEW i \in DOMAIN m, NEW k \in DOMAIN m, m[i] = m[k] PROVE i = k
    <2>1. i + 1 \in 1 .. Len(l) /\ k + 1 \in 1 .. Len(l) /\ l[i + 1] = l[k + 1]
          BY <1>1, <1>2, <1>3
    <2>2. i + 1 = k + 1
          BY <1>1, <2>1
    <2> QED BY <1>1, <1>2, <2>2
<1>4. IsList(m, T)
      BY <1>2, <1>3 DEF IsList, IsInjective
<1>5. ASSUME NEW y PROVE y \in ToSet(m) <=> y \in ToSet(l) \ {l[1]}
    <2>1. ASSUME y \in ToSet(m) PROVE y \in ToSet(l) \ {l[1]}
        <3>1. PICK i \in 1 .. Len(l) - 1 : y = l[i + 1]
              BY <1>2, <2>1 DEF ToSet
        <3>2. i + 1 \in 1 .. Len(l) /\ i + 1 # 1 /\ 1 \in 1 .. Len(l)
              BY <1>1
        <3>3. l[i + 1] # l[1]
              BY <1>1, <3>2
        <3> QED BY <1>1, <3>1, <3>2, <3>3 DEF ToSet
    <2>2. ASSUME y \in ToSet(l), y # l[1] PROVE y \in ToSet(m)
        <3>1. PICK i \in 1 .. Len(l) : y = l[i]
              BY <1>1, <2>2 DEF ToSet
        <3>2. i - 1 \in 1 .. Len(l) - 1 /\ (i - 1) + 1 = i
              BY <1>1, <2>2, <3>1
        <3>3. m[i - 1] = y
              BY <1>2, <3>1, <3>2
        <3> QED BY <1>2, <3>2, <3>3 DEF ToSet
    <2> QED BY <2>1, <2>2
<1>6. l[1] \in ToSet(l) /\ l[1] \in T
      BY <1>1 DEF ToSet
<1> QED BY <1>1, <1>4, <1>5, <1>6 DEF m

\* Unlisted takes the element off the list, wherever it is.
LEMMA ListWithout ==
    ASSUME NEW T, NEW l, IsList(l, T), NEW x \in ToSet(l)
    PROVE  /\ IsList(Unlisted(l, x), T)
           /\ ToSet(Unlisted(l, x)) = ToSet(l) \ {x}
<1> DEFINE j == CHOOSE i \in DOMAIN l : l[i] = x
           f == SubSeq(l, 1, j - 1)
           g == SubSeq(l, j + 1, Len(l))
           m == Unlisted(l, x)
<1>1. /\ l \in Seq(T) /\ Len(l) \in Nat /\ DOMAIN l = 1 .. Len(l)
      /\ \A i, k \in 1 .. Len(l) : l[i] = l[k] => i = k
      /\ \A i \in 1 .. Len(l) : l[i] \in T
      BY DEF IsList, IsInjective
<1>2. j \in 1 .. Len(l) /\ l[j] = x
    <2>1. \E i \in DOMAIN l : l[i] = x
          BY DEF ToSet
    <2> QED BY <1>1, <2>1
<1>3. m = f \o g
      BY DEF Unlisted, RemoveAt
<1> HIDE DEF j
<1>4. f \in Seq(T) /\ Len(f) = j - 1 /\ \A k \in 1 .. j - 1 : f[k] = l[k]
      BY <1>1, <1>2, SubSeqProperties
<1>5. /\ g \in Seq(T) /\ Len(g) = Len(l) - j
      /\ \A k \in 1 .. Len(l) - j : g[k] = l[k + j]
    <2>1. j + 1 \in Int /\ \A k \in j + 1 .. Len(l) : l[k] \in T
          BY <1>1, <1>2
    <2>2. /\ g \in Seq(T)
          /\ \A k \in 1 .. Len(l) - (j + 1) + 1 : g[k] = l[(j + 1) + k - 1]
          BY <1>1, <2>1, SubSeqProperties
    <2>3. \A k \in 1 .. Len(l) - j :
             /\ k \in 1 .. Len(l) - (j + 1) + 1
             /\ (j + 1) + k - 1 = k + j
          BY <1>1, <1>2
    <2>4. Len(g) = IF j + 1 <= Len(l) THEN Len(l) - (j + 1) + 1 ELSE 0
          BY <1>1, <2>1, SubSeqProperties
    <2> HIDE DEF g
    <2>5. Len(g) = Len(l) - j
        <3>1. j \in Int /\ Len(l) \in Int /\ j <= Len(l)
              BY <1>1, <1>2
        <3>2. CASE j + 1 <= Len(l)
              BY <2>4, <3>1, <3>2
        <3>3. CASE j = Len(l)
              BY <2>4, <3>1, <3>3
        <3> QED BY <3>1, <3>2, <3>3
    <2> QED BY <2>2, <2>3, <2>5
<1> HIDE DEF f, g, m
<1>6. /\ m \in Seq(T) /\ Len(m) = Len(f) + Len(g)
      /\ \A k \in 1 .. Len(f) + Len(g) :
            m[k] = IF k <= Len(f) THEN f[k] ELSE g[k - Len(f)]
      BY <1>3, <1>4, <1>5, ConcatProperties
<1>7. DOMAIN m = 1 .. Len(l) - 1
      BY <1>1, <1>2, <1>4, <1>5, <1>6
<1>8. ASSUME NEW k \in 1 .. Len(l) - 1
      PROVE  m[k] = IF k < j THEN l[k] ELSE l[k + 1]
    <2>1. CASE k < j
        <3>1. k \in 1 .. j - 1 /\ k \in 1 .. Len(f) + Len(g) /\ k <= Len(f)
              BY <1>1, <1>2, <1>4, <1>5, <2>1
        <3> QED BY <1>4, <1>6, <2>1, <3>1
    <2>2. CASE ~ (k < j)
        <3>1. k \in 1 .. Len(f) + Len(g) /\ ~ (k <= Len(f))
              BY <1>1, <1>2, <1>4, <1>5, <2>2
        <3>2. m[k] = g[k - Len(f)]
              BY <1>6, <3>1
        <3>3. k - Len(f) \in 1 .. Len(l) - j /\ (k - Len(f)) + j = k + 1
              BY <1>1, <1>2, <1>4, <2>2
        <3>4. g[k - Len(f)] = l[(k - Len(f)) + j]
              BY <1>5, <3>3
        <3> QED BY <2>2, <3>2, <3>3, <3>4
    <2> QED BY <2>1, <2>2
<1>9. ASSUME NEW k \in 1 .. Len(l) - 1, NEW n \in 1 .. Len(l) - 1, m[k] = m[n]
      PROVE  k = n
    <2>1. PICK k1 \in {k, k + 1} : m[k] = l[k1] /\ (k1 = k <=> k < j)
          BY <1>8
    <2>2. PICK n1 \in {n, n + 1} : m[n] = l[n1] /\ (n1 = n <=> n < j)
          BY <1>8
    <2>3. k1 \in 1 .. Len(l) /\ n1 \in 1 .. Len(l)
          BY <1>1, <2>1, <2>2
    <2>4. k1 = n1
          BY <1>1, <1>9, <2>1, <2>2, <2>3
    <2> QED BY <1>1, <1>2, <2>1, <2>2, <2>4
<1>10. IsList(m, T)
       BY <1>6, <1>7, <1>9 DEF IsList, IsInjective
<1>11. ASSUME NEW y PROVE y \in ToSet(m) <=> y \in ToSet(l) /\ y # x
    <2>1. ASSUME y \in ToSet(m) PROVE y \in ToSet(l) /\ y # x
        <3>1. PICK k \in 1 .. Len(l) - 1 : y = m[k]
              BY <1>7, <2>1 DEF ToSet
        <3>2. PICK k1 \in 1 .. Len(l) : y = l[k1] /\ k1 # j
              BY <1>1, <1>2, <1>8, <3>1
        <3>3. l[k1] # l[j]
              BY <1>1, <1>2, <3>2
        <3> QED BY <1>1, <1>2, <3>2, <3>3 DEF ToSet
    <2>2. ASSUME y \in ToSet(l), y # x PROVE y \in ToSet(m)
        <3>1. PICK k \in 1 .. Len(l) : y = l[k] /\ k # j
              BY <1>1, <1>2, <2>2 DEF ToSet
        <3>2. CASE k < j
            <4>1. k \in 1 .. Len(l) - 1 /\ m[k] = y
                  BY <1>1, <1>2, <1>8, <3>1, <3>2
            <4> QED BY <1>7, <4>1 DEF ToSet
        <3>3. CASE j < k
            <4>1. k - 1 \in 1 .. Len(l) - 1 /\ (k - 1) + 1 = k /\ ~ (k - 1 < j)
                  BY <1>1, <1>2, <3>3
            <4>2. m[k - 1] = y
                  BY <1>8, <3>1, <4>1
            <4> QED BY <1>7, <4>1, <4>2 DEF ToSet
        <3> QED BY <1>1, <1>2, <3>1, <3>2, <3>3
    <2> QED BY <2>1, <2>2
<1> QED BY <1>10, <1>11 DEF m

\* A list of nothing is empty.
LEMMA NoneListed ==
    ASSUME NEW T, NEW l \in Seq(T)
    PROVE  ToSet(l) = {} <=> l = <<>>
<1>1. Len(l) \in Nat /\ DOMAIN l = 1 .. Len(l)
      OBVIOUS
<1>2. ASSUME l # <<>> PROVE ToSet(l) # {}
    <2>1. 1 \in DOMAIN l
          BY <1>1, <1>2
    <2> QED BY <2>1 DEF ToSet
<1>3. ASSUME l = <<>> PROVE ToSet(l) = {}
      BY <1>1, <1>3 DEF ToSet
<1> QED BY <1>2, <1>3

-----------------------------------------------------------------------------
(* What the steps make of the lists and of what is settled.                  *)

\* Of two numbers, Min and Max.
LEMMA MinMax ==
    ASSUME NEW a \in Nat, NEW b \in Nat, a < b
    PROVE  /\ Min({a, b}) = a /\ Max({a, b}) = b
           /\ Min({b, a}) = a /\ Max({b, a}) = b
<1>1. Min({a, b}) = a
      BY DEF Min
<1>2. Max({a, b}) = b
      BY DEF Max
<1>3. {a, b} = {b, a}
      OBVIOUS
<1> QED BY <1>1, <1>2, <1>3

\* Lists and settled blocks depend on the sizes of those blocks only.
LEMMA SameSizes ==
    ASSUME NEW free, NEW s, NEW t, NEW S, \A x \in S : t[x] = s[x]
    PROVE  /\ Lists(free, s, S) => Lists(free, t, S)
           /\ Settled(s, S) => Settled(t, S)
<1>1. \A x \in S : EndIn(t, x) = EndIn(s, x)
      BY DEF EndIn
<1>2. ASSUME Settled(s, S) PROVE Settled(t, S)
      BY <1>1, <1>2 DEF Settled
<1>3. ASSUME Lists(free, s, S), NEW c \in Classes
      PROVE  {a \in S : t[a] = c} = {a \in S : s[a] = c}
      OBVIOUS
<1>4. ASSUME Lists(free, s, S) PROVE Lists(free, t, S)
      BY <1>3, <1>4 DEF Lists
<1> QED BY <1>2, <1>4

\* Fewer blocks are settled when more are.
LEMMA SettledPart ==
    ASSUME NEW s, NEW S, NEW T, T \subseteq S, Settled(s, S)
    PROVE  Settled(s, T)
<1> QED BY DEF Settled

\* A block at the front of the list of its class is listed, the others stay.
InFront(free, c, a) == [free EXCEPT ![c] = <<a>> \o @]
LEMMA ListsWith ==
    ASSUME NEW free \in [Classes -> Seq(Addresses)], NEW s, NEW S,
           Lists(free, s, S), NEW a \in Addresses, a \notin S,
           NEW c \in Classes, s[a] = c
    PROVE  /\ InFront(free, c, a) \in [Classes -> Seq(Addresses)]
           /\ Lists(InFront(free, c, a), s, S \cup {a})
<1> DEFINE g == InFront(free, c, a)
<1>1. ToSet(free[c]) = {x \in S : s[x] = c} /\ IsList(free[c], Addresses)
      BY DEF Lists, IsList
<1>2. a \notin ToSet(free[c])
      BY <1>1
<1>3. /\ IsList(<<a>> \o free[c], Addresses)
      /\ ToSet(<<a>> \o free[c]) = ToSet(free[c]) \cup {a}
      BY <1>1, <1>2, ListWith
<1>4. /\ g[c] = <<a>> \o free[c]
      /\ \A d \in Classes \ {c} : g[d] = free[d]
      BY DEF InFront
<1>5. g \in [Classes -> Seq(Addresses)]
      BY <1>3 DEF InFront, IsList
<1> HIDE DEF g
<1>6. ASSUME NEW d \in Classes
      PROVE  IsInjective(g[d]) /\ ToSet(g[d]) = {x \in S \cup {a} : s[x] = d}
    <2>1. CASE d = c
        <3>1. ToSet(g[c]) = {x \in S : s[x] = c} \cup {a} /\ IsInjective(g[c])
              BY <1>1, <1>3, <1>4 DEF IsList
        <3>2. {x \in S : s[x] = c} \cup {a} = {x \in S \cup {a} : s[x] = c}
              OBVIOUS
        <3> QED BY <2>1, <3>1, <3>2
    <2>2. CASE d # c
        <3>1. ToSet(free[d]) = {x \in S : s[x] = d} /\ IsInjective(free[d])
              BY DEF Lists
        <3>2. {x \in S : s[x] = d} = {x \in S \cup {a} : s[x] = d}
              BY <2>2
        <3> QED BY <1>4, <2>2, <3>1, <3>2
    <2> QED BY <2>1, <2>2
<1> QED BY <1>5, <1>6 DEF Lists, g

\* A block that leaves the list of its class is not listed, the others stay.
Off(free, c, a) == [free EXCEPT ![c] = Unlisted(@, a)]
LEMMA ListsWithout ==
    ASSUME NEW free \in [Classes -> Seq(Addresses)], NEW s, NEW S,
           Lists(free, s, S), NEW a \in S, NEW c \in Classes, s[a] = c
    PROVE  /\ Off(free, c, a) \in [Classes -> Seq(Addresses)]
           /\ Lists(Off(free, c, a), s, S \ {a})
<1> DEFINE g == Off(free, c, a)
<1>1. ToSet(free[c]) = {x \in S : s[x] = c} /\ IsList(free[c], Addresses)
      BY DEF Lists, IsList
<1>2. a \in ToSet(free[c])
      BY <1>1
<1>3. /\ IsList(Unlisted(free[c], a), Addresses)
      /\ ToSet(Unlisted(free[c], a)) = ToSet(free[c]) \ {a}
      BY <1>1, <1>2, ListWithout
<1>4. /\ g[c] = Unlisted(free[c], a)
      /\ \A d \in Classes \ {c} : g[d] = free[d]
      BY DEF Off
<1>5. g \in [Classes -> Seq(Addresses)]
      BY <1>3 DEF Off, IsList
<1> HIDE DEF g
<1>6. ASSUME NEW d \in Classes
      PROVE  IsInjective(g[d]) /\ ToSet(g[d]) = {x \in S \ {a} : s[x] = d}
    <2>1. CASE d = c
        <3>1. ToSet(g[c]) = {x \in S : s[x] = c} \ {a} /\ IsInjective(g[c])
              BY <1>1, <1>3, <1>4 DEF IsList
        <3>2. {x \in S : s[x] = c} \ {a} = {x \in S \ {a} : s[x] = c}
              OBVIOUS
        <3> QED BY <2>1, <3>1, <3>2
    <2>2. CASE d # c
        <3>1. ToSet(free[d]) = {x \in S : s[x] = d} /\ IsInjective(free[d])
              BY DEF Lists
        <3>2. {x \in S : s[x] = d} = {x \in S \ {a} : s[x] = d}
              BY <2>2
        <3> QED BY <1>4, <2>2, <3>1, <3>2
    <2> QED BY <2>1, <2>2
<1> QED BY <1>5, <1>6 DEF Lists, g

\* A heap that differs in its blocks and lists only: when they are still in
\* the same pages, nothing about pages and entries has changed.
SameBooks(h, g) ==
    /\ DOMAIN g = DOMAIN h
    /\ g.stack = h.stack /\ g.root = h.root
    /\ g.used = h.used /\ g.unused = h.unused /\ g.page = h.page
LEMMA GoodAgain ==
    ASSUME NEW h, Good(h), NEW g, SameBooks(h, g), Tiled(g.size),
           g.free \in [Classes -> Seq(Addresses)], DataOf(g) = DataOf(h)
    PROVE  Good(g) /\ (Rooted(h) => Rooted(g))
<1>1. IsHeap(h) /\ EntriesRight(h) /\ PagesRight(h)
      BY DEF Good
<1>2. IsHeap(g)
      BY <1>1 DEF IsHeap, SameBooks
<1>3. Books(g) = Books(h)
      BY DEF Books, SameBooks
<1>4. EntriesRight(g)
      BY <1>1, <1>3 DEF EntriesRight, SameBooks
<1>5. PagesRight(g)
      BY <1>1, <1>3 DEF PagesRight, SameBooks
<1> QED BY <1>2, <1>4, <1>5 DEF Good, Rooted, SameBooks

\* Pushed lists a block that is no member of S, and changes nothing else.
LEMMA PushEffect ==
    ASSUME NEW h, Good(h), NEW S \in SUBSET DOMAIN h.size,
           Lists(h.free, h.size, S), NEW a \in DOMAIN h.size \ S
    PROVE  LET g == Pushed(h, a, h.size[a])
           IN  /\ Good(g) /\ (Rooted(h) => Rooted(g))
               /\ g.size = h.size
               /\ Lists(g.free, g.size, S \cup {a})
<1> DEFINE c == h.size[a]
           free == InFront(h.free, c, a)
           size == With(h.size, a, c)
           g == Pushed(h, a, h.size[a])
<1>1. IsHeap(h) /\ Tiled(h.size) /\ h.free \in [Classes -> Seq(Addresses)]
      BY DEF Good, IsHeap
<1>2. c \in Classes /\ a \in Addresses
      BY <1>1 DEF Tiled
<1>3. size = h.size
      BY <1>1 DEF With, Tiled
<1>4. g.free = free /\ g.size = size /\ SameBooks(h, g)
    <2>1. g = [h EXCEPT !.free = free, !.size = size]
          BY DEF Pushed, InFront
    <2> HIDE DEF free, size, g, c
    <2> QED BY <1>1, <2>1 DEF IsHeap, SameBooks
<1>5. free \in [Classes -> Seq(Addresses)] /\ Lists(free, h.size, S \cup {a})
    <2>1. a \notin S
          OBVIOUS
    <2> QED BY <1>1, <1>2, <2>1, ListsWith
<1> HIDE DEF free, size, g, c
<1>6. g.size = h.size /\ DataOf(g) = DataOf(h)
      BY <1>3, <1>4 DEF DataOf
<1>7. Good(g) /\ (Rooted(h) => Rooted(g))
      BY <1>1, <1>4, <1>5, <1>6, GoodAgain
<1> QED BY <1>4, <1>5, <1>6, <1>7 DEF g

\* Merged makes one block of a, which is on no list, and its buddy, which
\* leaves its list.
LEMMA MergeEffect ==
    ASSUME NEW h, Good(h), NEW S \in SUBSET DOMAIN h.size,
           Lists(h.free, h.size, S), Settled(h.size, S),
           NEW a \in DOMAIN h.size \ S, ~Apart(h.size, S, a)
    PROVE  LET c == h.size[a]
               b == BuddyOf(a, c)
               g == Merged(h, a, c)
           IN  /\ Good(g) /\ (Rooted(h) => Rooted(g))
               /\ b \in S /\ Min({a, b}) \in DOMAIN g.size
               /\ Min({a, b}) \in {a, b}
               /\ DOMAIN g.size = DOMAIN h.size \ {Max({a, b})}
               /\ Max({a, b}) \in {a, b}
               /\ \A x \in DOMAIN h.size \ {a, b} : g.size[x] = h.size[x]
               /\ Lists(g.free, g.size, S \ {b})
               /\ Settled(g.size, S \ {b})
<1> DEFINE c    == h.size[a]
           b    == BuddyOf(a, c)
           lo   == Min({a, b})
           hi   == Max({a, b})
           free == Off(h.free, c, b)
           size == [x \in DOMAIN h.size \ {hi} |-> IF x = lo THEN 2 * c ELSE h.size[x]]
           g    == Merged(h, a, h.size[a])
<1>1. /\ IsHeap(h) /\ Tiled(h.size) /\ h.free \in [Classes -> Seq(Addresses)]
      /\ h.size \in [DOMAIN h.size -> Classes] /\ DOMAIN h.size \subseteq Addresses
      BY DEF Good, IsHeap, Tiled
<1>2. b \in S /\ Page(b) = Page(a) /\ h.size[b] = c
      BY DEF Apart
<1>3. a \in Nat /\ c \in Classes /\ b \in Nat /\ c \in Nat \ {0} /\ b \in DOMAIN h.size
      BY <1>1, <1>2, BlockNumbers
<1>4. Divides(c, a)
      BY <1>1, TiledFits DEF Fitted
<1>5. c < PageSize
    <2>1. c # PageSize
          BY <1>2 DEF Settled
    <2> QED BY <1>3, <2>1, Layout
<1>6. /\ Divides(2 * c, a) => b = a + c
      /\ ~Divides(2 * c, a) => c <= a /\ b = a - c /\ Divides(2 * c, a - c)
    <2> HIDE DEF c
    <2> QED BY <1>3, <1>4, <1>5, BuddyIsHalf
<1>7. /\ lo \in {a, b} /\ hi \in {a, b} /\ lo # hi /\ {lo, hi} = {a, b}
      /\ hi = lo + c /\ Divides(2 * c, lo)
    <2>1. CASE Divides(2 * c, a)
        <3>1. a < b /\ b = a + c
              BY <1>3, <1>6, <2>1
        <3>2. lo = a /\ hi = b
              BY <1>3, <3>1, MinMax
        <3> HIDE DEF lo, hi, c, b
        <3> QED BY <1>3, <2>1, <3>1, <3>2
    <2>2. CASE ~Divides(2 * c, a)
        <3>1. b < a /\ a = b + c /\ Divides(2 * c, b)
              BY <1>3, <1>6, <2>2
        <3>2. lo = b /\ hi = a
              BY <1>3, <3>1, MinMax
        <3> HIDE DEF lo, hi, c, b
        <3> QED BY <1>3, <3>1, <3>2
    <2> QED BY <2>1, <2>2
<1>8. g.free = free /\ g.size = size /\ SameBooks(h, g)
    <2>1. g = [h EXCEPT !.free = free, !.size = size]
          BY DEF Merged, Off
    <2> HIDE DEF free, size, g, c, b, lo, hi
    <2> QED BY <1>1, <2>1 DEF IsHeap, SameBooks
<1>9. size = MergeAt(h.size, lo, hi, c)
      BY DEF MergeAt
<1>10. free \in [Classes -> Seq(Addresses)] /\ Lists(free, h.size, S \ {b})
    <2> HIDE DEF c, b
    <2> QED BY <1>1, <1>2, <1>3, ListsWithout
<1>11. h.size[a] = c
       OBVIOUS
<1> HIDE DEF free, size, g, c, b, lo, hi
<1>12. lo \in DOMAIN h.size /\ hi \in DOMAIN h.size /\ h.size[lo] = c /\ h.size[hi] = c
       /\ Page(hi) = Page(lo)
       BY <1>2, <1>3, <1>7, <1>11
<1>13. Tiled(size) /\ {Page(x) : x \in DOMAIN size} = {Page(x) : x \in DOMAIN h.size}
     <2> DEFINE t == MergeAt(h.size, lo, hi, c)
    <2>1. Pair(h.size, lo, hi, c)
          BY <1>7, <1>12 DEF Pair
    <2>2. Tiled(t) /\ {Page(x) : x \in DOMAIN t} = {Page(x) : x \in DOMAIN h.size}
          BY <1>1, <1>12, <2>1, MergeTiles
    <2> QED BY <1>9, <2>2
<1>14. Good(g) /\ (Rooted(h) => Rooted(g))
    <2>1. DataOf(g) = DataOf(h)
          BY <1>8, <1>13 DEF DataOf
    <2> QED BY <1>8, <1>10, <1>13, <2>1, GoodAgain
<1>15. DOMAIN g.size = DOMAIN h.size \ {hi} /\ lo \in DOMAIN g.size
       BY <1>7, <1>8, <1>9, <1>12 DEF MergeAt
<1>16. \A x \in DOMAIN h.size \ {a, b} : g.size[x] = h.size[x]
    <2>1. \A x \in DOMAIN h.size \ {a, b} : x # lo /\ x # hi
          BY <1>7
    <2> QED BY <1>8, <1>9, <2>1 DEF MergeAt
<1>17. \A x \in S \ {b} : g.size[x] = h.size[x]
       BY <1>16
<1>18. Settled(h.size, S \ {b})
       BY SettledPart
<1>19. Lists(g.free, g.size, S \ {b}) /\ Settled(g.size, S \ {b})
    <2>1. Lists(g.free, h.size, S \ {b})
          BY <1>8, <1>10
    <2> HIDE DEF Lists, Settled
    <2> QED BY <1>17, <1>18, <2>1, SameSizes
<1> QED BY <1>2, <1>7, <1>14, <1>15, <1>16, <1>19 DEF g, c, b, lo, hi

-----------------------------------------------------------------------------
(* Pages that come back.                                                     *)

\* The entries of a bookkeeping page, and the bookkeeping pages in use.
LEMMA EntriesOfBook ==
    ASSUME NEW f \in Entries
    PROVE  /\ f[1] \in PageIds
           /\ \A q : f \in EntriesOf(q) <=> f[1] = q
<1>1. PICK p \in PageIds, n \in 1 .. EntriesPerPage : f = <<p, n>>
      BY DEF Entries
<1>2. f[1] = p
      BY <1>1
<1>3. ASSUME NEW q PROVE f \in EntriesOf(q) <=> p = q
      BY <1>1 DEF EntriesOf
<1> QED BY <1>2, <1>3

\* WithoutPage takes a block that spans its page, the page and its entry,
\* which is no longer in use.
LEMMA WithoutPageEffect ==
    ASSUME NEW h, Good(h), NEW a \in DOMAIN h.size, h.size[a] = PageSize
    PROVE  LET e == EntryFor(h, Page(a))
               g == WithoutPage(h, a)
           IN  /\ IsHeap(g) /\ Tiled(g.size)
               /\ g.free = h.free /\ g.size = Without(h.size, a) /\ g.root = h.root
               /\ e \in ToSet(h.used) /\ e \in Entries
               /\ IsInjective(g.used) /\ IsInjective(g.unused)
               /\ ToSet(g.used) = ToSet(h.used) \ {e}
               /\ ToSet(g.unused) = ToSet(h.unused) \cup {e}
               /\ \A f \in ToSet(g.used) : g.page[f] = h.page[f]
               /\ DataOf(g) = DataOf(h) \ {Page(a)}
               /\ DataOf(g) = {g.page[f] : f \in ToSet(g.used)}
               /\ Page(a) \in DataOf(h)
               /\ Held(g.stack) = Held(h.stack) \ {Page(a)}
<1> DEFINE p      == Page(a)
           e      == EntryFor(h, p)
           stack  == AfterPut(h.stack, p)
           used   == Unlisted(h.used, e)
           unused == <<e>> \o h.unused
           page   == [x \in DOMAIN h.page \ {e} |-> h.page[x]]
           size   == Without(h.size, a)
           g      == WithoutPage(h, a)
<1>1. /\ IsHeap(h) /\ Tiled(h.size) /\ EntriesRight(h) /\ PagesRight(h)
      BY DEF Good
<1>2. p \in DataOf(h)
      BY DEF DataOf
<1>3. e \in ToSet(h.used) /\ h.page[e] = p
    <2>1. \E f \in ToSet(h.used) : h.page[f] = p
          BY <1>1, <1>2 DEF EntriesRight
    <2> QED BY <2>1 DEF EntryFor
<1>4. /\ IsList(h.used, Entries) /\ IsList(h.unused, Entries)
      /\ ToSet(h.used) \cap ToSet(h.unused) = {}
      BY <1>1 DEF IsHeap, EntriesRight, IsList
<1>5. e \in Entries
    <2>1. \A i \in DOMAIN h.used : h.used[i] \in Entries
          BY <1>4 DEF IsList
    <2> QED BY <1>3, <2>1 DEF ToSet
<1>6. /\ g.stack = stack /\ g.root = h.root /\ g.free = h.free /\ g.size = size
      /\ g.used = used /\ g.unused = unused /\ g.page = page
      /\ DOMAIN g = DOMAIN h
    <2>1. g = [h EXCEPT !.stack = stack, !.used = used, !.unused = unused,
                        !.page = page, !.size = size]
          BY DEF WithoutPage, Without
    <2> HIDE DEF p, stack, used, unused, page, size, g, e
    <2> QED BY <1>1, <2>1 DEF IsHeap
<1>7. IsList(used, Entries) /\ ToSet(used) = ToSet(h.used) \ {e}
    <2> HIDE DEF e
    <2> QED BY <1>3, <1>4, ListWithout
<1>8. IsList(unused, Entries) /\ ToSet(unused) = ToSet(h.unused) \cup {e}
    <2>1. e \notin ToSet(h.unused)
          BY <1>3, <1>4
    <2> HIDE DEF e
    <2> QED BY <1>4, <1>5, <2>1, ListWith
<1>9. /\ page \in [ToSet(used) -> PageIds]
      /\ \A f \in ToSet(used) : page[f] = h.page[f]
    <2> HIDE DEF e, used
    <2> QED BY <1>1, <1>7 DEF IsHeap
<1>10. p \in Held(h.stack)
       BY <1>1, <1>2 DEF PagesRight
<1>11. IsStack(stack) /\ Held(stack) = Held(h.stack) \ {p}
    <2> HIDE DEF p
    <2> QED BY <1>1, <1>10, PutReturns DEF IsHeap
<1>12. Tiled(size) /\ {Page(x) : x \in DOMAIN size} = DataOf(h) \ {p}
       BY <1>1, ReleaseTiles DEF DataOf
<1> HIDE DEF p, stack, used, unused, page, size, g, e
<1>13. IsHeap(g)
       BY <1>1, <1>6, <1>7, <1>8, <1>9, <1>11 DEF IsHeap, IsList
<1>14. DataOf(g) = DataOf(h) \ {p}
       BY <1>6, <1>12 DEF DataOf
<1>15. DataOf(g) = {g.page[f] : f \in ToSet(g.used)}
    <2>1. DataOf(h) = {h.page[f] : f \in ToSet(h.used)}
          BY <1>1 DEF EntriesRight
    <2>2. ASSUME NEW f \in ToSet(h.used), f # e PROVE h.page[f] # p
          BY <1>1, <1>3, <2>2 DEF EntriesRight
    <2>3. DataOf(h) \ {p} = {h.page[f] : f \in ToSet(h.used) \ {e}}
          BY <1>3, <2>1, <2>2
    <2>4. {g.page[f] : f \in ToSet(g.used)} = {h.page[f] : f \in ToSet(h.used) \ {e}}
          BY <1>6, <1>7, <1>9
    <2> QED BY <1>14, <2>3, <2>4
<1>16. IsInjective(g.used) /\ IsInjective(g.unused)
       BY <1>6, <1>7, <1>8 DEF IsList
<1> QED BY <1>2, <1>3, <1>5, <1>6, <1>7, <1>8, <1>9, <1>11, <1>12, <1>13,
           <1>14, <1>15, <1>16
        DEF g, e, p, size

\* Released takes the block, its page, the bookkeeping page when its last
\* entry went, and the root page when that was the last bookkeeping page:
\* nothing is left that is not accounted for.
LEMMA ReleaseEffect ==
    ASSUME NEW h, Good(h), Rooted(h), NEW a \in DOMAIN h.size, h.size[a] = PageSize
    PROVE  LET g == Released(h, a)
           IN  /\ Good(g) /\ Rooted(g)
               /\ g.free = h.free /\ g.size = Without(h.size, a)
<1> DEFINE p    == Page(a)
           e    == EntryFor(h, p)
           book == e[1]
           g    == WithoutPage(h, a)
           k    == WithoutEntries(g, book)
           w    == WithoutRoot(k)
           r    == Released(h, a)
<1>1. /\ IsHeap(h) /\ Tiled(h.size) /\ EntriesRight(h) /\ PagesRight(h)
      BY DEF Good
<1>2. /\ IsHeap(g) /\ Tiled(g.size)
      /\ g.free = h.free /\ g.size = Without(h.size, a) /\ g.root = h.root
      /\ e \in ToSet(h.used) /\ e \in Entries
      BY WithoutPageEffect
<1>3. /\ IsInjective(g.used) /\ IsInjective(g.unused)
      /\ ToSet(g.used) = ToSet(h.used) \ {e}
      /\ ToSet(g.unused) = ToSet(h.unused) \cup {e}
      /\ \A f \in ToSet(g.used) : g.page[f] = h.page[f]
      BY WithoutPageEffect
<1>4. /\ DataOf(g) = DataOf(h) \ {p}
      /\ DataOf(g) = {g.page[f] : f \in ToSet(g.used)}
      /\ p \in DataOf(h)
      /\ Held(g.stack) = Held(h.stack) \ {p}
      BY WithoutPageEffect
<1>5. r = IF ~Spare(g, book) THEN g ELSE IF RootSpare(k) THEN w ELSE k
      BY DEF Released
<1>6. /\ k.stack = AfterPut(g.stack, book) /\ k.root = g.root /\ k.free = g.free
      /\ k.size = g.size /\ k.used = g.used /\ k.unused = <<>> /\ k.page = g.page
      /\ DOMAIN k = DOMAIN g
    <2>1. k = [g EXCEPT !.stack = AfterPut(g.stack, book), !.unused = <<>>]
          BY DEF WithoutEntries
    <2> HIDE DEF book, g, k
    <2> QED BY <1>2, <2>1 DEF IsHeap
<1>7. /\ w.stack = AfterPut(k.stack, k.root) /\ w.root = NoPage /\ w.free = k.free
      /\ w.size = k.size /\ w.used = k.used /\ w.unused = k.unused /\ w.page = k.page
      /\ DOMAIN w = DOMAIN k
    <2>1. w = [k EXCEPT !.stack = AfterPut(k.stack, k.root), !.root = NoPage]
          BY DEF WithoutRoot
    <2>2. DOMAIN k = {"stack", "root", "free", "size", "used", "unused", "page"}
          BY <1>2, <1>6 DEF IsHeap
    <2> HIDE DEF book, g, k, w
    <2> QED BY <2>1, <2>2
<1> HIDE DEF p, e, book, g, k, w, r
<1>8. /\ Books(h) \cap DataOf(h) = {} /\ h.root \notin Books(h) \cup DataOf(h)
      /\ Held(h.stack) = Books(h) \cup DataOf(h) \cup ({h.root} \ {NoPage})
      BY <1>1 DEF PagesRight
<1>9. /\ book \in Books(h) /\ book \in PageIds
      /\ Books(g) \subseteq Books(h) /\ Books(h) \subseteq Books(g) \cup {book}
      /\ Spare(g, book) <=> book \notin Books(g)
    <2>1. book \in Books(h)
          BY <1>2 DEF Books, book
    <2>2. Books(g) \subseteq Books(h) /\ Books(h) \subseteq Books(g) \cup {book}
          BY <1>2, <1>3 DEF Books, book
    <2>3. \A f \in ToSet(g.used) : f \in Entries
          BY <1>2 DEF IsHeap, ToSet
    <2>4. \A f \in ToSet(g.used) : f \in EntriesOf(book) <=> f[1] = book
          BY <2>3, EntriesOfBook
    <2>5. Spare(g, book) <=> book \notin Books(g)
          BY <2>4 DEF Spare, Books
    <2>6. book \in PageIds
          BY <1>2, EntriesOfBook DEF book
    <2> QED BY <2>1, <2>2, <2>5, <2>6
<1>10. h.used # <<>> /\ h.root # NoPage /\ h.root \in PageIds
    <2>1. h.used # <<>>
        <3>1. ToSet(h.used) # {} /\ h.used \in Seq(Entries)
              BY <1>1, <1>2 DEF IsHeap
        <3> QED BY <3>1, NoneListed
    <2> QED BY <1>1, <2>1 DEF Rooted, IsHeap
<1>11. /\ ToSet(g.used) \cap ToSet(g.unused) = {}
       /\ \A f, f2 \in ToSet(g.used) : g.page[f] = g.page[f2] => f = f2
    <2>1. ToSet(h.used) \cap ToSet(h.unused) = {}
          BY <1>1 DEF EntriesRight
    <2>2. \A f, f2 \in ToSet(h.used) : h.page[f] = h.page[f2] => f = f2
          BY <1>1 DEF EntriesRight
    <2>3. ToSet(g.used) \cap ToSet(g.unused) = {}
          BY <1>3, <2>1
    <2>4. ASSUME NEW f \in ToSet(g.used), NEW f2 \in ToSet(g.used),
                 g.page[f] = g.page[f2]
          PROVE  f = f2
        <3>1. f \in ToSet(h.used) /\ f2 \in ToSet(h.used) /\ h.page[f] = h.page[f2]
              BY <1>3, <2>4
        <3> QED BY <2>2, <3>1
    <2> QED BY <2>3, <2>4
<1>12. CASE ~Spare(g, book)
    <2>1. r = g /\ Books(g) = Books(h)
          BY <1>5, <1>9, <1>12
    <2>2. EntriesRight(g)
        <3>1. \A f \in ToSet(h.unused) : f[1] \in Books(h)
              BY <1>1 DEF EntriesRight
        <3>2. \A f \in ToSet(g.unused) : f[1] \in Books(g)
              BY <1>3, <1>9, <2>1, <3>1 DEF book
        <3> QED BY <1>3, <1>4, <1>11, <3>2 DEF EntriesRight
    <2>3. PagesRight(g)
          BY <1>2, <1>4, <1>8, <2>1 DEF PagesRight
    <2>4. Rooted(g)
        <3>1. g.used # <<>>
            <4>1. ToSet(g.used) # {} /\ g.used \in Seq(Entries)
                  BY <1>2, <1>9, <2>1 DEF IsHeap, Books
            <4> QED BY <4>1, NoneListed
        <3> QED BY <1>2, <1>10, <3>1 DEF Rooted
    <2> QED BY <1>2, <2>1, <2>2, <2>3, <2>4 DEF Good, r
<1>13. CASE Spare(g, book)
    <2>1. Books(g) = Books(h) \ {book}
          BY <1>9, <1>13
    <2>2. Books(k) = Books(g) /\ DataOf(k) = DataOf(g)
          BY <1>6 DEF Books, DataOf
    <2>3. book \in Held(g.stack)
          BY <1>4, <1>8, <1>9
    <2>4. IsStack(k.stack) /\ Held(k.stack) = Held(g.stack) \ {book}
          BY <1>2, <1>6, <2>3, PutReturns DEF IsHeap
    <2>5. /\ <<>> \in Seq(Entries) /\ ToSet(<<>>) = {} /\ IsInjective(<<>>)
          BY DEF ToSet, IsInjective
    <2>6. IsHeap(k)
          BY <1>2, <1>6, <2>4, <2>5 DEF IsHeap
    <2>7. EntriesRight(k)
          BY <1>3, <1>4, <1>6, <1>11, <2>2, <2>5 DEF EntriesRight
    <2>8. PagesRight(k)
        <3>1. Books(k) = Books(h) \ {book} /\ DataOf(k) = DataOf(h) \ {p}
              BY <1>4, <2>1, <2>2
        <3>2. k.root = h.root
              BY <1>2, <1>6
        <3>3. Books(k) \cap DataOf(k) = {} /\ k.root \notin Books(k) \cup DataOf(k)
              BY <1>8, <3>1, <3>2
        <3>4. Held(k.stack) = (Held(h.stack) \ {p}) \ {book}
              BY <1>4, <2>4
        <3>5. p \notin Books(h) /\ book \notin DataOf(h) /\ p # h.root /\ book # h.root
              BY <1>4, <1>8, <1>9
        <3>6. Held(k.stack) = Books(k) \cup DataOf(k) \cup ({k.root} \ {NoPage})
              BY <1>8, <3>1, <3>2, <3>4, <3>5
        <3> QED BY <3>3, <3>6 DEF PagesRight
    <2>9. Good(k)
          BY <1>2, <1>6, <2>6, <2>7, <2>8 DEF Good
    <2>10. RootSpare(k) <=> k.used = <<>>
          BY <1>6 DEF RootSpare
    <2>11. CASE k.used # <<>>
        <3>1. r = k
              BY <1>5, <1>13, <2>10, <2>11
        <3>2. Rooted(k)
              BY <1>2, <1>6, <1>10, <2>11 DEF Rooted
        <3> QED BY <1>2, <1>6, <2>9, <3>1, <3>2 DEF r
    <2>12. CASE k.used = <<>>
        <3>1. r = w
              BY <1>5, <1>13, <2>10, <2>12
        <3>2. k.root = h.root /\ k.root \in Held(k.stack)
              BY <1>2, <1>6, <1>10, <2>8 DEF PagesRight
        <3>3. IsStack(w.stack) /\ Held(w.stack) = Held(k.stack) \ {k.root}
              BY <1>7, <2>4, <3>2, PutReturns
        <3>4. IsHeap(w)
              BY <1>7, <2>6, <3>3 DEF IsHeap
        <3>5. Books(w) = Books(k) /\ DataOf(w) = DataOf(k)
              BY <1>7 DEF Books, DataOf
        <3>6. EntriesRight(w)
              BY <1>7, <2>7, <3>5 DEF EntriesRight
        <3>7. NoPage \notin Books(w) \cup DataOf(w)
            <4>1. Held(k.stack) \subseteq PageIds /\ NoPage \notin PageIds
                  BY NumPagesAssumption DEF Held, NoPage, PageIds
            <4> QED BY <2>8, <3>5, <4>1 DEF PagesRight
        <3>8. PagesRight(w)
              BY <1>7, <2>8, <3>3, <3>5, <3>7 DEF PagesRight
        <3>9. Good(w) /\ Rooted(w)
              BY <1>7, <2>9, <2>12, <3>4, <3>6, <3>8 DEF Good, Rooted
        <3> QED BY <1>2, <1>6, <1>7, <3>1, <3>9 DEF r
    <2> QED BY <2>11, <2>12
<1> QED BY <1>12, <1>13

-----------------------------------------------------------------------------
(* Pages that are taken.                                                     *)

\* Before there is a root page there is nothing: WithRoot, which empties every
\* list, forgets no block and no entry.
LEMMA RootEffect ==
    ASSUME NEW h, Good(h), Rooted(h), NEW S \in SUBSET DOMAIN h.size,
           Lists(h.free, h.size, S), h.root = NoPage => h.stack # <<>>
    PROVE  LET g == WithRoot(h)
           IN  /\ Good(g) /\ g.root # NoPage
               /\ g.size = h.size /\ g.free = h.free /\ g.unused = h.unused
               /\ Len(g.stack) = Len(h.stack) - (IF h.root = NoPage THEN 1 ELSE 0)
<1> DEFINE g == WithRoot(h)
<1>1. IsHeap(h) /\ EntriesRight(h) /\ PagesRight(h) /\ Tiled(h.size)
      BY DEF Good
<1>2. Len(h.stack) \in Nat
      BY <1>1 DEF IsHeap, IsStack
<1>3. CASE h.root # NoPage
    <2>1. g = h
          BY <1>3 DEF WithRoot
    <2> QED BY <1>2, <1>3, <2>1
<1>4. CASE h.root = NoPage
    <2>1. h.used = <<>> /\ ToSet(h.used) = {}
        <3>1. h.used = <<>>
              BY <1>4 DEF Rooted
        <3> QED BY <3>1 DEF ToSet
    <2>2. Books(h) = {} /\ DataOf(h) = {}
          BY <1>1, <2>1 DEF Books, EntriesRight
    <2>3. DOMAIN h.size = {} /\ S = {}
        <3>1. DOMAIN h.size = {}
              BY <2>2 DEF DataOf
        <3> QED BY <3>1
    <2>4. ToSet(h.unused) = {} /\ h.unused = <<>>
        <3>1. ToSet(h.unused) = {}
              BY <1>1, <2>2 DEF EntriesRight
        <3> QED BY <1>1, <3>1, NoneListed DEF IsHeap
    <2>5. h.free = NoBlocks
        <3>1. ASSUME NEW c \in Classes PROVE h.free[c] = <<>>
            <4>1. ToSet(h.free[c]) = {}
                  BY <2>3 DEF Lists
            <4>2. h.free[c] \in Seq(Addresses)
                  BY <1>1 DEF IsHeap
            <4> QED BY <4>1, <4>2, NoneListed
        <3> QED BY <1>1, <3>1 DEF IsHeap, NoBlocks
    <2>6. /\ g.stack = AfterGet(h.stack) /\ g.root = Head(h.stack)
          /\ g.free = h.free /\ g.size = h.size
          /\ g.used = h.used /\ g.unused = h.unused /\ g.page = h.page
          /\ DOMAIN g = DOMAIN h
        <3>1. g = [h EXCEPT !.stack = AfterGet(@), !.root = Head(h.stack),
                            !.free = NoBlocks, !.used = <<>>, !.unused = <<>>]
              BY <1>4 DEF WithRoot
        <3> HIDE DEF g
        <3> QED BY <1>1, <2>1, <2>4, <2>5, <3>1 DEF IsHeap
    <2> HIDE DEF g
    <2>7. /\ IsStack(g.stack) /\ Head(h.stack) \in PageIds \ Held(h.stack)
          /\ Held(g.stack) = Held(h.stack) \cup {Head(h.stack)}
          BY <1>1, <1>4, <2>6, GetHolds DEF IsHeap
    <2>8. IsHeap(g)
          BY <1>1, <2>6, <2>7 DEF IsHeap
    <2>9. Books(g) = {} /\ DataOf(g) = {}
          BY <2>2, <2>6 DEF Books, DataOf
    <2>10. g.root # NoPage
           BY <2>6, <2>7, NumPagesAssumption DEF PageIds, NoPage
    <2>11. Held(h.stack) = {}
           BY <1>1, <1>4, <2>2 DEF PagesRight
    <2>12. PagesRight(g)
        <3>1. Held(g.stack) = {g.root}
              BY <2>6, <2>7, <2>11
        <3>2. Books(g) \cup DataOf(g) = {} /\ Books(g) \cap DataOf(g) = {}
              BY <2>9
        <3>3. Held(g.stack) = (Books(g) \cup DataOf(g)) \cup ({g.root} \ {NoPage})
              BY <2>10, <3>1, <3>2
        <3>4. g.root \notin Books(g) \cup DataOf(g)
              BY <3>2
        <3> QED BY <3>2, <3>3, <3>4 DEF PagesRight
    <2>13. EntriesRight(g)
        <3>1. Books(g) = Books(h) /\ DataOf(g) = DataOf(h)
              BY <2>2, <2>9
        <3> QED BY <1>1, <2>6, <3>1 DEF EntriesRight
    <2>14. Len(g.stack) = Len(h.stack) - 1
        <3>1. h.stack \in Seq(PageIds) /\ h.stack # <<>>
              BY <1>1, <1>4 DEF IsHeap, IsStack
        <3> QED BY <2>6, <3>1 DEF AfterGet
    <2> QED BY <1>1, <1>4, <2>6, <2>8, <2>10, <2>12, <2>13, <2>14 DEF Good, g
<1> QED BY <1>3, <1>4

\* The entries of a new bookkeeping page but the first.
LEMMA NewEntries ==
    ASSUME NEW q \in PageIds
    PROVE  LET l == [i \in 1 .. EntriesPerPage - 1 |-> <<q, EntriesPerPage + 1 - i>>]
           IN  /\ IsList(l, Entries) /\ <<q, 1>> \in Entries
               /\ <<q, 1>> \notin ToSet(l)
               /\ \A f \in ToSet(l) : f[1] = q
<1> DEFINE l == [i \in 1 .. EntriesPerPage - 1 |-> <<q, EntriesPerPage + 1 - i>>]
<1>1. EntriesPerPage \in Nat /\ EntriesPerPage > 1
      BY Layout
<1>2. \A i \in 1 .. EntriesPerPage - 1 :
         EntriesPerPage + 1 - i \in 2 .. EntriesPerPage
      BY <1>1
<1>3. DOMAIN l = 1 .. EntriesPerPage - 1
      OBVIOUS
<1>4. \A i \in 1 .. EntriesPerPage - 1 : l[i] \in Entries
      BY <1>1, <1>2 DEF Entries
<1>5. l \in Seq(Entries)
    <2>1. l \in [1 .. EntriesPerPage - 1 -> Entries] /\ EntriesPerPage - 1 \in Nat
          BY <1>1, <1>4
    <2> HIDE DEF l
    <2> QED BY <2>1, SeqDef
<1>6. IsInjective(l)
    <2>1. ASSUME NEW i \in 1 .. EntriesPerPage - 1, NEW j \in 1 .. EntriesPerPage - 1,
                 l[i] = l[j]
          PROVE  i = j
        <3>1. EntriesPerPage + 1 - i = EntriesPerPage + 1 - j
              BY <2>1
        <3> QED BY <1>1, <3>1
    <2> QED BY <2>1 DEF IsInjective
<1>7. <<q, 1>> \in Entries
      BY <1>1 DEF Entries
<1>8. <<q, 1>> \notin ToSet(l)
    <2>1. ASSUME NEW i \in 1 .. EntriesPerPage - 1 PROVE l[i] # <<q, 1>>
        <3>1. EntriesPerPage + 1 - i # 1
              BY <1>1
        <3> QED BY <3>1
    <2> QED BY <1>3, <2>1 DEF ToSet
<1>9. \A f \in ToSet(l) : f[1] = q
      BY DEF ToSet
<1> QED BY <1>5, <1>6, <1>7, <1>8, <1>9 DEF IsList

\* An entry for a new data page p, which has left the stack: one that is not in
\* use, or the first of a new bookkeeping page.
LEMMA EntryEffect ==
    ASSUME NEW h, Good(h), h.stack # <<>>,
           h.unused = <<>> => AfterGet(h.stack) # <<>>
    PROVE  LET p == Head(h.stack)
               g == [h EXCEPT !.stack = AfterGet(@)]
               e == NewEntry(g)
               k == WithEntries(g)
           IN  /\ k.root = h.root /\ k.free = h.free /\ k.size = h.size
               /\ k.used = h.used /\ k.page = h.page /\ DOMAIN k = DOMAIN h
               /\ IsStack(k.stack) /\ p \in PageIds \ Held(h.stack)
               /\ Held(k.stack) = Held(h.stack) \cup {p, e[1]}
               /\ e[1] \in Books(h) \/ e[1] \notin Held(h.stack) \cup {p}
               /\ e[1] \in PageIds /\ e \in Entries
               /\ IsList(k.unused, Entries)
               /\ e \notin ToSet(k.unused) /\ e \notin ToSet(h.used)
               /\ ToSet(k.unused) \cap ToSet(h.used) = {}
               /\ \A f \in ToSet(k.unused) : f[1] \in Books(h) \cup {e[1]}
<1> DEFINE p == Head(h.stack)
           g == [h EXCEPT !.stack = AfterGet(@)]
           e == NewEntry(g)
           k == WithEntries(g)
<1>1. /\ IsHeap(h) /\ EntriesRight(h) /\ PagesRight(h)
      BY DEF Good
<1>2. /\ g.stack = AfterGet(h.stack) /\ g.root = h.root
      /\ g.free = h.free /\ g.size = h.size
      /\ g.used = h.used /\ g.unused = h.unused /\ g.page = h.page
      /\ DOMAIN g = {"stack", "root", "free", "size", "used", "unused", "page"}
      BY <1>1 DEF IsHeap
<1>3. /\ IsStack(g.stack) /\ p \in PageIds \ Held(h.stack)
      /\ Held(g.stack) = Held(h.stack) \cup {p}
      BY <1>1, <1>2, GetHolds DEF IsHeap
<1> HIDE DEF p, g
<1>4. Held(h.stack) = Books(h) \cup DataOf(h) \cup ({h.root} \ {NoPage})
      BY <1>1 DEF PagesRight
<1>5. /\ IsList(h.unused, Entries)
      /\ ToSet(h.used) \cap ToSet(h.unused) = {}
      /\ \A f \in ToSet(h.unused) : f[1] \in Books(h)
      BY <1>1 DEF EntriesRight, IsHeap, IsList
<1>6. CASE h.unused # <<>>
    <2>1. e = Head(h.unused)
          BY <1>2, <1>6 DEF NewEntry
    <2>2. /\ k.stack = g.stack /\ k.unused = Tail(h.unused)
          /\ k.root = h.root /\ k.free = h.free /\ k.size = h.size
          /\ k.used = h.used /\ k.page = h.page /\ DOMAIN k = DOMAIN h
        <3>1. k = [g EXCEPT !.unused = Tail(@)]
              BY <1>2, <1>6 DEF WithEntries
        <3> HIDE DEF k
        <3> QED BY <1>1, <1>2, <3>1 DEF IsHeap
    <2> HIDE DEF e, k
    <2>3. /\ IsList(k.unused, Entries) /\ e \in ToSet(h.unused) /\ e \in Entries
          /\ ToSet(k.unused) = ToSet(h.unused) \ {e}
        <3>1. /\ IsList(Tail(h.unused), Entries)
              /\ Head(h.unused) \in ToSet(h.unused) /\ Head(h.unused) \in Entries
              /\ ToSet(Tail(h.unused)) = ToSet(h.unused) \ {Head(h.unused)}
              BY <1>5, <1>6, ListTail
        <3> QED BY <2>1, <2>2, <3>1
    <2>4. e[1] \in Books(h) /\ e[1] \in PageIds
          BY <1>5, <2>3, EntriesOfBook
    <2>5. /\ e \notin ToSet(k.unused) /\ e \notin ToSet(h.used)
          /\ ToSet(k.unused) \cap ToSet(h.used) = {}
          /\ \A f \in ToSet(k.unused) : f[1] \in Books(h) \cup {e[1]}
          BY <1>5, <2>3
    <2>6. IsStack(k.stack) /\ Held(k.stack) = Held(h.stack) \cup {p, e[1]}
          BY <1>3, <1>4, <2>2, <2>4
    <2> QED BY <1>3, <2>2, <2>3, <2>4, <2>5, <2>6 DEF e, k, p, g
<1>7. CASE h.unused = <<>>
    <2> DEFINE q == Head(g.stack)
               l == [i \in 1 .. EntriesPerPage - 1 |-> <<q, EntriesPerPage + 1 - i>>]
    <2>1. e = <<q, 1>>
          BY <1>2, <1>7 DEF NewEntry
    <2>2. /\ k.stack = AfterGet(g.stack) /\ k.unused = l
          /\ k.root = h.root /\ k.free = h.free /\ k.size = h.size
          /\ k.used = h.used /\ k.page = h.page /\ DOMAIN k = DOMAIN h
        <3>1. k = [g EXCEPT !.stack = AfterGet(@), !.unused = l]
              BY <1>2, <1>7 DEF WithEntries
        <3> HIDE DEF k, l
        <3> QED BY <1>1, <1>2, <3>1 DEF IsHeap
    <2> HIDE DEF e, k
    <2>3. /\ IsStack(k.stack) /\ q \in PageIds \ Held(g.stack)
          /\ Held(k.stack) = Held(g.stack) \cup {q}
          BY <1>2, <1>3, <1>7, <2>2, GetHolds
    <2>4. /\ IsList(l, Entries) /\ <<q, 1>> \in Entries
          /\ <<q, 1>> \notin ToSet(l)
          /\ \A f \in ToSet(l) : f[1] = q
        <3> HIDE DEF q
        <3>1. q \in PageIds
              BY <2>3
        <3> QED BY <3>1, NewEntries
    <2> HIDE DEF l, q
    <2>5. e[1] = q
          BY <2>1
    <2>6. q \notin Books(h) /\ q \notin Held(h.stack) \cup {p} /\ q \in PageIds
          BY <1>3, <1>4, <2>3
    <2>7. \A f \in ToSet(h.used) : f[1] # q
          BY <2>6 DEF Books
    <2>8. /\ IsList(k.unused, Entries) /\ e \in Entries
          /\ e \notin ToSet(k.unused) /\ e \notin ToSet(h.used)
          /\ ToSet(k.unused) \cap ToSet(h.used) = {}
          /\ \A f \in ToSet(k.unused) : f[1] \in Books(h) \cup {e[1]}
          BY <2>1, <2>2, <2>4, <2>5, <2>7
    <2>9. Held(k.stack) = Held(h.stack) \cup {p, e[1]}
          BY <1>3, <2>3, <2>5
    <2> QED BY <1>3, <2>2, <2>3, <2>5, <2>6, <2>8, <2>9 DEF e, k, p, g
<1> QED BY <1>6, <1>7

\* WithPage takes a page of its own for one block that spans it, and a page for
\* entries when none is left; both are accounted for.
LEMMA PageEffect ==
    ASSUME NEW h, Good(h), h.root # NoPage, NEW S \in SUBSET DOMAIN h.size,
           Lists(h.free, h.size, S), h.stack # <<>>,
           h.unused = <<>> => AfterGet(h.stack) # <<>>
    PROVE  LET b == FirstBlock(Head(h.stack))
               r == WithPage(h)
           IN  /\ Good(r) /\ Rooted(r)
               /\ b \notin DOMAIN h.size /\ DOMAIN r.size = DOMAIN h.size \cup {b}
               /\ r.size[b] = PageSize
               /\ \A x \in DOMAIN h.size : r.size[x] = h.size[x]
               /\ Lists(r.free, r.size, S \cup {b})
               /\ r.free = InFront(h.free, PageSize, b)
<1> DEFINE p    == Head(h.stack)
           b    == FirstBlock(p)
           g    == [h EXCEPT !.stack = AfterGet(@)]
           e    == NewEntry(g)
           k    == WithEntries(g)
           used == <<e>> \o h.used
           page == With(h.page, e, p)
           m    == [k EXCEPT !.used = used, !.page = page]
           free == InFront(h.free, PageSize, b)
           size == With(h.size, b, PageSize)
           r    == WithPage(h)
<1>1. /\ IsHeap(h) /\ Tiled(h.size) /\ EntriesRight(h) /\ PagesRight(h)
      /\ h.free \in [Classes -> Seq(Addresses)]
      BY DEF Good, IsHeap
<1>2. /\ k.root = h.root /\ k.free = h.free /\ k.size = h.size
      /\ k.used = h.used /\ k.page = h.page /\ DOMAIN k = DOMAIN h
      BY EntryEffect
<1>3. /\ IsStack(k.stack) /\ p \in PageIds \ Held(h.stack)
      /\ Held(k.stack) = Held(h.stack) \cup {p, e[1]}
      /\ e[1] \in Books(h) \/ e[1] \notin Held(h.stack) \cup {p}
      /\ e[1] \in PageIds /\ e \in Entries
      BY EntryEffect
<1>4. /\ IsList(k.unused, Entries)
      /\ e \notin ToSet(k.unused) /\ e \notin ToSet(h.used)
      /\ ToSet(k.unused) \cap ToSet(h.used) = {}
      /\ \A f \in ToSet(k.unused) : f[1] \in Books(h) \cup {e[1]}
      BY EntryEffect
<1>5. /\ r.stack = k.stack /\ r.root = h.root /\ r.free = free /\ r.size = size
      /\ r.used = used /\ r.unused = k.unused /\ r.page = page
      /\ DOMAIN r = DOMAIN h
    <2>1. r = Pushed([k EXCEPT !.used = <<e>> \o @, !.page = With(@, e, p)], b, PageSize)
          BY DEF WithPage
    <2>2. m = [k EXCEPT !.used = <<e>> \o @, !.page = With(@, e, p)]
          BY <1>2
    <2>3. /\ m.stack = k.stack /\ m.root = h.root /\ m.free = h.free /\ m.size = h.size
          /\ m.used = used /\ m.unused = k.unused /\ m.page = page
          /\ DOMAIN m = DOMAIN h
        <3> HIDE DEF k, used, page
        <3> QED BY <1>1, <1>2 DEF IsHeap
    <2>4. r = Pushed(m, b, PageSize)
          BY <2>1, <2>2
    <2>5. r = [m EXCEPT !.free = free, !.size = size]
        <3> HIDE DEF m, r, b
        <3> QED BY <2>3, <2>4 DEF Pushed, InFront
    <2> HIDE DEF m, r, b, k, used, page, free, size
    <2> QED BY <1>1, <2>3, <2>5 DEF IsHeap
<1>6. /\ Held(h.stack) = Books(h) \cup DataOf(h) \cup ({h.root} \ {NoPage})
      /\ Books(h) \cap DataOf(h) = {} /\ h.root \notin Books(h) \cup DataOf(h)
      BY <1>1 DEF PagesRight
<1> HIDE DEF e, k, g, m, r, p
<1>7. p \notin DataOf(h) /\ p \in PageIds /\ p \notin Books(h) /\ p # h.root /\ p # e[1]
      BY <1>3, <1>6
<1>8. /\ b \notin DOMAIN h.size /\ Tiled(size)
      /\ {Page(x) : x \in DOMAIN size} = {Page(x) : x \in DOMAIN h.size} \cup {p}
      BY <1>1, <1>7, NewTiles DEF DataOf
<1>9. /\ DOMAIN size = DOMAIN h.size \cup {b} /\ size[b] = PageSize
      /\ \A x \in DOMAIN h.size : size[x] = h.size[x]
      BY <1>8 DEF With
<1>10. /\ free \in [Classes -> Seq(Addresses)]
       /\ Lists(free, size, S \cup {b})
    <2>1. \A x \in S : size[x] = h.size[x]
          BY <1>9
    <2>2. Lists(h.free, size, S)
        <3> HIDE DEF size
        <3> QED BY <2>1, SameSizes
    <2>3. b \in Addresses /\ b \notin S /\ PageSize \in Classes
          BY <1>7, <1>8, PageBegins, Layout
    <2> HIDE DEF b, size
    <2> QED BY <1>1, <1>9, <2>2, <2>3, ListsWith
<1>11. /\ IsList(used, Entries) /\ ToSet(used) = ToSet(h.used) \cup {e}
    <2>1. IsList(h.used, Entries)
          BY <1>1 DEF IsHeap, EntriesRight, IsList
    <2> QED BY <1>3, <1>4, <2>1, ListWith
<1>12. /\ page \in [ToSet(used) -> PageIds] /\ page[e] = p
       /\ \A f \in ToSet(h.used) : page[f] = h.page[f]
    <2>1. h.page \in [ToSet(h.used) -> PageIds]
          BY <1>1 DEF IsHeap
    <2> HIDE DEF used
    <2> QED BY <1>4, <1>7, <1>11, <2>1 DEF With
<1> HIDE DEF used, page, size, free, b
<1>13. IsHeap(r)
       BY <1>1, <1>3, <1>4, <1>5, <1>10, <1>11, <1>12 DEF IsHeap, IsList
<1>14. Books(r) = Books(h) \cup {e[1]} /\ DataOf(r) = DataOf(h) \cup {p}
    <2>1. Books(r) = Books(h) \cup {e[1]}
          BY <1>5, <1>11 DEF Books
    <2> QED BY <1>5, <1>8, <2>1 DEF DataOf
<1>15. EntriesRight(r)
    <2>1. IsInjective(r.used) /\ IsInjective(r.unused)
          BY <1>4, <1>5, <1>11 DEF IsList
    <2>2. ToSet(r.used) \cap ToSet(r.unused) = {}
          BY <1>4, <1>5, <1>11
    <2>3. \A f \in ToSet(r.unused) : f[1] \in Books(r)
          BY <1>4, <1>5, <1>14
    <2>4. /\ DataOf(h) = {h.page[f] : f \in ToSet(h.used)}
          /\ \A f, f2 \in ToSet(h.used) : h.page[f] = h.page[f2] => f = f2
          BY <1>1 DEF EntriesRight
    <2>5. \A f \in ToSet(h.used) : h.page[f] # p
          BY <1>7, <2>4
    <2>6. ASSUME NEW f \in ToSet(r.used), NEW f2 \in ToSet(r.used), r.page[f] = r.page[f2]
          PROVE  f = f2
        <3>1. f \in ToSet(h.used) \/ f = e
              BY <1>5, <1>11
        <3>2. f2 \in ToSet(h.used) \/ f2 = e
              BY <1>5, <1>11
        <3> QED BY <1>5, <1>12, <2>4, <2>5, <2>6, <3>1, <3>2
    <2>7. DataOf(r) = {r.page[f] : f \in ToSet(r.used)}
        <3>1. {page[f] : f \in ToSet(h.used) \cup {e}} = {h.page[f] : f \in ToSet(h.used)} \cup {p}
              BY <1>12
        <3> QED BY <1>5, <1>11, <1>14, <2>4, <3>1
    <2> QED BY <2>1, <2>2, <2>3, <2>6, <2>7 DEF EntriesRight
<1>16. PagesRight(r)
    <2>1. Books(r) \cap DataOf(r) = {}
          BY <1>3, <1>6, <1>7, <1>14
    <2>2. r.root \notin Books(r) \cup DataOf(r)
        <3>1. h.root \in Held(h.stack)
              BY <1>6
        <3>2. h.root # e[1] /\ h.root # p
              BY <1>3, <1>6, <1>7, <3>1
        <3> QED BY <1>5, <1>6, <1>14, <3>2
    <2>3. Held(r.stack) = Books(r) \cup DataOf(r) \cup ({r.root} \ {NoPage})
          BY <1>3, <1>5, <1>6, <1>14
    <2> QED BY <2>1, <2>2, <2>3 DEF PagesRight
<1>17. Rooted(r)
    <2>1. used # <<>>
        <3>1. used \in Seq(Entries) /\ ToSet(used) # {}
              BY <1>11 DEF IsList
        <3> QED BY <3>1, NoneListed
    <2> QED BY <1>5, <2>1 DEF Rooted
<1>18. Good(r)
       BY <1>5, <1>8, <1>13, <1>15, <1>16 DEF Good
<1> QED BY <1>5, <1>8, <1>9, <1>10, <1>17, <1>18 DEF r, b, p, free

-----------------------------------------------------------------------------
(* The client's block.                                                       *)

\* The parts of a split block are settled with the blocks that were: each is an
\* upper half, and the block before the split one ends where that begins.
LEMMA SplitSettled ==
    ASSUME NEW s, Tiled(s), NEW a \in DOMAIN s, NEW c \in Classes, c <= s[a],
           NEW S \in SUBSET DOMAIN s, a \notin S, Settled(s, S)
    PROVE  Settled(SplitAt(s, a, c, s[a]), S \cup PartsAt(a, c, s[a]))
<1> DEFINE d == s[a]
           t == SplitAt(s, a, c, d)
           P == PartsAt(a, c, d)
<1>1. /\ s \in [DOMAIN s -> Classes] /\ DOMAIN s \subseteq Addresses
      /\ \A x, y \in DOMAIN s : x < y => EndIn(s, x) <= y
      BY DEF Tiled
<1>2. \A x \in DOMAIN s :
          /\ x \in Nat /\ s[x] \in Nat \ {0} /\ s[x] \in Classes
          /\ EndIn(s, x) \in Nat /\ x < EndIn(s, x)
      BY <1>1, BlockNumbers
<1>3. d \in Nat \ {0} /\ d <= PageSize /\ a \in Nat /\ PageSize \in Nat
      BY <1>1, BlockNumbers, Layout
<1>4. /\ \A x \in DOMAIN s : x # a => t[x] = s[x]
      /\ \A x \in Parts(c, d) :
            /\ x \in Classes /\ x \in Nat /\ c <= x /\ x < d
            /\ a + x \notin DOMAIN s /\ t[a + x] = x
            /\ Divides(2 * x, a)
    <2>1. AfterSplit(s, t, a, c, d)
          BY SplitParts
    <2> QED BY <2>1 DEF AfterSplit
<1>5. c \in Nat \ {0}
      BY Layout
<1>6. EndIn(s, a) = a + d
      BY DEF EndIn
<1> HIDE DEF d, t
<1>7. ASSUME NEW x \in Parts(c, d)
      PROVE  t[a + x] # PageSize /\ (a + x) % (2 * t[a + x]) # 0
    <2>1. x \in Nat \ {0} /\ x < d /\ t[a + x] = x /\ Divides(2 * x, a)
          BY <1>4, <1>5
    <2>2. x # PageSize
          BY <1>3, <2>1
    <2>3. Divides(x, a)
        <3>1. Divides(x, 2 * x)
            <4>1. 2 * x = x * 2
                  BY <2>1
            <4> QED BY <4>1 DEF Divides
        <3> QED BY <1>3, <2>1, <3>1, Aligned
    <2>4. ~Divides(2 * x, a + x)
          BY <1>3, <2>1, <2>3, Halves
    <2>5. a + x \in Nat /\ 2 * x \in Nat \ {0}
          BY <1>3, <2>1
    <2>6. (a + x) % (2 * x) # 0
          BY <2>4, <2>5, NoRest
    <2> QED BY <2>1, <2>2, <2>6
<1>8. \A y \in S : y \in DOMAIN s /\ t[y] = s[y] /\ EndIn(t, y) = EndIn(s, y)
      BY <1>4 DEF EndIn
<1>9. ASSUME NEW y \in S, NEW x \in Parts(c, d) PROVE EndIn(t, y) # a + x
    <2>1. /\ y \in Nat /\ EndIn(s, y) \in Nat /\ y < EndIn(s, y)
          /\ y # a /\ y \in DOMAIN s /\ EndIn(t, y) = EndIn(s, y)
          BY <1>2, <1>8
    <2>2. x \in Nat \ {0} /\ x < d
          BY <1>4, <1>5
    <2>3. CASE y < a
        <3>1. EndIn(s, y) <= a
              BY <1>1, <2>1, <2>3
        <3> QED BY <1>3, <2>1, <2>2, <3>1
    <2>4. CASE a < y
        <3>1. EndIn(s, a) <= y
              BY <1>1, <2>1, <2>4
        <3> QED BY <1>3, <1>6, <2>1, <2>2, <3>1
    <2> QED BY <1>3, <2>1, <2>3, <2>4
<1>10. ASSUME NEW y \in S \cup P
       PROVE  /\ t[y] # PageSize
              /\ \A z \in S \cup P : z = EndIn(t, y) /\ y % (2 * t[y]) = 0 => t[z] # t[y]
    <2>1. CASE y \in S
        <3>1. t[y] # PageSize
              BY <1>8, <2>1 DEF Settled
        <3>2. ASSUME NEW z \in S \cup P, z = EndIn(t, y), y % (2 * t[y]) = 0
              PROVE  t[z] # t[y]
            <4>1. z \in S
                  BY <1>9, <2>1, <3>2 DEF PartsAt
            <4> QED BY <1>8, <2>1, <3>2, <4>1 DEF Settled
        <3> QED BY <3>1, <3>2
    <2>2. CASE y \in P
        <3>1. PICK x \in Parts(c, d) : y = a + x
              BY <2>2 DEF PartsAt
        <3> QED BY <1>7, <3>1
    <2> QED BY <2>1, <2>2
<1>11. Settled(t, S \cup P)
       BY <1>10 DEF Settled
<1> QED BY <1>11 DEF t, d

\* The lists after a split: the block leaves the front of its list and its
\* parts go to the front of theirs.
SplitLists(free, a, c, d) ==
    [x \in Classes |->
       IF x = d THEN Tail(free[x])
       ELSE IF x \in Parts(c, d) THEN <<a + x>> \o free[x] ELSE free[x]]
LEMMA SplitLeaves ==
    ASSUME NEW s, Tiled(s), NEW S \in SUBSET DOMAIN s, NEW a \in S,
           NEW c \in Classes, c <= s[a],
           NEW free \in [Classes -> Seq(Addresses)], Lists(free, s, S),
           a = Head(free[s[a]])
    PROVE  LET g == SplitLists(free, a, c, s[a])
           IN  /\ g \in [Classes -> Seq(Addresses)]
               /\ Lists(g, SplitAt(s, a, c, s[a]), (S \ {a}) \cup PartsAt(a, c, s[a]))
<1> DEFINE d == s[a]
           t == SplitAt(s, a, c, d)
           T == (S \ {a}) \cup PartsAt(a, c, d)
           g == SplitLists(free, a, c, d)
<1>1. d \in Classes
      BY DEF Tiled
<1>2. /\ \A x \in DOMAIN s : x # a => t[x] = s[x]
      /\ \A x \in Parts(c, d) :
            /\ x \in Classes /\ x \in Nat /\ x < d
            /\ a + x \notin DOMAIN s /\ t[a + x] = x
            /\ a + x \in Addresses
    <2>1. AfterSplit(s, t, a, c, d)
          BY SplitParts
    <2> HIDE DEF t, d
    <2> QED BY <2>1 DEF AfterSplit
<1>3. /\ g[d] = Tail(free[d])
      /\ \A x \in Parts(c, d) : g[x] = <<a + x>> \o free[x]
      /\ \A x \in Classes : x # d /\ x \notin Parts(c, d) => g[x] = free[x]
      /\ g = [x \in Classes |-> g[x]]
    <2>1. d \notin Parts(c, d)
        <3> HIDE DEF d
        <3>1. d \in Nat
              BY <1>1, Layout
        <3>2. ~ (d < d)
              BY <3>1
        <3> QED BY <3>2 DEF Parts
    <2> QED BY <1>1, <1>2, <2>1 DEF SplitLists
<1> HIDE DEF g, t, d
<1>4. \A y \in S \ {a} : y \in DOMAIN s /\ t[y] = s[y]
      BY <1>2
<1>5. \A x \in Parts(c, d) : x # d /\ x \in Nat /\ d \in Nat
      BY <1>1, <1>2, Layout
<1>6. \A y : y \in T <=> y \in S \ {a} \/ \E x \in Parts(c, d) : y = a + x
      BY DEF PartsAt
<1> HIDE DEF T
<1>7. ASSUME NEW x \in Classes
      PROVE  IsList(g[x], Addresses) /\ ToSet(g[x]) = {y \in T : t[y] = x}
    <2>1. IsList(free[x], Addresses) /\ ToSet(free[x]) = {y \in S : s[y] = x}
          BY DEF Lists, IsList
    <2>2. CASE x = d
        <3>1. free[d] # <<>>
            <4>1. a \in ToSet(free[d])
                  BY <2>1, <2>2 DEF d
            <4> QED BY <2>1, <2>2, <4>1, NoneListed DEF IsList
        <3>2. /\ IsList(Tail(free[d]), Addresses)
              /\ ToSet(Tail(free[d])) = ToSet(free[d]) \ {Head(free[d])}
              BY <2>1, <2>2, <3>1, ListTail
        <3>3. Head(free[d]) = a
              BY DEF d
        <3>4. ToSet(g[d]) = {y \in S : s[y] = d} \ {a}
              BY <1>3, <2>1, <2>2, <3>2, <3>3
        <3>5. {y \in S : s[y] = d} \ {a} = {y \in T : t[y] = d}
            <4>1. ASSUME NEW y \in T, t[y] = d PROVE y \in S \ {a} /\ s[y] = d
                  BY <1>2, <1>4, <1>5, <1>6, <4>1
            <4>2. ASSUME NEW y \in S \ {a}, s[y] = d PROVE y \in T /\ t[y] = d
                  BY <1>4, <1>6, <4>2
            <4> QED BY <4>1, <4>2
        <3> QED BY <1>3, <2>2, <3>2, <3>4, <3>5
    <2>3. CASE x \in Parts(c, d)
        <3>1. a + x \notin ToSet(free[x]) /\ a + x \in Addresses
              BY <1>2, <2>1, <2>3
        <3>2. /\ IsList(<<a + x>> \o free[x], Addresses)
              /\ ToSet(<<a + x>> \o free[x]) = ToSet(free[x]) \cup {a + x}
              BY <2>1, <3>1, ListWith
        <3>3. {y \in S : s[y] = x} \cup {a + x} = {y \in T : t[y] = x}
            <4>1. ASSUME NEW y \in T, t[y] = x PROVE y = a + x \/ (y \in S /\ s[y] = x)
                  BY <1>2, <1>4, <1>6, <4>1
            <4>2. ASSUME NEW y \in S, s[y] = x PROVE y \in T /\ t[y] = x
                <5>1. y # a
                      BY <1>5, <2>3, <4>2 DEF d
                <5> QED BY <1>4, <1>6, <4>2, <5>1
            <4>3. a + x \in T /\ t[a + x] = x
                  BY <1>2, <1>6, <2>3
            <4> QED BY <4>1, <4>2, <4>3
        <3> QED BY <1>3, <2>1, <2>3, <3>2, <3>3
    <2>4. CASE x # d /\ x \notin Parts(c, d)
        <3>1. {y \in S : s[y] = x} = {y \in T : t[y] = x}
            <4>1. ASSUME NEW y \in T, t[y] = x PROVE y \in S /\ s[y] = x
                  BY <1>2, <1>4, <1>6, <2>4, <4>1
            <4>2. ASSUME NEW y \in S, s[y] = x PROVE y \in T /\ t[y] = x
                <5>1. y # a
                      BY <2>4, <4>2 DEF d
                <5> QED BY <1>4, <1>6, <4>2, <5>1
            <4> QED BY <4>1, <4>2
        <3> QED BY <1>3, <2>1, <2>4, <3>1
    <2> QED BY <2>2, <2>3, <2>4
<1>8. g \in [Classes -> Seq(Addresses)]
    <2>1. \A x \in Classes : g[x] \in Seq(Addresses)
          BY <1>7 DEF IsList
    <2> QED BY <1>3, <2>1
<1>9. Lists(g, t, T)
      BY <1>7 DEF Lists, IsList
<1> QED BY <1>8, <1>9 DEF g, t, T, d

\* Split gives the client the block a, of class c, and frees the rest of it.
LEMMA SplitEffect ==
    ASSUME NEW h, Good(h), NEW S \in SUBSET DOMAIN h.size,
           Lists(h.free, h.size, S), NEW a \in S, Settled(h.size, S \ {a}),
           NEW c \in Classes, c <= h.size[a], a = Head(h.free[h.size[a]])
    PROVE  LET g == Split(h, a, c, h.size[a])
               P == PartsAt(a, c, h.size[a])
           IN  /\ Good(g) /\ (Rooted(h) => Rooted(g))
               /\ g.size[a] = c
               /\ DOMAIN g.size = DOMAIN h.size \cup P
               /\ P \cap DOMAIN h.size = {}
               /\ \A x \in DOMAIN h.size : x # a => g.size[x] = h.size[x]
               /\ Lists(g.free, g.size, (S \ {a}) \cup P)
               /\ Settled(g.size, (S \ {a}) \cup P)
<1> DEFINE d    == h.size[a]
           g    == Split(h, a, c, d)
           P    == PartsAt(a, c, d)
           free == SplitLists(h.free, a, c, d)
           size == SplitAt(h.size, a, c, d)
<1>1. /\ IsHeap(h) /\ Tiled(h.size) /\ h.free \in [Classes -> Seq(Addresses)]
      /\ a \in DOMAIN h.size
      BY DEF Good, IsHeap
<1>2. g.free = free /\ g.size = size /\ SameBooks(h, g)
    <2>1. g = [h EXCEPT !.free = free, !.size = size]
          BY DEF Split, SplitLists, SplitAt, PartsAt
    <2> HIDE DEF g, free, size
    <2> QED BY <1>1, <2>1 DEF IsHeap, SameBooks
<1>3. /\ free \in [Classes -> Seq(Addresses)]
      /\ Lists(free, size, (S \ {a}) \cup P)
      BY <1>1, SplitLeaves
<1>4. Settled(size, (S \ {a}) \cup P)
    <2>1. S \ {a} \in SUBSET DOMAIN h.size /\ a \notin S \ {a}
          OBVIOUS
    <2> QED BY <1>1, <2>1, SplitSettled
<1>5. /\ Tiled(size)
      /\ {Page(x) : x \in DOMAIN size} = {Page(x) : x \in DOMAIN h.size}
      BY <1>1, SplitTiles
<1>6. /\ DOMAIN size = DOMAIN h.size \cup P
      /\ size[a] = c
      /\ \A x \in DOMAIN h.size : x # a => size[x] = h.size[x]
      /\ \A x \in Parts(c, d) : a + x \notin DOMAIN h.size
    <2>1. AfterSplit(h.size, size, a, c, d)
          BY <1>1, SplitParts
    <2> HIDE DEF size, d
    <2> QED BY <2>1 DEF AfterSplit
<1>7. P \cap DOMAIN h.size = {}
      BY <1>6 DEF PartsAt
<1> HIDE DEF g, free, size, d, P
<1>8. Good(g) /\ (Rooted(h) => Rooted(g))
    <2>1. DataOf(g) = DataOf(h)
          BY <1>2, <1>5 DEF DataOf
    <2> QED BY <1>2, <1>3, <1>5, <2>1, GoodAgain
<1> QED BY <1>2, <1>3, <1>4, <1>6, <1>7, <1>8 DEF g, d, P

\* Min finds the least number.
LEMMA MinOf ==
    ASSUME NEW S \in SUBSET Nat, S # {}
    PROVE  Min(S) \in S /\ \A y \in S : Min(S) <= y
<1>1. \E x \in S : \A y \in S : x <= y
      BY LeastNat
<1> QED BY <1>1 DEF Min

\* There is a class for every size that may be asked for.
LEMMA OptimalFits ==
    ASSUME NEW n \in Sizes
    PROVE  Optimal(n) \in Classes /\ n + AllocHeader <= Optimal(n) /\ n \in Nat
<1> DEFINE S == {c \in Classes : c >= n + AllocHeader}
<1>1. PageSize \in Nat /\ AllocHeader \in Nat /\ Classes \subseteq Nat /\ PageSize \in Classes
      BY Layout
<1>2. n \in Nat /\ n + AllocHeader <= PageSize
      BY <1>1, SizesAssumption
<1>3. S \in SUBSET Nat /\ PageSize \in S
      BY <1>1, <1>2
<1>4. Min(S) \in S
    <2> HIDE DEF S
    <2> QED BY <1>3, MinOf
<1> QED BY <1>1, <1>2, <1>4 DEF Optimal

\* The class that a block is taken from.
LEMMA SourceFound ==
    ASSUME NEW h, NEW c \in Classes, HasBlock(h, c)
    PROVE  /\ Source(h, c) \in Classes /\ c <= Source(h, c)
           /\ h.free[Source(h, c)] # <<>>
<1> DEFINE S == {d \in Classes : d >= c /\ h.free[d] # <<>>}
<1>1. Classes \subseteq Nat
      BY Layout
<1>2. S \in SUBSET Nat /\ S # {}
      BY <1>1 DEF HasBlock
<1>3. Min(S) \in S
    <2> HIDE DEF S
    <2> QED BY <1>2, MinOf
<1> QED BY <1>1, <1>3 DEF Source

\* A data page has an entry.
LEMMA BlocksHaveEntries ==
    ASSUME NEW h, Good(h), NEW a \in DOMAIN h.size
    PROVE  h.used # <<>>
<1>1. Page(a) \in DataOf(h)
      BY DEF DataOf
<1>2. ToSet(h.used) # {} /\ h.used \in Seq(Entries)
      BY <1>1 DEF Good, EntriesRight, IsHeap
<1> QED BY <1>2, NoneListed

\* A heap with a block a at the front of the list of a class that holds one of
\* class c; but for a its free blocks, those that are not in L, are settled.
Ready(r, L, c, d, a) ==
    /\ Good(r) /\ r.root # NoPage
    /\ d \in Classes /\ c <= d
    /\ a \in DOMAIN r.size \ L /\ r.size[a] = d /\ a = Head(r.free[d])
    /\ Lists(r.free, r.size, DOMAIN r.size \ L)
    /\ Settled(r.size, (DOMAIN r.size \ L) \ {a})

\* The heap from which kma_malloc takes a block, after the pages it takes.
LEMMA MallocReady ==
    ASSUME BuddyInv, pc = "idle", NEW c \in Classes,
           PagesNeeded(heap, c) <= Len(heap.stack)
    PROVE  LET h == WithRoot(heap)
               r == IF HasBlock(h, c) THEN h ELSE WithPage(h)
           IN  /\ Ready(r, Live, c, Source(r, c), Head(r.free[Source(r, c)]))
               /\ Blocks \subseteq DOMAIN r.size
               /\ \A x \in Blocks : r.size[x] = heap.size[x]
<1> DEFINE h == WithRoot(heap)
           r == IF HasBlock(h, c) THEN h ELSE WithPage(h)
           d == Source(r, c)
           a == Head(r.free[d])
           S == Blocks \ Live
<1>1. /\ Good(heap) /\ Rooted(heap) /\ Live \subseteq Blocks
      /\ Lists(heap.free, heap.size, S) /\ Settled(heap.size, S)
      /\ S \in SUBSET DOMAIN heap.size
    <2>1. Resting = S
          BY DEF Resting
    <2>2. Good(heap) /\ Rooted(heap) /\ LiveInv /\ PcInv
          BY DEF BuddyInv
    <2> QED BY <2>1, <2>2 DEF PcInv, LiveInv, Blocks
<1>2. Len(heap.stack) \in Nat /\ heap.stack \in Seq(PageIds)
      BY <1>1 DEF Good, IsHeap, IsStack
<1>3. heap.root = NoPage => heap.stack # <<>>
    <2>1. PagesNeeded(heap, c) \in Nat
          BY DEF PagesNeeded
    <2>2. heap.root = NoPage => PagesNeeded(heap, c) >= 1
          BY DEF PagesNeeded
    <2>3. heap.stack = <<>> => Len(heap.stack) = 0
          OBVIOUS
    <2> QED BY <1>2, <2>1, <2>2, <2>3
<1>4. /\ Good(h) /\ h.root # NoPage
      /\ h.size = heap.size /\ h.free = heap.free /\ h.unused = heap.unused
      /\ Len(h.stack) = Len(heap.stack) - (IF heap.root = NoPage THEN 1 ELSE 0)
    <2> HIDE DEF S
    <2> QED BY <1>1, <1>3, RootEffect
<1>5. HasBlock(h, c) <=> HasBlock(heap, c)
      BY <1>4 DEF HasBlock
<1> HIDE DEF h
<1>6. c \in Nat /\ PageSize \in Classes /\ c <= PageSize /\ Classes \subseteq Nat
      BY Layout
<1>7. CASE HasBlock(h, c)
    <2>1. r = h
          BY <1>7
    <2>2. d \in Classes /\ c <= d /\ h.free[d] # <<>>
          BY <1>7, <2>1, SourceFound
    <2> HIDE DEF d
    <2>3. h.free[d] \in Seq(Addresses) /\ IsInjective(h.free[d])
          /\ ToSet(h.free[d]) = {x \in S : h.size[x] = d}
          BY <1>1, <1>4, <2>2 DEF Good, IsHeap, Lists
    <2>4. a \in S /\ h.size[a] = d
        <3>1. Head(h.free[d]) \in ToSet(h.free[d])
              BY <2>2, <2>3, ListTail DEF IsList
        <3> QED BY <2>1, <2>3, <3>1
    <2>5. DOMAIN h.size \ Live = S
          BY <1>4 DEF Blocks
    <2>6. Settled(h.size, S \ {a})
          BY <1>1, <1>4, SettledPart
    <2>7. a = Head(h.free[d]) /\ Lists(h.free, h.size, S)
          BY <1>1, <1>4, <2>1
    <2> HIDE DEF r, a, S
    <2>8. Ready(r, Live, c, d, a)
          BY <1>4, <2>1, <2>2, <2>4, <2>5, <2>6, <2>7 DEF Ready
    <2>9. Blocks \subseteq DOMAIN r.size /\ \A x \in Blocks : r.size[x] = heap.size[x]
          BY <1>4, <2>1 DEF Blocks
    <2> QED BY <2>8, <2>9 DEF r, a, d, h
<1>8. CASE ~HasBlock(h, c)
    <2> DEFINE b == FirstBlock(Head(h.stack))
    <2>1. r = WithPage(h)
          BY <1>8
    <2>2. h.stack # <<>> /\ (h.unused = <<>> => AfterGet(h.stack) # <<>>)
        <3>1. h.stack \in Seq(PageIds)
              BY <1>4 DEF Good, IsHeap, IsStack
        <3>2. Len(h.stack) >= (IF h.unused = <<>> THEN 2 ELSE 1)
              BY <1>2, <1>4, <1>5, <1>8 DEF PagesNeeded
        <3>3. h.stack # <<>>
              BY <3>1, <3>2
        <3>4. Len(AfterGet(h.stack)) = Len(h.stack) - 1
              BY <3>1, <3>3 DEF AfterGet
        <3>5. Len(<<>>) = 0
              OBVIOUS
        <3> QED BY <3>1, <3>2, <3>3, <3>4, <3>5
    <2>3. Lists(h.free, h.size, S) /\ S \in SUBSET DOMAIN h.size
          BY <1>1, <1>4
    <2>4. /\ Good(r)
          /\ b \notin DOMAIN h.size /\ DOMAIN r.size = DOMAIN h.size \cup {b}
          /\ r.size[b] = PageSize
          /\ \A x \in DOMAIN h.size : r.size[x] = h.size[x]
          /\ Lists(r.free, r.size, S \cup {b})
          /\ r.free = InFront(h.free, PageSize, b)
          /\ Rooted(r)
        <3> HIDE DEF S
        <3> QED BY <1>4, <2>1, <2>2, <2>3, PageEffect
    <2> HIDE DEF r, b
    <2>5. r.root # NoPage
        <3>1. r.used # <<>>
              BY <2>4, BlocksHaveEntries
        <3> QED BY <2>4, <3>1 DEF Rooted
    <2>6. r.free[PageSize] = <<b>> \o h.free[PageSize] /\ h.free[PageSize] \in Seq(Addresses)
          /\ \A x \in Classes : x # PageSize => r.free[x] = h.free[x]
        <3>1. h.free \in [Classes -> Seq(Addresses)]
              BY <1>4 DEF Good, IsHeap
        <3> QED BY <1>6, <2>4, <3>1 DEF InFront
    <2>7. r.free[PageSize] # <<>> /\ Head(r.free[PageSize]) = b
          BY <2>6
    <2>8. HasBlock(r, c)
          BY <1>6, <2>7 DEF HasBlock
    <2>9. d \in Classes /\ c <= d /\ r.free[d] # <<>>
          BY <2>8, SourceFound
    <2> HIDE DEF d
    <2>10. d = PageSize
        <3>1. SUFFICES ASSUME d # PageSize PROVE FALSE
              OBVIOUS
        <3>2. h.free[d] # <<>>
              BY <2>6, <2>9, <3>1
        <3> QED BY <1>6, <1>8, <2>9, <3>2 DEF HasBlock
    <2>11. a = b
           BY <2>7, <2>10
    <2>12. b \notin Live /\ b \notin S /\ DOMAIN r.size \ Live = S \cup {b}
           BY <1>1, <1>4, <2>4 DEF Blocks
    <2>13. (S \cup {b}) \ {b} = S
           BY <2>12
    <2>14. Settled(r.size, S)
        <3>1. \A x \in S : r.size[x] = heap.size[x]
              BY <1>1, <1>4, <2>4
        <3> HIDE DEF S
        <3> QED BY <1>1, <3>1, SameSizes
    <2>15. b \in DOMAIN r.size \ Live
           BY <2>4, <2>12
    <2>16. Blocks \subseteq DOMAIN r.size /\ \A x \in Blocks : r.size[x] = heap.size[x]
           BY <1>4, <2>4 DEF Blocks
    <2> HIDE DEF a, S
    <2>17. Ready(r, Live, c, d, a)
           BY <2>4, <2>5, <2>7, <2>9, <2>10, <2>11, <2>12, <2>13, <2>14, <2>15 DEF Ready
    <2> QED BY <2>16, <2>17 DEF r, a, d, h
<1> QED BY <1>7, <1>8

\* kma_malloc's split leaves a heap in order, in which the new block is a class
\* that holds what was asked for, and the blocks that are not allocated rest.
LEMMA MallocEffect ==
    ASSUME NEW r, NEW L \in SUBSET DOMAIN r.size, NEW c \in Classes, NEW d, NEW a,
           Ready(r, L, c, d, a)
    PROVE  LET g == Split(r, a, c, d)
           IN  /\ Good(g) /\ Rooted(g)
               /\ a \in DOMAIN g.size \ L /\ g.size[a] = c
               /\ L \subseteq DOMAIN g.size
               /\ \A x \in L : g.size[x] = r.size[x]
               /\ Lists(g.free, g.size, DOMAIN g.size \ (L \cup {a}))
               /\ Settled(g.size, DOMAIN g.size \ (L \cup {a}))
<1> DEFINE S == DOMAIN r.size \ L
           g == Split(r, a, c, d)
           P == PartsAt(a, c, d)
<1>1. /\ Good(r) /\ r.root # NoPage /\ c <= d
      /\ a \in S /\ r.size[a] = d /\ a = Head(r.free[d])
      /\ Lists(r.free, r.size, S) /\ Settled(r.size, S \ {a})
      /\ S \in SUBSET DOMAIN r.size
      BY DEF Ready
<1>2. Rooted(r)
      BY <1>1, BlocksHaveEntries DEF Rooted
<1> HIDE DEF S
<1>3. /\ Good(g) /\ Rooted(g)
      /\ g.size[a] = c
      /\ DOMAIN g.size = DOMAIN r.size \cup P
      /\ P \cap DOMAIN r.size = {}
      /\ \A x \in DOMAIN r.size : x # a => g.size[x] = r.size[x]
      /\ Lists(g.free, g.size, (S \ {a}) \cup P)
      /\ Settled(g.size, (S \ {a}) \cup P)
    <2> DEFINE k == Split(r, a, c, r.size[a])
               Q == PartsAt(a, c, r.size[a])
    <2>1. c <= r.size[a] /\ a = Head(r.free[r.size[a]])
          BY <1>1
    <2>2. /\ Good(k) /\ (Rooted(r) => Rooted(k))
          /\ k.size[a] = c
          /\ DOMAIN k.size = DOMAIN r.size \cup Q
          /\ Q \cap DOMAIN r.size = {}
          /\ \A x \in DOMAIN r.size : x # a => k.size[x] = r.size[x]
          /\ Lists(k.free, k.size, (S \ {a}) \cup Q)
          /\ Settled(k.size, (S \ {a}) \cup Q)
          BY <1>1, <2>1, SplitEffect
    <2>3. k = g /\ Q = P
          BY <1>1
    <2> QED BY <1>2, <2>2, <2>3
<1> HIDE DEF g, P
<1>4. DOMAIN g.size \ (L \cup {a}) = (S \ {a}) \cup P
      BY <1>1, <1>3 DEF S
<1>5. a \in DOMAIN g.size \ L /\ L \subseteq DOMAIN g.size
      BY <1>1, <1>3 DEF S
<1>6. \A x \in L : g.size[x] = r.size[x]
      BY <1>1, <1>3 DEF S
<1> QED BY <1>3, <1>4, <1>5, <1>6 DEF g

-----------------------------------------------------------------------------
(* The inductive invariant.                                                  *)

\* Before the first call there is no page, no block and no entry.
LEMMA BuddyInit == Init => BuddyInv
<1> SUFFICES ASSUME Init PROVE BuddyInv
    OBVIOUS
<1> USE DEF Init
<1>1. /\ DOMAIN heap = {"stack", "root", "free", "size", "used", "unused", "page"}
      /\ heap.stack = Ascending /\ heap.root = NoPage /\ heap.free = NoBlocks
      /\ heap.size = <<>> /\ heap.used = <<>> /\ heap.unused = <<>>
      /\ heap.page = <<>>
      OBVIOUS
<1>2. IsStack(heap.stack) /\ Held(heap.stack) = {}
      BY <1>1, NewPool DEF IsStack
<1>3. DOMAIN heap.size = {} /\ ToSet(<<>>) = {} /\ IsInjective(<<>>)
      BY <1>1 DEF ToSet, IsInjective
<1>4. IsHeap(heap)
    <2>1. NoBlocks \in [Classes -> Seq(Addresses)]
          BY DEF NoBlocks
    <2>2. <<>> \in Seq(Entries) /\ heap.page \in [ToSet(heap.used) -> PageIds]
          BY <1>1, <1>3
    <2> QED BY <1>1, <1>2, <2>1, <2>2 DEF IsHeap
<1>5. Tiled(heap.size)
      BY <1>1, <1>3 DEF Tiled
<1>6. Books(heap) = {} /\ DataOf(heap) = {}
      BY <1>1, <1>3 DEF Books, DataOf
<1>7. EntriesRight(heap)
      BY <1>1, <1>3, <1>6 DEF EntriesRight
<1>8. PagesRight(heap)
      BY <1>1, <1>2, <1>6 DEF PagesRight
<1>9. LiveInv
      BY <1>1, <1>3 DEF LiveInv, Live, Blocks
<1>10. PcInv
    <2>1. Resting = {}
          BY <1>3 DEF Resting, Blocks
    <2>2. Lists(heap.free, heap.size, {})
          BY <1>1, <1>3 DEF Lists, NoBlocks
    <2>3. Settled(heap.size, {})
          BY DEF Settled
    <2>4. 0 \in Addresses
        <3>1. NumPages * PageSize \in Nat \ {0}
              BY Layout
        <3> QED BY <3>1 DEF Addresses
    <2> QED BY <2>1, <2>2, <2>3, <2>4 DEF PcInv
<1> QED BY <1>1, <1>4, <1>5, <1>7, <1>8, <1>9, <1>10 DEF BuddyInv, Good, Rooted

\* A step that changes nothing.
LEMMA Stutter == BuddyInv /\ UNCHANGED vars => BuddyInv'
<1> SUFFICES ASSUME BuddyInv, UNCHANGED vars PROVE BuddyInv'
    OBVIOUS
<1>1. heap' = heap /\ live' = live /\ pc' = pc /\ hdr' = hdr
      BY DEF vars
<1>2. LiveInv'
      BY <1>1 DEF BuddyInv, LiveInv, Live, Blocks
<1>3. Resting' = Resting
      BY <1>1 DEF Resting, Live, Blocks
<1>4. PcInv'
      BY <1>1, <1>3 DEF BuddyInv, PcInv, Live, Blocks
<1> QED BY <1>1, <1>2, <1>4 DEF BuddyInv

\* What BuddyInv says when the new state is known.
LEMMA Conclude ==
    ASSUME NEW g, heap' = g, Good(g), Rooted(g),
           NEW L, live' = L, L \in [DOMAIN L -> Sizes], DOMAIN L \subseteq DOMAIN g.size,
           \A x \in DOMAIN L : L[x] + AllocHeader <= g.size[x],
           pc' \in {"idle", "merge", "exited"}, hdr' \in Addresses,
           pc' = "merge" => hdr' \in DOMAIN g.size \ DOMAIN L,
           NEW S, S = DOMAIN g.size \ (DOMAIN L \cup (IF pc' = "merge" THEN {hdr'} ELSE {})),
           Lists(g.free, g.size, S), Settled(g.size, S)
    PROVE  BuddyInv'
<1>1. Resting' = S /\ Blocks' = DOMAIN g.size /\ Live' = DOMAIN L
      BY DEF Resting, Blocks, Live
<1>2. LiveInv'
      BY <1>1 DEF LiveInv
<1>3. PcInv'
      BY <1>1 DEF PcInv
<1> QED BY <1>2, <1>3 DEF BuddyInv

\* kma_malloc preserves BuddyInv, and fails or adds one block for the client.
LEMMA MallocStep ==
    ASSUME BuddyInv, NEW n \in Sizes, kma_malloc(n)
    PROVE  /\ BuddyInv'
           /\ \/ UNCHANGED <<heap, live>>
              \/ \E a \in Live' \ Live :
                    /\ Live' = Live \cup {a} /\ live'[a] = n
                    /\ \A b \in Live :
                          live'[b] = live[b] /\ heap'.size[b] = heap.size[b]
<1> DEFINE c == Optimal(n)
           h == WithRoot(heap)
           r == IF HasBlock(h, c) THEN h ELSE WithPage(h)
           d == Source(r, c)
           a == Head(r.free[d])
           g == Split(r, a, c, d)
           L == With(live, a, n)
<1>1. /\ Good(heap) /\ Rooted(heap) /\ LiveInv /\ PcInv
      BY DEF BuddyInv
<1>2. pc = "idle" /\ hdr' = hdr
      BY DEF kma_malloc
<1>3. CASE pc' = "exited" /\ UNCHANGED <<heap, live>>
    <2>1. Resting' = Resting
          BY <1>2, <1>3 DEF Resting, Live, Blocks
    <2>2. LiveInv'
          BY <1>1, <1>3 DEF LiveInv, Live, Blocks
    <2>3. PcInv'
          BY <1>1, <1>2, <1>3, <2>1 DEF PcInv
    <2>4. BuddyInv'
          BY <1>1, <1>3, <2>2, <2>3 DEF BuddyInv
    <2> QED BY <1>3, <2>4
<1>4. CASE PagesNeeded(heap, c) <= Len(heap.stack) /\ heap' = g /\ live' = L /\ pc' = pc
    <2>1. c \in Classes /\ n + AllocHeader <= c /\ n \in Nat
          BY OptimalFits
    <2>2. /\ Ready(r, Live, c, d, a)
          /\ Blocks \subseteq DOMAIN r.size
          /\ \A x \in Blocks : r.size[x] = heap.size[x]
        <3> HIDE DEF c
        <3> QED BY <1>2, <1>4, <2>1, MallocReady
    <2>3. /\ Live \subseteq Blocks /\ live \in [Live -> Sizes]
          /\ \A x \in Live : live[x] + AllocHeader <= heap.size[x]
          /\ hdr \in Addresses
          BY <1>1 DEF LiveInv, PcInv
    <2> HIDE DEF c, r, d, a
    <2>4. Live \in SUBSET DOMAIN r.size
          BY <2>2, <2>3
    <2>5. /\ Good(g) /\ Rooted(g)
          /\ a \in DOMAIN g.size \ Live /\ g.size[a] = c
          /\ Live \subseteq DOMAIN g.size
          /\ \A x \in Live : g.size[x] = r.size[x]
          /\ Lists(g.free, g.size, DOMAIN g.size \ (Live \cup {a}))
          /\ Settled(g.size, DOMAIN g.size \ (Live \cup {a}))
          BY <2>1, <2>2, <2>4, MallocEffect
    <2> HIDE DEF g
    <2>6. DOMAIN L = Live \cup {a} /\ L[a] = n /\ \A x \in Live : x # a /\ L[x] = live[x]
          BY <2>5 DEF With, Live
    <2>7. L \in [DOMAIN L -> Sizes]
        <3>1. \A x \in Live \cup {a} : L[x] \in Sizes
              BY <2>3, <2>6
        <3>2. L = [x \in DOMAIN L |-> L[x]]
              BY DEF With
        <3> QED BY <2>6, <3>1, <3>2
    <2> HIDE DEF L
    <2>8. DOMAIN L \subseteq DOMAIN g.size
          BY <2>5, <2>6
    <2>9. \A x \in DOMAIN L : L[x] + AllocHeader <= g.size[x]
          BY <2>1, <2>2, <2>3, <2>5, <2>6
    <2>10. DOMAIN L \cup (IF pc' = "merge" THEN {hdr'} ELSE {}) = Live \cup {a}
           BY <1>2, <1>4, <2>6
    <2>11. PICK k : k = g
           OBVIOUS
    <2>12. PICK K : K = L
           OBVIOUS
    <2>13. PICK T : T = DOMAIN g.size \ (Live \cup {a})
           OBVIOUS
    <2>14. T = DOMAIN k.size \ (DOMAIN K \cup (IF pc' = "merge" THEN {hdr'} ELSE {}))
           BY <2>10, <2>11, <2>12, <2>13
    <2>15. heap' = k /\ live' = K /\ pc' = "idle" /\ hdr' \in Addresses
           BY <1>2, <1>4, <2>3, <2>11, <2>12
    <2>16. /\ Good(k) /\ Rooted(k) /\ K \in [DOMAIN K -> Sizes]
           /\ DOMAIN K \subseteq DOMAIN k.size
           /\ \A x \in DOMAIN K : K[x] + AllocHeader <= k.size[x]
           /\ Lists(k.free, k.size, T) /\ Settled(k.size, T)
           BY <2>5, <2>7, <2>8, <2>9, <2>11, <2>12, <2>13
    <2>17. BuddyInv'
           BY <2>14, <2>15, <2>16, Conclude
    <2>18. live' = L /\ Live' = DOMAIN L
           BY <1>4 DEF Live, L
    <2>19. a \in Live' \ Live /\ Live' = Live \cup {a} /\ live'[a] = n
           BY <2>5, <2>6, <2>18
    <2>20. \A b \in Live : live'[b] = live[b] /\ heap'.size[b] = heap.size[b]
        <3>1. heap' = g
              BY <1>4
        <3> QED BY <2>2, <2>3, <2>5, <2>6, <2>18, <3>1
    <2> QED BY <2>17, <2>19, <2>20
<1> QED BY <1>3, <1>4 DEF kma_malloc

\* kma_free preserves BuddyInv: the block that it merges was the client's.
LEMMA FreeStep ==
    ASSUME BuddyInv, NEW a \in Live, kma_free(a)
    PROVE  /\ BuddyInv'
           /\ Live' = Live \ {a}
           /\ \A b \in Live' :
                 live'[b] = live[b] /\ heap'.size[b] = heap.size[b]
<1>1. /\ Good(heap) /\ Rooted(heap) /\ LiveInv /\ PcInv
      BY DEF BuddyInv
<1>2. /\ pc = "idle" /\ live' = [b \in Live \ {a} |-> live[b]]
      /\ hdr' = a /\ pc' = "merge" /\ heap' = heap
      BY DEF kma_free
<1>3. Blocks' = Blocks /\ Live' = Live \ {a}
      BY <1>2 DEF Blocks, Live
<1>4. a \in Blocks /\ Live \subseteq Blocks
      BY <1>1 DEF LiveInv
<1>5. LiveInv'
      BY <1>1, <1>2, <1>3 DEF LiveInv
<1>6. Resting' = Resting
    <2>1. Resting = Blocks \ Live
          BY <1>2 DEF Resting
    <2>2. Resting' = Blocks \ ((Live \ {a}) \cup {a})
          BY <1>2, <1>3 DEF Resting
    <2> QED BY <2>1, <2>2
<1>7. a \in Addresses
      BY <1>1, <1>4 DEF Good, Tiled, Blocks
<1>8. PcInv'
      BY <1>1, <1>2, <1>3, <1>4, <1>6, <1>7 DEF PcInv
<1>9. BuddyInv'
      BY <1>1, <1>2, <1>5, <1>8 DEF BuddyInv
<1> QED BY <1>2, <1>3, <1>9

\* A round of kma_free's loop, and what follows the last, preserve BuddyInv and
\* the client's blocks.
LEMMA MergeStep ==
    ASSUME BuddyInv, Merge
    PROVE  /\ BuddyInv' /\ live' = live
           /\ \A b \in Live : heap'.size[b] = heap.size[b]
<1> DEFINE c == heap.size[hdr]
           b == BuddyOf(hdr, c)
           S == Blocks \ (Live \cup {hdr})
<1>1. /\ Good(heap) /\ Rooted(heap) /\ LiveInv /\ PcInv
      BY DEF BuddyInv
<1>2. pc = "merge" /\ live' = live
      BY DEF Merge
<1>3. /\ hdr \in DOMAIN heap.size /\ hdr \notin Live
      /\ Lists(heap.free, heap.size, S) /\ Settled(heap.size, S)
      /\ S \in SUBSET DOMAIN heap.size /\ hdr \notin S
    <2>1. Resting = S
          BY <1>2 DEF Resting
    <2> QED BY <1>1, <1>2, <2>1 DEF PcInv, Blocks
<1>4. /\ live \in [Live -> Sizes] /\ Live \subseteq DOMAIN heap.size
      /\ \A x \in Live : live[x] + AllocHeader <= heap.size[x]
      BY <1>1 DEF LiveInv, Blocks
<1>5. /\ heap.size \in [DOMAIN heap.size -> Classes] /\ DOMAIN heap.size \subseteq Addresses
      /\ Tiled(heap.size)
      BY <1>1 DEF Good, Tiled
<1>6. hdr \in Nat /\ c \in Nat \ {0} /\ c \in Classes /\ hdr \in Addresses
      BY <1>3, <1>5, BlockNumbers
<1>7. b # hdr
    <2> HIDE DEF c
    <2> QED BY <1>6 DEF BuddyOf
<1>8. Mergeable(heap, hdr, c) <=> ~Apart(heap.size, S, hdr)
    <2>1. b \in S <=> b \notin Live /\ b \in DOMAIN heap.size
          BY <1>7 DEF Blocks
    <2> QED BY <2>1 DEF Mergeable, Apart
<1>9. CASE Mergeable(heap, hdr, c) /\ heap' = Merged(heap, hdr, c)
           /\ hdr' = Min({hdr, b}) /\ pc' = pc
    <2> DEFINE g  == Merged(heap, hdr, c)
               lo == Min({hdr, b})
               hi == Max({hdr, b})
    <2>1. hdr \in DOMAIN heap.size \ S
          BY <1>3
    <2>2. ~Apart(heap.size, S, hdr)
          BY <1>8, <1>9
    <2>3. /\ Good(g) /\ (Rooted(heap) => Rooted(g))
          /\ b \in S /\ lo \in DOMAIN g.size
          /\ lo \in {hdr, b}
          /\ DOMAIN g.size = DOMAIN heap.size \ {hi}
          /\ hi \in {hdr, b}
          /\ \A x \in DOMAIN heap.size \ {hdr, b} : g.size[x] = heap.size[x]
          /\ Lists(g.free, g.size, S \ {b})
          /\ Settled(g.size, S \ {b})
        <3> HIDE DEF S
        <3> QED BY <1>1, <1>3, <2>1, <2>2, MergeEffect
    <2> HIDE DEF g, lo, hi, b, c
    <2>4. {lo, hi} = {hdr, b}
          BY <1>7, <2>3
    <2>5. DOMAIN g.size \ (Live \cup {lo}) = S \ {b}
          BY <2>3, <2>4 DEF S, Blocks
    <2>6. b \notin Live /\ b \in DOMAIN heap.size
          BY <2>3 DEF S, Blocks
    <2>7. /\ Live \subseteq DOMAIN g.size
          /\ \A x \in Live : g.size[x] = heap.size[x]
          BY <1>3, <1>4, <2>3, <2>6
    <2>8. lo \in DOMAIN g.size \ Live /\ lo \in Addresses
          BY <1>3, <1>5, <2>3, <2>6
    <2>9. PICK k : k = g
          OBVIOUS
    <2>10. PICK K : K = live
           OBVIOUS
    <2>11. PICK T : T = S \ {b}
           OBVIOUS
    <2>12. heap' = k /\ live' = K /\ hdr' = lo /\ pc' = "merge" /\ DOMAIN K = Live
           BY <1>2, <1>9, <2>9, <2>10 DEF g, lo, b, c, Live
    <2>13. T = DOMAIN k.size \ (DOMAIN K \cup (IF pc' = "merge" THEN {hdr'} ELSE {}))
           BY <2>5, <2>9, <2>11, <2>12
    <2>14. Good(k) /\ Rooted(k) /\ Lists(k.free, k.size, T) /\ Settled(k.size, T)
           BY <1>1, <2>3, <2>9, <2>11
    <2>15. /\ K \in [DOMAIN K -> Sizes] /\ DOMAIN K \subseteq DOMAIN k.size
           /\ \A x \in DOMAIN K : K[x] + AllocHeader <= k.size[x]
           /\ hdr' \in Addresses /\ hdr' \in DOMAIN k.size \ DOMAIN K
           BY <1>4, <2>7, <2>8, <2>9, <2>10, <2>12
    <2>16. BuddyInv'
           BY <2>12, <2>13, <2>14, <2>15, Conclude
    <2> QED BY <1>2, <2>7, <2>9, <2>12, <2>16
<1>10. ASSUME ~Mergeable(heap, hdr, c), hdr' = 0, pc' = "idle",
              heap' = IF c = PageSize THEN Released(heap, hdr) ELSE Pushed(heap, hdr, c)
       PROVE  BuddyInv' /\ \A x \in Live : heap'.size[x] = heap.size[x]
    <2>1. 0 \in Addresses
        <3>1. NumPages * PageSize \in Nat \ {0}
              BY Layout
        <3> QED BY <3>1 DEF Addresses
    <2>2. \E g, T : /\ heap' = g /\ Good(g) /\ Rooted(g)
                    /\ Live \subseteq DOMAIN g.size
                    /\ \A x \in Live : g.size[x] = heap.size[x]
                    /\ T = DOMAIN g.size \ Live
                    /\ Lists(g.free, g.size, T) /\ Settled(g.size, T)
        <3>1. CASE c = PageSize
            <4> DEFINE g == Released(heap, hdr)
            <4>1. Good(g) /\ Rooted(g) /\ g.free = heap.free /\ g.size = Without(heap.size, hdr)
                  BY <1>1, <1>3, <3>1, ReleaseEffect
            <4> HIDE DEF g
            <4>2. /\ DOMAIN g.size = DOMAIN heap.size \ {hdr}
                  /\ \A x \in DOMAIN heap.size \ {hdr} : g.size[x] = heap.size[x]
                  BY <4>1 DEF Without
            <4>3. S = DOMAIN g.size \ Live
                  BY <4>2 DEF Blocks
            <4>4. \A x \in S : g.size[x] = heap.size[x]
                  BY <4>2, <4>3
            <4> HIDE DEF S
            <4>5. Lists(g.free, g.size, S) /\ Settled(g.size, S)
                  BY <1>3, <4>1, <4>4, SameSizes
            <4>6. Live \subseteq DOMAIN g.size /\ \A x \in Live : g.size[x] = heap.size[x]
                  BY <1>3, <1>4, <4>2
            <4>7. heap' = g
                  BY <1>10, <3>1 DEF g
            <4> QED BY <4>1, <4>3, <4>5, <4>6, <4>7
        <3>2. CASE c # PageSize
            <4> DEFINE g == Pushed(heap, hdr, c)
            <4>1. hdr \in DOMAIN heap.size \ S
                  BY <1>3
            <4>2. Apart(heap.size, S, hdr)
                  BY <1>8, <1>10
            <4>3. Good(g) /\ Rooted(g) /\ g.size = heap.size /\ Lists(g.free, g.size, S \cup {hdr})
                <5> HIDE DEF S
                <5> QED BY <1>1, <1>3, <4>1, PushEffect
            <4>4. Settled(heap.size, S \cup {hdr})
                <5> HIDE DEF S
                <5> QED BY <1>3, <1>5, <3>2, <4>2, SettledWith
            <4>5. S \cup {hdr} = DOMAIN g.size \ Live
                  BY <1>3, <4>3 DEF Blocks
            <4>6. heap' = g
                  BY <1>10, <3>2
            <4> HIDE DEF g, S
            <4> QED BY <1>4, <4>3, <4>4, <4>5, <4>6
        <3> QED BY <3>1, <3>2
    <2>3. PICK g, T : /\ heap' = g /\ Good(g) /\ Rooted(g)
                      /\ Live \subseteq DOMAIN g.size
                      /\ \A x \in Live : g.size[x] = heap.size[x]
                      /\ T = DOMAIN g.size \ Live
                      /\ Lists(g.free, g.size, T) /\ Settled(g.size, T)
          BY <2>2
    <2>4. PICK K : K = live
          OBVIOUS
    <2>5. live' = K /\ DOMAIN K = Live /\ heap' = g
          BY <1>2, <2>3, <2>4 DEF Live
    <2>6. T = DOMAIN g.size \ (DOMAIN K \cup (IF pc' = "merge" THEN {hdr'} ELSE {}))
          BY <1>10, <2>3, <2>5
    <2>7. /\ K \in [DOMAIN K -> Sizes] /\ DOMAIN K \subseteq DOMAIN g.size
          /\ \A x \in DOMAIN K : K[x] + AllocHeader <= g.size[x]
          BY <1>4, <2>3, <2>4, <2>5
    <2>8. hdr' \in Addresses /\ pc' = "idle"
          BY <1>10, <2>1
    <2>9. Good(g) /\ Rooted(g) /\ Lists(g.free, g.size, T) /\ Settled(g.size, T)
          BY <2>3
    <2>10. BuddyInv'
           BY <2>5, <2>6, <2>7, <2>8, <2>9, Conclude
    <2> QED BY <2>3, <2>10
<1> QED BY <1>2, <1>9, <1>10 DEF Merge

\* Every step preserves BuddyInv.
LEMMA BuddyStep == BuddyInv /\ [Next]_vars => BuddyInv'
<1>1. ASSUME BuddyInv, NEW n \in Sizes, kma_malloc(n) PROVE BuddyInv'
      BY <1>1, MallocStep
<1>2. ASSUME BuddyInv, NEW a \in Live, kma_free(a) PROVE BuddyInv'
      BY <1>2, FreeStep
<1>3. ASSUME BuddyInv, Merge PROVE BuddyInv'
      BY <1>3, MergeStep
<1>4. ASSUME BuddyInv, UNCHANGED vars PROVE BuddyInv'
      BY <1>4, Stutter
<1> QED BY <1>1, <1>2, <1>3, <1>4 DEF Next

\* BuddyInv holds whatever the client asks for and frees, in any order.
THEOREM BuddyInvariant == Spec => []BuddyInv
<1> QED BY BuddyInit, BuddyStep, PTL DEF Spec

-----------------------------------------------------------------------------
(* The properties that the runs check.                                       *)

\* What every variable is.
THEOREM BuddyTypes == Spec => []TypeOK
<1>1. BuddyInv => TypeOK
    <2> SUFFICES ASSUME BuddyInv PROVE TypeOK
        OBVIOUS
    <2>1. /\ IsHeap(heap) /\ Tiled(heap.size) /\ LiveInv /\ PcInv
          BY DEF BuddyInv, Good
    <2>2. /\ heap.stack \in Seq(PageIds)
          /\ heap.root \in PageIds \cup {NoPage}
          /\ heap.free \in [Classes -> Seq(Addresses)]
          /\ heap.used \in Seq(Entries) /\ heap.unused \in Seq(Entries)
          /\ DOMAIN heap.page = ToSet(heap.used)
          BY <2>1 DEF IsHeap, IsStack
    <2>3. Blocks \subseteq Addresses /\ \A b \in Blocks : heap.size[b] \in Classes
          BY <2>1 DEF Tiled, Blocks
    <2>4. live \in [Live -> Sizes] /\ Live \subseteq Blocks
          BY <2>1 DEF LiveInv
    <2>5. pc \in {"idle", "merge", "exited"} /\ hdr \in Addresses
          BY <2>1 DEF PcInv
    <2> QED BY <2>2, <2>3, <2>4, <2>5 DEF TypeOK
<1> QED BY <1>1, BuddyInvariant, PTL

\* create_block, merging and splitting leave every data page filled by aligned
\* blocks: there is never a gap or an overlap.
THEOREM BlocksFillPages == Spec => []PagesTiled
<1>1. BuddyInv => PagesTiled
    <2> SUFFICES ASSUME BuddyInv PROVE PagesTiled
        OBVIOUS
    <2>1. Tiled(heap.size)
          BY DEF BuddyInv, Good
    <2> QED BY <2>1 DEF Tiled, Tile, EndIn, PagesTiled, Blocks
<1> QED BY <1>1, BuddyInvariant, PTL

\* The lists are the free blocks: kma_free never searches a list in vain, and
\* kma_malloc takes no block that somebody has.
THEOREM FreeListsExact == Spec => []FreeListsRight
<1>1. BuddyInv => FreeListsRight
    <2> SUFFICES ASSUME BuddyInv PROVE FreeListsRight
        OBVIOUS
    <2>1. Lists(heap.free, heap.size, Resting)
          BY DEF BuddyInv, PcInv
    <2>2. \A a : a \in Resting <=> a \in Blocks \ Live /\ ~(pc = "merge" /\ a = hdr)
          BY DEF Resting
    <2>3. ASSUME NEW c \in Classes
          PROVE  /\ IsInjective(heap.free[c])
                 /\ ToSet(heap.free[c]) =
                      {a \in Blocks \ Live : heap.size[a] = c /\ ~(pc = "merge" /\ a = hdr)}
        <3>1. {a \in Resting : heap.size[a] = c} =
                {a \in Blocks \ Live : heap.size[a] = c /\ ~(pc = "merge" /\ a = hdr)}
              BY <2>2
        <3> QED BY <2>1, <3>1 DEF Lists
    <2> QED BY <2>3 DEF FreeListsRight
<1> QED BY <1>1, BuddyInvariant, PTL

\* kma_free's loop ends when there is nothing left to merge, and nothing that
\* kma_malloc splits off can be merged: where a lower half ends there is always
\* a block to look at.
THEOREM BuddiesAreMerged == Spec => []BuddiesMerged
<1>1. BuddyInv => BuddiesMerged
    <2> SUFFICES ASSUME BuddyInv, pc = "idle", NEW a \in Blocks \ Live
                 PROVE  /\ heap.size[a] # PageSize
                        /\ a % (2 * heap.size[a]) = 0 =>
                              LET b == a + heap.size[a] IN
                              b \in Live \/ heap.size[b] # heap.size[a]
        BY DEF BuddiesMerged
    <2> DEFINE c == heap.size[a]
               b == a + c
    <2>1. Tiled(heap.size) /\ Settled(heap.size, Blocks \ Live)
        <3>1. Resting = Blocks \ Live
              BY DEF Resting
        <3> QED BY <3>1 DEF BuddyInv, Good, PcInv
    <2>2. /\ heap.size \in [Blocks -> Classes] /\ Blocks \subseteq Addresses
          BY <2>1 DEF Tiled, Blocks
    <2>3. a \in Nat /\ c \in Classes /\ c \in Nat \ {0} /\ c <= PageSize
          BY <2>2, BlockNumbers DEF Blocks
    <2>4. c # PageSize
          BY <2>1 DEF Settled
    <2>5. ASSUME a % (2 * c) = 0, b \notin Live PROVE heap.size[b] # c
        <3>1. Divides(c, a) /\ FirstBlock(Page(a)) \in Nat
              /\ (b \in Blocks \/ b = FirstBlock(Page(a)) + PageSize)
              BY <2>1, TiledFits DEF Fitted, EndIn, Blocks
        <3> HIDE DEF c
        <3>2. Divides(2 * c, a)
            <4>1. 2 * c \in Nat \ {0}
                  BY <2>3
            <4> QED BY <2>3, <2>5, <4>1, NoRest
        <3>3. ~Divides(2 * c, a + c)
              BY <2>3, <3>1, <3>2, Halves
        <3>4. b # FirstBlock(Page(a)) + PageSize
            <4>1. SUFFICES ASSUME b = FirstBlock(Page(a)) + PageSize PROVE FALSE
                  OBVIOUS
            <4>2. PageSize \in Nat \ {0} /\ PageSize \in Classes
                  BY Layout
            <4>3. 2 * c \in Nat \ {0} /\ Divides(2 * c, PageSize)
                <5>1. c < PageSize
                      BY <2>3, <2>4, <4>2 DEF c
                <5> QED BY <2>3, <4>2, <5>1, ClassesDivide
            <4>4. Divides(PageSize, FirstBlock(Page(a)))
                  BY <2>3, PageOf
            <4>5. Divides(2 * c, FirstBlock(Page(a)))
                  BY <3>1, <4>2, <4>3, <4>4, Aligned
            <4>6. Divides(2 * c, FirstBlock(Page(a)) + PageSize)
                  BY <3>1, <4>2, <4>3, <4>5, Multiples
            <4> QED BY <3>3, <4>1, <4>6
        <3>5. b \in Blocks \ Live
              BY <2>5, <3>1, <3>4
        <3> QED BY <2>1, <2>5, <3>5 DEF Settled, EndIn, c
    <2> QED BY <2>4, <2>5
<1> QED BY <1>1, BuddyInvariant, PTL

\* No page is lost and none is taken twice, though a bookkeeping page that goes
\* takes the whole list of entries not in use with it: entries of other
\* bookkeeping pages are forgotten, the pages are not.
THEOREM PagesAreAccounted == Spec => []PagesAccounted
<1>1. BuddyInv => PagesAccounted
    <2> SUFFICES ASSUME BuddyInv PROVE PagesAccounted
        OBVIOUS
    <2> DEFINE used == heap.used
               unused == heap.unused
    <2>1. IsHeap(heap) /\ EntriesRight(heap) /\ PagesRight(heap)
          BY DEF BuddyInv, Good
    <2>2. DataPages = DataOf(heap)
          BY DEF DataPages, DataOf, Blocks
    <2>3. \A p \in DataPages : \E e \in ToSet(used) : heap.page[e] = p
          BY <2>1, <2>2 DEF EntriesRight
    <2>4. /\ used \in Seq(Entries) /\ unused \in Seq(Entries)
          /\ IsInjective(used) /\ IsInjective(unused)
          /\ ToSet(used) \cap ToSet(unused) = {}
          /\ \A e, f \in ToSet(used) : heap.page[e] = heap.page[f] => e = f
          BY <2>1 DEF IsHeap, EntriesRight
    <2> HIDE DEF used, unused
    <2>5. IsInjective([i \in DOMAIN used |-> heap.page[used[i]]])
          BY <2>4 DEF IsInjective, ToSet
    <2>6. IsInjective(used \o unused)
        <3> DEFINE l == used \o unused
        <3>1. /\ Len(used) \in Nat /\ Len(unused) \in Nat
              /\ DOMAIN used = 1 .. Len(used) /\ DOMAIN unused = 1 .. Len(unused)
              /\ DOMAIN l = 1 .. Len(used) + Len(unused)
              BY <2>4
        <3>2. \A i \in DOMAIN l :
                 \/ i \in DOMAIN used /\ l[i] = used[i]
                 \/ i - Len(used) \in DOMAIN unused /\ l[i] = unused[i - Len(used)]
              BY <2>4, <3>1
        <3> HIDE DEF l
        <3>3. ASSUME NEW i \in DOMAIN l, NEW j \in DOMAIN l, l[i] = l[j] PROVE i = j
            <4>1. \A x \in DOMAIN used, y \in DOMAIN unused : used[x] # unused[y]
                  BY <2>4 DEF ToSet
            <4>2. CASE i \in DOMAIN used /\ l[i] = used[i]
                <5>1. j \in DOMAIN used /\ l[j] = used[j]
                      BY <3>2, <3>3, <4>1, <4>2
                <5> QED BY <2>4, <3>3, <4>2, <5>1 DEF IsInjective
            <4>3. CASE i - Len(used) \in DOMAIN unused /\ l[i] = unused[i - Len(used)]
                <5>1. j - Len(used) \in DOMAIN unused /\ l[j] = unused[j - Len(used)]
                      BY <3>2, <3>3, <4>1, <4>3
                <5>2. i - Len(used) = j - Len(used)
                      BY <2>4, <3>3, <4>3, <5>1 DEF IsInjective
                <5> QED BY <3>1, <5>2
            <4> QED BY <3>2, <4>2, <4>3
        <3> QED BY <3>3 DEF IsInjective, l
    <2>7. Books(heap) = {e[1] : e \in ToSet(used)}
          BY DEF Books, used
    <2>8. \A e \in ToSet(unused) : e[1] \in Books(heap)
          BY <2>1 DEF EntriesRight, unused
    <2>9. Held(heap.stack) = Books(heap) \cup DataPages \cup ({heap.root} \ {NoPage})
          BY <2>1, <2>2 DEF PagesRight
    <2> QED BY <2>3, <2>5, <2>6, <2>7, <2>8, <2>9 DEF PagesAccounted, used, unused
<1> QED BY <1>1, BuddyInvariant, PTL

\* "not all pages freed" (kma.c:219-222) never happens: free blocks of a page
\* always merge to the page, and its pages go with the last data page.
THEOREM AllPagesFreed == Spec => []AllFreed
<1>1. BuddyInv => AllFreed
    <2> SUFFICES ASSUME BuddyInv, pc = "idle", Live = {}
                 PROVE  Held(heap.stack) = {} /\ heap.root = NoPage
        BY DEF AllFreed
    <2>1. /\ IsHeap(heap) /\ Tiled(heap.size) /\ EntriesRight(heap)
          /\ PagesRight(heap) /\ Rooted(heap)
          BY DEF BuddyInv, Good
    <2>2. Settled(heap.size, DOMAIN heap.size)
        <3>1. Resting = DOMAIN heap.size
              BY DEF Resting, Blocks
        <3> QED BY <3>1 DEF BuddyInv, PcInv
    <2>3. DOMAIN heap.size = {}
          BY <2>1, <2>2, NoneSettled
    <2>4. DataOf(heap) = {}
          BY <2>3 DEF DataOf
    <2>5. ToSet(heap.used) = {}
          BY <2>1, <2>4 DEF EntriesRight
    <2>6. heap.used = <<>> /\ Books(heap) = {}
        <3>1. heap.used \in Seq(Entries)
              BY <2>1 DEF IsHeap
        <3> QED BY <2>5, <3>1, NoneListed DEF Books
    <2>7. heap.root = NoPage
          BY <2>1, <2>6 DEF Rooted
    <2> QED BY <2>1, <2>4, <2>6, <2>7 DEF PagesRight
<1> QED BY <1>1, BuddyInvariant, PTL

-----------------------------------------------------------------------------
(* The buddy allocator is a heap.                                            *)

\* What the client gets of a block lies in the block's page.
LEMMA PayloadInPage ==
    ASSUME NEW s, Tiled(s), NEW a \in DOMAIN s
    PROVE  /\ a + AllocHeader \in 0 .. NumPages * PageSize - 1
           /\ ((a + AllocHeader) % PageSize) + (s[a] - AllocHeader) <= PageSize
           /\ s[a] - AllocHeader \in Nat
<1> DEFINE x == a + AllocHeader
           f == FirstBlock(Page(a))
<1>1. s \in [DOMAIN s -> Classes] /\ DOMAIN s \subseteq Addresses
      BY DEF Tiled
<1>2. /\ a \in Nat /\ s[a] \in Nat /\ AllocHeader < s[a] /\ s[a] \in Classes
      /\ Page(a) \in PageIds
      BY <1>1, BlockNumbers
<1>3. /\ Divides(s[a], a) /\ f \in Nat /\ f <= a /\ a + s[a] <= f + PageSize
      BY TiledFits DEF Fitted, EndIn
<1>4. AllocHeader \in Nat /\ PageSize \in Nat \ {0} /\ NumPages * PageSize \in Nat
      BY Layout
<1>5. f + PageSize <= NumPages * PageSize
      BY <1>2, PageBegins
<1>6. Page(x) = Page(a)
    <2>1. x \in Nat /\ a <= x /\ x < a + s[a]
          BY <1>2, <1>4
    <2> HIDE DEF x
    <2> QED BY <1>2, <1>3, <2>1, AlignedInPage
<1>7. x % PageSize = x - f
    <2>1. x \in Nat
          BY <1>2, <1>4
    <2> HIDE DEF x
    <2>2. Page(x) \in Nat /\ x % PageSize \in Nat /\ x = PageSize * Page(x) + (x % PageSize)
        <3>1. PageSize \in Nat \ {0}
              BY Layout
        <3>2. /\ x \div PageSize \in Nat /\ x % PageSize \in 0 .. PageSize - 1
              /\ x = PageSize * (x \div PageSize) + (x % PageSize)
              BY <2>1, <3>1, Quotient
        <3>3. x % PageSize \in Nat
              BY <3>1, <3>2
        <3> QED BY <3>2, <3>3 DEF Page
    <2>3. f = PageSize * Page(x)
        <3>1. f = Page(x) * PageSize
              BY <1>6 DEF FirstBlock
        <3> QED BY <1>4, <2>2, <3>1
    <2> HIDE DEF f
    <2>4. PICK y \in Nat : y = PageSize * Page(x)
          BY <1>3, <2>3
    <2> QED BY <2>1, <2>2, <2>3, <2>4
<1>8. x \in Nat /\ x < f + PageSize /\ (x - f) + (s[a] - AllocHeader) <= PageSize
    <2> HIDE DEF f
    <2> QED BY <1>2, <1>3, <1>4
<1>9. x < NumPages * PageSize
    <2> DEFINE m == NumPages * PageSize
    <2>1. m \in Nat /\ f + PageSize <= m
          BY <1>4, <1>5
    <2> HIDE DEF m, f, x
    <2>2. x < m
          BY <1>3, <1>4, <1>8, <2>1
    <2> QED BY <2>2 DEF m
<1> HIDE DEF x, f
<1>10. x \in 0 .. NumPages * PageSize - 1
       BY <1>4, <1>8, <1>9
<1>11. (x % PageSize) + (s[a] - AllocHeader) <= PageSize
       BY <1>7, <1>8
<1>12. s[a] - AllocHeader \in Nat
       BY <1>2, <1>4
<1> QED BY <1>10, <1>11, <1>12 DEF x

\* What two clients get of two blocks is disjoint.
LEMMA PayloadsApart ==
    ASSUME NEW s, Tiled(s), NEW a \in DOMAIN s, NEW b \in DOMAIN s, a # b
    PROVE  \/ (a + AllocHeader) + (s[a] - AllocHeader) <= b + AllocHeader
           \/ (b + AllocHeader) + (s[b] - AllocHeader) <= a + AllocHeader
<1>1. s \in [DOMAIN s -> Classes] /\ DOMAIN s \subseteq Addresses
      BY DEF Tiled
<1>2. /\ a \in Nat /\ s[a] \in Nat /\ EndIn(s, a) = a + s[a]
      /\ b \in Nat /\ s[b] \in Nat /\ EndIn(s, b) = b + s[b]
      /\ AllocHeader \in Nat
      BY <1>1, BlockNumbers, Layout DEF EndIn
<1>3. (a < b => EndIn(s, a) <= b) /\ (b < a => EndIn(s, b) <= a)
      BY DEF Tiled
<1> QED BY <1>2, <1>3

\* The abstract block that is the client's block a among blocks of the sizes s,
\* with the sizes l that were asked for.
Payload(s, l, a) == [at |-> a + AllocHeader, len |-> s[a] - AllocHeader, asked |-> l[a]]
Payloads(s, l)   == {Payload(s, l, a) : a \in DOMAIN l}

\* Different blocks are different abstract blocks.
LEMMA PayloadsDiffer ==
    ASSUME NEW s, NEW t, NEW l, NEW k, NEW a \in Addresses, NEW b \in Addresses,
           a # b
    PROVE  Payload(s, l, a) # Payload(t, k, b)
<1>1. a \in Nat /\ b \in Nat /\ AllocHeader \in Nat
      BY Layout DEF Addresses
<1>2. Payload(s, l, a).at = a + AllocHeader /\ Payload(t, k, b).at = b + AllocHeader
      BY DEF Payload
<1> QED BY <1>1, <1>2

\* What a kma_malloc that succeeds adds is the abstract heap's Malloc.
LEMMA MallocIsMalloc ==
    ASSUME BuddyInv, BuddyInv', NEW a \in Live' \ Live, live'[a] \in Sizes,
           Live' = Live \cup {a},
           \A b \in Live : live'[b] = live[b] /\ heap'.size[b] = heap.size[b]
    PROVE  HeapSpec!Malloc
<1> DEFINE x == Payload(heap'.size, live', a)
<1>1. /\ Tiled(heap'.size)
      /\ Live' \subseteq DOMAIN heap'.size
      /\ \A b \in Live' : live'[b] + AllocHeader <= heap'.size[b]
      BY DEF BuddyInv, Good, LiveInv, Blocks
<1>2. \A b \in Live' : b \in Addresses
      BY <1>1 DEF Tiled
<1>3. \A b \in Live : Payload(heap'.size, live', b) = Payload(heap.size, live, b)
      BY DEF Payload
<1>4. Payloads(heap'.size, live') = Payloads(heap.size, live) \cup {x}
    <2>1. Payloads(heap'.size, live') = {Payload(heap'.size, live', b) : b \in Live \cup {a}}
          BY DEF Payloads, Live
    <2>2. Payloads(heap.size, live) = {Payload(heap'.size, live', b) : b \in Live}
          BY <1>3 DEF Payloads, Live
    <2> QED BY <2>1, <2>2
<1>5. x \notin Payloads(heap.size, live)
    <2>1. ASSUME NEW b \in Live PROVE x # Payload(heap.size, live, b)
          BY <1>2, PayloadsDiffer
    <2> QED BY <2>1 DEF Payloads, Live
<1>6. /\ x.at = a + AllocHeader /\ x.len = heap'.size[a] - AllocHeader /\ x.asked = live'[a]
      /\ x = [at |-> x.at, len |-> x.len, asked |-> x.asked]
      BY DEF Payload
<1>7. /\ x.at \in 0 .. NumPages * PageSize - 1
      /\ (x.at % PageSize) + x.len <= PageSize
      /\ x.len \in Nat
      BY <1>1, <1>6, PayloadInPage
<1>8. x.asked \in Sizes /\ x.len >= x.asked
    <2>1. /\ live'[a] + AllocHeader <= heap'.size[a] /\ live'[a] \in Nat
          /\ AllocHeader \in Nat /\ heap'.size[a] \in Nat
        <3>1. heap'.size[a] \in Classes
              BY <1>1 DEF Tiled
        <3>2. AllocHeader \in Nat /\ heap'.size[a] \in Nat /\ PageSize \in Nat
              BY <3>1, Layout
        <3>3. live'[a] \in Nat
              BY OptimalFits
        <3> QED BY <1>1, <3>2, <3>3
    <2> HIDE DEF x
    <2> QED BY <1>6, <2>1
<1>9. \A c \in Payloads(heap.size, live) :
          x.at + x.len <= c.at \/ c.at + c.len <= x.at
    <2>1. ASSUME NEW b \in Live
          PROVE  LET c == Payload(heap.size, live, b) IN
                 x.at + x.len <= c.at \/ c.at + c.len <= x.at
        <3>1. a # b /\ a \in DOMAIN heap'.size /\ b \in DOMAIN heap'.size
              BY <1>1
        <3>2. \/ (a + AllocHeader) + (heap'.size[a] - AllocHeader) <= b + AllocHeader
              \/ (b + AllocHeader) + (heap'.size[b] - AllocHeader) <= a + AllocHeader
              BY <1>1, <3>1, PayloadsApart
        <3>3. /\ Payload(heap.size, live, b).at = b + AllocHeader
              /\ Payload(heap.size, live, b).len = heap'.size[b] - AllocHeader
              BY DEF Payload
        <3> HIDE DEF x
        <3> QED BY <1>6, <3>2, <3>3
    <2> HIDE DEF x
    <2> QED BY <2>1 DEF Payloads, Live
<1> HIDE DEF x
<1>10. x \in HeapSpec!Block /\ HeapSpec!Within(x)
       BY <1>6, <1>7, <1>8 DEF HeapSpec!Block, HeapSpec!Within
<1>11. \A c \in Payloads(heap.size, live) : HeapSpec!Disjoint(x, c)
       BY <1>9 DEF HeapSpec!Disjoint
<1>12. x \in Payloads(heap'.size, live') \ Payloads(heap.size, live)
       BY <1>4, <1>5
<1> QED BY <1>4, <1>8, <1>10, <1>11, <1>12
        DEF HeapSpec!Malloc, Payloads, Payload, Live

\* What kma_free takes away is the abstract heap's Free.
LEMMA FreeIsFree ==
    ASSUME BuddyInv, BuddyInv', NEW a \in Live, Live' = Live \ {a},
           \A b \in Live' : live'[b] = live[b] /\ heap'.size[b] = heap.size[b]
    PROVE  HeapSpec!Free
<1> DEFINE x == Payload(heap.size, live, a)
<1>1. \A b \in Live : b \in Addresses
      BY DEF BuddyInv, Good, LiveInv, Blocks, Tiled
<1>2. \A b \in Live' : Payload(heap'.size, live', b) = Payload(heap.size, live, b)
      BY DEF Payload
<1>3. Payloads(heap'.size, live') = Payloads(heap.size, live) \ {x}
    <2>1. Payloads(heap'.size, live') = {Payload(heap.size, live, b) : b \in Live \ {a}}
          BY <1>2 DEF Payloads, Live
    <2>2. \A b \in Live \ {a} : Payload(heap.size, live, b) # x
          BY <1>1, PayloadsDiffer
    <2> HIDE DEF x
    <2>3. x = Payload(heap.size, live, a)
          BY DEF x
    <2>4. Payloads(heap.size, live) = {Payload(heap.size, live, b) : b \in Live}
          BY DEF Payloads, Live
    <2> QED BY <2>1, <2>2, <2>3, <2>4
<1>4. x \in Payloads(heap.size, live)
      BY DEF Payloads, Live
<1> HIDE DEF x
<1> QED BY <1>3, <1>4 DEF HeapSpec!Free, Payloads, Payload, Live

\* Each call of kma_malloc that succeeds and each call of kma_free is one step
\* of the abstract heap; merging and giving back pages are none.
THEOREM BuddyIsHeap == Spec => ImplementsHeap
<1> DEFINE Map == {[at    |-> a + AllocHeader,
                    len   |-> heap.size[a] - AllocHeader,
                    asked |-> live[a]] : a \in Live}
<1>1. Init => HeapSpec!Init
      BY DEF Init, HeapSpec!Init, Live
<1>2. ASSUME BuddyInv, BuddyInv', [Next]_vars
      PROVE  HeapSpec!Next \/ UNCHANGED Map
    <2>1. ASSUME UNCHANGED <<Live, live>>, \A b \in Live : heap'.size[b] = heap.size[b]
          PROVE  UNCHANGED Map
          BY <2>1
    <2>2. ASSUME NEW n \in Sizes, kma_malloc(n)
          PROVE  HeapSpec!Next \/ UNCHANGED Map
        <3>1. CASE UNCHANGED <<heap, live>>
              BY <2>1, <3>1 DEF Live
        <3>2. CASE \E a \in Live' \ Live :
                    /\ Live' = Live \cup {a} /\ live'[a] = n
                    /\ \A b \in Live :
                          live'[b] = live[b] /\ heap'.size[b] = heap.size[b]
              BY <1>2, <2>2, <3>2, MallocIsMalloc DEF HeapSpec!Next
        <3> QED BY <1>2, <2>2, <3>1, <3>2, MallocStep
    <2>3. ASSUME NEW a \in Live, kma_free(a)
          PROVE  HeapSpec!Next
          BY <1>2, <2>3, FreeStep, FreeIsFree DEF HeapSpec!Next
    <2>4. ASSUME Merge PROVE UNCHANGED Map
          BY <1>2, <2>1, <2>4, MergeStep DEF Live
    <2>5. CASE UNCHANGED vars
          BY <2>1, <2>5 DEF vars, Live
    <2> QED BY <1>2, <2>2, <2>3, <2>4, <2>5 DEF Next
<1>3. BuddyInv /\ BuddyInv' /\ [Next]_vars => [HeapSpec!Next]_Map
      BY <1>2
<1> QED BY <1>1, <1>3, BuddyInvariant, PTL DEF Spec, ImplementsHeap, HeapSpec!Spec
=============================================================================
