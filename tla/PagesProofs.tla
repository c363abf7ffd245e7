---------------------------- MODULE PagesProofs ----------------------------
(* Lemmas about the page stack that the allocators are built on, for every   *)
(* number of pages.                                                          *)
EXTENDS Pages, FiniteSets, FiniteSetTheorems, WellFoundedInduction, TLAPS

\* A stack of free pages: no page is on it twice.
IsStack(s) ==
    /\ s \in Seq(PageIds)
    /\ \A i, k \in 1 .. Len(s) : s[i] = s[k] => i = k

-----------------------------------------------------------------------------

\* A new pool has every page on its list, once, and none in use.
LEMMA NewPool ==
    /\ Ascending \in Seq(PageIds)
    /\ Len(Ascending) = NumPages
    /\ \A i \in 1 .. NumPages : Ascending[i] = i - 1
    /\ Held(Ascending) = {}
    /\ Ascending # <<>>
<1>1. /\ Ascending \in Seq(PageIds)
      /\ Len(Ascending) = NumPages
      /\ \A i \in 1 .. NumPages : Ascending[i] = i - 1
      BY NumPagesAssumption DEF Ascending, PageIds
<1>2. ASSUME NEW p \in PageIds
      PROVE  \E i \in 1 .. Len(Ascending) : p = Ascending[i]
    <2>1. p + 1 \in 1 .. NumPages /\ Ascending[p + 1] = p
          BY <1>1, NumPagesAssumption DEF PageIds
    <2> QED BY <2>1, <1>1
<1>3. Held(Ascending) = {}
      BY <1>2 DEF Held
<1>4. Ascending # <<>>
      BY <1>1, NumPagesAssumption
<1> QED BY <1>1, <1>3, <1>4

\* Taking the first page off a list: what is left, and what is in use then.
LEMMA GetShifts ==
    ASSUME NEW s \in Seq(PageIds), s # <<>>,
           \A i, k \in 1 .. Len(s) : s[i] = s[k] => i = k
    PROVE  /\ AfterGet(s) \in Seq(PageIds)
           /\ Len(AfterGet(s)) = Len(s) - 1
           /\ \A i \in 1 .. Len(s) - 1 : AfterGet(s)[i] = s[i + 1]
           /\ s[1] \in PageIds /\ s[1] \notin Held(s)
           /\ Held(AfterGet(s)) = Held(s) \cup {s[1]}
<1> DEFINE t == AfterGet(s)
<1>1. /\ t \in Seq(PageIds)
      /\ Len(t) = Len(s) - 1
      /\ \A i \in 1 .. Len(s) - 1 : t[i] = s[i + 1]
      /\ s[1] \in PageIds
      /\ Len(s) \in Nat \ {0}
      BY DEF AfterGet
<1>2. s[1] \notin Held(s)
      BY <1>1 DEF Held
<1>3. \A i \in 1 .. Len(t) : t[i] # s[1]
      BY <1>1
<1>4. ASSUME NEW p \in PageIds, p # s[1]
      PROVE  (\E i \in 1 .. Len(t) : p = t[i]) <=> (\E i \in 1 .. Len(s) : p = s[i])
    <2>1. ASSUME NEW i \in 1 .. Len(t), p = t[i]
          PROVE  \E k \in 1 .. Len(s) : p = s[k]
          <3>1. i + 1 \in 1 .. Len(s) /\ p = s[i + 1]
                BY <1>1, <2>1
          <3> QED BY <3>1
    <2>2. ASSUME NEW i \in 1 .. Len(s), p = s[i]
          PROVE  \E k \in 1 .. Len(t) : p = t[k]
          <3>1. i # 1
                BY <2>2, <1>4
          <3>2. i - 1 \in 1 .. Len(t) /\ p = t[i - 1]
                BY <1>1, <2>2, <3>1
          <3> QED BY <3>2
    <2> QED BY <2>1, <2>2
<1>5. Held(t) = Held(s) \cup {s[1]}
      BY <1>1, <1>3, <1>4 DEF Held
<1> QED BY <1>1, <1>2, <1>5

\* Putting a page that is in use in front of a list.
LEMMA PutShifts ==
    ASSUME NEW s \in Seq(PageIds), NEW p \in Held(s)
    PROVE  LET t == <<p>> \o s IN
           /\ t \in Seq(PageIds)
           /\ Len(t) = Len(s) + 1
           /\ t[1] = p
           /\ \A i \in 1 .. Len(s) : t[i + 1] = s[i]
           /\ \A i \in 2 .. Len(t) : t[i] = s[i - 1]
           /\ Held(t) = Held(s) \ {p}
<1> DEFINE t == <<p>> \o s
<1>1. p \in PageIds
      BY DEF Held
<1>2. /\ t \in Seq(PageIds)
      /\ Len(t) = Len(s) + 1
      /\ t[1] = p
      /\ \A i \in 1 .. Len(s) : t[i + 1] = s[i]
      /\ \A i \in 2 .. Len(t) : t[i] = s[i - 1]
      /\ Len(s) \in Nat
      BY <1>1
<1>3. ASSUME NEW q \in PageIds, q # p
      PROVE  (\E i \in 1 .. Len(t) : q = t[i]) <=> (\E i \in 1 .. Len(s) : q = s[i])
    <2>1. ASSUME NEW i \in 1 .. Len(t), q = t[i]
          PROVE  \E k \in 1 .. Len(s) : q = s[k]
          <3>1. i # 1
                BY <2>1, <1>2, <1>3
          <3>2. i - 1 \in 1 .. Len(s) /\ q = s[i - 1]
                BY <1>2, <2>1, <3>1
          <3> QED BY <3>2
    <2>2. ASSUME NEW i \in 1 .. Len(s), q = s[i]
          PROVE  \E k \in 1 .. Len(t) : q = t[k]
          <3>1. i + 1 \in 1 .. Len(t) /\ q = t[i + 1]
                BY <1>2, <2>2
          <3> QED BY <3>1
    <2> QED BY <2>1, <2>2
<1>4. \E i \in 1 .. Len(t) : p = t[i]
      BY <1>2
<1>5. Held(t) = Held(s) \ {p}
      BY <1>3, <1>4 DEF Held
<1> HIDE DEF t
<1>6. QED
      BY <1>2, <1>5 DEF t

\* Every page is on the stack or in use, and no page is both: the numbers of
\* the one and the other add up.
LEMMA HeldCounted ==
    ASSUME NEW s, IsStack(s)
    PROVE  /\ IsFiniteSet(Held(s))
           /\ Cardinality(Held(s)) = NumPages - Len(s)
<1> DEFINE on == {s[i] : i \in 1 .. Len(s)}
<1>1. s \in Seq(PageIds) /\ Len(s) \in Nat
      BY DEF IsStack
<1>2. IsFiniteSet(PageIds) /\ Cardinality(PageIds) = NumPages
      BY FS_Interval, NumPagesAssumption DEF PageIds
<1>3. on \subseteq PageIds
      BY <1>1
<1>4. IsFiniteSet(on) /\ Cardinality(on) = Len(s)
    <2>1. s \in Bijection(1 .. Len(s), on)
        <3>1. s \in [1 .. Len(s) -> on]
              BY <1>1
        <3>2. IsInjective(s)
              BY <1>1 DEF IsStack, IsInjective
        <3>3. \A p \in on : \E i \in 1 .. Len(s) : s[i] = p
              OBVIOUS
        <3> QED BY <3>1, <3>2, <3>3 DEF Bijection, Injection, Surjection
    <2>2. ExistsBijection(1 .. Len(s), on)
          BY <2>1 DEF ExistsBijection
    <2>3. IsFiniteSet(on)
          BY <1>1, <2>2, FS_NatBijection
    <2> QED BY <1>1, <2>2, <2>3, FS_CountingElements
<1>5. PageIds \cap on = on
      BY <1>3
<1>6. Held(s) = PageIds \ on
      BY DEF Held
<1> HIDE DEF on
<1>7. /\ IsFiniteSet(PageIds \ on)
      /\ Cardinality(PageIds \ on)
            = Cardinality(PageIds) - Cardinality(PageIds \cap on)
      BY <1>2, FS_Difference
<1> QED BY <1>2, <1>4, <1>5, <1>6, <1>7

\* get_page gives out a page that nobody has.
LEMMA GetHolds ==
    ASSUME NEW s, IsStack(s), s # <<>>
    PROVE  /\ IsStack(AfterGet(s))
           /\ Head(s) \in PageIds \ Held(s)
           /\ Held(AfterGet(s)) = Held(s) \cup {Head(s)}
<1>1. /\ s \in Seq(PageIds) /\ Len(s) \in Nat \ {0} /\ Head(s) = s[1]
      /\ \A i, k \in 1 .. Len(s) : s[i] = s[k] => i = k
      BY DEF IsStack
<1>2. /\ AfterGet(s) \in Seq(PageIds)
      /\ Len(AfterGet(s)) = Len(s) - 1
      /\ \A i \in 1 .. Len(s) - 1 : AfterGet(s)[i] = s[i + 1]
      /\ s[1] \in PageIds /\ s[1] \notin Held(s)
      /\ Held(AfterGet(s)) = Held(s) \cup {s[1]}
      BY <1>1, GetShifts
<1>3. ASSUME NEW i \in 1 .. Len(AfterGet(s)), NEW k \in 1 .. Len(AfterGet(s)),
             AfterGet(s)[i] = AfterGet(s)[k]
      PROVE  i = k
    <2>1. i + 1 \in 1 .. Len(s) /\ k + 1 \in 1 .. Len(s)
          BY <1>1, <1>2
    <2>2. s[i + 1] = s[k + 1]
          BY <1>1, <1>2, <1>3
    <2> QED BY <1>1, <2>1, <2>2
<1> QED BY <1>1, <1>2, <1>3 DEF IsStack

\* free_page takes exactly that page back, whether it is pushed on the stack
\* or the last one in use, with which the whole pool goes.
LEMMA PutReturns ==
    ASSUME NEW s, IsStack(s), NEW p \in Held(s)
    PROVE  /\ IsStack(AfterPut(s, p))
           /\ Held(AfterPut(s, p)) = Held(s) \ {p}
<1>1. /\ s \in Seq(PageIds) /\ Len(s) \in Nat
      /\ \A i, k \in 1 .. Len(s) : s[i] = s[k] => i = k
      BY DEF IsStack
<1>2. CASE Len(s) = NumPages - 1
    <2>1. IsFiniteSet(Held(s)) /\ Cardinality(Held(s)) = 1
          BY <1>2, HeldCounted, NumPagesAssumption
    <2>2. Held(s) \ {p} = {}
          BY <2>1, FS_Singleton
    <2>3. AfterPut(s, p) = Ascending
          BY <1>2 DEF AfterPut
    <2>4. IsStack(Ascending)
          BY NewPool, NumPagesAssumption DEF IsStack
    <2> QED BY <2>2, <2>3, <2>4, NewPool
<1>3. CASE Len(s) # NumPages - 1
    <2> DEFINE t == <<p>> \o s
    <2>1. /\ t \in Seq(PageIds)
          /\ Len(t) = Len(s) + 1
          /\ t[1] = p
          /\ \A i \in 2 .. Len(t) : t[i] = s[i - 1]
          /\ Held(t) = Held(s) \ {p}
          BY <1>1, PutShifts
    <2>2. AfterPut(s, p) = t
          BY <1>3 DEF AfterPut
    <2> HIDE DEF t
    <2>3. ASSUME NEW i \in 2 .. Len(t)
          PROVE  i - 1 \in 1 .. Len(s) /\ t[i] = s[i - 1] /\ t[i] # p
          BY <1>1, <2>1 DEF Held
    <2>4. ASSUME NEW i \in 1 .. Len(t), NEW k \in 1 .. Len(t), t[i] = t[k]
          PROVE  i = k
        <3>1. CASE i = 1 \/ k = 1
              BY <1>1, <2>1, <2>3, <2>4, <3>1
        <3>2. CASE i # 1 /\ k # 1
            <4>1. i \in 2 .. Len(t) /\ k \in 2 .. Len(t)
                  BY <1>1, <2>1, <3>2
            <4>2. i - 1 = k - 1
                  BY <1>1, <2>3, <2>4, <4>1
            <4> QED BY <4>1, <4>2
        <3> QED BY <3>1, <3>2
    <2> QED BY <2>1, <2>2, <2>4 DEF IsStack
<1> QED BY <1>2, <1>3

\* A set of numbers that is not empty has a least element.
LEMMA LeastNat ==
    ASSUME NEW S \in SUBSET Nat, S # {}
    PROVE  \E n \in S : \A k \in S : n <= k
<1> DEFINE R == {ss \in Nat \X Nat : ss[1] < ss[2]}
<1>1. IsWellFoundedOn(R, Nat)
      BY NatLessThanWellFounded DEF OpToRel
<1>2. \A x, y \in Nat : x < y => <<x, y>> \in R
      OBVIOUS
<1> HIDE DEF R
<1>3. PICK x \in S : \A y \in S : ~ (<<y, x>> \in R)
      BY <1>1, WFMin
<1>4. \A y \in S : ~ (y < x)
      BY <1>2, <1>3
<1> QED BY <1>4
=============================================================================
