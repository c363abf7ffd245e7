----------------------------- MODULE ShellProofs -----------------------------
(* Proofs about the two halves of the shell: JobControl, for every number of *)
(* children, lines and signals and every set of commands; and CommandLine,   *)
(* for every set of lines, programs and files.                               *)
EXTENDS JobControl, CommandLine, TLAPS, SequenceTheorems,
        FiniteSetTheorems, WellFoundedInduction

\* The list: its nodes were forked, and job ids ascend along it.
ListInv ==
    /\ \A i \in 1 .. Len(jobs) : jobs[i] <= forked /\ JidAt(i) > 0
    /\ \A i, k \in 1 .. Len(jobs) : i < k => JidAt(i) < JidAt(k)

\* Where the main loop is in a pipe: it has a stage to run.
PipeInv ==
    /\ cmd.name = "pipe" /\ pc \in {"check", "checkclean", "fork", "add",
                                    "unblock", "wait", "stage"} => cmd.arg > 0
    /\ pc = "stage" => cmd.name = "pipe"

\* The child that is being added: the last one forked, with the signals blocked,
\* so that nothing of it has been reported.
AddInv ==
    /\ pc \in {"add", "unblock"} => masked
    /\ pc = "add" =>
          /\ forked > 0 /\ cur = forked /\ cur \notin Listed
          /\ proc[cur] \in {"forked", "running", "zombie"} \/ cur \in stopNews

\* The walks over the list are at a node of it, or at its end.
WalkInv ==
    /\ AwaitedListed
    /\ pc \in {"check", "list"} => cur \in Listed \cup {NoPid}

\* The kernel: who was forked, who has news, and that news is signalled.
NewsInv ==
    /\ \A p \in Pids : proc[p] = "none" <=> p > forked
    /\ \A p \in stopNews : proc[p] \in {"stopped", "doomed"}
    /\ \A p \in Pids :
          /\ p \in Listed \/ (pc = "add" /\ cur = p)
          /\ proc[p] = "zombie" \/ p \in stopNews
          => sigchld

\* TERMINATED is never wrong, not even in the copy that ContinueCmd holds.
EndInv ==
    /\ \A p \in Pids : "TERMINATED" \in status[p] => proc[p] = "reaped"
    /\ pc = "store" /\ "TERMINATED" \in saved => proc[cur] = "reaped"

\* The flags, as long as news may be pending.
FlagsInv ==
    /\ \A p \in Listed \ raced :
          /\ proc[p] = "reaped" => "TERMINATED" \in status[p]
          /\ proc[p] \in {"forked", "running"} => "RUNNING" \in status[p]
          /\ "RUNNING" \in status[p] =>
                \/ proc[p] \in {"forked", "running", "zombie"}
                \/ p \in stopNews
                \/ pc = "cont" /\ cur = p
    /\ pc = "store" /\ cur \notin raced => saved = status[cur]
    /\ pc = "cont" /\ cur \notin raced =>
          "RUNNING" \in status[cur] /\ "TERMINATED" \notin status[cur]

JobInv ==
    /\ TypeOK
    /\ ListInv /\ PipeInv /\ AddInv /\ WalkInv
    /\ NewsInv /\ EndInv /\ FlagsInv
    /\ ChildrenAccounted

-----------------------------------------------------------------------------
(* The job list.                                                             *)

\* A set of naturals has a least element.
LEMMA LeastNat ==
    ASSUME NEW S \in SUBSET Nat, S # {}
    PROVE  \E n \in S : \A k \in S : n <= k
  <1> DEFINE R == {ss \in Nat \X Nat : ss[1] < ss[2]}
  <1>1. IsWellFoundedOn(R, Nat)
    BY NatLessThanWellFounded DEF OpToRel
  <1>2. \A x, y \in Nat : x < y => <<x, y>> \in R
    OBVIOUS
  <1> HIDE DEF R
  <1>3. PICK x \in S : \A y \in S : ~ (<<y, x>> \in R)
    BY <1>1, WFMin
  <1>4. \A y \in S : ~ (y < x)
    BY <1>2, <1>3
  <1> QED BY <1>4

\* Inserting after position i moves what is behind it by one.
LEMMA InsertAfterElements ==
    ASSUME TypeOK, NEW i \in 0 .. Len(jobs), NEW p \in Pids
    PROVE  /\ InsertAfter(jobs, i, p) \in Seq(Pids)
           /\ Len(InsertAfter(jobs, i, p)) = Len(jobs) + 1
           /\ \A k \in 1 .. i : InsertAfter(jobs, i, p)[k] = jobs[k]
           /\ InsertAfter(jobs, i, p)[i + 1] = p
           /\ \A k \in i + 1 .. Len(jobs) :
                 InsertAfter(jobs, i, p)[k + 1] = jobs[k]
  <1> DEFINE front == SubSeq(jobs, 1, i)
             back  == SubSeq(jobs, i + 1, Len(jobs))
             whole == front \o <<p>> \o back
  <1>0. jobs \in Seq(Pids)
    BY DEF TypeOK
  <1>1. /\ front \in Seq(Pids) /\ Len(front) = i
        /\ \A k \in 1 .. i : front[k] = jobs[k]
    BY <1>0
  <1>2. /\ back \in Seq(Pids) /\ Len(back) = Len(jobs) - i
        /\ \A k \in 1 .. Len(jobs) - i : back[k] = jobs[i + k]
    BY <1>0
  <1> HIDE DEF front, back
  <1>3. /\ front \o <<p>> \in Seq(Pids) /\ Len(front \o <<p>>) = i + 1
        /\ \A k \in 1 .. i + 1 :
              (front \o <<p>>)[k] = IF k <= i THEN jobs[k] ELSE p
    BY <1>0, <1>1
  <1>4. /\ whole \in Seq(Pids) /\ Len(whole) = Len(jobs) + 1
        /\ \A k \in 1 .. Len(jobs) + 1 :
              whole[k] = IF k <= i + 1 THEN (front \o <<p>>)[k]
                                       ELSE back[k - (i + 1)]
    BY <1>0, <1>2, <1>3
  <1> HIDE DEF whole
  <1>5. \A k \in 1 .. i : whole[k] = jobs[k]
    BY <1>0, <1>3, <1>4
  <1>6. whole[i + 1] = p
    BY <1>0, <1>3, <1>4
  <1>7. ASSUME NEW k \in i + 1 .. Len(jobs)
        PROVE  whole[k + 1] = jobs[k]
    <2>1. PICK j \in 1 .. Len(jobs) - i : j = k - i
      BY <1>0
    <2>2. k + 1 \in 1 .. Len(jobs) + 1 /\ ~ (k + 1 <= i + 1)
      BY <1>0
    <2>3. whole[k + 1] = back[j]
      <3>1. (k + 1) - (i + 1) = j
        BY <1>0, <2>1
      <3> QED BY <1>4, <2>2, <3>1
    <2>4. back[j] = jobs[i + j]
      BY <1>2, <2>1
    <2> QED BY <2>1, <2>3, <2>4
  <1> QED BY <1>4, <1>5, <1>6, <1>7 DEF InsertAfter, whole, front, back

\* No node is in the list twice: job ids ascend.
LEMMA NodesDiffer ==
    ASSUME TypeOK, ListInv,
           NEW i \in 1 .. Len(jobs), NEW k \in 1 .. Len(jobs), jobs[i] = jobs[k]
    PROVE  i = k
  BY DEF TypeOK, ListInv, JidAt

\* IndexOf finds a listed node.
LEMMA IndexOfListed ==
    ASSUME TypeOK, ListInv, NEW p \in Listed
    PROVE  IndexOf(p) \in 1 .. Len(jobs) /\ jobs[IndexOf(p)] = p
  BY DEF Listed, IndexOf

\* Unlink takes one node out and leaves the others in their order.
LEMMA UnlinkElements ==
    ASSUME TypeOK, ListInv, NEW p \in Listed
    PROVE  /\ Unlink(p) \in Seq(Pids)
           /\ Len(Unlink(p)) = Len(jobs) - 1
           /\ \A k \in 1 .. Len(jobs) - 1 :
                 Unlink(p)[k] = IF k < IndexOf(p) THEN jobs[k] ELSE jobs[k + 1]
  <1> DEFINE n     == IndexOf(p)
             front == SubSeq(jobs, 1, n - 1)
             back  == SubSeq(jobs, n + 1, Len(jobs))
  <1>1. jobs \in Seq(Pids) /\ n \in 1 .. Len(jobs)
    BY IndexOfListed DEF TypeOK
  <1> HIDE DEF n
  <1>2. /\ front \in Seq(Pids) /\ Len(front) = n - 1
        /\ \A k \in 1 .. n - 1 : front[k] = jobs[k]
    BY <1>1
  <1>3. /\ back \in Seq(Pids) /\ Len(back) = Len(jobs) - n
        /\ \A k \in 1 .. Len(jobs) - n : back[k] = jobs[n + k]
    BY <1>1
  <1> HIDE DEF front, back
  <1>4. /\ front \o back \in Seq(Pids) /\ Len(front \o back) = Len(jobs) - 1
        /\ \A k \in 1 .. Len(jobs) - 1 :
              (front \o back)[k] = IF k <= n - 1 THEN front[k]
                                                ELSE back[k - (n - 1)]
    <2>1. Len(front) + Len(back) = Len(jobs) - 1
      BY <1>1, <1>2, <1>3
    <2>2. /\ front \o back \in Seq(Pids)
          /\ Len(front \o back) = Len(front) + Len(back)
          /\ \A k \in 1 .. Len(front) + Len(back) :
                (front \o back)[k] = IF k <= Len(front) THEN front[k]
                                     ELSE back[k - Len(front)]
      BY <1>2, <1>3, ConcatProperties
    <2> QED BY <1>2, <2>1, <2>2
  <1> DEFINE whole == front \o back
  <1> HIDE DEF whole
  <1>5. ASSUME NEW k \in 1 .. Len(jobs) - 1
        PROVE  whole[k] = IF k < n THEN jobs[k] ELSE jobs[k + 1]
    <2>0. k \in Nat /\ n \in Nat
      BY <1>1
    <2>1. CASE k < n
      BY <2>1, <1>1, <1>2, <1>4 DEF whole
    <2>2. CASE k >= n
      <3>1. PICK j \in 1 .. Len(jobs) - n : j = k - (n - 1)
        BY <2>2, <1>1
      <3>2. whole[k] = back[j]
        BY <2>2, <1>1, <1>4, <3>1 DEF whole
      <3>3. back[j] = jobs[n + j]
        BY <1>3, <3>1
      <3>4. n + j = k + 1
        BY <2>0, <3>1
      <3>5. whole[k] = jobs[k + 1]
        BY <3>2, <3>3, <3>4
      <3> QED BY <2>0, <2>2, <3>5
    <2> QED BY <2>0, <2>1, <2>2
  <1> QED BY <1>4, <1>5 DEF Unlink, whole, n, front, back

\* Unlinking a listed node frees that node and no other, and keeps the order.
LEMMA UnlinkKeepsList ==
    ASSUME TypeOK, ListInv, NEW p \in Listed, jobs' = Unlink(p),
           UNCHANGED <<jid, forked>>
    PROVE  jobs' \in Seq(Pids) /\ ListInv' /\ Listed' = Listed \ {p}
  <1> DEFINE n == IndexOf(p)
             At(k) == IF k < n THEN k ELSE k + 1
  <1>1. /\ jobs \in Seq(Pids) /\ n \in 1 .. Len(jobs) /\ jobs[n] = p
        /\ jid \in [Pids -> Nat]
    BY IndexOfListed DEF TypeOK
  <1>2. /\ jobs' \in Seq(Pids) /\ Len(jobs') = Len(jobs) - 1
        /\ \A k \in 1 .. Len(jobs') : jobs'[k] = jobs[At(k)]
    BY <1>1, UnlinkElements
  <1> HIDE DEF n
  <1>3. \A k \in 1 .. Len(jobs') : At(k) \in 1 .. Len(jobs) /\ At(k) # n
    BY <1>1, <1>2
  <1>4. \A i \in 1 .. Len(jobs) : i # n =>
          \E k \in 1 .. Len(jobs') : At(k) = i
    <2> SUFFICES ASSUME NEW i \in 1 .. Len(jobs), i # n
                 PROVE  \E k \in 1 .. Len(jobs') : At(k) = i
      OBVIOUS
    <2>1. CASE i < n
      <3>1. i \in 1 .. Len(jobs') /\ At(i) = i
        BY <1>1, <1>2, <2>1
      <3> QED BY <3>1
    <2>2. CASE i > n
      <3>1. i - 1 \in 1 .. Len(jobs') /\ At(i - 1) = i
        BY <1>1, <1>2, <2>2
      <3> QED BY <3>1
    <2> QED BY <1>1, <2>1, <2>2
  <1>5. \A i, k \in 1 .. Len(jobs') : i < k => At(i) < At(k)
    BY <1>1, <1>2
  <1> HIDE DEF At
  <1>6. \A k \in 1 .. Len(jobs') : JidAt(k)' = JidAt(At(k))
    <2> SUFFICES ASSUME NEW k \in 1 .. Len(jobs')
                 PROVE  JidAt(k)' = JidAt(At(k))
      OBVIOUS
    <2>1. k # 0 /\ At(k) # 0
      BY <1>1, <1>3
    <2> QED BY <2>1, <1>2 DEF JidAt
  <1>7. ListInv'
    BY <1>2, <1>3, <1>5, <1>6 DEF ListInv
  <1>8. \A i \in 1 .. Len(jobs) : jobs[i] = p => i = n
    BY <1>1, NodesDiffer
  <1>9. Listed' \subseteq Listed \ {p}
    BY <1>2, <1>3, <1>8 DEF Listed
  <1>10. Listed \ {p} \subseteq Listed'
    <2> SUFFICES ASSUME NEW q \in Listed, q # p
                 PROVE  q \in Listed'
      OBVIOUS
    <2>1. PICK i \in 1 .. Len(jobs) : jobs[i] = q
      BY DEF Listed
    <2>2. PICK k \in 1 .. Len(jobs') : At(k) = i
      BY <1>1, <1>4, <2>1
    <2> QED BY <1>2, <2>1, <2>2 DEF Listed
  <1> QED BY <1>2, <1>7, <1>9, <1>10

\* The node after a listed one is another listed one, or there is none.
LEMMA NextOfListed ==
    ASSUME TypeOK, ListInv, NEW p \in Listed
    PROVE  NextOf(p) \in (Listed \ {p}) \cup {NoPid}
  <1> DEFINE n == IndexOf(p)
  <1>1. n \in 1 .. Len(jobs) /\ jobs[n] = p /\ Len(jobs) \in Nat
    BY IndexOfListed DEF TypeOK
  <1>2. CASE n = Len(jobs)
    BY <1>2 DEF NextOf
  <1>3. CASE n # Len(jobs)
    <2>1. n + 1 \in 1 .. Len(jobs) /\ n + 1 # n
      BY <1>1, <1>3
    <2>2. NextOf(p) = jobs[n + 1]
      BY <1>3 DEF NextOf
    <2>3. jobs[n + 1] # jobs[n]
      BY <1>1, <2>1, NodesDiffer
    <2> QED BY <1>1, <2>1, <2>2, <2>3 DEF Listed
  <1> QED BY <1>2, <1>3

\* A walk starts at a listed node, or there is none.
LEMMA FirstListed ==
    ASSUME TypeOK
    PROVE  First \in Listed \cup {NoPid}
  BY DEF TypeOK, First, Listed

\* Cleanup frees the node or leaves the list as it is.
LEMMA CleanupKeepsList ==
    ASSUME TypeOK, ListInv, NEW p \in Listed, jobs' = Cleanup(p),
           UNCHANGED <<jid, forked>>
    PROVE  /\ jobs' \in Seq(Pids) /\ ListInv'
           /\ Listed' = IF "TERMINATED" \in status[p] THEN Listed \ {p}
                                                     ELSE Listed
  <1>1. CASE "TERMINATED" \in status[p]
    BY <1>1, UnlinkKeepsList DEF Cleanup
  <1>2. CASE "TERMINATED" \notin status[p]
    BY <1>2 DEF Cleanup, TypeOK, ListInv, JidAt, Listed
  <1> QED BY <1>1, <1>2

\* The scan of AddJob: up to the node it stops at, job ids are 1, 2, 3, ...,
\* and the next number is free.
LEMMA FirstGapFree ==
    ASSUME TypeOK, ListInv
    PROVE  /\ FirstGap \in 0 .. Len(jobs)
           /\ \A i \in 0 .. FirstGap : JidAt(i) = i
           /\ \A i \in FirstGap + 1 .. Len(jobs) : JidAt(i) > FirstGap + 1
  <1> DEFINE g == FirstGap
             Wrong == {i \in 0 .. g : JidAt(i) # i}
  <1>1. /\ Len(jobs) \in Nat
        /\ JidAt(0) = 0
        /\ \A i \in 0 .. Len(jobs) : JidAt(i) \in Nat
    BY DEF TypeOK, JidAt
  <1>2. Gaps \in SUBSET Nat /\ Gaps # {}
    BY <1>1 DEF Gaps
  <1>3. g \in Gaps /\ \A k \in Gaps : g <= k
    BY <1>2, LeastNat DEF FirstGap
  <1>4. /\ g \in 0 .. Len(jobs)
        /\ \/ g = Len(jobs)
           \/ JidAt(g + 1) - JidAt(g) > 1
        /\ \A i \in 0 .. g : i # g => JidAt(i + 1) - JidAt(i) <= 1
    <2>1. g \in 0 .. Len(jobs) /\ (g = Len(jobs) \/ JidAt(g + 1) - JidAt(g) > 1)
      BY <1>3 DEF Gaps
    <2> HIDE DEF g
    <2>2. ASSUME NEW i \in 0 .. g, i # g
          PROVE  JidAt(i + 1) - JidAt(i) <= 1
      <3>1. i \in 0 .. Len(jobs) /\ i # Len(jobs) /\ i + 1 \in 0 .. Len(jobs)
        BY <1>1, <2>1, <2>2
      <3>2. i \notin Gaps
        BY <1>3, <2>1, <2>2
      <3>3. ~ (JidAt(i + 1) - JidAt(i) > 1)
        BY <3>1, <3>2 DEF Gaps
      <3> QED BY <1>1, <3>1, <3>3
    <2> QED BY <2>1, <2>2
  <1> HIDE DEF g
  <1>5. \A i, k \in 0 .. Len(jobs) : i < k => JidAt(i) < JidAt(k)
    <2> SUFFICES ASSUME NEW i \in 0 .. Len(jobs),
                        NEW k \in 0 .. Len(jobs), i < k
                 PROVE  JidAt(i) < JidAt(k)
      OBVIOUS
    <2>1. k \in 1 .. Len(jobs)
      BY <1>1
    <2>2. CASE i = 0
      BY <1>1, <2>1, <2>2 DEF ListInv
    <2>3. CASE i \in 1 .. Len(jobs)
      BY <2>1, <2>3 DEF ListInv
    <2> QED BY <1>1, <2>2, <2>3
  <1>6. Wrong = {}
    <2> SUFFICES ASSUME Wrong # {}
                 PROVE  FALSE
      OBVIOUS
    <2>0. Wrong \in SUBSET Nat
      BY <1>4
    <2>1. PICK n \in Wrong : \A k \in Wrong : n <= k
      <3> HIDE DEF Wrong
      <3> QED BY <2>0, LeastNat
    <2>2. n \in 0 .. g /\ JidAt(n) # n
      OBVIOUS
    <2>3. n # 0
      BY <1>1, <2>2
    <2>4. PICK m \in 0 .. g : n = m + 1
      BY <1>4, <2>2, <2>3
    <2>5. JidAt(m) = m
      BY <1>4, <2>1, <2>4
    <2>6. JidAt(m + 1) - JidAt(m) <= 1
      BY <1>4, <2>2, <2>4
    <2>7. JidAt(m) < JidAt(m + 1) /\ JidAt(m + 1) \in Nat
      <3>1. m \in 0 .. Len(jobs) /\ m + 1 \in 0 .. Len(jobs) /\ m < m + 1
        BY <1>1, <1>4, <2>2, <2>4
      <3> QED BY <1>1, <1>5, <3>1
    <2> QED BY <2>2, <2>4, <2>5, <2>6, <2>7
  <1>7. \A i \in 0 .. g : JidAt(i) = i
    BY <1>6
  <1>8. ASSUME NEW i \in g + 1 .. Len(jobs)
        PROVE  JidAt(i) > g + 1
    <2>1. g + 1 \in 0 .. Len(jobs) /\ i \in 0 .. Len(jobs)
      BY <1>1, <1>4
    <2>2. JidAt(g) = g /\ JidAt(g + 1) > g + 1
      BY <1>1, <1>4, <1>7, <2>1
    <2>3. g + 1 = i \/ JidAt(g + 1) < JidAt(i)
      BY <1>4, <1>5, <2>1
    <2> QED BY <1>1, <1>4, <2>1, <2>2, <2>3
  <1> QED BY <1>4, <1>7, <1>8 DEF g

\* AddJob lists one node more, at its place in the order, under a new number.
LEMMA AddJobKeepsList ==
    ASSUME TypeOK, ListInv, AddInv, AddJob
    PROVE  /\ cur \in Pids /\ cur \notin Listed
           /\ jobs' \in Seq(Pids) /\ ListInv' /\ Listed' = Listed \cup {cur}
           /\ jid' = [jid EXCEPT ![cur] = FirstGap + 1]
  <1> DEFINE g == FirstGap
             At(k) == IF k <= g THEN k ELSE k - 1
  <1>1. /\ jobs \in Seq(Pids) /\ Len(jobs) \in Nat /\ jid \in [Pids -> Nat]
        /\ forked' = forked
    BY DEF TypeOK, AddJob, boundVars
  <1>2. cur \in Pids /\ cur \notin Listed /\ cur = forked
    BY NumPidsAssumption DEF TypeOK, AddInv, AddJob, Pids
  <1>3. /\ g \in 0 .. Len(jobs)
        /\ \A i \in 0 .. g : JidAt(i) = i
        /\ \A i \in g + 1 .. Len(jobs) : JidAt(i) > g + 1
    BY FirstGapFree
  <1>4. jid' = [jid EXCEPT ![cur] = g + 1]
    <2>1. JidAt(g) = g
      BY <1>3
    <2> QED BY <2>1 DEF AddJob
  <1>5. /\ jobs' \in Seq(Pids) /\ Len(jobs') = Len(jobs) + 1
        /\ \A k \in 1 .. Len(jobs') :
              jobs'[k] = IF k = g + 1 THEN cur ELSE jobs[At(k)]
    <2>1. jobs' = InsertAfter(jobs, g, cur)
      BY DEF AddJob
    <2> HIDE DEF g
    <2>2. /\ jobs' \in Seq(Pids) /\ Len(jobs') = Len(jobs) + 1
          /\ \A k \in 1 .. g : jobs'[k] = jobs[k]
          /\ jobs'[g + 1] = cur
          /\ \A k \in g + 1 .. Len(jobs) : jobs'[k + 1] = jobs[k]
      BY <1>2, <1>3, <2>1, InsertAfterElements
    <2>3. ASSUME NEW k \in 1 .. Len(jobs')
          PROVE  jobs'[k] = IF k = g + 1 THEN cur ELSE jobs[At(k)]
      <3>1. CASE k <= g + 1
        BY <1>1, <1>3, <2>2, <3>1
      <3>2. CASE k > g + 1
        <4>0. g \in 0 .. Len(jobs) /\ Len(jobs') = Len(jobs) + 1
          BY <1>3, <2>2
        <4>1. PICK j \in g + 1 .. Len(jobs) : k = j + 1
          <5>1. k - 1 \in g + 1 .. Len(jobs) /\ k = (k - 1) + 1
            BY <1>1, <3>2, <4>0
          <5> QED BY <5>1
        <4> QED BY <1>3, <2>2, <3>2, <4>1
      <3> QED BY <1>3, <2>2, <3>1, <3>2
    <2> QED BY <2>2, <2>3
  <1> HIDE DEF g
  <1>6. \A k \in 1 .. Len(jobs') : k # g + 1 =>
           At(k) \in 1 .. Len(jobs) /\ jobs[At(k)] \in Listed
    <2>1. \A k \in 1 .. Len(jobs') : k # g + 1 => At(k) \in 1 .. Len(jobs)
      BY <1>1, <1>3, <1>5
    <2> HIDE DEF At
    <2> QED BY <2>1 DEF Listed
  <1>7. ASSUME NEW k \in 1 .. Len(jobs')
        PROVE  JidAt(k)' = IF k = g + 1 THEN g + 1 ELSE JidAt(At(k))
    <2>1. CASE k = g + 1
      BY <1>1, <1>2, <1>3, <1>4, <1>5, <2>1 DEF JidAt
    <2>2. CASE k # g + 1
      <3>1. At(k) # 0 /\ jobs'[k] = jobs[At(k)] /\ jobs[At(k)] # cur
            /\ jobs[At(k)] \in Pids
        BY <1>1, <1>2, <1>3, <1>5, <1>6, <2>2
      <3> HIDE DEF At
      <3> QED BY <1>1, <1>4, <2>2, <3>1 DEF JidAt
    <2> QED BY <2>1, <2>2
  <1>8. \A k \in 1 .. Len(jobs') : jobs'[k] <= forked' /\ JidAt(k)' > 0
    <2> SUFFICES ASSUME NEW k \in 1 .. Len(jobs')
                 PROVE  jobs'[k] <= forked' /\ JidAt(k)' > 0
      OBVIOUS
    <2>1. CASE k = g + 1
      BY <1>1, <1>2, <1>3, <1>5, <1>7, <2>1 DEF TypeOK
    <2>2. CASE k # g + 1
      <3> HIDE DEF At
      <3> QED BY <1>1, <1>5, <1>6, <1>7, <2>2 DEF ListInv
    <2> QED BY <2>1, <2>2
  <1>9. ASSUME NEW i \in 1 .. Len(jobs'), NEW k \in 1 .. Len(jobs'), i < k
        PROVE  JidAt(i)' < JidAt(k)'
    <2>1. CASE i = g + 1
      <3>1. k # g + 1 /\ At(k) \in g + 1 .. Len(jobs)
        BY <1>1, <1>3, <1>5, <1>9, <2>1
      <3> QED BY <1>3, <1>7, <2>1, <3>1
    <2>2. CASE k = g + 1
      <3>1. i # g + 1 /\ At(i) \in 0 .. g
        BY <1>1, <1>3, <1>5, <1>9, <2>2
      <3>2. JidAt(At(i)) = At(i) /\ At(i) < g + 1
        BY <1>3, <3>1
      <3> QED BY <1>7, <2>2, <3>1, <3>2
    <2>3. CASE i # g + 1 /\ k # g + 1
      <3>1. At(i) \in 1 .. Len(jobs) /\ At(k) \in 1 .. Len(jobs)
        BY <1>6, <2>3
      <3>2. At(i) < At(k)
        BY <1>3, <1>9, <2>3
      <3> HIDE DEF At
      <3> QED BY <1>7, <2>3, <3>1, <3>2 DEF ListInv
    <2> QED BY <2>1, <2>2, <2>3
  <1>10. ListInv'
    BY <1>8, <1>9 DEF ListInv
  <1>11. Listed' \subseteq Listed \cup {cur}
    BY <1>5, <1>6 DEF Listed
  <1>12. cur \in Listed'
    <2>1. g + 1 \in 1 .. Len(jobs') /\ jobs'[g + 1] = cur
      BY <1>1, <1>3, <1>5
    <2> QED BY <2>1 DEF Listed
  <1>13. ASSUME NEW q \in Listed
         PROVE  q \in Listed'
    <2>1. PICK i \in 1 .. Len(jobs) : jobs[i] = q
      BY DEF Listed
    <2>2. PICK k \in 1 .. Len(jobs') : k # g + 1 /\ At(k) = i
      <3>1. CASE i <= g
        <4>1. i \in 1 .. Len(jobs') /\ i # g + 1 /\ At(i) = i
          BY <1>1, <1>3, <1>5, <3>1
        <4> QED BY <4>1
      <3>2. CASE i > g
        <4>1. i + 1 \in 1 .. Len(jobs') /\ i + 1 # g + 1 /\ At(i + 1) = i
          BY <1>1, <1>3, <1>5, <3>2
        <4> QED BY <4>1
      <3> QED BY <1>3, <3>1, <3>2
    <2> QED BY <1>5, <2>1, <2>2 DEF Listed
  <1> QED BY <1>2, <1>4, <1>5, <1>10, <1>11, <1>12, <1>13 DEF g

\* Nothing happens to the list.
LEMMA SameList ==
    ASSUME TypeOK, ListInv, UNCHANGED <<jobs, jid>>, forked' \in Nat,
           forked <= forked'
    PROVE  jobs' \in Seq(Pids) /\ ListInv' /\ Listed' = Listed
  <1>1. jobs \in Seq(Pids) /\ Len(jobs) \in Nat /\ forked \in Nat
    BY NumPidsAssumption DEF TypeOK
  <1>2. \A i \in 1 .. Len(jobs) : jobs[i] \in Nat
    BY <1>1, NumPidsAssumption DEF Pids
  <1> QED BY <1>1, <1>2 DEF ListInv, JidAt, Listed

\* A node of the list is a child, and NoPid is none.
LEMMA ListedArePids ==
    ASSUME TypeOK
    PROVE  Listed \subseteq Pids /\ NoPid \notin Pids
  <1>1. Listed \subseteq Pids
    BY DEF TypeOK, Listed
  <1>2. NoPid \notin Pids
    BY NumPidsAssumption DEF Pids, NoPid
  <1> QED BY <1>1, <1>2

-----------------------------------------------------------------------------
(* The kernel.                                                               *)

\* What can happen to one child when a signal reaches it or it moves.
ChildStep(from, to) ==
    \/ to = from
    \/ from \in {"forked", "running"} /\ to = "zombie"
    \/ from = "running" /\ to = "stopped"
    \/ from = "stopped" /\ to \in {"doomed", "running"}
    \/ from = "doomed" /\ to = "zombie"

\* A child that ends or stops raises SIGCHLD, and a stop stays news as long as
\* the child is stopped.
KernelStep ==
    /\ proc' \in [Pids -> ProcStates]
    /\ stopNews' \subseteq Pids
    /\ sigchld' \in BOOLEAN
    /\ sigchld => sigchld'
    /\ \A p \in Pids :
          /\ ChildStep(proc[p], proc'[p])
          /\ proc'[p] # proc[p] => sigchld'
          /\ p \in stopNews' => proc'[p] \in {"stopped", "doomed"}
          /\ p \in stopNews' /\ proc'[p] = proc[p] => p \in stopNews
          /\ /\ proc'[p] \in {"stopped", "doomed"}
             /\ proc[p] \in {"stopped", "doomed"} => p \in stopNews
             => p \in stopNews'

\* What Kernel says of the other two variables.
KernelEffect ==
    /\ stopNews' = {p \in Pids : /\ proc'[p] \in {"stopped", "doomed"}
                                 /\ \/ p \in stopNews
                                    \/ proc[p] \notin {"stopped", "doomed"}}
    /\ sigchld' = (sigchld \/ \E p \in Pids : proc'[p] # proc[p])

\* Whatever the children do, Kernel reports it.
LEMMA KernelIsStep ==
    ASSUME TypeOK, KernelEffect, proc' \in [Pids -> ProcStates],
           \A p \in Pids : ChildStep(proc[p], proc'[p])
    PROVE  KernelStep
  BY DEF TypeOK, KernelEffect, KernelStep, ChildStep, ProcStates

\* SIGCONT reaches one child, which is not stopped afterwards.
LEMMA ContIsKernelStep ==
    ASSUME TypeOK, Cont
    PROVE  /\ KernelStep
           /\ \A p \in Pids : p # cur => proc'[p] = proc[p]
           /\ cur \in Pids => proc'[cur] \notin {"stopped", "doomed"}
  <1>1. KernelEffect /\ proc' = [proc EXCEPT ![cur] = Continued(@)]
    BY DEF Cont, Kernel, KernelEffect
  <1>2. proc' \in [Pids -> ProcStates]
    BY <1>1 DEF TypeOK, Continued, ProcStates
  <1>3. \A p \in Pids : ChildStep(proc[p], proc'[p])
    BY <1>1 DEF TypeOK, Continued, ChildStep
  <1>4. KernelStep
    BY <1>1, <1>2, <1>3, KernelIsStep
  <1> QED BY <1>1, <1>4 DEF TypeOK, Continued

\* SIGINT and SIGTSTP make nobody run.
LEMMA BroadcastIsKernelStep ==
    ASSUME TypeOK, NEW k \in Keys, Broadcast(k)
    PROVE  /\ KernelStep
           /\ \A p \in Pids : proc'[p] = "running" => proc[p] = "running"
  <1>1. /\ KernelEffect
        /\ proc' = [p \in Pids |->
                      IF p \notin Targets THEN proc[p]
                      ELSE IF k = "SIGINT" THEN Interrupted(proc[p])
                      ELSE Suspended(proc[p])]
    BY DEF Broadcast, Kernel, KernelEffect
  <1>2. \A p \in Pids :
           proc'[p] \in {proc[p], Interrupted(proc[p]), Suspended(proc[p])}
    BY <1>1
  <1>3. \A p \in Pids : ChildStep(proc[p], proc'[p])
    BY <1>2 DEF Interrupted, Suspended, ChildStep
  <1>4. \A p \in Pids : proc'[p] \in ProcStates
    BY <1>3 DEF TypeOK, ChildStep, ProcStates
  <1>5. proc' \in [Pids -> ProcStates]
    BY <1>1, <1>4
  <1>6. KernelStep
    BY <1>1, <1>3, <1>5, KernelIsStep
  <1>7. \A p \in Pids : proc'[p] = "running" => proc[p] = "running"
    BY <1>2 DEF Interrupted, Suspended
  <1> QED BY <1>6, <1>7

\* A child starts its program without notice, and is noticed otherwise.
LEMMA ChildMovesIsKernelStep ==
    ASSUME TypeOK, NEW p \in Pids, ChildMoves(p)
    PROVE  \/ /\ proc[p] = "forked"
              /\ proc' = [proc EXCEPT ![p] = "running"]
              /\ UNCHANGED <<stopNews, sigchld>>
           \/ /\ KernelStep
              /\ \A q \in Pids : proc'[q] = "running" => proc[q] = "running"
  <1>1. CASE proc[p] = "forked" /\ proc' = [proc EXCEPT ![p] = "running"]
             /\ UNCHANGED <<stopNews, sigchld>>
    BY <1>1
  <1>2. CASE proc[p] \in {"forked", "running"}
             /\ Kernel([proc EXCEPT ![p] = "zombie"])
    <2>1. KernelEffect /\ proc' = [proc EXCEPT ![p] = "zombie"]
      BY <1>2 DEF Kernel, KernelEffect
    <2>2. proc' \in [Pids -> ProcStates]
      BY <2>1 DEF TypeOK, ProcStates
    <2>3. \A q \in Pids : ChildStep(proc[q], proc'[q])
      BY <1>2, <2>1 DEF TypeOK, ChildStep
    <2>4. KernelStep
      BY <2>1, <2>2, <2>3, KernelIsStep
    <2> QED BY <2>1, <2>4 DEF TypeOK
  <1>3. CASE proc[p] = "running" /\ Kernel([proc EXCEPT ![p] = "stopped"])
    <2>1. KernelEffect /\ proc' = [proc EXCEPT ![p] = "stopped"]
      BY <1>3 DEF Kernel, KernelEffect
    <2>2. proc' \in [Pids -> ProcStates]
      BY <2>1 DEF TypeOK, ProcStates
    <2>3. \A q \in Pids : ChildStep(proc[q], proc'[q])
      BY <1>3, <2>1 DEF TypeOK, ChildStep
    <2>4. KernelStep
      BY <2>1, <2>2, <2>3, KernelIsStep
    <2> QED BY <2>1, <2>4 DEF TypeOK
  <1> QED BY <1>1, <1>2, <1>3 DEF ChildMoves
-----------------------------------------------------------------------------
(* Every step keeps the invariant: one lemma for each part of it.            *)

\* Every step keeps the types.
LEMMA TypeStep ==
    ASSUME JobInv, [Next]_vars
    PROVE  TypeOK'
  <1> USE DEF JobInv
  <1>1. CASE \/ Look \/ EndList \/ ForkFails \/ Unblock \/ WaitEnds
    BY <1>1
    DEF Look, EndList, ForkFails, Unblock, WaitEnds, TypeOK, vars, kernelVars,
        listVars, boundVars, ShellPcs
  <1>2. CASE ReadLine
    <2>1. cmd' \in [name : CommandNames, arg : Nat]
      BY <1>2, CommandsAssumption DEF ReadLine
    <2>2. cur' \in Pids \cup {NoPid}
      BY <1>2, FirstListed, ListedArePids DEF ReadLine
    <2>3. typed' \in 0 .. MaxCmds
      BY <1>2, BoundsAssumption DEF ReadLine, TypeOK
    <2> QED
      BY <1>2, <2>1, <2>2, <2>3
      DEF ReadLine, TypeOK, kernelVars, listVars, ShellPcs
  <1>3. CASE Clean
    BY <1>3, CleanupKeepsList, NextOfListed, ListedArePids
    DEF Clean, TypeOK, vars, kernelVars, listVars, boundVars, WalkInv,
        AwaitedListed, ShellPcs
  <1>4. CASE Dispatch
    BY <1>4, FirstListed, ListedArePids
    DEF Dispatch, TypeOK, vars, kernelVars, listVars, boundVars, ShellPcs
  <1>5. CASE Fork
    BY <1>5, NumPidsAssumption
    DEF Fork, TypeOK, vars, kernelVars, listVars, boundVars, ShellPcs, Pids,
        ProcStates
  <1>6. CASE AddJob
    BY <1>6, AddJobKeepsList, FirstGapFree
    DEF AddJob, TypeOK, vars, kernelVars, listVars, boundVars, ShellPcs,
        Flags
  <1>7. CASE EndStage
    <2>1. cur \in Listed /\ cmd.arg > 0 /\ cmd.arg \in Nat
      BY <1>7 DEF EndStage, TypeOK, WalkInv, AwaitedListed, PipeInv
    <2>2. cmd' = [cmd EXCEPT !.arg = cmd.arg - 1] /\ cmd.arg - 1 \in Nat
      BY <1>7, <2>1 DEF EndStage
    <2>3. cmd' \in [name : CommandNames, arg : Nat]
      BY <2>2 DEF TypeOK
    <2>4. jobs' \in Seq(Pids)
      BY <1>7, <2>1, UnlinkKeepsList DEF EndStage, boundVars
    <2>5. dropped' \subseteq Pids
      BY <1>7, <2>1, ListedArePids DEF EndStage, TypeOK
    <2> QED
      BY <1>7, <2>3, <2>4, <2>5
      DEF EndStage, TypeOK, kernelVars, boundVars, ShellPcs
  <1>8. CASE Load
    BY <1>8, ListedArePids
    DEF Load, TypeOK, vars, kernelVars, listVars, boundVars, ShellPcs, Flags,
        WalkInv, AwaitedListed
  <1>9. CASE Store
    BY <1>9, ListedArePids
    DEF Store, TypeOK, vars, kernelVars, listVars, boundVars, ShellPcs, Flags,
        WalkInv, AwaitedListed
  <1>10. CASE Cont
    BY <1>10, ContIsKernelStep
    DEF Cont, TypeOK, vars, kernelVars, listVars, boundVars, ShellPcs,
        KernelStep
  <1>11. CASE SigChld
    <2>1. proc' \in [Pids -> ProcStates]
      BY <1>11 DEF SigChld, TypeOK, ProcStates
    <2>2. \A p \in Pids : AfterReport(p) \in SUBSET Flags
      BY DEF TypeOK, AfterReport, Flags
    <2>3. status' \in [Pids -> SUBSET Flags]
      BY <1>11, <2>2 DEF SigChld, TypeOK
    <2>4. cur \in Pids \/ ~ Continuing
      BY ListedArePids DEF TypeOK, Continuing, WalkInv, AwaitedListed
    <2>5. raced' \subseteq Pids
      BY <1>11, <2>4 DEF SigChld, TypeOK
    <2> QED
      BY <1>11, <2>1, <2>3, <2>5 DEF SigChld, TypeOK, boundVars
  <1>12. ASSUME NEW k \in Keys, Broadcast(k)
        PROVE  TypeOK'
    BY <1>12, BroadcastIsKernelStep
    DEF Broadcast, TypeOK, vars, kernelVars, listVars, boundVars, KernelStep
  <1>13. CASE Press
    BY <1>13, BoundsAssumption
    DEF Press, TypeOK, vars, kernelVars, listVars, boundVars, Keys
  <1>14. ASSUME NEW p \in Pids, ChildMoves(p)
        PROVE  TypeOK'
    BY <1>14, ChildMovesIsKernelStep
    DEF ChildMoves, TypeOK, vars, kernelVars, listVars, boundVars, KernelStep,
        ProcStates
  <1>15. CASE UNCHANGED vars
    BY <1>15 DEF TypeOK, vars, kernelVars, listVars, boundVars
  <1> QED
    BY <1>1, <1>2, <1>3, <1>4, <1>5, <1>6, <1>7, <1>8, <1>9, <1>10, <1>11,
       <1>12, <1>13, <1>14, <1>15
    DEF Next, Shell, Handlers

\* Listed names the nodes of jobs.
LEMMA ListedSame ==
    ASSUME UNCHANGED jobs
    PROVE  Listed' = Listed
  BY DEF Listed

\* A node of the list is a child that was forked.
LEMMA ListedWereForked ==
    ASSUME TypeOK, ListInv
    PROVE  \A p \in Listed : p \in Pids /\ p \in Nat /\ p <= forked
  <1>1. \A i \in 1 .. Len(jobs) : jobs[i] <= forked
    BY DEF ListInv
  <1>2. \A i \in 1 .. Len(jobs) : jobs[i] \in Pids
    BY DEF TypeOK
  <1>3. \A p \in Pids : p \in Nat
    BY NumPidsAssumption DEF Pids
  <1> QED BY <1>1, <1>2, <1>3 DEF Listed

\* Every step keeps the order of the list.
LEMMA ListStep ==
    ASSUME JobInv, [Next]_vars
    PROVE  ListInv'
  <1> USE DEF JobInv
  <1>1. CASE \/ ReadLine \/ Look \/ EndList \/ Dispatch \/ Fork \/ ForkFails
             \/ Unblock \/ WaitEnds \/ Load \/ Store \/ Cont \/ SigChld
             \/ \E k \in Keys : Broadcast(k)
             \/ Press
             \/ \E p \in Pids : ChildMoves(p)
             \/ UNCHANGED vars
    <2>1. UNCHANGED <<jobs, jid>> /\ forked' \in {forked, forked + 1}
      BY <1>1
      DEF ReadLine, Look, EndList, Dispatch, Fork, ForkFails, Unblock,
          WaitEnds, Load, Store, Cont, SigChld, Broadcast, Press, ChildMoves,
          vars, listVars, boundVars
    <2>2. forked \in Nat
      BY NumPidsAssumption DEF TypeOK
    <2> QED BY <2>1, <2>2, SameList
  <1>2. CASE Clean
    BY <1>2, CleanupKeepsList
    DEF Clean, TypeOK, WalkInv, AwaitedListed, boundVars
  <1>3. CASE AddJob
    BY <1>3, AddJobKeepsList DEF AddJob
  <1>4. CASE EndStage
    BY <1>4, UnlinkKeepsList
    DEF EndStage, TypeOK, WalkInv, AwaitedListed, boundVars
  <1> QED
    BY <1>1, <1>2, <1>3, <1>4 DEF Next, Shell, Handlers

\* Every step keeps what is known of a pipe.
LEMMA PipeStep ==
    ASSUME JobInv, [Next]_vars
    PROVE  PipeInv'
  <1> USE DEF JobInv
  <1>1. CASE \/ Look \/ Clean \/ EndList \/ Dispatch \/ Fork \/ ForkFails
             \/ AddJob \/ Unblock \/ WaitEnds \/ Load \/ Store \/ Cont
             \/ SigChld
             \/ \E k \in Keys : Broadcast(k)
             \/ Press
             \/ \E p \in Pids : ChildMoves(p)
             \/ UNCHANGED vars
    BY <1>1
    DEF Look, Clean, EndList, Dispatch, Fork, ForkFails, AddJob, Unblock,
        WaitEnds, Load, Store, Cont, SigChld, Broadcast, Press, ChildMoves,
        vars, PipeInv
  <1>2. CASE ReadLine
    BY <1>2, PipesAssumption DEF ReadLine, vars, PipeInv
  <1>3. CASE EndStage
    BY <1>3 DEF EndStage, vars, PipeInv, TypeOK
  <1> QED
    BY <1>1, <1>2, <1>3 DEF Next, Shell, Handlers

\* Every step keeps what is known of the child that is being added.
LEMMA AddStep ==
    ASSUME JobInv, [Next]_vars
    PROVE  AddInv'
  <1> USE DEF JobInv
  <1>1. CASE \/ ReadLine \/ Look \/ EndList \/ Dispatch \/ ForkFails
             \/ AddJob \/ Unblock \/ WaitEnds \/ EndStage \/ Load \/ Store
             \/ SigChld \/ Press
             \/ UNCHANGED vars
    BY <1>1, ListedSame
    DEF ReadLine, Look, EndList, Dispatch, ForkFails, AddJob, Unblock,
        WaitEnds, EndStage, Load, Store, SigChld, Press, AddInv, vars,
        kernelVars, listVars, boundVars
  <1>2. CASE Clean
    BY <1>2, CleanupKeepsList DEF Clean, AddInv
  <1>3. CASE Fork
    <2>1. forked + 1 \in Pids /\ forked \in Nat /\ forked + 1 > 0
      BY <1>3, NumPidsAssumption DEF Fork, TypeOK, Pids
    <2>2. forked + 1 \notin Listed
      BY <2>1, ListedWereForked
    <2>3. Listed' = Listed
      BY <1>3, ListedSame DEF Fork, listVars
    <2> QED
      BY <1>3, <2>1, <2>2, <2>3 DEF Fork, AddInv, TypeOK
  <1>4. CASE Cont
    BY <1>4, ListedSame
    DEF Cont, AddInv, vars, kernelVars, listVars, boundVars
  <1>5. ASSUME NEW k \in Keys, Broadcast(k)
        PROVE  AddInv'
    BY <1>5, ListedSame, BroadcastIsKernelStep
    DEF Broadcast, AddInv, KernelStep, ChildStep, TypeOK, vars, kernelVars,
        listVars, boundVars
  <1>6. ASSUME NEW p \in Pids, ChildMoves(p)
        PROVE  AddInv'
    <2>1. Listed' = Listed
      BY <1>6, ListedSame DEF ChildMoves, listVars
    <2>2. CASE pc = "add"
      <3>1. cur \in Pids /\ masked
        BY <2>2, NumPidsAssumption DEF AddInv, TypeOK, Pids
      <3>2. \/ proc'[cur] \in {"forked", "running", "zombie"}
            \/ cur \in stopNews'
        BY <1>6, <2>2, <3>1, ChildMovesIsKernelStep
        DEF AddInv, NewsInv, KernelStep, ChildStep, TypeOK
      <3> QED
        BY <1>6, <2>1, <2>2, <3>1, <3>2 DEF ChildMoves, AddInv, boundVars
    <2>3. CASE pc # "add"
      BY <1>6, <2>1, <2>3 DEF ChildMoves, AddInv, boundVars
    <2> QED BY <2>2, <2>3
  <1> QED
    BY <1>1, <1>2, <1>3, <1>4, <1>5, <1>6 DEF Next, Shell, Handlers

\* Every step leaves the shell at a node of the list.
LEMMA WalkStep ==
    ASSUME JobInv, [Next]_vars
    PROVE  WalkInv'
  <1> USE DEF JobInv
  <1>1. CASE \/ Look \/ EndList \/ Fork \/ ForkFails \/ Unblock \/ WaitEnds
             \/ Load \/ Store \/ Cont \/ SigChld
             \/ \E k \in Keys : Broadcast(k)
             \/ Press
             \/ \E p \in Pids : ChildMoves(p)
             \/ UNCHANGED vars
    BY <1>1, ListedSame
    DEF Look, EndList, Fork, ForkFails, Unblock, WaitEnds, Load, Store, Cont,
        SigChld, Broadcast, Press, ChildMoves, WalkInv, AwaitedListed, vars,
        kernelVars, listVars, boundVars
  <1>2. CASE ReadLine
    BY <1>2, FirstListed, ListedSame
    DEF ReadLine, WalkInv, AwaitedListed, vars, kernelVars, listVars,
        boundVars
  <1>3. CASE Clean
    BY <1>3, CleanupKeepsList, NextOfListed
    DEF Clean, WalkInv, AwaitedListed, vars, kernelVars, listVars, boundVars
  <1>4. CASE Dispatch
    BY <1>4, FirstListed, ListedSame
    DEF Dispatch, WalkInv, AwaitedListed, vars, kernelVars, listVars,
        boundVars
  <1>5. CASE AddJob
    BY <1>5, AddJobKeepsList
    DEF AddJob, WalkInv, AwaitedListed, vars, kernelVars, listVars, boundVars
  <1>6. CASE EndStage
    BY <1>6, UnlinkKeepsList
    DEF EndStage, WalkInv, AwaitedListed, vars, kernelVars, listVars,
        boundVars
  <1> QED
    BY <1>1, <1>2, <1>3, <1>4, <1>5, <1>6 DEF Next, Shell, Handlers

\* Every step keeps SIGCHLD pending for what was not reported.
LEMMA NewsStep ==
    ASSUME JobInv, [Next]_vars
    PROVE  NewsInv'
  <1> USE DEF JobInv
  <1>1. CASE \/ ReadLine \/ Look \/ EndList \/ Dispatch \/ ForkFails
             \/ Unblock \/ WaitEnds \/ Load \/ Store \/ Press
             \/ UNCHANGED vars
    BY <1>1, ListedSame
    DEF ReadLine, Look, EndList, Dispatch, ForkFails, Unblock, WaitEnds, Load,
        Store, Press, NewsInv, vars, kernelVars, listVars, boundVars
  <1>2. CASE Clean
    BY <1>2, CleanupKeepsList
    DEF Clean, NewsInv, WalkInv, AwaitedListed, boundVars, kernelVars
  <1>3. CASE Fork
    <2>1. forked + 1 \in Pids /\ forked \in Nat
      BY <1>3, NumPidsAssumption DEF Fork, TypeOK, Pids
    <2>2. proc[forked + 1] = "none"
      BY <2>1 DEF NewsInv
    <2>3. forked + 1 \notin stopNews
      BY <2>2 DEF NewsInv
    <2>4. Listed' = Listed
      BY <1>3, ListedSame DEF Fork, listVars
    <2>5. \A p \in Pids :
             proc'[p] = IF p = forked + 1 THEN "forked" ELSE proc[p]
      BY <1>3 DEF Fork, TypeOK
    <2>6. forked' = forked + 1 /\ cur' = forked + 1 /\ pc' = "add"
          /\ stopNews' = stopNews /\ sigchld' = sigchld /\ pc # "add"
      BY <1>3 DEF Fork
    <2>7. ASSUME NEW p \in Pids
          PROVE  proc'[p] = "none" <=> p > forked'
      BY <2>1, <2>2, <2>5, <2>6, <2>7 DEF NewsInv, Pids
    <2>8. ASSUME NEW p \in stopNews
          PROVE  proc'[p] \in {"stopped", "doomed"}
      BY <2>3, <2>5, <2>8 DEF NewsInv, TypeOK
    <2>9. ASSUME NEW p \in Pids, p \in Listed \/ p = forked + 1,
                 proc'[p] = "zombie" \/ p \in stopNews
          PROVE  sigchld
      BY <2>3, <2>5, <2>9 DEF NewsInv
    <2> QED BY <2>4, <2>6, <2>7, <2>8, <2>9 DEF NewsInv
  <1>4. CASE AddJob
    BY <1>4, AddJobKeepsList DEF AddJob, NewsInv, boundVars, kernelVars
  <1>5. CASE EndStage
    BY <1>5, UnlinkKeepsList
    DEF EndStage, NewsInv, WalkInv, AwaitedListed, boundVars, kernelVars
  <1>6. CASE Cont
    BY <1>6, ListedSame, ContIsKernelStep
    DEF Cont, NewsInv, KernelStep, ChildStep, TypeOK, vars, kernelVars,
        listVars, boundVars
  <1>7. CASE SigChld
    BY <1>7, ListedSame
    DEF SigChld, NewsInv, AddInv, Reports, TypeOK, vars, kernelVars, listVars,
        boundVars
  <1>8. ASSUME NEW k \in Keys, Broadcast(k)
        PROVE  NewsInv'
    BY <1>8, ListedSame, BroadcastIsKernelStep
    DEF Broadcast, NewsInv, KernelStep, ChildStep, TypeOK, vars, kernelVars,
        listVars, boundVars
  <1>9. ASSUME NEW p \in Pids, ChildMoves(p)
        PROVE  NewsInv'
    BY <1>9, ListedSame, ChildMovesIsKernelStep
    DEF ChildMoves, NewsInv, KernelStep, ChildStep, TypeOK, vars, kernelVars,
        listVars, boundVars
  <1> QED
    BY <1>1, <1>2, <1>3, <1>4, <1>5, <1>6, <1>7, <1>8, <1>9
    DEF Next, Shell, Handlers

\* Every step keeps TERMINATED to children that were waited for.
LEMMA EndStep ==
    ASSUME JobInv, [Next]_vars
    PROVE  EndInv'
  <1> USE DEF JobInv
  <1>1. CASE \/ ReadLine \/ Look \/ Clean \/ EndList \/ Dispatch \/ ForkFails
             \/ Unblock \/ WaitEnds \/ EndStage \/ Press
             \/ UNCHANGED vars
    BY <1>1
    DEF ReadLine, Look, Clean, EndList, Dispatch, ForkFails, Unblock,
        WaitEnds, EndStage, Press, EndInv, vars, kernelVars, listVars,
        boundVars
  <1>2. CASE Fork
    BY <1>2, NumPidsAssumption
    DEF Fork, EndInv, TypeOK, NewsInv, Pids, vars, kernelVars, listVars,
        boundVars
  <1>3. CASE AddJob
    BY <1>3, AddJobKeepsList
    DEF AddJob, EndInv, TypeOK, vars, kernelVars, listVars, boundVars
  <1>4. CASE Load
    BY <1>4, ListedArePids
    DEF Load, EndInv, WalkInv, AwaitedListed, TypeOK, vars, kernelVars,
        listVars, boundVars
  <1>5. CASE Store
    BY <1>5, ListedArePids
    DEF Store, EndInv, WalkInv, AwaitedListed, TypeOK, vars, kernelVars,
        listVars, boundVars
  <1>6. CASE Cont
    BY <1>6, ContIsKernelStep
    DEF Cont, EndInv, KernelStep, ChildStep, TypeOK, vars, kernelVars,
        listVars, boundVars
  <1>7. CASE SigChld
    BY <1>7, ListedArePids
    DEF SigChld, EndInv, WalkInv, AwaitedListed, AfterReport, TypeOK, vars,
        kernelVars, listVars, boundVars
  <1>8. ASSUME NEW k \in Keys, Broadcast(k)
        PROVE  EndInv'
    BY <1>8, ListedArePids, BroadcastIsKernelStep
    DEF Broadcast, EndInv, WalkInv, AwaitedListed, KernelStep, ChildStep,
        TypeOK, vars, kernelVars, listVars, boundVars
  <1>9. ASSUME NEW p \in Pids, ChildMoves(p)
        PROVE  EndInv'
    BY <1>9, ListedArePids, ChildMovesIsKernelStep
    DEF ChildMoves, EndInv, WalkInv, AwaitedListed, KernelStep, ChildStep,
        TypeOK, vars, kernelVars, listVars, boundVars
  <1> QED
    BY <1>1, <1>2, <1>3, <1>4, <1>5, <1>6, <1>7, <1>8, <1>9
    DEF Next, Shell, Handlers

\* No step loses a child.
LEMMA AccountedStep ==
    ASSUME JobInv, [Next]_vars
    PROVE  ChildrenAccounted'
  <1> USE DEF JobInv
  <1>1. CASE \/ ReadLine \/ Look \/ EndList \/ Dispatch \/ ForkFails
             \/ Unblock \/ WaitEnds \/ Load \/ Store \/ Press
             \/ UNCHANGED vars
    BY <1>1, ListedSame
    DEF ReadLine, Look, EndList, Dispatch, ForkFails, Unblock, WaitEnds, Load,
        Store, Press, ChildrenAccounted, vars, kernelVars, listVars,
        boundVars
  <1>2. CASE Clean
    BY <1>2, CleanupKeepsList
    DEF Clean, ChildrenAccounted, WalkInv, AwaitedListed, EndInv, TypeOK,
        boundVars, kernelVars
  <1>3. CASE Fork
    BY <1>3, ListedSame, NumPidsAssumption
    DEF Fork, ChildrenAccounted, TypeOK, vars, kernelVars, listVars,
        boundVars
  <1>4. CASE AddJob
    BY <1>4, AddJobKeepsList
    DEF AddJob, ChildrenAccounted, boundVars, kernelVars
  <1>5. CASE EndStage
    BY <1>5, UnlinkKeepsList
    DEF EndStage, ChildrenAccounted, WalkInv, AwaitedListed, EndInv, TypeOK,
        boundVars, kernelVars
  <1>6. CASE Cont
    BY <1>6, ListedSame, ContIsKernelStep
    DEF Cont, ChildrenAccounted, KernelStep, ChildStep, TypeOK, vars,
        kernelVars, listVars, boundVars
  <1>7. CASE SigChld
    BY <1>7, ListedSame
    DEF SigChld, ChildrenAccounted, AddInv, Reports, TypeOK, vars, kernelVars,
        listVars, boundVars
  <1>8. ASSUME NEW k \in Keys, Broadcast(k)
        PROVE  ChildrenAccounted'
    BY <1>8, ListedSame, BroadcastIsKernelStep
    DEF Broadcast, ChildrenAccounted, KernelStep, ChildStep, TypeOK, vars,
        kernelVars, listVars, boundVars
  <1>9. ASSUME NEW p \in Pids, ChildMoves(p)
        PROVE  ChildrenAccounted'
    BY <1>9, ListedSame, ChildMovesIsKernelStep
    DEF ChildMoves, ChildrenAccounted, KernelStep, ChildStep, TypeOK, vars,
        kernelVars, listVars, boundVars
  <1> QED
    BY <1>1, <1>2, <1>3, <1>4, <1>5, <1>6, <1>7, <1>8, <1>9
    DEF Next, Shell, Handlers

\* A step of the kernel that continues nobody keeps the flags true.
LEMMA KernelKeepsFlags ==
    ASSUME TypeOK, NewsInv, FlagsInv, KernelStep,
           \A p \in Pids : proc'[p] = "running" => proc[p] = "running",
           UNCHANGED <<jobs, status, raced, pc, cur, saved>>
    PROVE  FlagsInv'
  <1>1. Listed' = Listed /\ Listed \subseteq Pids
    BY ListedSame, ListedArePids
  <1>2. ASSUME NEW p \in Listed \ raced
        PROVE  /\ proc'[p] = "reaped" => "TERMINATED" \in status[p]
               /\ proc'[p] \in {"forked", "running"} => "RUNNING" \in status[p]
               /\ "RUNNING" \in status[p] =>
                     \/ proc'[p] \in {"forked", "running", "zombie"}
                     \/ p \in stopNews'
                     \/ pc = "cont" /\ cur = p
    <2>1. p \in Pids /\ ChildStep(proc[p], proc'[p])
      BY <1>1 DEF KernelStep
    <2>2. proc'[p] \in {"stopped", "doomed"}
          /\ (proc[p] \in {"stopped", "doomed"} => p \in stopNews)
          => p \in stopNews'
      BY <2>1 DEF KernelStep
    <2>3. proc'[p] = "reaped" => proc[p] = "reaped"
      BY <2>1 DEF ChildStep
    <2>4. proc'[p] \in {"forked", "running"} =>
             proc[p] \in {"forked", "running"}
      BY <2>1 DEF ChildStep
    <2>5. proc[p] \in {"forked", "running", "zombie"} =>
             proc'[p] \in {"forked", "running", "zombie", "stopped"}
      BY <2>1 DEF ChildStep
    <2>6. CASE p \in stopNews
      <3>1. proc[p] \in {"stopped", "doomed"}
        BY <2>6 DEF NewsInv
      <3> QED
        BY <1>2, <2>1, <2>2, <2>3, <2>4, <2>6, <3>1 DEF FlagsInv, ChildStep
    <2>7. CASE p \notin stopNews
      BY <1>2, <2>2, <2>3, <2>4, <2>5, <2>7 DEF FlagsInv, ChildStep
    <2> QED BY <2>6, <2>7
  <1> QED BY <1>1, <1>2 DEF FlagsInv

\* Every step keeps the flags true to what was reported.
LEMMA FlagsStep ==
    ASSUME JobInv, [Next]_vars
    PROVE  FlagsInv'
  <1> USE DEF JobInv
  <1>1. CASE \/ ReadLine \/ Look \/ EndList \/ Dispatch \/ ForkFails
             \/ Unblock \/ WaitEnds \/ Load \/ Press
             \/ UNCHANGED vars
    BY <1>1, ListedSame
    DEF ReadLine, Look, EndList, Dispatch, ForkFails, Unblock, WaitEnds, Load,
        Press, FlagsInv, vars, kernelVars, listVars, boundVars
  <1>2. CASE Clean
    BY <1>2, CleanupKeepsList
    DEF Clean, FlagsInv, WalkInv, AwaitedListed, boundVars, kernelVars
  <1>3. CASE Fork
    BY <1>3, ListedSame, ListedWereForked, NumPidsAssumption
    DEF Fork, FlagsInv, TypeOK, vars, kernelVars, listVars, boundVars
  <1>4. CASE AddJob
    BY <1>4, AddJobKeepsList
    DEF AddJob, FlagsInv, AddInv, NewsInv, TypeOK, boundVars, kernelVars
  <1>5. CASE EndStage
    BY <1>5, UnlinkKeepsList
    DEF EndStage, FlagsInv, WalkInv, AwaitedListed, boundVars, kernelVars
  <1>6. CASE Store
    BY <1>6, ListedSame, ListedArePids
    DEF Store, FlagsInv, WalkInv, AwaitedListed, EndInv, TypeOK, vars,
        kernelVars, listVars, boundVars
  <1>7. CASE Cont
    BY <1>7, ListedSame, ListedWereForked, ContIsKernelStep
    DEF Cont, FlagsInv, WalkInv, AwaitedListed, NewsInv, KernelStep,
        ChildStep, TypeOK, ProcStates, vars, kernelVars, listVars, boundVars
  <1>8. CASE SigChld
    BY <1>8, ListedSame, ListedArePids
    DEF SigChld, FlagsInv, NewsInv, Reports, AfterReport, Continuing, TypeOK,
        WalkInv, AwaitedListed, vars, kernelVars, listVars, boundVars
  <1>9. ASSUME NEW k \in Keys, Broadcast(k)
        PROVE  FlagsInv'
    BY <1>9, BroadcastIsKernelStep, KernelKeepsFlags DEF Broadcast, listVars
  <1>10. ASSUME NEW p \in Pids, ChildMoves(p)
        PROVE  FlagsInv'
    <2>1. UNCHANGED <<jobs, status, raced, pc, cur, saved>>
      BY <1>10 DEF ChildMoves, listVars
    <2>2. CASE /\ proc[p] = "forked"
               /\ proc' = [proc EXCEPT ![p] = "running"]
               /\ UNCHANGED <<stopNews, sigchld>>
      BY <2>1, <2>2, ListedSame, ListedArePids DEF TypeOK, FlagsInv
    <2>3. CASE /\ KernelStep
               /\ \A q \in Pids : proc'[q] = "running" => proc[q] = "running"
      BY <2>1, <2>3, KernelKeepsFlags
    <2> QED BY <1>10, <2>2, <2>3, ChildMovesIsKernelStep
  <1> QED
    BY <1>1, <1>2, <1>3, <1>4, <1>5, <1>6, <1>7, <1>8, <1>9, <1>10
    DEF Next, Shell, Handlers

-----------------------------------------------------------------------------
(* The theorems.                                                             *)

\* The shell starts with no children, no jobs and no signals.
LEMMA InitJobInv ==
    ASSUME Init
    PROVE  JobInv
  <1>1. TypeOK
    <2>1. cmd \in [name : CommandNames, arg : Nat]
      BY DEF Init, CommandNames
    <2>2. jobs \in Seq(Pids)
      BY DEF Init
    <2>3. forked \in 0 .. NumPids /\ typed \in 0 .. MaxCmds
          /\ pressed \in 0 .. MaxKeys
      BY NumPidsAssumption, BoundsAssumption DEF Init
    <2> QED
      BY <2>1, <2>2, <2>3 DEF Init, TypeOK, ProcStates, Flags, ShellPcs, NoPid
  <1>2. ListInv /\ PipeInv /\ AddInv
    BY DEF Init, ListInv, PipeInv, AddInv
  <1>3. WalkInv
    BY DEF Init, WalkInv, AwaitedListed
  <1>4. NewsInv /\ EndInv /\ ChildrenAccounted
    BY DEF Init, NewsInv, EndInv, ChildrenAccounted, Pids
  <1>5. FlagsInv
    BY DEF Init, FlagsInv, Listed
  <1> QED BY <1>1, <1>2, <1>3, <1>4, <1>5 DEF JobInv

\* The invariant: in every reachable state of the shell and its children, for
\* any number of them, the job list is in order and what its flags say, what
\* the kernel has to report and what the main loop is doing fit together.
THEOREM JobInvariant == Spec => []JobInv
  <1>1. JobInv /\ [Next]_vars => JobInv'
    BY TypeStep, ListStep, PipeStep, AddStep, WalkStep, NewsStep, EndStep,
       FlagsStep, AccountedStep DEF JobInv
  <1> QED BY InitJobInv, <1>1, PTL DEF Spec

\* Every variable keeps its type: in particular the nodes of the list and the one
\* the main loop is at are children, and RunCmdPipe's count of the stages that
\* are left never goes below 0.
THEOREM TypeCorrect == Spec => []TypeOK
  <1>1. JobInv => TypeOK
    BY DEF JobInv
  <1> QED BY JobInvariant, <1>1, PTL

\* No child escapes the job list between fork and waitpid, however the signals
\* that AddJob blocks and the handler interleave (runtime.c:314-415, 746-806).
THEOREM NoChildLost == Spec => []ChildrenAccounted
  <1>1. JobInv => ChildrenAccounted
    BY DEF JobInv
  <1> QED BY JobInvariant, <1>1, PTL

\* A listed child that has exited always has a SIGCHLD on its way, although
\* signals coalesce and may come before the child is in the list.
THEOREM NoExitOverlooked == Spec => []ZombieNoticed
  <1>1. JobInv => ZombieNoticed
    BY ListedArePids DEF JobInv, NewsInv, ZombieNoticed
  <1> QED BY JobInvariant, <1>1, PTL

\* The status flags of a job tell the truth as soon as the handler has run,
\* unless fg or bg changed them at the same time (runtime.c:671-703).
THEOREM FlagsTellTheTruth == Spec => []StatusTruth
  <1>1. JobInv => StatusTruth
    BY ListedArePids DEF JobInv, NewsInv, EndInv, FlagsInv, StatusTruth
  <1> QED BY JobInvariant, <1>1, PTL

\* The node that the shell waits for, updates or is about to leave is in the
\* list: it is never used after CleanupJob freed it.
THEOREM NoUseAfterFree == Spec => []AwaitedListed
  <1>1. JobInv => AwaitedListed
    BY DEF JobInv, WalkInv
  <1> QED BY JobInvariant, <1>1, PTL

\* Only AddJob lists a node that was not listed, and it gives it the lowest job
\* id that no listed job has (runtime.c:176).
LEMMA LowestJidStep ==
    ASSUME JobInv, [Next]_vars, NEW p \in Listed' \ Listed
    PROVE  /\ jid'[p] \in Nat \ {0}
           /\ \A n \in 1 .. jid'[p] - 1 : \E q \in Listed : jid[q] = n
           /\ \A q \in Listed : jid[q] # jid'[p]
  <1> USE DEF JobInv
  <1>1. CASE AddJob
    <2>1. /\ p = cur /\ cur \in Pids
          /\ jid'[p] = FirstGap + 1
      BY <1>1, AddJobKeepsList DEF TypeOK
    <2>2. /\ FirstGap \in 0 .. Len(jobs) /\ Len(jobs) \in Nat
          /\ \A i \in 0 .. FirstGap : JidAt(i) = i
          /\ \A i \in FirstGap + 1 .. Len(jobs) : JidAt(i) > FirstGap + 1
      BY FirstGapFree DEF TypeOK
    <2>3. ASSUME NEW n \in 1 .. FirstGap
          PROVE  \E q \in Listed : jid[q] = n
      <3>1. n \in 1 .. Len(jobs) /\ n # 0 /\ JidAt(n) = n
        BY <2>2
      <3> QED BY <3>1 DEF JidAt, Listed
    <2>4. ASSUME NEW q \in Listed
          PROVE  jid[q] # FirstGap + 1
      <3>1. PICK i \in 1 .. Len(jobs) : jobs[i] = q
        BY DEF Listed
      <3>2. jid[q] = JidAt(i)
        BY <3>1 DEF JidAt
      <3>3. JidAt(i) # FirstGap + 1
        BY <2>2
      <3> QED BY <3>2, <3>3
    <2> QED BY <2>1, <2>2, <2>3, <2>4
  <1>2. CASE Clean
    BY <1>2, CleanupKeepsList DEF Clean, WalkInv, AwaitedListed, boundVars
  <1>3. CASE EndStage
    BY <1>3, UnlinkKeepsList DEF EndStage, WalkInv, AwaitedListed, boundVars
  <1>4. CASE UNCHANGED jobs
    BY <1>4, ListedSame
  <1> QED
    BY <1>1, <1>2, <1>3, <1>4
    DEF Next, Shell, Handlers, ReadLine, Look, EndList, Dispatch, Fork,
        ForkFails, Unblock, WaitEnds, Load, Store, Cont, SigChld, Broadcast,
        Press, ChildMoves, vars, listVars

\* A new job gets the lowest job id that is free.
THEOREM LowestJidIsGiven == Spec => LowestJid
  <1>1. JobInv /\ [Next]_vars =>
          [\A p \in Listed' \ Listed :
              /\ jid'[p] \in Nat \ {0}
              /\ \A n \in 1 .. jid'[p] - 1 : \E q \in Listed : jid[q] = n
              /\ \A q \in Listed : jid[q] # jid'[p]]_vars
    BY LowestJidStep
  <1> QED BY JobInvariant, <1>1, PTL DEF Spec, LowestJid

-----------------------------------------------------------------------------
(* CommandLine: the ends of pipes that the shell has open.                   *)

\* The end that the stage will read, which the one before left to it.
Waiting == IF stage = 1 \/ ~Piped THEN {} ELSE {ReadEnd(stage - 1)}

\* What is open wherever the shell is in a line.
PipesInv ==
    /\ lpc \in {"prompt", "run", "stage", "started", "wait", "crashed"}
    /\ stage \in Nat \ {0} /\ fails \in Nat /\ leaked \in Nat
    /\ lpc = "run" => held = {} /\ stage = 1 /\ Len(commands) = 1
    /\ lpc = "stage" => held = Waiting /\ Piped
    /\ lpc = "started" => held = Waiting \cup Piping
    /\ lpc \in {"started", "wait"} => Piped \/ (stage = 1 /\ Len(commands) = 1)
    /\ lpc # "prompt" => "no fork" \notin broken /\ FewLeft(leaked, {}, fails)
    /\ ShellFdsClosed

LEMMA PipesInit == LineInit => PipesInv
  <1> SUFFICES ASSUME LineInit
               PROVE  PipesInv
    OBVIOUS
  <1>1. /\ lpc = "prompt" /\ stage = 1 /\ held = {} /\ broken = {}
        /\ fails = 0 /\ leaked = 0
    BY Zenon DEF LineInit
  <1>2. FewLeft(leaked, held, fails)
    BY <1>1, FS_EmptySet DEF FewLeft
  <1> QED
    BY <1>1, <1>2 DEF PipesInv, ShellFdsClosed

LEMMA NextStage ==
    ASSUME NEW k \in Nat \ {0}
    PROVE  /\ k # k - 1 /\ k + 1 \in Nat \ {0} /\ k + 1 # 1 /\ (k + 1) - 1 = k
           /\ {k - 1} \ {0} = IF k = 1 THEN {} ELSE {k - 1}
  OBVIOUS

LEMMA OneMore ==
    ASSUME NEW k \in Nat
    PROVE  k + 1 \in Nat /\ 1 \in Nat \ {0}
  OBVIOUS

\* A failed fork leaves three ends open at most.
LEMMA ThreeEnds ==
    /\ IsFiniteSet(AtFailedFork)
    /\ Cardinality(AtFailedFork) \in Nat /\ Cardinality(AtFailedFork) <= 3
  <1> DEFINE r == ReadEnd(stage - 1)
             s == ReadEnd(stage)
             w == WriteEnd(stage)
             one == {} \cup {r}
             two == one \cup {s}
             three == two \cup {w}
  <1>1. IsFiniteSet(one) /\ Cardinality(one) \in Nat /\ Cardinality(one) <= 1
    BY FS_EmptySet, FS_AddElement
  <1>2. IsFiniteSet(two) /\ Cardinality(two) \in Nat /\ Cardinality(two) <= 2
    <2> HIDE DEF one
    <2> QED
      BY <1>1, FS_AddElement
  <1>3. IsFiniteSet(three) /\ Cardinality(three) \in Nat /\ Cardinality(three) <= 3
    <2> HIDE DEF two
    <2> QED
      BY <1>2, FS_AddElement
  <1>4. AtFailedFork \subseteq three
    BY DEF AtFailedFork, Piping
  <1> HIDE DEF three
  <1>5. /\ IsFiniteSet(AtFailedFork) /\ Cardinality(AtFailedFork) \in Nat
        /\ Cardinality(AtFailedFork) <= Cardinality(three)
    BY <1>3, <1>4, FS_Subset, FS_CardinalityType
  <1> QED
    BY <1>3, <1>5

\* The count of open ends when a line is left behind, and when a fork fails.
LEMMA FewAreLeft ==
    ASSUME NEW earlier \in Nat, NEW forks \in Nat, NEW ends,
           ends = {} \/ (Cardinality(ends) \in Nat /\ Cardinality(ends) <= 3)
    PROVE  /\ FewLeft(earlier, ends, forks) =>
                 /\ earlier + Cardinality(ends) \in Nat
                 /\ FewLeft(earlier + Cardinality(ends), {}, forks)
           /\ FewLeft(earlier, {}, forks) => FewLeft(earlier, ends, forks + 1)
  BY FS_EmptySet DEF FewLeft

\* A place in a line where nothing is open.
LEMMA NothingOpen ==
    ASSUME held' = {}, "no fork" \notin broken',
           lpc' \in {"prompt", "run", "stage"}, stage' \in Nat \ {0},
           fails' \in Nat, leaked' \in Nat, FewLeft(leaked', {}, fails'),
           lpc' = "run" => stage' = 1 /\ Len(commands') = 1,
           lpc' = "stage" => stage' = 1 /\ Piped'
    PROVE  PipesInv'
  <1>1. ShellFdsClosed'
    BY DEF ShellFdsClosed
  <1>2. lpc' = "stage" => held' = Waiting'
    BY DEF Waiting
  <1> QED
    BY <1>1, <1>2 DEF PipesInv

\* RunCmd starts on what Interpret makes of a text without an open pipe.
LEMMA InterpretsPipes ==
    ASSUME NEW text, Interprets(text), held' = {}, "no fork" \notin broken',
           fails' \in Nat, leaked' \in Nat, FewLeft(leaked', {}, fails')
    PROVE  PipesInv'
  <1>1. stage' = 1
    BY DEF Interprets
  <1>2. /\ lpc' \in {"prompt", "run", "stage"}
        /\ lpc' = "run" => Len(commands') = 1
        /\ lpc' = "stage" => Piped'
    <2>1. PICK cmds \in {Interpret[text]} :
             /\ commands' = cmds
             /\ \/ Len(cmds) = 0 /\ lpc' = "prompt"
                \/ Len(cmds) = 1 /\ lpc' = "run"
                \/ Len(cmds) > 1 /\ lpc' = "stage"
      BY Zenon DEF Interprets
    <2> QED
      BY <2>1 DEF Piped
  <1>3. stage' \in Nat \ {0}
    BY <1>1, OneMore
  <1> QED
    BY <1>1, <1>2, <1>3, NothingOpen, Zenon

LEMMA PipesStep == PipesInv /\ [LineNext]_lineVars => PipesInv'
  <1> SUFFICES ASSUME PipesInv, [LineNext]_lineVars
               PROVE  PipesInv'
    OBVIOUS
  <1> USE DEF PipesInv, ShellFdsClosed, typedVars, tableVars, pipeVars, forkVars
  <1>0. lpc # "prompt" => FewLeft(leaked, {}, fails) /\ "no fork" \notin broken
    OBVIOUS
  <1>1. CASE NextLine
    <2>1. /\ held' = {} /\ broken' = {} /\ fails' = fails
          /\ leaked' = leaked + Cardinality(held)
      BY <1>1 DEF NextLine
    <2>2. leaked' \in Nat /\ FewLeft(leaked', {}, fails')
      <3>1. FewLeft(leaked, held, fails) /\ (held = AtFailedFork \/ held = {})
        BY <1>1 DEF NextLine
      <3>2. held = {} \/ (Cardinality(held) \in Nat /\ Cardinality(held) <= 3)
        BY <3>1, ThreeEnds
      <3>3. leaked + Cardinality(held) \in Nat /\ FewLeft(leaked + Cardinality(held), {}, fails)
        BY <3>1, <3>2, FewAreLeft
      <3> QED
        BY <2>1, <3>3
    <2> QED
      BY <1>1, <2>1, <2>2, InterpretsPipes DEF NextLine
  <1>2. CASE RunNothing
    <2>1. /\ lpc = "run" /\ lpc' = "prompt" /\ held' = {}
          /\ UNCHANGED <<stage, fails, leaked, broken>>
      BY <1>2 DEF RunNothing
    <2> QED
      BY <1>0, <2>1, NothingOpen
  <1>3. CASE RunAlias
    <2>1. /\ lpc = "run" /\ Interprets(Substituted(Argv)) /\ held' = {}
          /\ UNCHANGED <<fails, leaked, broken>>
      BY <1>3 DEF RunAlias
    <2> QED
      BY <1>0, <2>1, InterpretsPipes
  <1>4. CASE RunBuiltIn
    <2>1. /\ lpc = "run" /\ lpc' = "prompt" /\ held' = {}
          /\ UNCHANGED <<stage, fails, leaked, broken>>
      BY <1>4 DEF RunBuiltIn
    <2> QED
      BY <1>0, <2>1, NothingOpen
  <1>5. CASE NotFound
    <2>1. held \subseteq {ReadEnd(stage - 1)}
      BY <1>5 DEF NotFound, Waiting
    <2>2. /\ held' = {} /\ "no fork" \notin broken' /\ lpc # "prompt" /\ lpc' = "prompt"
          /\ UNCHANGED <<stage, fails, leaked>>
      BY <1>5, <2>1 DEF NotFound, AfterMissing
    <2> QED
      BY <1>0, <2>2, NothingOpen
  <1>6. CASE ForkCommand
    <2>1. /\ held = Waiting /\ lpc \in {"run", "stage"}
          /\ Piped \/ (stage = 1 /\ Len(commands) = 1)
      BY <1>6 DEF ForkCommand, Starts, Waiting, Piped
    <2>2. /\ Waiting' = Waiting /\ Piping' = Piping /\ Piped' = Piped
          /\ held' = Waiting \cup Piping /\ UNCHANGED <<stage, commands, fails, leaked>>
      BY <1>6, <2>1 DEF ForkCommand, Waiting, Piping, Piped, Final
    <2>3. "no fork" \notin broken'
      BY <1>6, <2>1 DEF ForkCommand
    <2>4. CASE lpc' = "started"
      BY <2>1, <2>2, <2>3, <2>4
    <2>5. CASE Command.bg /\ ~Piped /\ lpc' = "prompt"
      <3>1. held' = {}
        BY <2>2, <2>5 DEF Waiting, Piping
      <3> QED
        BY <1>0, <2>1, <2>2, <2>3, <2>5, <3>1, NothingOpen
    <2>6. lpc' = "started" \/ (Command.bg /\ ~Piped /\ lpc' = "prompt")
      BY <1>6, Zenon DEF ForkCommand
    <2> QED
      BY <2>4, <2>5, <2>6
  <1>7. CASE ForkCommandFails
    <2>1. /\ held = Waiting /\ lpc \in {"run", "stage"}
          /\ Piped \/ (stage = 1 /\ Len(commands) = 1)
      BY <1>7 DEF ForkCommandFails, Starts, Waiting, Piped
    <2>2. Waiting \cup Piping = AtFailedFork
      <3>1. CASE stage = 1
        <4>2. {stage - 1} \ {0} = {}
          BY <3>1, NextStage
        <4>3. {ReadEnd(k) : k \in {stage - 1} \ {0}} = {}
          BY <4>2
        <4> QED
          BY <3>1, <4>3, Zenon DEF Waiting, AtFailedFork
      <3>2. CASE stage # 1
        <4>1. Piped
          BY <2>1, <3>2
        <4>2. {stage - 1} \ {0} = {stage - 1}
          BY <3>2, NextStage
        <4>3. {ReadEnd(k) : k \in {stage - 1} \ {0}} = {ReadEnd(stage - 1)}
          BY <4>2
        <4> QED
          BY <3>2, <4>1, <4>3, Zenon DEF Waiting, AtFailedFork
      <3> QED
        BY <3>1, <3>2
    <2>3. /\ lpc' = "prompt" /\ "no fork" \in broken' /\ held' = AtFailedFork
          /\ UNCHANGED <<stage, commands, leaked>>
      BY <1>7, <2>1, <2>2 DEF ForkCommandFails
    <2>7. fails' = fails + 1
      BY <1>7 DEF ForkCommandFails
    <2>8. fails' \in Nat
      <3>1. fails + 1 \in Nat
        BY OneMore
      <3> QED
        BY <2>7, <3>1, Zenon
    <2>4. AtFailedFork' = AtFailedFork
      BY <2>3 DEF AtFailedFork, Piping, Piped, Final, ReadEnd, WriteEnd
    <2>5. FewLeft(leaked, AtFailedFork, fails + 1)
      BY <1>0, <2>1, ThreeEnds, FewAreLeft
    <2>6. FewLeft(leaked', held', fails')
      BY <2>3, <2>5, <2>7
    <2> QED
      BY <2>3, <2>4, <2>6, <2>8
  <1>8. CASE CloseEnds
    <2>1. held' = (Waiting \cup Piping) \ {ReadEnd(stage - 1), WriteEnd(stage)}
      BY <1>8 DEF CloseEnds, Passed
    <2>2. /\ lpc' = "wait" /\ Piped' = Piped /\ Final' = Final
          /\ UNCHANGED <<stage, commands, fails, leaked, broken>> /\ lpc = "started"
      BY <1>8 DEF CloseEnds, Piped, Final
    <2>3. CASE Piped /\ ~Final
      <3>0. ReadEnd(stage) \notin {ReadEnd(stage - 1), WriteEnd(stage)}
        <4>1. stage # stage - 1
          BY NextStage
        <4> QED
          BY <4>1 DEF ReadEnd, WriteEnd
      <3>1. held' = {ReadEnd(stage)}
        BY <2>1, <2>3, <3>0 DEF Waiting, Piping
      <3> QED
        BY <2>2, <2>3, <3>1 DEF ReadEnd
    <2>4. CASE ~ (Piped /\ ~Final)
      <3>1. held' = {}
        BY <2>1, <2>4 DEF Waiting, Piping
      <3> QED
        BY <2>2, <2>4, <3>1
    <2> QED
      BY <2>3, <2>4
  <1>9. CASE CommandEnds
    <2>1. /\ Piped' = Piped /\ lpc = "wait"
          /\ UNCHANGED <<held, commands, fails, leaked, broken>>
      BY <1>9 DEF CommandEnds, Piped
    <2>2. CASE Final /\ lpc' = "prompt" /\ UNCHANGED stage
      <3>1. held' = {}
        BY <2>1, <2>2
      <3> QED
        BY <1>0, <2>1, <2>2, <3>1, NothingOpen
    <2>3. CASE ~Final /\ lpc' = "stage" /\ stage' = stage + 1
      <3>1. stage' # 1 /\ stage' - 1 = stage /\ stage' \in Nat \ {0}
        BY <2>3, NextStage
      <3>2. Piped
        BY <2>1, <2>3 DEF Final
      <3>3. held' = Waiting'
        BY <2>1, <2>3, <3>1, <3>2 DEF Waiting, ReadEnd
      <3> QED
        BY <2>1, <2>3, <3>1, <3>2, <3>3
    <2> QED
      BY <1>9, <2>2, <2>3 DEF CommandEnds
  <1>10. CASE Program \/ StageOfBlanks \/ UNCHANGED lineVars
    <2>1. /\ UNCHANGED <<commands, stage, held, broken, fails, leaked>>
          /\ lpc' = lpc \/ (lpc = "stage" /\ lpc' = "crashed")
      BY <1>10 DEF Program, Reads, SeesEnd, Writes, Exits, Moves, StageOfBlanks, lineVars
    <2> QED
      BY <2>1 DEF Waiting, Piping, Piped, Final, ReadEnd, WriteEnd, AtFailedFork
  <1> QED
    BY <1>1, <1>2, <1>3, <1>4, <1>5, <1>6, <1>7, <1>8, <1>9, <1>10
    DEF LineNext, ShellStep

\* Whatever is typed, the shell has only the end open that the next stage will
\* read while it waits, and at the prompt none but what failed forks have left:
\* after one exactly the ends that the stage had, and three for each in all.
THEOREM ShellClosesPipes == LineSpec => []ShellFdsClosed
  <1>1. LineSpec => []PipesInv
    BY PipesInit, PipesStep, PTL DEF LineSpec
  <1>2. PipesInv => ShellFdsClosed
    BY DEF PipesInv
  <1> QED
    BY <1>1, <1>2, PTL

-----------------------------------------------------------------------------
(* CommandLine: the list of aliases.                                         *)

\* Least, InsertAt and RemoveAt, whatever is in the sequence.
LEMMA LeastIs ==
    ASSUME NEW S \in SUBSET Nat, S # {}
    PROVE  Least(S) \in S /\ \A k \in S : Least(S) <= k
  BY LeastNat DEF Least

LEMMA InsertAtIs ==
    ASSUME NEW S, NEW s \in Seq(S), NEW e \in S, NEW i \in 1 .. Len(s) + 1
    PROVE  /\ InsertAt(s, i, e) \in Seq(S)
           /\ Len(InsertAt(s, i, e)) = Len(s) + 1
           /\ \A k \in 1 .. Len(s) + 1 :
                InsertAt(s, i, e)[k] =
                    IF k < i THEN s[k] ELSE IF k = i THEN e ELSE s[k - 1]
  <1> DEFINE f == SubSeq(s, 1, i - 1)
             g == SubSeq(s, i, Len(s))
             h == f \o <<e>>
             t == InsertAt(s, i, e)
  <1>1. Len(s) \in Nat /\ i \in Nat /\ i >= 1 /\ i <= Len(s) + 1
    OBVIOUS
  <1>2. f \in Seq(S) /\ Len(f) = i - 1 /\ \A k \in 1 .. i - 1 : f[k] = s[k]
    BY <1>1, SubSeqProperties
  <1>3. /\ g \in Seq(S) /\ Len(g) = Len(s) - i + 1
        /\ \A k \in 1 .. Len(s) - i + 1 : g[k] = s[i + k - 1]
    BY <1>1, SubSeqProperties
  <1>4. t = h \o g
    BY DEF InsertAt
  <1> HIDE DEF f, g, t
  <1>5. h \in Seq(S) /\ Len(h) = i /\ h[i] = e /\ \A k \in 1 .. i - 1 : h[k] = s[k]
    BY <1>1, <1>2
  <1> HIDE DEF h
  <1>6. /\ t \in Seq(S) /\ Len(t) = Len(h) + Len(g)
        /\ \A k \in 1 .. Len(h) + Len(g) :
              t[k] = IF k <= Len(h) THEN h[k] ELSE g[k - Len(h)]
    BY <1>3, <1>4, <1>5, ConcatProperties
  <1>7. Len(t) = Len(s) + 1
    BY <1>1, <1>3, <1>5, <1>6
  <1>8. ASSUME NEW k \in 1 .. Len(s) + 1
        PROVE  t[k] = IF k < i THEN s[k] ELSE IF k = i THEN e ELSE s[k - 1]
    <2>1. CASE k <= i
      BY <1>1, <1>3, <1>5, <1>6, <2>1
    <2>2. CASE ~ (k <= i)
      <3>1. t[k] = g[k - i]
        BY <1>1, <1>3, <1>5, <1>6, <2>2
      <3>2. k - i \in 1 .. Len(s) - i + 1 /\ i + (k - i) - 1 = k - 1
        BY <1>1, <2>2
      <3> QED
        BY <1>1, <1>3, <2>2, <3>1, <3>2
    <2> QED
      BY <2>1, <2>2
  <1> QED
    BY <1>6, <1>7, <1>8 DEF t

LEMMA RemoveAtIs ==
    ASSUME NEW S, NEW s \in Seq(S), NEW i \in 1 .. Len(s)
    PROVE  /\ RemoveAt(s, i) \in Seq(S)
           /\ Len(RemoveAt(s, i)) = Len(s) - 1
           /\ \A k \in 1 .. Len(s) - 1 :
                RemoveAt(s, i)[k] = IF k < i THEN s[k] ELSE s[k + 1]
  <1> DEFINE f == SubSeq(s, 1, i - 1)
             g == SubSeq(s, i + 1, Len(s))
             t == RemoveAt(s, i)
  <1>1. Len(s) \in Nat /\ i \in Nat /\ i >= 1 /\ i <= Len(s)
    OBVIOUS
  <1>2. f \in Seq(S) /\ Len(f) = i - 1 /\ \A k \in 1 .. i - 1 : f[k] = s[k]
    BY <1>1, SubSeqProperties
  <1>3. /\ g \in Seq(S) /\ Len(g) = Len(s) - i
        /\ \A k \in 1 .. Len(s) - i : g[k] = s[k + i]
    <2>1. i + 1 \in Int /\ Len(s) \in Int /\ \A k \in i + 1 .. Len(s) : s[k] \in S
      BY <1>1
    <2>2. /\ g \in Seq(S)
          /\ Len(g) = IF i + 1 <= Len(s) THEN Len(s) - (i + 1) + 1 ELSE 0
          /\ \A k \in 1 .. Len(s) - (i + 1) + 1 : g[k] = s[(i + 1) + k - 1]
      BY <2>1, SubSeqProperties
    <2> HIDE DEF g
    <2>3. \A k \in 1 .. Len(s) - i :
             k \in 1 .. Len(s) - (i + 1) + 1 /\ (i + 1) + k - 1 = k + i
      BY <1>1
    <2>4. Len(g) = Len(s) - i
      BY <1>1, <2>2
    <2> QED
      BY <2>2, <2>3, <2>4
  <1>4. t = f \o g
    BY DEF RemoveAt
  <1> HIDE DEF f, g, t
  <1>5. /\ t \in Seq(S) /\ Len(t) = Len(f) + Len(g)
        /\ \A k \in 1 .. Len(f) + Len(g) :
              t[k] = IF k <= Len(f) THEN f[k] ELSE g[k - Len(f)]
    BY <1>2, <1>3, <1>4, ConcatProperties
  <1>6. Len(t) = Len(s) - 1
    BY <1>1, <1>2, <1>3, <1>5
  <1>7. ASSUME NEW k \in 1 .. Len(s) - 1
        PROVE  t[k] = IF k < i THEN s[k] ELSE s[k + 1]
    <2>1. CASE k < i
      <3>1. k \in 1 .. i - 1 /\ k \in 1 .. Len(f) + Len(g) /\ k <= Len(f)
        BY <1>1, <1>2, <1>3, <2>1
      <3> QED
        BY <1>2, <1>5, <2>1, <3>1
    <2>2. CASE ~ (k < i)
      <3>1. t[k] = g[k - Len(f)]
        <4>1. k \in 1 .. Len(f) + Len(g) /\ ~ (k <= Len(f))
          BY <1>1, <1>2, <1>3, <2>2
        <4> QED
          BY <1>5, <4>1
      <3>2. k - Len(f) \in 1 .. Len(s) - i /\ (k - Len(f)) + i = k + 1
        BY <1>1, <1>2, <2>2
      <3> QED
        BY <1>3, <2>2, <3>1, <3>2
    <2> QED
      BY <2>1, <2>2
  <1> QED
    BY <1>5, <1>6, <1>7 DEF t

\* A list of aliases against a table of definitions: the names ascend, and each
\* definition has one alias, whose text stands for it.
Names == {NameOrder[i] : i \in DOMAIN NameOrder}
Nodes == [name : Names, text : Text]
Ascends(list) == \A i, k \in DOMAIN list : i < k => Rank(list[i].name) < Rank(list[k].name)
StandsFor(text, definition) ==
    /\ parser_single(text, FALSE).argv = definition.words
    /\ definition.more <=> Last(text) = " "
OneEach(list, table) ==
    /\ list \in Seq(Nodes) /\ Ascends(list)
    /\ \A i \in DOMAIN list :
          list[i].name \in DOMAIN table /\ StandsFor(list[i].text, table[list[i].name])
    /\ \A name \in DOMAIN table : \E i \in DOMAIN list : list[i].name = name
AliasInv == OneEach(aliases, defs)

LEMMA RankIs ==
    ASSUME NEW name \in Names
    PROVE  Rank(name) \in Nat /\ NameOrder[Rank(name)] = name
  <1>1. DOMAIN NameOrder \subseteq Nat
    BY NameOrderAssumption
  <1>2. \E i \in DOMAIN NameOrder : NameOrder[i] = name
    BY DEF Names
  <1> QED
    BY <1>1, <1>2 DEF Rank

LEMMA OneEachIsMap == AliasInv => AliasesAreMap
  <1> SUFFICES ASSUME AliasInv
               PROVE  AliasesAreMap
    OBVIOUS
  <1>1. {aliases[i].name : i \in DOMAIN aliases} = DOMAIN defs
    BY DEF AliasInv, OneEach
  <1>2. ASSUME NEW name \in DOMAIN defs
        PROVE  StandsFor(TextOf(name), defs[name])
    <2>1. Aliased(name) # {}
      BY DEF AliasInv, OneEach, Aliased
    <2>2. (CHOOSE i \in Aliased(name) : TRUE) \in Aliased(name)
      BY <2>1
    <2>3. PICK i \in Aliased(name) : TextOf(name) = aliases[i].text
      BY <2>2 DEF TextOf
    <2> QED
      BY <2>3 DEF AliasInv, OneEach, Aliased
  <1> QED
    BY <1>1, <1>2 DEF AliasesAreMap, AliasInv, OneEach, Ascends, StandsFor

\* Where an alias goes: behind the lesser names, before the greater ones.
LEMMA PlaceIs ==
    ASSUME AliasInv, NEW name \in Names
    PROVE  LET place == Least(NotBefore(name) \cup {Len(aliases) + 1})
           IN  /\ place \in 1 .. Len(aliases) + 1
               /\ \A k \in 1 .. Len(aliases) :
                     /\ k < place => Rank(aliases[k].name) < Rank(name)
                     /\ k > place => Rank(aliases[k].name) > Rank(name)
               /\ place \notin Aliased(name) /\ place \in 1 .. Len(aliases) =>
                     Rank(aliases[place].name) > Rank(name)
  <1> DEFINE later == NotBefore(name) \cup {Len(aliases) + 1}
             place == Least(later)
  <1>1. /\ Len(aliases) \in Nat /\ DOMAIN aliases = 1 .. Len(aliases)
        /\ \A k \in 1 .. Len(aliases) : aliases[k].name \in Names
    <2>1. aliases \in Seq(Nodes)
      BY DEF AliasInv, OneEach
    <2>2. \A node \in Nodes : node.name \in Names
      BY DEF Nodes
    <2> QED
      BY <2>1, <2>2
  <1>2. \A k \in 1 .. Len(aliases) :
           Rank(aliases[k].name) \in Nat /\ NameOrder[Rank(aliases[k].name)] = aliases[k].name
    BY <1>1, RankIs
  <1>3. Rank(name) \in Nat /\ NameOrder[Rank(name)] = name
    BY RankIs
  <1>4. later \subseteq 1 .. Len(aliases) + 1 /\ Len(aliases) + 1 \in later
    BY <1>1 DEF NotBefore
  <1>5. \A k \in 1 .. Len(aliases) : k \in later <=> Rank(aliases[k].name) >= Rank(name)
    BY <1>1 DEF NotBefore
  <1> HIDE DEF later
  <1>6. place \in later /\ \A k \in later : place <= k
    <2>1. later \subseteq Nat /\ later # {}
      BY <1>1, <1>4
    <2> QED
      BY <2>1, LeastIs
  <1> HIDE DEF place
  <1>7. place \in 1 .. Len(aliases) + 1
    BY <1>4, <1>6
  <1>8. ASSUME NEW k \in 1 .. Len(aliases), k < place
        PROVE  Rank(aliases[k].name) < Rank(name)
    <2>1. k \notin later
      BY <1>1, <1>6, <1>7, <1>8
    <2> QED
      BY <1>2, <1>3, <1>5, <2>1
  <1>9. \A i, k \in 1 .. Len(aliases) :
           i < k => Rank(aliases[i].name) < Rank(aliases[k].name)
    BY <1>1 DEF AliasInv, OneEach, Ascends
  <1>10. place \in 1 .. Len(aliases) => Rank(aliases[place].name) >= Rank(name)
    BY <1>5, <1>6
  <1>11. ASSUME NEW k \in 1 .. Len(aliases), k > place
         PROVE  Rank(aliases[k].name) > Rank(name)
    <2>1. place \in 1 .. Len(aliases) /\ place < k
      BY <1>1, <1>7, <1>11
    <2> QED
      BY <1>2, <1>3, <1>9, <1>10, <2>1
  <1>12. ASSUME place \notin Aliased(name), place \in 1 .. Len(aliases)
         PROVE  Rank(aliases[place].name) > Rank(name)
    <2>1. aliases[place].name # name
      BY <1>1, <1>12 DEF Aliased
    <2>2. Rank(aliases[place].name) # Rank(name)
      BY <1>2, <1>3, <1>12, <2>1
    <2> QED
      BY <1>2, <1>3, <1>10, <1>12, <2>2
  <1>13. place = Least(NotBefore(name) \cup {Len(aliases) + 1})
    BY DEF place, later
  <1> QED
    BY <1>7, <1>8, <1>11, <1>12, <1>13

\* Defining a name: its alias changes, or comes to its place.
LEMMA WithAliasIs ==
    ASSUME AliasInv, NEW name \in Names, NEW text \in Text,
           NEW definition, StandsFor(text, definition)
    PROVE  OneEach(WithAlias(name, text),
                   [n \in DOMAIN defs \cup {name} |-> IF n = name THEN definition ELSE defs[n]])
  <1> DEFINE place == Least(NotBefore(name) \cup {Len(aliases) + 1})
             node == [name |-> name, text |-> text]
             list == WithAlias(name, text)
             table == [n \in DOMAIN defs \cup {name} |->
                          IF n = name THEN definition ELSE defs[n]]
  <1>1. aliases \in Seq(Nodes) /\ node \in Nodes /\ node.name = name /\ node.text = text
    BY DEF AliasInv, OneEach, Nodes
  <1>2. /\ Len(aliases) \in Nat /\ DOMAIN aliases = 1 .. Len(aliases)
        /\ \A k \in 1 .. Len(aliases) : aliases[k] \in Nodes
    BY <1>1
  <1>3. /\ place \in 1 .. Len(aliases) + 1
        /\ \A k \in 1 .. Len(aliases) :
              /\ k < place => Rank(aliases[k].name) < Rank(name)
              /\ k > place => Rank(aliases[k].name) > Rank(name)
        /\ place \notin Aliased(name) /\ place \in 1 .. Len(aliases) =>
              Rank(aliases[place].name) > Rank(name)
    BY PlaceIs
  <1>4. list = IF place \in Aliased(name) THEN [aliases EXCEPT ![place] = node]
               ELSE InsertAt(aliases, place, node)
    BY DEF WithAlias
  <1>5. /\ \A i, k \in 1 .. Len(aliases) :
              i < k => Rank(aliases[i].name) < Rank(aliases[k].name)
        /\ \A i \in 1 .. Len(aliases) :
              aliases[i].name \in DOMAIN defs /\ StandsFor(aliases[i].text, defs[aliases[i].name])
        /\ \A n \in DOMAIN defs : \E i \in 1 .. Len(aliases) : aliases[i].name = n
    BY <1>2 DEF AliasInv, OneEach, Ascends
  <1>6. /\ Rank(name) \in Nat
        /\ \A k \in 1 .. Len(aliases) : Rank(aliases[k].name) \in Nat
    <2>1. \A k \in 1 .. Len(aliases) : aliases[k].name \in Names
      BY <1>2 DEF Nodes
    <2> QED
      BY <2>1, RankIs
  <1>7. \A k \in 1 .. Len(aliases) : k # place => aliases[k].name # name
    <2>1. ASSUME NEW k \in 1 .. Len(aliases), k # place
          PROVE  Rank(aliases[k].name) # Rank(name)
      <3>1. k < place \/ k > place
        BY <1>2, <1>3, <2>1
      <3>2. Rank(aliases[k].name) < Rank(name) \/ Rank(aliases[k].name) > Rank(name)
        BY <1>3, <3>1
      <3>3. Rank(aliases[k].name) \in Nat /\ Rank(name) \in Nat
        BY <1>6
      <3> QED
        BY <3>2, <3>3
    <2> QED
      BY <2>1
  <1>8. \A i \in 1 .. Len(aliases) : aliases[i].name # name =>
           /\ aliases[i].name \in DOMAIN table
           /\ StandsFor(aliases[i].text, table[aliases[i].name])
    BY <1>5
  <1>9. /\ name \in DOMAIN table /\ table[name] = definition
        /\ DOMAIN table = DOMAIN defs \cup {name}
    OBVIOUS
  <1> HIDE DEF place, node, list, table
  <1>10. CASE place \in Aliased(name)
    <2>1. place \in 1 .. Len(aliases) /\ aliases[place].name = name
      BY <1>2, <1>10 DEF Aliased
    <2>2. /\ list \in Seq(Nodes) /\ Len(list) = Len(aliases)
          /\ \A k \in 1 .. Len(aliases) : list[k] = IF k = place THEN node ELSE aliases[k]
      BY <1>1, <1>4, <1>10, <2>1, ExceptSeq
    <2>3. DOMAIN list = 1 .. Len(aliases) /\ \A k \in DOMAIN list : list[k].name = aliases[k].name
      BY <1>1, <2>1, <2>2
    <2>4. Ascends(list)
      BY <1>5, <2>3 DEF Ascends
    <2>5. ASSUME NEW k \in DOMAIN list
          PROVE  list[k].name \in DOMAIN table /\ StandsFor(list[k].text, table[list[k].name])
      BY <1>1, <1>7, <1>8, <1>9, <2>2, <2>3
    <2>6. ASSUME NEW n \in DOMAIN table
          PROVE  \E k \in DOMAIN list : list[k].name = n
      BY <1>5, <1>9, <2>1, <2>3
    <2> QED
      BY <2>2, <2>4, <2>5, <2>6 DEF OneEach, list, table
  <1>11. CASE place \notin Aliased(name)
    <2>1. /\ list \in Seq(Nodes) /\ Len(list) = Len(aliases) + 1
          /\ \A k \in 1 .. Len(aliases) + 1 :
                list[k] = IF k < place THEN aliases[k]
                          ELSE IF k = place THEN node ELSE aliases[k - 1]
      <3>1. list = InsertAt(aliases, place, node)
        BY <1>4, <1>11
      <3>2. place \in 1 .. Len(aliases) + 1
        BY <1>3
      <3> QED
        BY <1>1, <3>1, <3>2, InsertAtIs
    <2>2. DOMAIN list = 1 .. Len(aliases) + 1
      BY <1>2, <2>1
    <2>3. ASSUME NEW k \in DOMAIN list, k # place
          PROVE  \E old \in {k, k - 1} :
                    /\ old \in 1 .. Len(aliases) /\ list[k] = aliases[old]
                    /\ old = k <=> k < place
      BY <1>2, <1>3, <2>1, <2>2, <2>3
    <2>4. \A k \in 1 .. Len(aliases) : aliases[k].name # name
      BY <1>2, <1>7, <1>11 DEF Aliased
    <2>5. list[place] = node /\ place \in DOMAIN list
      BY <1>3, <2>1, <2>2
    <2>6. ASSUME NEW i \in DOMAIN list, NEW k \in DOMAIN list, i < k
          PROVE  Rank(list[i].name) < Rank(list[k].name)
      <3>1. CASE i # place /\ k # place
        <4>1. PICK i1 \in {i, i - 1} :
                 i1 \in 1 .. Len(aliases) /\ list[i] = aliases[i1] /\ (i1 = i <=> i < place)
          BY <2>3, <3>1
        <4>2. PICK k1 \in {k, k - 1} :
                 k1 \in 1 .. Len(aliases) /\ list[k] = aliases[k1] /\ (k1 = k <=> k < place)
          BY <2>3, <3>1
        <4>3. i1 < k1
          BY <1>2, <1>3, <2>2, <2>6, <3>1, <4>1, <4>2
        <4> QED
          BY <1>5, <4>1, <4>2, <4>3
      <3>2. CASE i = place
        <4>1. k - 1 \in 1 .. Len(aliases) /\ list[k] = aliases[k - 1] /\ k - 1 >= place
          BY <1>2, <1>3, <2>1, <2>2, <2>6, <3>2
        <4>2. Rank(aliases[k - 1].name) > Rank(name)
          BY <1>2, <1>3, <1>11, <4>1
        <4> QED
          BY <1>1, <1>6, <2>5, <3>2, <4>1, <4>2
      <3>3. CASE k = place
        <4>1. i \in 1 .. Len(aliases) /\ list[i] = aliases[i]
          BY <1>2, <1>3, <2>1, <2>2, <2>6, <3>3
        <4> QED
          BY <1>1, <1>3, <2>5, <2>6, <3>3, <4>1
      <3> QED
        BY <3>1, <3>2, <3>3
    <2>7. ASSUME NEW k \in DOMAIN list
          PROVE  list[k].name \in DOMAIN table /\ StandsFor(list[k].text, table[list[k].name])
      <3>1. CASE k = place
        BY <1>1, <1>9, <2>5, <3>1
      <3>2. CASE k # place
        BY <1>8, <2>3, <2>4, <3>2
      <3> QED
        BY <3>1, <3>2
    <2>8. ASSUME NEW n \in DOMAIN table
          PROVE  \E k \in DOMAIN list : list[k].name = n
      <3>1. CASE n = name
        BY <1>1, <2>5, <3>1
      <3>2. CASE n # name
        <4>1. PICK i \in 1 .. Len(aliases) : aliases[i].name = n
          BY <1>5, <1>9, <3>2
        <4>2. CASE i < place
          <5>1. i \in DOMAIN list /\ list[i] = aliases[i]
            BY <1>2, <1>3, <2>1, <2>2, <4>2
          <5> QED
            BY <4>1, <5>1
        <4>3. CASE ~ (i < place)
          <5>1. i + 1 \in DOMAIN list /\ list[i + 1] = aliases[i]
            <6>1. /\ i + 1 \in 1 .. Len(aliases) + 1 /\ ~ (i + 1 < place)
                  /\ i + 1 # place /\ (i + 1) - 1 = i
              BY <1>2, <1>3, <4>3
            <6> QED
              BY <2>1, <2>2, <6>1
          <5> QED
            BY <4>1, <5>1
        <4> QED
          BY <4>2, <4>3
      <3> QED
        BY <3>1, <3>2
    <2> QED
      BY <2>1, <2>6, <2>7, <2>8 DEF OneEach, Ascends, list, table
  <1> QED
    BY <1>10, <1>11

\* Removing a name: its alias goes, if it has one.
LEMMA WithoutAliasIs ==
    ASSUME AliasInv, NEW name
    PROVE  OneEach(WithoutAlias(name), [n \in DOMAIN defs \ {name} |-> defs[n]])
  <1> DEFINE at == Least(Aliased(name))
             list == WithoutAlias(name)
             table == [n \in DOMAIN defs \ {name} |-> defs[n]]
  <1>1. /\ aliases \in Seq(Nodes) /\ Len(aliases) \in Nat /\ DOMAIN aliases = 1 .. Len(aliases)
        /\ \A k \in 1 .. Len(aliases) : aliases[k] \in Nodes
    BY DEF AliasInv, OneEach
  <1>2. /\ \A i, k \in 1 .. Len(aliases) :
              i < k => Rank(aliases[i].name) < Rank(aliases[k].name)
        /\ \A i \in 1 .. Len(aliases) :
              aliases[i].name \in DOMAIN defs /\ StandsFor(aliases[i].text, defs[aliases[i].name])
        /\ \A n \in DOMAIN defs : \E i \in 1 .. Len(aliases) : aliases[i].name = n
    BY <1>1 DEF AliasInv, OneEach, Ascends
  <1>3. \A k \in 1 .. Len(aliases) : Rank(aliases[k].name) \in Nat
    <2>1. \A k \in 1 .. Len(aliases) : aliases[k].name \in Names
      BY <1>1 DEF Nodes
    <2> QED
      BY <2>1, RankIs
  <1>4. \A i, k \in 1 .. Len(aliases) : i # k => aliases[i].name # aliases[k].name
    BY <1>1, <1>2, <1>3
  <1>5. /\ DOMAIN table = DOMAIN defs \ {name}
        /\ \A n \in DOMAIN table : table[n] = defs[n]
    OBVIOUS
  <1>6. \A i \in 1 .. Len(aliases) : aliases[i].name # name =>
           /\ aliases[i].name \in DOMAIN table
           /\ StandsFor(aliases[i].text, table[aliases[i].name])
    BY <1>2
  <1>7. list = IF Aliased(name) = {} THEN aliases ELSE RemoveAt(aliases, at)
    BY DEF WithoutAlias
  <1>8. Aliased(name) # {} => at \in Aliased(name)
    <2>1. Aliased(name) \subseteq Nat
      BY <1>1 DEF Aliased
    <2> QED
      BY <2>1, LeastIs
  <1> HIDE DEF at, list, table
  <1>9. CASE Aliased(name) = {}
    <2>1. list = aliases /\ \A i \in 1 .. Len(aliases) : aliases[i].name # name
      BY <1>1, <1>7, <1>9 DEF Aliased
    <2>2. \A n \in DOMAIN table : \E i \in 1 .. Len(aliases) : aliases[i].name = n
      BY <1>2, <1>5
    <2> QED
      BY <1>1, <1>2, <1>6, <2>1, <2>2 DEF OneEach, Ascends, list, table
  <1>10. CASE Aliased(name) # {}
    <2>1. at \in 1 .. Len(aliases) /\ aliases[at].name = name
      BY <1>1, <1>8, <1>10 DEF Aliased
    <2>2. /\ list \in Seq(Nodes) /\ Len(list) = Len(aliases) - 1
          /\ \A k \in 1 .. Len(aliases) - 1 :
                list[k] = IF k < at THEN aliases[k] ELSE aliases[k + 1]
      BY <1>1, <1>7, <1>10, <2>1, RemoveAtIs
    <2>3. DOMAIN list = 1 .. Len(aliases) - 1
      BY <1>1, <2>1, <2>2
    <2>4. ASSUME NEW k \in DOMAIN list
          PROVE  \E old \in {k, k + 1} :
                    /\ old \in 1 .. Len(aliases) /\ old # at /\ list[k] = aliases[old]
                    /\ old = k <=> k < at
      BY <1>1, <2>1, <2>2, <2>3
    <2>5. ASSUME NEW i \in DOMAIN list, NEW k \in DOMAIN list, i < k
          PROVE  Rank(list[i].name) < Rank(list[k].name)
      <3>1. PICK i1 \in {i, i + 1} :
               i1 \in 1 .. Len(aliases) /\ list[i] = aliases[i1] /\ (i1 = i <=> i < at)
        BY <2>4
      <3>2. PICK k1 \in {k, k + 1} :
               k1 \in 1 .. Len(aliases) /\ list[k] = aliases[k1] /\ (k1 = k <=> k < at)
        BY <2>4
      <3>3. i1 < k1
        BY <1>1, <2>1, <2>3, <2>5, <3>1, <3>2
      <3> QED
        BY <1>2, <3>1, <3>2, <3>3
    <2>6. ASSUME NEW k \in DOMAIN list
          PROVE  list[k].name \in DOMAIN table /\ StandsFor(list[k].text, table[list[k].name])
      BY <1>4, <1>6, <2>1, <2>4
    <2>7. ASSUME NEW n \in DOMAIN table
          PROVE  \E k \in DOMAIN list : list[k].name = n
      <3>1. PICK i \in 1 .. Len(aliases) : aliases[i].name = n /\ i # at
        BY <1>2, <1>5, <2>1
      <3>2. CASE i < at
        <4>1. i \in DOMAIN list /\ list[i] = aliases[i]
          BY <1>1, <2>1, <2>2, <2>3, <3>2
        <4> QED
          BY <3>1, <4>1
      <3>3. CASE ~ (i < at)
        <4>1. i - 1 \in DOMAIN list /\ list[i - 1] = aliases[i]
          <5>1. i - 1 \in 1 .. Len(aliases) - 1 /\ ~ (i - 1 < at) /\ (i - 1) + 1 = i
            BY <1>1, <2>1, <3>1, <3>3
          <5> QED
            BY <2>2, <2>3, <5>1
        <4> QED
          BY <3>1, <4>1
      <3> QED
        BY <3>2, <3>3
    <2> QED
      BY <2>2, <2>5, <2>6, <2>7 DEF OneEach, Ascends, list, table
  <1> QED
    BY <1>9, <1>10

\* What a built-in command that is run was read as.
LEMMA BuiltInRead ==
    ASSUME PipesInv, ReadAsMeant, RunBuiltIn
    PROVE  /\ Command = commands[1] /\ Argv = commands[1].argv
           /\ Argv[1] = <<"alias">> => ReadsAlias(Command)
           /\ Argv[1] = <<"unalias">> => ReadsUnalias(Command)
  <1>1. lpc = "run" /\ Argv # <<>> /\ Aliased(Argv[1]) = {}
    BY DEF RunBuiltIn
  <1>2. stage = 1 /\ Len(commands) = 1
    BY <1>1 DEF PipesInv
  <1>3. Command = commands[1] /\ Argv = commands[1].argv
    BY <1>2 DEF Command, Argv
  <1> QED
    BY <1>1, <1>2, <1>3 DEF ReadAsMeant, BeginsWithAlias

LEMMA AliasInit == LineInit => AliasInv
  <1> SUFFICES ASSUME LineInit
               PROVE  AliasInv
    OBVIOUS
  <1>1. aliases = <<>> /\ defs = <<>>
    BY Zenon DEF LineInit
  <1> QED
    BY <1>1 DEF AliasInv, OneEach, Ascends

LEMMA AliasStep == PipesInv /\ ReadAsMeant /\ AliasInv /\ [LineNext]_lineVars => AliasInv'
  <1> SUFFICES ASSUME PipesInv, ReadAsMeant, AliasInv, [LineNext]_lineVars
               PROVE  AliasInv'
    OBVIOUS
  <1>1. CASE UNCHANGED <<aliases, defs>>
    BY <1>1 DEF AliasInv
  <1>2. CASE RunBuiltIn
    <2>1. CASE Argv[1] = <<"cd">> /\ UNCHANGED <<aliases, defs>>
      BY <1>1, <2>1
    <2>2. CASE /\ Argv[1] = <<"alias">>
               /\ aliases' = IF Len(Argv) = 1 THEN aliases
                     ELSE WithAlias(NameIn(Command.cmdline), TextIn(Command.cmdline))
               /\ defs' = IF meant.op = "alias"
                     THEN [n \in DOMAIN defs \cup {meant.name} |->
                             IF n = meant.name
                             THEN [words |-> meant.words, more |-> meant.more]
                             ELSE defs[n]]
                     ELSE defs
      <3>1. ReadsAlias(Command) /\ Argv = Command.argv
        BY <1>2, <2>2, BuiltInRead DEF Argv
      <3>2. CASE Len(Argv) = 1
        BY <1>1, <2>2, <3>1, <3>2 DEF ReadsAlias
      <3>3. CASE Len(Argv) # 1
        <4> DEFINE name == meant.name
                   text == TextIn(Command.cmdline)
                   definition == [words |-> meant.words, more |-> meant.more]
        <4>1. /\ meant.op = "alias" /\ NameIn(Command.cmdline) = name
              /\ name \in Names /\ text \in Text
              /\ parser_single(text, FALSE).argv = meant.words
              /\ meant.more <=> Last(text) = " "
          BY <3>1, <3>3 DEF ReadsAlias, Names
        <4>2. StandsFor(text, definition)
          BY <4>1 DEF StandsFor
        <4>3. /\ aliases' = WithAlias(name, text)
              /\ defs' = [n \in DOMAIN defs \cup {name} |->
                             IF n = name THEN definition ELSE defs[n]]
          BY <2>2, <3>3, <4>1
        <4> HIDE DEF name, text, definition
        <4>4. OneEach(aliases', defs')
          BY <4>1, <4>2, <4>3, WithAliasIs
        <4> QED
          BY <4>4 DEF AliasInv
      <3> QED
        BY <3>2, <3>3
    <2>3. CASE /\ Argv[1] = <<"unalias">>
               /\ aliases' = WithoutAlias(Argv[2])
               /\ defs' = [n \in DOMAIN defs \ {meant.name} |-> defs[n]]
      <3>1. Argv[2] = meant.name
        BY <1>2, <2>3, BuiltInRead DEF ReadsUnalias, Argv
      <3>2. OneEach(aliases', defs')
        BY <2>3, <3>1, WithoutAliasIs
      <3> QED
        BY <3>2 DEF AliasInv
    <2> QED
      BY <1>2, <2>1, <2>2, <2>3 DEF RunBuiltIn
  <1> QED
    BY <1>1, <1>2
    DEF LineNext, NextLine, ShellStep, RunNothing, RunAlias, NotFound, StageOfBlanks,
        ForkCommand, ForkCommandFails, CloseEnds, CommandEnds, Program, Reads, SeesEnd,
        Writes, Exits, Moves, lineVars, tableVars

\* As long as the lines are read as they are meant, the list of aliases is the
\* user's definitions, in order and once each, after any definitions, changes
\* and removals.
THEOREM AliasListIsMap == LineSpec /\ []ReadAsMeant => []AliasesAreMap
  <1>1. LineSpec => []PipesInv
    BY PipesInit, PipesStep, PTL DEF LineSpec
  <1>2. LineSpec /\ []ReadAsMeant => []AliasInv
    BY <1>1, AliasInit, AliasStep, PTL DEF LineSpec
  <1> QED
    BY <1>2, OneEachIsMap, PTL
-----------------------------------------------------------------------------
(* CommandLine: the programs that a line starts.                             *)

\* What AskedBy is, command by command.
After(k, before) ==
    IF HasProgram(commands[k]) THEN Append(before, Asked(commands[k])) ELSE before
Unrolled ==
    Len(commands) \in Nat =>
        /\ AskedBy[0] = <<>>
        /\ \A k \in 1 .. Len(commands) : AskedBy[k] = After(k, AskedBy[k - 1])

\* The recursion has a solution up to each command.
LEMMA AskedByExists ==
    ASSUME Len(commands) \in Nat, NEW n \in 0 .. Len(commands)
    PROVE  \E g : g = [k \in 0 .. n |-> IF k = 0 THEN <<>> ELSE After(k, g[k - 1])]
  <1> DEFINE Solved(m, g) == g = [k \in 0 .. m |-> IF k = 0 THEN <<>> ELSE After(k, g[k - 1])]
             open == {m \in 0 .. Len(commands) : ~ \E g : Solved(m, g)}
  <1>1. SUFFICES ASSUME open # {}
                 PROVE  FALSE
    OBVIOUS
  <1>2. open \in SUBSET Nat
    OBVIOUS
  <1>3. PICK m \in open : \A k \in open : m <= k
    BY <1>1, <1>2, LeastNat
  <1>4. m # 0
    <2>1. Solved(0, [k \in 0 .. 0 |-> <<>>])
      OBVIOUS
    <2> QED
      BY <1>3, <2>1
  <1>5. m - 1 \in 0 .. Len(commands) /\ m - 1 \notin open /\ m \in Nat
    <2>1. m \in 0 .. Len(commands)
      BY <1>3
    <2>2. m \in Nat /\ m - 1 \in 0 .. Len(commands) /\ ~ (m <= m - 1)
      BY <1>4, <2>1
    <2> HIDE DEF open
    <2> QED
      BY <1>3, <2>2
  <1>6. PICK g : Solved(m - 1, g)
    BY <1>5
  <1> DEFINE h == [k \in 0 .. m |-> IF k = m THEN After(m, g[m - 1]) ELSE g[k]]
  <1>7. ASSUME NEW k \in 0 .. m
        PROVE  h[k] = IF k = 0 THEN <<>> ELSE After(k, h[k - 1])
    <2>1. CASE k = m
      <3>1. h[m] = After(m, g[m - 1]) /\ h[m - 1] = g[m - 1]
        BY <1>4, <1>5
      <3> QED
        BY <1>4, <2>1, <3>1
    <2>2. CASE k # m
      <3>1. k \in 0 .. m - 1 /\ h[k] = g[k]
        BY <1>5, <2>2
      <3>2. g[k] = IF k = 0 THEN <<>> ELSE After(k, g[k - 1])
        BY <1>6, <3>1
      <3>3. k # 0 => h[k - 1] = g[k - 1]
        BY <1>5, <2>2
      <3> QED
        BY <3>1, <3>2, <3>3
    <2> QED
      BY <2>1, <2>2
  <1>8. Solved(m, h)
    BY <1>7
  <1> QED
    BY <1>3, <1>8

LEMMA AskedByUnrolls == Unrolled
  <1> SUFFICES ASSUME Len(commands) \in Nat
               PROVE  /\ AskedBy[0] = <<>>
                      /\ \A k \in 1 .. Len(commands) : AskedBy[k] = After(k, AskedBy[k - 1])
    BY DEF Unrolled
  <1> DEFINE Solved(g) == g = [k \in 0 .. Len(commands) |->
                                 IF k = 0 THEN <<>> ELSE After(k, g[k - 1])]
  <1>1. \E g : Solved(g)
    BY AskedByExists
  <1>2. AskedBy = CHOOSE g : Solved(g)
    BY DEF AskedBy, After
  <1>3. Solved(AskedBy)
    BY <1>1, <1>2
  <1> QED
    BY <1>3

\* What a command comes to is the same as long as the aliases are.
LEMMA ComesToSame ==
    ASSUME UNCHANGED <<commands, aliases>>
    PROVE  \A c : ComesTo(c)' = ComesTo(c)
  BY DEF ComesTo, InterpretsInChild, Nothing, BeginsWithAlias, Substituted, Continues,
         Aliased, TextOf, Piped

\* The programs of the first commands are the first of the programs.
LEMMA AskedByGrows ==
    ASSUME commands \in Seq(commandT)
    PROVE  /\ \A k \in 0 .. Len(commands) : AskedBy[k] \in Seq({Asked(c) : c \in commandT})
           /\ \A k \in 0 .. Len(commands) : IsPrefix(AskedBy[k], AsRead)
  <1> DEFINE S == {Asked(c) : c \in commandT}
             n == Len(commands)
  <1>1. n \in Nat /\ \A k \in 1 .. n : commands[k] \in commandT
    OBVIOUS
  <1>2. /\ AskedBy[0] = <<>>
        /\ \A k \in 1 .. n : AskedBy[k] = After(k, AskedBy[k - 1])
    BY <1>1, AskedByUnrolls DEF Unrolled
  <1>7. \A c \in commandT : Asked(c) \in S
    OBVIOUS
  <1> HIDE DEF S
  <1>3. \A k \in 0 .. n : AskedBy[k] \in Seq(S)
    <2> DEFINE bad == {k \in 0 .. n : AskedBy[k] \notin Seq(S)}
    <2>1. SUFFICES ASSUME bad # {}
                   PROVE  FALSE
      OBVIOUS
    <2>2. bad \in SUBSET Nat
      BY <1>1
    <2>3. PICK k \in bad : \A j \in bad : k <= j
      BY <2>1, <2>2, LeastNat
    <2>4. k # 0
      <3>1. AskedBy[k] \notin Seq(S)
        BY <2>3
      <3>2. <<>> \in Seq(S)
        OBVIOUS
      <3> QED
        BY <1>2, <3>1, <3>2, Zenon
    <2>5. k \in 1 .. n /\ k - 1 \in 0 .. n /\ k - 1 \notin bad
      <3>1. k \in 0 .. n
        BY <2>3
      <3>2. k \in 1 .. n /\ k - 1 \in 0 .. n /\ ~ (k <= k - 1)
        BY <1>1, <2>4, <3>1
      <3> HIDE DEF bad
      <3> QED
        BY <2>3, <3>2
    <2>6. AskedBy[k - 1] \in Seq(S) /\ Asked(commands[k]) \in S
      BY <1>1, <1>7, <2>5
    <2>7. AskedBy[k] \in Seq(S)
      <3>1. Append(AskedBy[k - 1], Asked(commands[k])) \in Seq(S)
        BY <2>6, AppendProperties
      <3>2. AskedBy[k] = After(k, AskedBy[k - 1])
        BY <1>2, <2>5
      <3> QED
        BY <2>6, <3>1, <3>2, Zenon DEF After
    <2> QED
      BY <2>3, <2>7
  <1>4. ASSUME NEW k \in 1 .. n
        PROVE  /\ Len(AskedBy[k - 1]) <= Len(AskedBy[k])
               /\ \A j \in 1 .. Len(AskedBy[k - 1]) : AskedBy[k][j] = AskedBy[k - 1][j]
    <2>1. AskedBy[k - 1] \in Seq(S) /\ Asked(commands[k]) \in S
      BY <1>1, <1>3, <1>7
    <2>2. AskedBy[k] = After(k, AskedBy[k - 1])
      BY <1>2
    <2> QED
      BY <2>1, <2>2, AppendProperties DEF After
  <1>5. ASSUME NEW k \in 0 .. n, NEW m \in k .. n
        PROVE  /\ Len(AskedBy[k]) <= Len(AskedBy[m])
               /\ \A j \in 1 .. Len(AskedBy[k]) : AskedBy[m][j] = AskedBy[k][j]
    <2> DEFINE Grown(i) == /\ Len(AskedBy[k]) <= Len(AskedBy[i])
                           /\ \A j \in 1 .. Len(AskedBy[k]) : AskedBy[i][j] = AskedBy[k][j]
               bad == {i \in k .. n : ~ Grown(i)}
    <2>1. SUFFICES ASSUME bad # {}
                   PROVE  FALSE
      OBVIOUS
    <2>2. bad \in SUBSET Nat
      BY <1>1
    <2>3. PICK i \in bad : \A j \in bad : i <= j
      BY <2>1, <2>2, LeastNat
    <2>4. \A j \in 0 .. n : Len(AskedBy[j]) \in Nat
      BY <1>3
    <2>5. i \in k .. n /\ ~ Grown(i)
      BY <2>3
    <2>6. i # k
      BY <2>4, <2>5
    <2>7. i \in 1 .. n /\ i - 1 \in 0 .. n /\ Grown(i - 1)
      <3>1. i \in 1 .. n /\ i - 1 \in k .. n /\ i - 1 \in 0 .. n /\ ~ (i <= i - 1)
        BY <1>1, <2>5, <2>6
      <3>2. i - 1 \notin bad
        <4> HIDE DEF bad
        <4> QED
          BY <2>3, <3>1
      <3> QED
        BY <3>1, <3>2
    <2>8. /\ Len(AskedBy[i - 1]) <= Len(AskedBy[i])
          /\ \A j \in 1 .. Len(AskedBy[i - 1]) : AskedBy[i][j] = AskedBy[i - 1][j]
      BY <1>4, <2>7
    <2>9. Grown(i)
      <3>1. /\ Len(AskedBy[k]) \in Nat /\ Len(AskedBy[i - 1]) \in Nat
            /\ Len(AskedBy[i]) \in Nat
        BY <2>4, <2>7
      <3> QED
        BY <2>7, <2>8, <3>1
    <2> QED
      BY <2>5, <2>9
  <1>6. ASSUME NEW k \in 0 .. n
        PROVE  IsPrefix(AskedBy[k], AsRead)
    <2> DEFINE s == AskedBy[k]
               t == AskedBy[n]
    <2>1. s \in Seq(S) /\ t \in Seq(S)
      BY <1>1, <1>3
    <2>2. Len(s) <= Len(t) /\ \A j \in 1 .. Len(s) : t[j] = s[j]
      <3>1. n \in k .. n
        BY <1>1
      <3> QED
        BY <1>5, <3>1
    <2> HIDE DEF s, t
    <2>3. SubSeq(s, 1, Len(s)) = SubSeq(t, 1, Len(s))
      <3> DEFINE u == SubSeq(s, 1, Len(s))
                 v == SubSeq(t, 1, Len(s))
      <3>1. Len(s) \in Nat /\ \A j \in 1 .. Len(s) : s[j] \in S /\ t[j] \in S
        BY <2>1, <2>2
      <3>2. u \in Seq(S) /\ Len(u) = Len(s) /\ \A j \in 1 .. Len(s) : u[j] = s[j]
        BY <3>1, SubSeqProperties
      <3>3. v \in Seq(S) /\ Len(v) = Len(s) /\ \A j \in 1 .. Len(s) : v[j] = t[j]
        BY <3>1, SubSeqProperties
      <3> HIDE DEF u, v
      <3>4. u = v
        BY <2>2, <3>2, <3>3, SeqEqual
      <3> QED
        BY <3>4 DEF u, v
    <2> QED
      BY <2>2, <2>3 DEF IsPrefix, AsRead, s, t
  <1> QED
    BY <1>3, <1>6 DEF S

\* A prefix agrees with the sequence as far as it goes.
LEMMA PrefixElements ==
    ASSUME NEW S, NEW s \in Seq(S), NEW t \in Seq(S), IsPrefix(s, t)
    PROVE  /\ DOMAIN s \subseteq DOMAIN t
           /\ \A i \in DOMAIN s : t[i] = s[i]
  <1>1. Len(s) <= Len(t) /\ SubSeq(s, 1, Len(s)) = SubSeq(t, 1, Len(s))
    BY DEF IsPrefix
  <1>2. /\ DOMAIN s = 1 .. Len(s) /\ DOMAIN t = 1 .. Len(t)
        /\ Len(s) \in Nat /\ Len(t) \in Nat
    OBVIOUS
  <1>3. ASSUME NEW i \in 1 .. Len(s)
        PROVE  i \in 1 .. Len(t) /\ t[i] = s[i]
    <2>1. i \in 1 .. Len(t) /\ i \in Nat /\ 1 <= i
      BY <1>1, <1>2
    <2>2. /\ SubSeq(s, 1, Len(s))[i] = s[1 + i - 1]
          /\ SubSeq(t, 1, Len(s))[i] = t[1 + i - 1]
      BY <1>1, <1>2
    <2>3. 1 + i - 1 = i
      BY <2>1
    <2> QED
      BY <1>1, <2>1, <2>2, <2>3
  <1> QED
    BY <1>2, <1>3

\* Leaving things out of a sequence, and adding behind it.
LEMMA WithinItself ==
    ASSUME NEW S, NEW s \in Seq(S)
    PROVE  Within(s, s)
  <1> DEFINE f == [i \in DOMAIN s |-> i]
  <1>1. f \in [DOMAIN s -> DOMAIN s]
    OBVIOUS
  <1>2. /\ \A i, k \in DOMAIN s : i < k => f[i] < f[k]
        /\ \A i \in DOMAIN s : s[i] = s[f[i]]
    OBVIOUS
  <1> QED
    BY <1>1, <1>2 DEF Within

LEMMA WithinLonger ==
    ASSUME NEW s, NEW t, NEW u, Within(s, t),
           DOMAIN t \subseteq DOMAIN u, \A i \in DOMAIN t : u[i] = t[i]
    PROVE  Within(s, u)
  <1>1. PICK f \in [DOMAIN s -> DOMAIN t] :
           /\ \A i, k \in DOMAIN s : i < k => f[i] < f[k]
           /\ \A i \in DOMAIN s : s[i] = t[f[i]]
    BY DEF Within
  <1>2. f \in [DOMAIN s -> DOMAIN u] /\ \A i \in DOMAIN s : s[i] = u[f[i]]
    BY <1>1
  <1> QED
    BY <1>1, <1>2 DEF Within

LEMMA WithinAppend ==
    ASSUME NEW S, NEW s \in Seq(S), NEW t \in Seq(S), NEW x \in S, Within(s, t)
    PROVE  Within(s, Append(t, x)) /\ Within(Append(s, x), Append(t, x))
  <1> DEFINE u == Append(s, x)
             v == Append(t, x)
  <1>1. /\ u \in Seq(S) /\ Len(u) = Len(s) + 1 /\ u[Len(s) + 1] = x
        /\ \A i \in 1 .. Len(s) : u[i] = s[i]
    BY AppendProperties
  <1>2. /\ v \in Seq(S) /\ Len(v) = Len(t) + 1 /\ v[Len(t) + 1] = x
        /\ \A i \in 1 .. Len(t) : v[i] = t[i]
    BY AppendProperties
  <1> HIDE DEF u, v
  <1>3. /\ DOMAIN s = 1 .. Len(s) /\ DOMAIN t = 1 .. Len(t)
        /\ DOMAIN u = 1 .. Len(s) + 1 /\ DOMAIN v = 1 .. Len(t) + 1
        /\ Len(s) \in Nat /\ Len(t) \in Nat
    BY <1>1, <1>2
  <1>4. Within(s, v)
    <2>1. DOMAIN t \subseteq DOMAIN v /\ \A i \in DOMAIN t : v[i] = t[i]
      BY <1>2, <1>3
    <2> QED
      BY <2>1, WithinLonger
  <1>5. PICK f \in [DOMAIN s -> DOMAIN t] :
           /\ \A i, k \in DOMAIN s : i < k => f[i] < f[k]
           /\ \A i \in DOMAIN s : s[i] = t[f[i]]
    BY DEF Within
  <1> DEFINE g == [i \in DOMAIN u |-> IF i = Len(s) + 1 THEN Len(t) + 1 ELSE f[i]]
  <1>6. \A i \in 1 .. Len(s) : /\ f[i] \in 1 .. Len(t)
                               /\ i \in DOMAIN u /\ i # Len(s) + 1
                               /\ s[i] = t[f[i]]
    BY <1>3, <1>5
  <1>7. \A i \in DOMAIN u : i \in 1 .. Len(s) \/ i = Len(s) + 1
    BY <1>3
  <1>8. /\ \A i \in 1 .. Len(s) : g[i] = f[i]
        /\ g[Len(s) + 1] = Len(t) + 1
    BY <1>3, <1>6
  <1>9. g \in [DOMAIN u -> DOMAIN v]
    BY <1>3, <1>6, <1>7
  <1> HIDE DEF g
  <1>10. ASSUME NEW i \in DOMAIN u, NEW k \in DOMAIN u, i < k
         PROVE  g[i] < g[k]
    <2>1. i \in 1 .. Len(s)
      BY <1>3, <1>10
    <2>2. CASE k \in 1 .. Len(s)
      BY <1>3, <1>5, <1>8, <1>10, <2>1, <2>2
    <2>3. CASE k = Len(s) + 1
      BY <1>3, <1>6, <1>8, <2>1, <2>3
    <2> QED
      BY <1>7, <2>2, <2>3
  <1>11. ASSUME NEW i \in DOMAIN u
         PROVE  u[i] = v[g[i]]
    <2>1. CASE i \in 1 .. Len(s)
      <3>1. u[i] = s[i] /\ s[i] = t[f[i]] /\ f[i] \in 1 .. Len(t) /\ g[i] = f[i]
        BY <1>1, <1>6, <1>8, <2>1
      <3>2. v[f[i]] = t[f[i]]
        BY <1>2, <3>1
      <3> QED
        BY <3>1, <3>2
    <2>2. CASE i = Len(s) + 1
      BY <1>1, <1>2, <1>8, <2>2
    <2> QED
      BY <1>7, <2>1, <2>2
  <1>12. Within(u, v)
    BY <1>9, <1>10, <1>11 DEF Within
  <1> QED
    BY <1>4, <1>12 DEF u, v

\* What has been started when k commands are behind the shell.
Askable == {Asked(c) : c \in commandT}
SoFar(k) ==
    /\ ran \in Seq(Askable)
    /\ Within(ran, AskedBy[k])
    /\ "not run" \notin broken => ran = AskedBy[k]

\* What has been started, wherever the shell is in a line; and where cd went.
RanInv ==
    /\ lpc = "run" => ran = <<>>
    /\ lpc = "stage" => Piped /\ stage \in 1 .. Len(commands) /\ SoFar(stage - 1)
    /\ lpc \in {"started", "wait"} => stage \in 1 .. Len(commands) /\ SoFar(stage)
    /\ lpc \in {"prompt", "crashed"} => \E k \in 0 .. Len(commands) : SoFar(k)
    /\ lpc = "prompt" /\ broken = {} => ran = AsRead
    /\ lpc \in {"stage", "started", "wait"} => meant.op # "cd"
    /\ lpc = "prompt" /\ meant.op = "cd" => cwd = meant.dir

LEMMA RanIsMeant == PipesInv /\ ReadAsMeant /\ RanInv => RunsAsMeant
  <1> SUFFICES ASSUME PipesInv, ReadAsMeant, RanInv
               PROVE  RunsAsMeant
    OBVIOUS
  <1>1. commands \in Seq(commandT) /\ Len(commands) \in Nat
    BY DEF ReadAsMeant
  <1>2. AskedBy[0] = <<>>
    BY <1>1, AskedByUnrolls DEF Unrolled
  <1>3. lpc = "run" \/ Unsupported \/ AsRead = Meant
    BY DEF ReadAsMeant
  <1>4. ASSUME ran # <<>>, ~Unsupported
        PROVE  /\ Within(ran, Meant)
               /\ "not run" \notin broken => IsPrefix(ran, Meant)
    <2>1. lpc # "run"
      BY <1>4 DEF RanInv
    <2>2. PICK k \in 0 .. Len(commands) : SoFar(k)
      <3>1. CASE lpc \in {"prompt", "crashed"}
        BY <3>1 DEF RanInv
      <3>2. CASE lpc = "stage"
        <4>1. stage - 1 \in 0 .. Len(commands)
          BY <1>1, <3>2 DEF RanInv
        <4> QED
          BY <3>2, <4>1 DEF RanInv
      <3>3. CASE lpc \in {"started", "wait"}
        <4>1. stage \in 0 .. Len(commands)
          <5>1. stage \in 1 .. Len(commands)
            BY <3>3, Zenon DEF RanInv
          <5> QED
            BY <1>1, <5>1
        <4> QED
          BY <3>3, <4>1 DEF RanInv
      <3> QED
        BY <2>1, <3>1, <3>2, <3>3 DEF PipesInv
    <2>3. IsPrefix(AskedBy[k], AsRead) /\ AsRead = Meant
      BY <1>1, <1>3, <1>4, <2>1, AskedByGrows
    <2>4. Within(ran, AsRead)
      <3>1. Len(commands) \in 0 .. Len(commands)
        BY <1>1
      <3>2. AskedBy[k] \in Seq(Askable) /\ AsRead \in Seq(Askable)
        BY <1>1, <3>1, AskedByGrows DEF AsRead, Askable
      <3>3. /\ DOMAIN AskedBy[k] \subseteq DOMAIN AsRead
            /\ \A i \in DOMAIN AskedBy[k] : AsRead[i] = AskedBy[k][i]
        BY <2>3, <3>2, PrefixElements
      <3> QED
        BY <2>2, <3>3, WithinLonger DEF SoFar
    <2> QED
      BY <2>2, <2>3, <2>4 DEF SoFar
  <1>5. lpc = "prompt" /\ broken = {} /\ ~Unsupported => ran = Meant
    BY <1>3 DEF RanInv
  <1> QED
    BY <1>4, <1>5 DEF RunsAsMeant, RanInv

\* Nothing of a line has run.
LEMMA NothingSoFar == ran = <<>> /\ AskedBy[0] = <<>> => SoFar(0)
  <1>1. <<>> \in Seq(Askable)
    OBVIOUS
  <1>2. Within(<<>>, <<>>)
    BY <1>1, WithinItself
  <1> QED
    BY <1>1, <1>2 DEF SoFar

LEMMA RanInit == LineInit => RanInv
  <1> SUFFICES ASSUME LineInit
               PROVE  RanInv
    OBVIOUS
  <1>1. /\ lpc = "prompt" /\ commands = <<>> /\ ran = <<>>
        /\ meant = [op |-> "none"] /\ broken = {}
    BY Zenon DEF LineInit
  <1>2. Len(commands) = 0 /\ 0 \in 0 .. Len(commands)
    BY <1>1
  <1>3. AskedBy[0] = <<>>
    BY <1>2, AskedByUnrolls DEF Unrolled
  <1>4. ran = AskedBy[0] /\ AsRead = AskedBy[0] /\ meant.op = "none"
    BY <1>1, <1>2, <1>3 DEF AsRead
  <1>5. SoFar(0)
    BY <1>1, <1>4, NothingSoFar
  <1> QED
    BY <1>1, <1>2, <1>4, <1>5 DEF RanInv

\* The programs asked for are the same as long as commands and aliases are.
LEMMA AskableSame ==
    ASSUME UNCHANGED <<commands, aliases>>
    PROVE  /\ \A c : HasProgram(c)' = HasProgram(c) /\ Asked(c)' = Asked(c)
           /\ Askable' = Askable
  <1>1. \A c : ComesTo(c)' = ComesTo(c)
    BY ComesToSame
  <1>2. \A c : IsExternal(c)' = IsExternal(c)
    BY DEF IsExternal, IsBuiltIn, Aliased
  <1>3. \A c : HasProgram(c)' = HasProgram(c)
    BY <1>1, <1>2 DEF HasProgram
  <1>4. \A c : Asked(c)' = Asked(c)
    BY <1>1, <1>2 DEF Asked, AskedAs, Piped
  <1> QED
    BY <1>3, <1>4 DEF Askable

LEMMA AskedBySame ==
    ASSUME Len(commands) \in Nat, UNCHANGED <<commands, aliases>>
    PROVE  \A k \in 0 .. Len(commands) : AskedBy'[k] = AskedBy[k]
  <1> DEFINE n == Len(commands)
             bad == {k \in 0 .. n : AskedBy'[k] # AskedBy[k]}
  <1>1. Unrolled /\ Unrolled'
    BY AskedByUnrolls, PTL
  <1>2. \A k, before : After(k, before)' = After(k, before)
    BY AskableSame DEF After
  <1>3. /\ AskedBy[0] = <<>> /\ AskedBy'[0] = <<>>
        /\ \A k \in 1 .. n : /\ AskedBy[k] = After(k, AskedBy[k - 1])
                             /\ AskedBy'[k] = After(k, AskedBy[k - 1])'
    BY <1>1 DEF Unrolled
  <1>4. \A k \in 1 .. n : AskedBy'[k] = After(k, AskedBy'[k - 1])
    BY <1>2, <1>3
  <1>5. SUFFICES ASSUME bad # {}
                 PROVE  FALSE
    OBVIOUS
  <1>6. bad \in SUBSET Nat
    OBVIOUS
  <1>7. PICK k \in bad : \A j \in bad : k <= j
    BY <1>5, <1>6, LeastNat
  <1>8. k # 0
    BY <1>3, <1>7
  <1>9. k \in 1 .. n /\ k - 1 \in 0 .. n /\ k - 1 \notin bad
    <2>1. k \in 0 .. n
      BY <1>7
    <2>2. k \in 1 .. n /\ k - 1 \in 0 .. n /\ ~ (k <= k - 1)
      BY <1>8, <2>1
    <2> HIDE DEF bad
    <2> QED
      BY <1>7, <2>2
  <1>10. AskedBy'[k - 1] = AskedBy[k - 1]
    BY <1>9
  <1> QED
    BY <1>3, <1>4, <1>7, <1>9, <1>10

\* Interpret starts a line of which nothing has run.
LEMMA InterpretsRan ==
    ASSUME NEW text, Interprets(text), ReadAsMeant', ran' = <<>>
    PROVE  RanInv'
  <1>1. PICK cmds \in {Interpret[text]} :
           /\ commands' = cmds /\ stage' = 1
           /\ \/ Len(cmds) = 0 /\ lpc' = "prompt"
              \/ Len(cmds) = 1 /\ lpc' = "run"
              \/ Len(cmds) > 1 /\ lpc' = "stage"
    BY Zenon DEF Interprets
  <1>2. Len(commands') \in Nat
    BY DEF ReadAsMeant
  <1>3. AskedBy'[0] = <<>>
    <2>1. Unrolled'
      BY AskedByUnrolls, PTL
    <2> QED
      BY <1>2, <2>1 DEF Unrolled
  <1>8. SoFar(0)'
    <2>1. (ran = <<>> /\ AskedBy[0] = <<>> => SoFar(0))'
      BY NothingSoFar, PTL
    <2> QED
      BY <1>3, <2>1
  <1>4. lpc' # "run" /\ meant'.op = "cd" => Len(commands') = 1
    BY DEF ReadAsMeant, ReadsCd
  <1>5. CASE Len(cmds) = 0 /\ lpc' = "prompt"
    <2>1. AsRead' = <<>> /\ 0 \in 0 .. Len(commands')
      BY <1>1, <1>3, <1>5 DEF AsRead
    <2>2. meant'.op # "cd"
      BY <1>1, <1>4, <1>5
    <2> QED
      BY <1>5, <1>8, <2>1, <2>2 DEF RanInv
  <1>6. CASE Len(cmds) = 1 /\ lpc' = "run"
    BY <1>6 DEF RanInv
  <1>7. CASE Len(cmds) > 1 /\ lpc' = "stage"
    <2>1. /\ Len(commands') > 1 /\ Piped' /\ stage' \in 1 .. Len(commands')
          /\ SoFar(stage - 1)'
      <3>1. stage' - 1 = 0 /\ Len(commands') > 1
        BY <1>1, <1>7
      <3> QED
        BY <1>1, <1>2, <1>8, <3>1 DEF Piped
    <2>2. meant'.op # "cd"
      <3>1. Len(commands') = 1 => ~ (Len(commands') > 1)
        OBVIOUS
      <3> QED
        BY <1>4, <1>7, <2>1, <3>1, Zenon
    <2> QED
      BY <1>7, <2>1, <2>2 DEF RanInv
  <1> QED
    BY <1>1, <1>5, <1>6, <1>7

LEMMA RanStep ==
    PipesInv /\ ReadAsMeant /\ ReadAsMeant' /\ RanInv /\ [LineNext]_lineVars => RanInv'
  <1> SUFFICES ASSUME PipesInv, ReadAsMeant, ReadAsMeant', RanInv, [LineNext]_lineVars
               PROVE  RanInv'
    OBVIOUS
  <1> DEFINE n == Len(commands)
  <1>1. commands \in Seq(commandT) /\ n \in Nat
    BY DEF ReadAsMeant
  <1>2. /\ AskedBy[0] = <<>>
        /\ \A k \in 1 .. n : AskedBy[k] = After(k, AskedBy[k - 1])
    BY <1>1, AskedByUnrolls DEF Unrolled
  <1>3. ASSUME UNCHANGED <<commands, aliases>>
        PROVE  /\ \A k \in 0 .. n : AskedBy'[k] = AskedBy[k]
               /\ AsRead' = AskedBy[n] /\ Len(commands') = n /\ Piped' = Piped
               /\ Askable' = Askable
    <2>1. \A k \in 0 .. n : AskedBy'[k] = AskedBy[k]
      BY <1>1, <1>3, AskedBySame
    <2>2. AsRead' = AskedBy'[n]
      BY <1>3 DEF AsRead
    <2>3. Askable' = Askable
      BY <1>3, AskableSame
    <2> QED
      BY <1>1, <1>3, <2>1, <2>2, <2>3 DEF Piped
  <1>17. ASSUME UNCHANGED <<commands, aliases, ran>>, NEW k \in 0 .. n, SoFar(k),
                "not run" \in broken => "not run" \in broken'
         PROVE  SoFar(k)'
    <2>1. /\ ran \in Seq(Askable) /\ Within(ran, AskedBy[k])
          /\ "not run" \notin broken => ran = AskedBy[k]
      BY <1>17 DEF SoFar
    <2>2. ran' = ran /\ Askable' = Askable /\ AskedBy'[k] = AskedBy[k]
      BY <1>3, <1>17
    <2>3. Within(ran', AskedBy'[k])
      BY <2>1, <2>2
    <2> QED
      BY <1>17, <2>1, <2>2, <2>3 DEF SoFar, Within
  <1>18. n \in 0 .. n /\ 0 \in 0 .. n
    BY <1>1
  <1>4. lpc = "run" => stage = 1 /\ n = 1 /\ ran = <<>> /\ ~Piped /\ Command = commands[1]
    <2> SUFFICES ASSUME lpc = "run"
                 PROVE  stage = 1 /\ n = 1 /\ ran = <<>> /\ ~Piped /\ Command = commands[1]
      OBVIOUS
    <2>1. stage = 1 /\ n = 1
      BY Zenon DEF PipesInv
    <2>2. ran = <<>>
      BY Zenon DEF RanInv
    <2>3. ~Piped
      BY <2>1 DEF Piped
    <2> QED
      BY <2>1, <2>2, <2>3 DEF Command
  <1>16. \A k \in 1 .. n : k \in 0 .. n /\ k - 1 \in 0 .. n
    <2>1. n \in Nat
      BY <1>1
    <2> QED
      BY <2>1
  <1>5. CASE NextLine
    BY <1>5, InterpretsRan DEF NextLine
  <1>6. CASE RunNothing
    <2>1. lpc = "run" /\ lpc' = "prompt" /\ ran' = <<>> /\ ~HasProgram(commands[1])
      BY <1>4, <1>6 DEF RunNothing, HasProgram, ComesTo, IsExternal, Argv
    <2>2. UNCHANGED <<commands, aliases, meant>>
      BY <1>6 DEF RunNothing, typedVars, tableVars
    <2>3. AskedBy[1] = <<>> /\ n = 1
      BY <1>2, <1>4, <2>1 DEF After
    <2>4. AsRead' = <<>> /\ AskedBy'[0] = <<>> /\ 0 \in 0 .. Len(commands')
      BY <1>2, <1>3, <1>18, <2>1, <2>2, <2>3
    <2>6. SoFar(0)'
      <3>1. (ran = <<>> /\ AskedBy[0] = <<>> => SoFar(0))'
        BY NothingSoFar, PTL
      <3> QED
        BY <2>1, <2>4, <3>1
    <2>5. meant'.op # "cd"
      BY <1>4, <1>6, <2>1, <2>2 DEF ReadAsMeant, ReadsCd, RunNothing, Argv
    <2> QED
      BY <2>1, <2>4, <2>5, <2>6 DEF RanInv
  <1>7. CASE RunAlias
    BY <1>4, <1>7, InterpretsRan DEF RunAlias
  <1>8. CASE RunBuiltIn
    <2>1. /\ lpc = "run" /\ lpc' = "prompt" /\ ran' = <<>>
          /\ commands' = commands /\ meant' = meant
          /\ Argv[1] \in BuiltIns /\ Argv = commands[1].argv /\ n = 1
      BY <1>4, <1>8 DEF RunBuiltIn, typedVars, Argv
    <2>2. AskedBy'[0] = <<>> /\ AskedBy'[1] = <<>>
      <3>1. Unrolled'
        BY AskedByUnrolls, PTL
      <3>2. ~HasProgram(commands[1])'
        BY <2>1 DEF HasProgram, ComesTo, Piped, IsExternal, IsBuiltIn
      <3>3. AskedBy'[0] = <<>> /\ AskedBy'[1] = After(1, AskedBy[1 - 1])'
        BY <2>1, <3>1 DEF Unrolled
      <3> QED
        BY <3>2, <3>3 DEF After
    <2>3. AsRead' = <<>> /\ 0 \in 0 .. Len(commands')
      BY <2>1, <2>2 DEF AsRead
    <2>5. SoFar(0)'
      <3>1. (ran = <<>> /\ AskedBy[0] = <<>> => SoFar(0))'
        BY NothingSoFar, PTL
      <3> QED
        BY <2>1, <2>2, <3>1
    <2>4. meant.op = "cd" => cwd' = meant.dir
      <3> SUFFICES ASSUME meant.op = "cd"
                   PROVE  cwd' = meant.dir
        OBVIOUS
      <3>1. ReadsCd(Argv)
        BY <2>1, <1>4, <1>8 DEF ReadAsMeant, RunBuiltIn, BeginsWithAlias, Argv
      <3>2. Argv[1] = <<"cd">> /\ <<"cd">> # <<"alias">> /\ <<"cd">> # <<"unalias">>
        BY <3>1 DEF ReadsCd
      <3>3. LET to == IF Len(Argv) > 1 THEN Argv[2] ELSE Home
            IN  cwd' = IF to \in Dirs THEN to ELSE cwd
        BY <1>8, <3>2, Zenon DEF RunBuiltIn
      <3> QED
        BY <3>1, <3>3 DEF ReadsCd
    <2> QED
      BY <2>1, <2>3, <2>4, <2>5 DEF RanInv
  <1>9. CASE NotFound
    <2>1. /\ lpc' = "prompt" /\ broken' # {} /\ ran' = ran /\ lpc \in {"run", "stage"}
          /\ UNCHANGED <<commands, aliases, meant>>
          /\ "not run" \in broken => "not run" \in broken'
      BY <1>9 DEF NotFound, typedVars, tableVars
    <2>2. \E k \in 0 .. n : SoFar(k)
      <3>1. CASE lpc = "run"
        BY <1>2, <1>4, <1>18, <3>1, NothingSoFar
      <3>2. CASE lpc = "stage"
        <4>1. stage - 1 \in 0 .. n
          BY <1>1, <3>2 DEF RanInv
        <4> QED
          BY <3>2, <4>1 DEF RanInv
      <3> QED
        BY <2>1, <3>1, <3>2
    <2>3. meant.op # "cd"
      BY <1>4, <1>9, <2>1 DEF RanInv, ReadAsMeant, ReadsCd, NotFound, External,
                              IsExternal, IsBuiltIn, BuiltIns, Argv, BeginsWithAlias
    <2>4. \E k \in 0 .. n : SoFar(k)'
      BY <1>17, <2>1, <2>2
    <2> QED
      BY <1>3, <2>1, <2>3, <2>4 DEF RanInv
  <1>10. Starts =>
            /\ stage \in 1 .. n /\ stage - 1 \in 0 .. n
            /\ Command = commands[stage] /\ SoFar(stage - 1)
            /\ meant.op # "cd" /\ (Piped \/ lpc = "run")
    <2>1. ASSUME Starts, lpc = "run"
          PROVE  meant.op # "cd"
      <3>1. ~IsBuiltIn(Argv[1]) /\ Argv = commands[1].argv /\ Argv # <<>>
        BY <1>4, <2>1 DEF Starts, External, IsExternal, Argv
      <3>2. Argv[1] # <<"cd">> /\ Aliased(Argv[1]) = {}
        BY <3>1 DEF IsBuiltIn, BuiltIns
      <3> QED
        BY <2>1, <3>1, <3>2 DEF ReadAsMeant, ReadsCd, BeginsWithAlias, Argv
    <2>2. CASE lpc = "run"
      <3>1. SoFar(0) /\ stage - 1 = 0
        BY <1>2, <1>4, <2>2, NothingSoFar
      <3> QED
        BY <1>1, <1>4, <2>1, <2>2, <3>1
    <2>3. CASE lpc = "stage"
      <3>1. stage \in 1 .. n /\ SoFar(stage - 1) /\ Piped /\ meant.op # "cd"
        BY <2>3, Zenon DEF RanInv
      <3> QED
        BY <1>1, <3>1 DEF Command
    <2> QED
      BY <2>2, <2>3 DEF Starts
  <1>11. CASE ForkCommand
    <2>1. /\ UNCHANGED <<commands, aliases, meant, stage>>
          /\ Starts
      BY <1>11 DEF ForkCommand, typedVars, tableVars
    <2>2. /\ stage \in 1 .. n /\ stage \in 0 .. n /\ stage - 1 \in 0 .. n
          /\ Command = commands[stage] /\ Command \in commandT /\ Asked(Command) \in Askable
      BY <1>1, <1>10, <1>16, <2>1 DEF Askable
    <2>3. /\ ran \in Seq(Askable) /\ Within(ran, AskedBy[stage - 1])
          /\ "not run" \notin broken => ran = AskedBy[stage - 1]
      BY <1>10, <2>1 DEF SoFar
    <2>4. AskedBy[stage - 1] \in Seq(Askable)
      BY <1>1, <2>2, AskedByGrows DEF Askable
    <2>5. AskedBy[stage] = IF HasProgram(Command)
                           THEN Append(AskedBy[stage - 1], Asked(Command)) ELSE AskedBy[stage - 1]
      BY <1>2, <2>2 DEF After
    <2>6. PICK runs \in {Executes, Executes /\ External} :
             /\ ran' = IF runs THEN Append(ran, Asked(Command)) ELSE ran
             /\ broken' = IF runs \/ ~HasProgram(Command) THEN broken ELSE broken \cup {"not run"}
      BY <1>11, Zenon DEF ForkCommand
    <2>7. runs => HasProgram(Command)
      BY <2>6 DEF Executes
    <2>8. /\ ran' \in Seq(Askable) /\ Within(ran', AskedBy[stage])
          /\ "not run" \notin broken' => ran' = AskedBy[stage]
      <3>1. CASE runs
        <4>1. ran' = Append(ran, Asked(Command)) /\ broken' = broken
          BY <2>6, <3>1
        <4>2. AskedBy[stage] = Append(AskedBy[stage - 1], Asked(Command))
          BY <2>5, <2>7, <3>1
        <4>3. Append(ran, Asked(Command)) \in Seq(Askable)
          BY <2>2, <2>3, AppendProperties
        <4>4. Within(Append(ran, Asked(Command)), Append(AskedBy[stage - 1], Asked(Command)))
          BY <2>2, <2>3, <2>4, WithinAppend
        <4> QED
          BY <2>3, <4>1, <4>2, <4>3, <4>4
      <3>2. CASE ~runs /\ ~HasProgram(Command)
        BY <2>3, <2>5, <2>6, <3>2
      <3>3. CASE ~runs /\ HasProgram(Command)
        <4>1. ran' = ran /\ "not run" \in broken'
          BY <2>6, <3>3
        <4>2. Within(ran, Append(AskedBy[stage - 1], Asked(Command)))
          BY <2>2, <2>3, <2>4, WithinAppend
        <4> QED
          BY <2>3, <2>5, <3>3, <4>1, <4>2
      <3> QED
        BY <3>1, <3>2, <3>3
    <2>9. SoFar(stage)' \/ stage' # stage
      <3>1. Askable' = Askable /\ AskedBy'[stage] = AskedBy[stage]
        BY <1>3, <2>1, <2>2
      <3> QED
        BY <2>1, <2>8, <3>1 DEF SoFar, Within
    <2>10. stage' = stage /\ Len(commands') = n /\ meant' = meant /\ Piped' = Piped
      BY <1>3, <2>1
    <2>11. CASE Command.bg /\ ~Piped /\ lpc' = "prompt"
      <3>1. stage = n
        BY <1>4, <1>10, <2>1, <2>11
      <3>2. broken' = {} => ran' = AsRead'
        BY <1>3, <2>1, <2>8, <3>1
      <3>3. \E k \in 0 .. Len(commands') : SoFar(k)'
        BY <2>2, <2>9, <2>10
      <3> QED
        BY <1>10, <2>1, <2>10, <2>11, <3>2, <3>3 DEF RanInv
    <2>12. CASE lpc' = "started"
      <3>1. stage' \in 1 .. Len(commands')
        BY <2>2, <2>10
      <3>2. SoFar(stage)' /\ meant'.op # "cd"
        BY <1>10, <2>1, <2>9, <2>10
      <3> QED
        BY <2>12, <3>1, <3>2 DEF RanInv
    <2>13. lpc' = "started" \/ (Command.bg /\ ~Piped /\ lpc' = "prompt")
      BY <1>11, Zenon DEF ForkCommand
    <2> QED
      BY <2>11, <2>12, <2>13
  <1>12. CASE ForkCommandFails \/ StageOfBlanks
    <2>1. /\ UNCHANGED <<commands, aliases, meant, ran>>
          /\ \/ lpc' = "prompt" /\ broken' # {} /\ Starts
             \/ lpc' = "crashed" /\ lpc = "stage"
          /\ "not run" \in broken => "not run" \in broken'
      BY <1>12 DEF ForkCommandFails, StageOfBlanks, typedVars, tableVars
    <2>2. stage - 1 \in 0 .. n /\ SoFar(stage - 1) /\ meant.op # "cd"
      <3>1. CASE Starts
        BY <1>10, <3>1
      <3>2. CASE lpc = "stage"
        <4>1. stage \in 1 .. n /\ SoFar(stage - 1) /\ meant.op # "cd"
          BY <3>2, Zenon DEF RanInv
        <4> QED
          BY <1>16, <4>1
      <3> QED
        BY <2>1, <3>1, <3>2
    <2>3. \E k \in 0 .. n : SoFar(k)'
      BY <1>17, <2>1, <2>2
    <2>4. Len(commands') = n /\ lpc' \in {"prompt", "crashed"} /\ (lpc' = "prompt" => broken' # {})
      BY <2>1
    <2> QED
      BY <2>1, <2>2, <2>3, <2>4 DEF RanInv
  <1>13. CASE CloseEnds
    <2>1. /\ UNCHANGED <<commands, aliases, meant, ran, stage, broken>>
          /\ lpc = "started" /\ lpc' = "wait"
      BY <1>13 DEF CloseEnds, typedVars, tableVars
    <2>2. stage \in 1 .. n /\ SoFar(stage) /\ meant.op # "cd"
      BY <2>1, Zenon DEF RanInv
    <2>3. \A k \in 0 .. n : SoFar(k) => (SoFar(k)' /\ AskedBy'[k] = AskedBy[k])
      BY <1>3, <1>17, <2>1
    <2>4. SoFar(stage)'
      BY <1>16, <2>1, <2>2, <2>3 DEF SoFar
    <2>5. stage' \in 1 .. Len(commands') /\ meant'.op # "cd"
      BY <2>1, <2>2
    <2> QED
      BY <2>1, <2>4, <2>5 DEF RanInv
  <1>14. CASE CommandEnds
    <2>1. UNCHANGED <<commands, aliases, meant, ran, broken>> /\ lpc = "wait"
      BY <1>14 DEF CommandEnds, typedVars, tableVars
    <2>2. stage \in 1 .. n /\ stage \in 0 .. n /\ SoFar(stage) /\ meant.op # "cd"
      <3>1. stage \in 1 .. n /\ SoFar(stage) /\ meant.op # "cd"
        BY <2>1, Zenon DEF RanInv
      <3> QED
        BY <1>16, <3>1
    <2>5. Len(commands') = n /\ Piped' = Piped
      BY <1>3, <2>1
    <2>6. \A k \in 0 .. n : SoFar(k) => SoFar(k)'
      BY <1>17, <2>1
    <2>3. CASE Final /\ lpc' = "prompt" /\ stage' = stage
      <3>1. stage = n
        BY <2>3 DEF Final
      <3>2. broken' = {} => ran' = AsRead'
        BY <1>3, <2>1, <2>2, <3>1 DEF SoFar
      <3>3. \E k \in 0 .. Len(commands') : SoFar(k)'
        BY <1>17, <2>1, <2>2, <2>5
      <3> QED
        BY <2>1, <2>2, <2>3, <3>2, <3>3 DEF RanInv
    <2>4. CASE ~Final /\ lpc' = "stage" /\ stage' = stage + 1
      <3>1. stage' \in 1 .. n /\ stage' - 1 = stage /\ n > 1
        <4>1. stage \in 1 .. n /\ n \in Nat /\ stage # n /\ stage' = stage + 1
          BY <1>1, <2>2, <2>4 DEF Final
        <4> QED
          BY <4>1
      <3>2. Piped
        BY <3>1 DEF Piped
      <3>3. SoFar(stage - 1)'
        <4>1. \A k \in 0 .. n : SoFar(k) => (SoFar(k)' /\ AskedBy'[k] = AskedBy[k])
          BY <1>3, <2>1, <2>6
        <4>2. SoFar(stage)' \/ stage' # stage
          BY <2>2, <4>1
        <4>3. /\ ran \in Seq(Askable) /\ Within(ran, AskedBy[stage])
              /\ "not run" \notin broken => ran = AskedBy[stage]
          BY <2>2 DEF SoFar
        <4>4. /\ ran' = ran /\ broken' = broken /\ Askable' = Askable
              /\ AskedBy'[stage' - 1] = AskedBy[stage]
          BY <1>3, <2>1, <2>2, <3>1
        <4>5. Within(ran', AskedBy'[stage' - 1])
          BY <4>3, <4>4
        <4> QED
          BY <4>3, <4>4, <4>5 DEF SoFar, Within
      <3> QED
        BY <2>1, <2>2, <2>4, <2>5, <3>1, <3>2, <3>3 DEF RanInv
    <2> QED
      BY <1>14, <2>3, <2>4 DEF CommandEnds
  <1>15. CASE Program \/ UNCHANGED lineVars
    <2>1. UNCHANGED <<lpc, commands, aliases, meant, ran, stage, broken, cwd>>
      BY <1>15 DEF Program, Reads, SeesEnd, Writes, Exits, Moves, lineVars, typedVars, tableVars
    <2>2. \A k \in 0 .. n : SoFar(k) => (SoFar(k)' /\ AskedBy'[k] = AskedBy[k])
      BY <1>3, <1>17, <2>1
    <2>3. stage \in 1 .. n => /\ SoFar(stage - 1) => SoFar(stage - 1)'
                              /\ SoFar(stage) => SoFar(stage)'
      BY <1>16, <2>1, <2>2 DEF SoFar
    <2>4. AsRead' = AsRead /\ Len(commands') = n /\ Piped' = Piped
      BY <1>3, <2>1 DEF AsRead
    <2> QED
      BY <2>1, <2>2, <2>3, <2>4 DEF RanInv
  <1> QED
    BY <1>5, <1>6, <1>7, <1>8, <1>9, <1>11, <1>12, <1>13, <1>14, <1>15
    DEF LineNext, ShellStep

\* As long as the lines are read as they are meant, what runs is what is meant,
\* in order, whichever fork fails and whatever is not found; a child that does
\* not come to its execv is left out; and cd goes where it should.  (Lines that
\* are Unsupported are excepted by both sides.)
THEOREM LinesRunAsMeant == LineSpec /\ []ReadAsMeant => []RunsAsMeant
  <1>1. LineSpec => []PipesInv
    BY PipesInit, PipesStep, PTL DEF LineSpec
  <1>2. LineSpec /\ []ReadAsMeant => []RanInv
    BY <1>1, RanInit, RanStep, PTL DEF LineSpec
  <1> QED
    BY <1>1, <1>2, RanIsMeant, PTL

-----------------------------------------------------------------------------
(* How a line of words is read.                                              *)

\* A least place is known by what it is.
LEMMA LeastEq ==
    ASSUME NEW S \in SUBSET Nat, NEW n \in S, \A k \in S : n <= k
    PROVE  Least(S) = n
  <1>1. Least(S) \in S /\ \A k \in S : Least(S) <= k
    BY LeastIs
  <1>2. Least(S) \in Nat /\ n \in Nat /\ Least(S) <= n /\ n <= Least(S)
    BY <1>1
  <1> HIDE <1>1
  <1> QED
    BY <1>2

\* A text is a sequence.
LEMMA TextIs ==
    ASSUME NEW text \in Text
    PROVE  /\ Len(text) \in Nat /\ DOMAIN text = 1 .. Len(text)
           /\ \A i \in 1 .. Len(text) : text[i] \in STRING
  BY DEF Text

\* What is left of a text from a place on.
LEMMA RestIs ==
    ASSUME NEW text \in Text, NEW a \in Nat, a >= 1
    PROVE  /\ Rest(text, a) \in Text
           /\ Len(Rest(text, a)) = IF a <= Len(text) THEN Len(text) - a + 1 ELSE 0
           /\ \A i \in 1 .. Len(text) - a + 1 : Rest(text, a)[i] = text[a + i - 1]
  <1>1. text \in Seq(STRING) /\ Len(text) \in Nat
    BY DEF Text
  <1>2. \A i \in a .. Len(text) : text[i] \in STRING
    BY <1>1
  <1> QED
    BY <1>1, <1>2, SubSeqProperties DEF Rest, Text

LEMMA RestRest ==
    ASSUME NEW text \in Text, NEW a \in Nat, a >= 1, NEW b \in Nat, b >= 1
    PROVE  Rest(Rest(text, a), b) = Rest(text, a + b - 1)
  <1> DEFINE s == Rest(text, a)
             t == Rest(s, b)
             u == Rest(text, a + b - 1)
  <1>1. Len(text) \in Nat
    BY TextIs
  <1>2. /\ s \in Text
        /\ Len(s) = IF a <= Len(text) THEN Len(text) - a + 1 ELSE 0
        /\ \A i \in 1 .. Len(text) - a + 1 : s[i] = text[a + i - 1]
    BY RestIs
  <1> HIDE DEF s
  <1>3. /\ t \in Text
        /\ Len(t) = IF b <= Len(s) THEN Len(s) - b + 1 ELSE 0
        /\ \A i \in 1 .. Len(s) - b + 1 : t[i] = s[b + i - 1]
    BY <1>2, RestIs
  <1>4. /\ u \in Text
        /\ Len(u) = IF a + b - 1 <= Len(text) THEN Len(text) - (a + b - 1) + 1 ELSE 0
        /\ \A i \in 1 .. Len(text) - (a + b - 1) + 1 : u[i] = text[(a + b - 1) + i - 1]
    <2>1. a + b - 1 \in Nat /\ a + b - 1 >= 1
      OBVIOUS
    <2> QED
      BY <2>1, RestIs
  <1> HIDE DEF t, u
  <1>5. Len(t) = Len(u)
    BY <1>1, <1>2, <1>3, <1>4
  <1>6. ASSUME NEW i \in 1 .. Len(t)
        PROVE  t[i] = u[i]
    <2>1. /\ i \in 1 .. Len(s) - b + 1 /\ b + i - 1 \in 1 .. Len(text) - a + 1
          /\ i \in 1 .. Len(text) - (a + b - 1) + 1
          /\ a + (b + i - 1) - 1 = (a + b - 1) + i - 1
      BY <1>1, <1>2, <1>3
    <2> QED
      BY <1>2, <1>3, <1>4, <2>1
  <1>7. t = u
    BY <1>3, <1>4, <1>5, <1>6, SeqEqual DEF Text
  <1> QED
    BY <1>7 DEF s, t, u

\* DropBlanks stops at the first symbol that is no blank.
LEMMA DropBlanksIs ==
    ASSUME NEW text \in Text, NEW i \in 1 .. Len(text) + 1,
           \A k \in 1 .. i - 1 : text[k] = Blank,
           i <= Len(text) => text[i] # Blank
    PROVE  DropBlanks[text] = Rest(text, i)
  <1> DEFINE S == {k \in DOMAIN text : text[k] # Blank} \cup {Len(text) + 1}
  <1>1. Len(text) \in Nat /\ DOMAIN text = 1 .. Len(text)
    BY TextIs
  <1>2. DropBlanks[text] = Rest(text, Least(S))
    BY DEF DropBlanks
  <1>3. S \subseteq Nat /\ i \in S /\ \A k \in S : i <= k
    <2>1. i \in S
      BY <1>1
    <2>2. \A k \in S : i <= k
      BY <1>1
    <2> QED
      BY <1>1, <2>1, <2>2
  <1> HIDE DEF S
  <1>4. Least(S) = i
    BY <1>3, LeastEq
  <1> QED
    BY <1>2, <1>4

LEMMA DropBlanksRest ==
    ASSUME NEW text \in Text, NEW a \in Nat, a >= 1, NEW b \in a .. Len(text) + 1,
           \A k \in a .. b - 1 : text[k] = Blank,
           b <= Len(text) => text[b] # Blank
    PROVE  DropBlanks[Rest(text, a)] = Rest(text, b)
  <1> DEFINE s == Rest(text, a)
             i == b - a + 1
  <1>1. Len(text) \in Nat
    BY TextIs
  <1>2. /\ s \in Text
        /\ Len(s) = IF a <= Len(text) THEN Len(text) - a + 1 ELSE 0
        /\ \A j \in 1 .. Len(text) - a + 1 : s[j] = text[a + j - 1]
    BY RestIs
  <1> HIDE DEF s
  <1>3. i \in 1 .. Len(s) + 1 /\ i \in Nat /\ i >= 1 /\ a + i - 1 = b
    BY <1>1, <1>2
  <1>4. \A k \in 1 .. i - 1 : s[k] = Blank
    <2> SUFFICES ASSUME NEW k \in 1 .. i - 1
                 PROVE  s[k] = Blank
      OBVIOUS
    <2>1. k \in 1 .. Len(text) - a + 1 /\ a + k - 1 \in a .. b - 1
      BY <1>1
    <2> QED
      BY <1>2, <2>1
  <1>5. i <= Len(s) => s[i] # Blank
    <2> SUFFICES ASSUME i <= Len(s)
                 PROVE  s[i] # Blank
      OBVIOUS
    <2>1. i \in 1 .. Len(text) - a + 1 /\ b <= Len(text)
      BY <1>1, <1>2, <1>3
    <2> QED
      BY <1>2, <1>3, <2>1
  <1> HIDE DEF i
  <1>6. DropBlanks[s] = Rest(s, i)
    BY <1>2, <1>3, <1>4, <1>5, DropBlanksIs
  <1>7. Rest(s, i) = Rest(text, b)
    BY <1>3, RestRest DEF s
  <1> QED
    BY <1>6, <1>7 DEF s

LEMMA SubSeqRest ==
    ASSUME NEW text \in Text, NEW a \in Nat, a >= 1, NEW b \in Nat, b >= 1,
           NEW c \in Int, c <= Len(text)
    PROVE  SubSeq(Rest(text, a), b, c - a + 1) = SubSeq(text, a + b - 1, c)
  <1> DEFINE s == Rest(text, a)
             t == SubSeq(s, b, c - a + 1)
             u == SubSeq(text, a + b - 1, c)
  <1>1. Len(text) \in Nat /\ \A i \in 1 .. Len(text) : text[i] \in STRING
    BY TextIs
  <1>2. \A i \in 1 .. Len(text) - a + 1 : s[i] = text[a + i - 1]
    BY RestIs
  <1> HIDE DEF s
  <1>3. \A i \in b .. c - a + 1 : s[i] = text[a + i - 1] /\ text[a + i - 1] \in STRING
    <2> SUFFICES ASSUME NEW i \in b .. c - a + 1
                 PROVE  s[i] = text[a + i - 1] /\ text[a + i - 1] \in STRING
      OBVIOUS
    <2>1. i \in 1 .. Len(text) - a + 1 /\ a + i - 1 \in 1 .. Len(text)
      BY <1>1
    <2> QED
      BY <1>1, <1>2, <2>1
  <1>4. /\ t \in Seq(STRING)
        /\ Len(t) = IF b <= c - a + 1 THEN (c - a + 1) - b + 1 ELSE 0
        /\ \A i \in 1 .. (c - a + 1) - b + 1 : t[i] = s[b + i - 1]
    <2>1. b \in Int /\ c - a + 1 \in Int /\ \A i \in b .. c - a + 1 : s[i] \in STRING
      BY <1>3
    <2> QED
      BY <2>1, SubSeqProperties
  <1>5. /\ u \in Seq(STRING)
        /\ Len(u) = IF a + b - 1 <= c THEN c - (a + b - 1) + 1 ELSE 0
        /\ \A i \in 1 .. c - (a + b - 1) + 1 : u[i] = text[(a + b - 1) + i - 1]
    <2>1. a + b - 1 \in Int /\ \A i \in a + b - 1 .. c : text[i] \in STRING
      BY <1>1
    <2> QED
      BY <2>1, SubSeqProperties
  <1> HIDE DEF t, u
  <1>6. Len(t) = Len(u) /\ Len(t) \in Nat
    BY <1>4, <1>5
  <1>7. ASSUME NEW i \in 1 .. Len(t)
        PROVE  t[i] = u[i]
    <2>1. /\ i \in 1 .. (c - a + 1) - b + 1 /\ i \in 1 .. c - (a + b - 1) + 1
          /\ b + i - 1 \in b .. c - a + 1
          /\ a + (b + i - 1) - 1 = (a + b - 1) + i - 1
      BY <1>4, <1>6
    <2> QED
      BY <1>3, <1>4, <1>5, <2>1
  <1>8. t = u
    BY <1>4, <1>5, <1>6, <1>7, SeqEqual
  <1> QED
    BY <1>8 DEF s, t, u

-----------------------------------------------------------------------------
(* Words as they are written.                                                *)

\* From a to b there is a word without quotes, or one in quotes.
BareWord(text, a, b) ==
    \A i \in a .. b : text[i] \notin Quotes \cup {Blank, FromFile, ToFile}
QuotedWord(text, a, b) ==
    /\ a < b /\ text[a] \in Quotes /\ text[b] = text[a]
    /\ \A i \in a + 1 .. b - 1 : text[i] \notin {text[a], FromFile, ToFile}
WordAt(text, a, b) ==
    IF text[a] \in Quotes THEN SubSeq(text, a + 1, b - 1) ELSE SubSeq(text, a, b)

\* Where the next word is looked for.
Beyond(text, a, b) == IF text[a] \in Quotes THEN b + 1 ELSE b + 2

LEMMA Symbols ==
    /\ Blank \notin Quotes /\ Blank # FromFile /\ Blank # ToFile
    /\ NoQuote \notin Quotes /\ FromFile \notin Quotes /\ ToFile \notin Quotes
  BY Zenon DEF Blank, Quotes, FromFile, ToFile, NoQuote

\* single_param finds the word behind blanks.
LEMMA FirstWord ==
    ASSUME NEW text \in Text, NEW a \in Nat, a >= 1,
           NEW p \in a .. Len(text), NEW q \in p .. Len(text),
           \A i \in a .. p - 1 : text[i] = Blank,
           \/ BareWord(text, p, q) /\ (q < Len(text) => text[q + 1] = Blank)
           \/ QuotedWord(text, p, q)
    PROVE  single_param[Rest(text, a)] =
               [word |-> WordAt(text, p, q), rest |-> Rest(text, Beyond(text, p, q))]
  <1> DEFINE t == Rest(text, p)
             quote == t # <<>> /\ t[1] \in Quotes
             start == IF quote THEN 2 ELSE 1
             ends == {FromFile, ToFile, IF quote THEN t[1] ELSE Blank}
             stops == {i \in 2 .. Len(t) : t[i] \in ends} \cup {Len(t) + 1}
  <1>1. /\ Len(text) \in Nat /\ \A i \in 1 .. Len(text) : text[i] \in STRING
        /\ p \in Nat /\ q \in Nat /\ p >= 1 /\ p <= q /\ q <= Len(text)
    BY TextIs
  <1>2. /\ t \in Text /\ Len(t) = Len(text) - p + 1
        /\ \A i \in 1 .. Len(text) - p + 1 : t[i] = text[p + i - 1]
    BY <1>1, RestIs
  <1>3. t # <<>> /\ t[1] = text[p] /\ (quote <=> text[p] \in Quotes)
    <2>1. 1 \in 1 .. Len(text) - p + 1 /\ p + 1 - 1 = p
      BY <1>1
    <2>2. t[1] = text[p]
      BY <1>2, <2>1
    <2>3. t # <<>>
      BY <1>1, <1>2
    <2> QED
      BY <2>2, <2>3
  <1>4. DropBlanks[Rest(text, a)] = t
    <2>1. text[p] # Blank
      BY <1>1, Symbols DEF BareWord, QuotedWord
    <2>2. p \in a .. Len(text) + 1
      BY <1>1
    <2> QED
      BY <2>1, <2>2, DropBlanksRest
  <1>5. single_param[Rest(text, a)] =
            [word |-> SubSeq(t, start, Least(stops) - 1), rest |-> Rest(t, Least(stops) + 1)]
    <2>1. Rest(text, a) \in Text
      BY RestIs
    <2> QED
      BY <1>4, <2>1 DEF single_param
  <1>6. stops \in SUBSET Nat
    BY <1>1, <1>2
  <1>7. CASE QuotedWord(text, p, q)
    <2>1. /\ quote /\ start = 2 /\ ends = {FromFile, ToFile, text[p]} /\ p < q
          /\ text[q] = text[p]
          /\ \A i \in p + 1 .. q - 1 : text[i] \notin {text[p], FromFile, ToFile}
      BY <1>3, <1>7 DEF QuotedWord
    <2> HIDE DEF quote, start, ends, t
    <2>2. q - p + 1 \in stops
      <3>1. q - p + 1 \in 2 .. Len(t) /\ q - p + 1 \in 1 .. Len(text) - p + 1 /\ p + (q - p + 1) - 1 = q
        BY <1>1, <1>2, <2>1
      <3>2. t[q - p + 1] = text[p]
        BY <1>2, <2>1, <3>1
      <3> QED
        BY <2>1, <3>1, <3>2
    <2>3. ASSUME NEW i \in stops
          PROVE  q - p + 1 <= i
      <3>1. CASE i = Len(t) + 1
        BY <1>1, <1>2, <3>1
      <3>2. CASE i \in 2 .. Len(t) /\ t[i] \in ends
        <4>1. i \in Nat /\ i >= 2 /\ i \in 1 .. Len(text) - p + 1
          BY <1>1, <1>2, <3>2
        <4>2. text[p + i - 1] \in {text[p], FromFile, ToFile}
          BY <1>2, <2>1, <3>2, <4>1
        <4>3. p + i - 1 \notin p + 1 .. q - 1
          BY <2>1, <4>2
        <4> QED
          BY <1>1, <4>1, <4>3
      <3> QED
        BY <2>1, <3>1, <3>2
    <2> HIDE DEF stops
    <2>4. Least(stops) = q - p + 1
      BY <1>6, <2>2, <2>3, LeastEq
    <2>5. SubSeq(t, 2, q - p) = SubSeq(text, p + 1, q - 1)
      <3>1. (q - 1) - p + 1 = q - p /\ p + 2 - 1 = p + 1 /\ q - 1 <= Len(text) /\ q - 1 \in Int
        BY <1>1
      <3>2. SubSeq(Rest(text, p), 2, (q - 1) - p + 1) = SubSeq(text, p + 2 - 1, q - 1)
        BY <1>1, <3>1, SubSeqRest
      <3> QED
        BY <3>1, <3>2 DEF t
    <2>6. Rest(t, (q - p + 1) + 1) = Rest(text, q + 1)
      <3>1. (q - p + 1) + 1 \in Nat /\ (q - p + 1) + 1 >= 1 /\ p + ((q - p + 1) + 1) - 1 = q + 1
        BY <1>1
      <3> QED
        BY <1>1, <3>1, RestRest DEF t
    <2>7. (q - p + 1) - 1 = q - p
      BY <1>1
    <2> QED
      BY <1>5, <2>1, <2>4, <2>5, <2>6, <2>7, <1>3 DEF WordAt, Beyond
  <1>8. CASE BareWord(text, p, q) /\ (q < Len(text) => text[q + 1] = Blank)
    <2>1. \A i \in p .. q : text[i] \notin Quotes \cup {Blank, FromFile, ToFile}
      BY <1>8 DEF BareWord
    <2>2. ~quote /\ start = 1 /\ ends = {FromFile, ToFile, Blank} /\ text[p] \notin Quotes
      BY <1>1, <1>3, <2>1
    <2> HIDE DEF quote, start, ends, t
    <2>3. q - p + 2 \in stops
      <3>1. CASE q = Len(text)
        BY <1>1, <1>2, <3>1
      <3>2. CASE q < Len(text)
        <4>1. q - p + 2 \in 2 .. Len(t) /\ q - p + 2 \in 1 .. Len(text) - p + 1
              /\ p + (q - p + 2) - 1 = q + 1
          BY <1>1, <1>2, <3>2
        <4>2. t[q - p + 2] = Blank
          BY <1>2, <1>8, <3>2, <4>1
        <4> QED
          BY <2>2, <4>1, <4>2
      <3> QED
        BY <1>1, <3>1, <3>2
    <2>4. ASSUME NEW i \in stops
          PROVE  q - p + 2 <= i
      <3>1. CASE i = Len(t) + 1
        BY <1>1, <1>2, <3>1
      <3>2. CASE i \in 2 .. Len(t) /\ t[i] \in ends
        <4>1. i \in Nat /\ i >= 1 /\ i \in 1 .. Len(text) - p + 1
          BY <1>1, <1>2, <3>2
        <4>2. text[p + i - 1] \in {Blank, FromFile, ToFile}
          BY <1>2, <2>2, <3>2, <4>1
        <4>3. p + i - 1 \notin p .. q
          BY <2>1, <4>2
        <4> QED
          BY <1>1, <4>1, <4>3
      <3> QED
        BY <2>2, <3>1, <3>2
    <2> HIDE DEF stops
    <2>5. Least(stops) = q - p + 2
      BY <1>6, <2>3, <2>4, LeastEq
    <2>6. SubSeq(t, 1, q - p + 1) = SubSeq(text, p, q)
      <3>1. p + 1 - 1 = p /\ q \in Int
        BY <1>1
      <3>2. SubSeq(Rest(text, p), 1, q - p + 1) = SubSeq(text, p + 1 - 1, q)
        BY <1>1, <3>1, SubSeqRest
      <3> QED
        BY <3>1, <3>2 DEF t
    <2>7. Rest(t, (q - p + 2) + 1) = Rest(text, q + 2)
      <3>1. (q - p + 2) + 1 \in Nat /\ (q - p + 2) + 1 >= 1 /\ p + ((q - p + 2) + 1) - 1 = q + 2
        BY <1>1
      <3> QED
        BY <1>1, <3>1, RestRest DEF t
    <2>8. (q - p + 2) - 1 = q - p + 1
      BY <1>1
    <2> QED
      BY <1>5, <2>2, <2>5, <2>6, <2>7, <2>8 DEF WordAt, Beyond
  <1> QED
    BY <1>7, <1>8

\* The words of a text: from[k] to to[k] is the k-th one, blanks are between
\* two words and everywhere else.
WrittenAt(text, from, to) ==
    /\ from \in Seq(Nat) /\ to \in Seq(Nat) /\ Len(from) = Len(to)
    /\ \A k \in 1 .. Len(from) :
          /\ 1 <= from[k] /\ from[k] <= to[k] /\ to[k] <= Len(text)
          /\ BareWord(text, from[k], to[k]) \/ QuotedWord(text, from[k], to[k])
    /\ \A j, k \in 1 .. Len(from) : j < k => to[j] + 1 < from[k]
    /\ \A i \in 1 .. Len(text) :
          (\A k \in 1 .. Len(from) : i < from[k] \/ to[k] < i) => text[i] = Blank

LEMMA WrittenIs ==
    ASSUME NEW text \in Text, NEW from, NEW to, WrittenAt(text, from, to)
    PROVE  /\ Len(from) \in Nat
           /\ \A k \in 1 .. Len(from) : from[k] \in Nat /\ to[k] \in Nat
           /\ \A j, k \in 1 .. Len(from) : j <= k => from[j] <= from[k] /\ to[j] <= to[k]
  <1>1. /\ Len(from) \in Nat
        /\ \A k \in 1 .. Len(from) : from[k] \in Nat /\ to[k] \in Nat
    BY DEF WrittenAt
  <1>2. ASSUME NEW j \in 1 .. Len(from), NEW k \in 1 .. Len(from), j <= k
        PROVE  from[j] <= from[k] /\ to[j] <= to[k]
    <2>1. CASE j = k
      BY <1>1, <2>1
    <2>2. CASE j < k
      <3>1. to[j] + 1 < from[k] /\ from[j] <= to[j] /\ from[k] <= to[k]
        BY <2>2 DEF WrittenAt
      <3> QED
        BY <1>1, <3>1
    <2> QED
      BY <1>1, <1>2, <2>1, <2>2
  <1> QED
    BY <1>1, <1>2

\* Behind a word there is a blank, and there are blanks up to the next one.
LEMMA BlanksBetween ==
    ASSUME NEW text \in Text, NEW from, NEW to, WrittenAt(text, from, to),
           NEW k \in 0 .. Len(from), NEW i \in 1 .. Len(text),
           k > 0 => to[k] < i,
           k < Len(from) => i < from[k + 1]
    PROVE  text[i] = Blank
  <1>1. /\ Len(from) \in Nat
        /\ \A j \in 1 .. Len(from) : from[j] \in Nat /\ to[j] \in Nat
        /\ \A j, h \in 1 .. Len(from) : j <= h => from[j] <= from[h] /\ to[j] <= to[h]
    BY WrittenIs
  <1>2. ASSUME NEW j \in 1 .. Len(from)
        PROVE  i < from[j] \/ to[j] < i
    <2>1. CASE j <= k
      <3>1. k \in 1 .. Len(from) /\ to[k] < i
        BY <1>1, <2>1
      <3>2. to[j] <= to[k] /\ to[j] \in Nat /\ to[k] \in Nat
        BY <1>1, <2>1, <3>1
      <3> QED
        BY <3>1, <3>2
    <2>2. CASE k < j
      <3>1. k + 1 \in 1 .. Len(from) /\ k + 1 <= j /\ i < from[k + 1]
        BY <1>1, <2>2
      <3>2. from[k + 1] <= from[j] /\ from[j] \in Nat /\ from[k + 1] \in Nat
        BY <1>1, <3>1
      <3> QED
        BY <3>1, <3>2
    <2> QED
      BY <1>1, <2>1, <2>2
  <1> QED
    BY <1>2 DEF WrittenAt

\* Where the search for the k-th word begins.
SearchFrom(text, from, to, k) == IF k = 1 THEN 1 ELSE Beyond(text, from[k - 1], to[k - 1])

\* single_param finds the words one after the other.
LEMMA NextWord ==
    ASSUME NEW text \in Text, NEW from, NEW to, WrittenAt(text, from, to),
           NEW k \in 1 .. Len(from)
    PROVE  single_param[Rest(text, SearchFrom(text, from, to, k))] =
               [word |-> WordAt(text, from[k], to[k]),
                rest |-> Rest(text, SearchFrom(text, from, to, k + 1))]
  <1> DEFINE a == SearchFrom(text, from, to, k)
  <1>1. /\ Len(from) \in Nat /\ Len(text) \in Nat
        /\ \A j \in 1 .. Len(from) : from[j] \in Nat /\ to[j] \in Nat
    BY WrittenIs, TextIs
  <1>2. /\ 1 <= from[k] /\ from[k] <= to[k] /\ to[k] <= Len(text)
        /\ from[k] \in Nat /\ to[k] \in Nat
        /\ BareWord(text, from[k], to[k]) \/ QuotedWord(text, from[k], to[k])
    BY <1>1 DEF WrittenAt
  <1>3. /\ a \in Nat /\ a >= 1 /\ a <= from[k]
        /\ k > 1 => to[k - 1] < a
    <2>1. CASE k = 1
      BY <1>2, <2>1 DEF SearchFrom
    <2>2. CASE k > 1
      <3>1. k - 1 \in 1 .. Len(from) /\ k - 1 < k /\ k # 1
        BY <1>1, <2>2
      <3>2. to[k - 1] \in Nat /\ to[k - 1] + 1 < from[k]
        BY <1>1, <3>1 DEF WrittenAt
      <3>3. a = to[k - 1] + 1 \/ a = to[k - 1] + 2
        BY <3>1 DEF SearchFrom, Beyond
      <3> QED
        BY <1>2, <3>2, <3>3
    <2> QED
      BY <1>1, <2>1, <2>2
  <1> HIDE DEF a
  <1>4. ASSUME NEW i \in a .. from[k] - 1
        PROVE  text[i] = Blank
    <2>1. i \in 1 .. Len(text) /\ i \in Nat /\ a <= i /\ i < from[k]
      BY <1>1, <1>2, <1>3
    <2>2. k - 1 \in 0 .. Len(from) /\ (k - 1) + 1 = k
      BY <1>1
    <2>3. k - 1 > 0 => to[k - 1] < i
      <3>1. k - 1 > 0 => k - 1 \in 1 .. Len(from)
        BY <1>1
      <3>2. k - 1 > 0 => to[k - 1] \in Nat
        BY <1>1, <3>1
      <3> QED
        BY <1>3, <2>1, <3>2
    <2> QED
      BY <2>1, <2>2, <2>3, BlanksBetween
  <1>5. to[k] < Len(text) => text[to[k] + 1] = Blank
    <2> SUFFICES ASSUME to[k] < Len(text)
                 PROVE  text[to[k] + 1] = Blank
      OBVIOUS
    <2>1. to[k] + 1 \in 1 .. Len(text) /\ k \in 0 .. Len(from) /\ to[k] < to[k] + 1
      BY <1>1, <1>2
    <2>2. k < Len(from) => to[k] + 1 < from[k + 1]
      <3>1. k < Len(from) => k + 1 \in 1 .. Len(from) /\ k < k + 1
        BY <1>1
      <3> QED
        BY <3>1 DEF WrittenAt
    <2> QED
      BY <2>1, <2>2, BlanksBetween
  <1>6. from[k] \in a .. Len(text) /\ to[k] \in from[k] .. Len(text)
    BY <1>1, <1>2, <1>3
  <1>7. single_param[Rest(text, a)] =
            [word |-> WordAt(text, from[k], to[k]), rest |-> Rest(text, Beyond(text, from[k], to[k]))]
    BY <1>2, <1>3, <1>4, <1>5, <1>6, FirstWord
  <1>8. SearchFrom(text, from, to, k + 1) = Beyond(text, from[k], to[k])
    <2>1. k + 1 # 1 /\ (k + 1) - 1 = k
      BY <1>1
    <2> QED
      BY <2>1 DEF SearchFrom
  <1> QED
    BY <1>7, <1>8 DEF a

\* The words of a text that is read up to the k-th word.
ReadUpTo(text, from, to, k) ==
    [words |-> [j \in 1 .. k |-> WordAt(text, from[j], to[j])],
     rest  |-> Rest(text, SearchFrom(text, from, to, k + 1))]

LEMMA RestOfAll ==
    ASSUME NEW text \in Text
    PROVE  Rest(text, 1) = text
  <1>1. /\ Rest(text, 1) \in Text
        /\ Len(Rest(text, 1)) = IF 1 <= Len(text) THEN Len(text) - 1 + 1 ELSE 0
        /\ \A i \in 1 .. Len(text) - 1 + 1 : Rest(text, 1)[i] = text[1 + i - 1]
    <2>1. 1 \in Nat /\ 1 >= 1
      OBVIOUS
    <2> QED
      BY <2>1, RestIs
  <1>2. Len(text) \in Nat /\ Len(Rest(text, 1)) = Len(text)
    BY <1>1, TextIs
  <1>3. \A i \in 1 .. Len(text) : Rest(text, 1)[i] = text[i]
    BY <1>1, <1>2
  <1> QED
    BY <1>1, <1>2, <1>3, SeqEqual DEF Text

LEMMA StartReading ==
    ASSUME NEW text \in Text, NEW from, NEW to
    PROVE  ReadUpTo(text, from, to, 0) = [words |-> <<>>, rest |-> text]
  <1>1. Rest(text, 1) = text
    BY RestOfAll
  <1>2. [j \in 1 .. 0 |-> WordAt(text, from[j], to[j])] = <<>>
    OBVIOUS
  <1> QED
    BY <1>1, <1>2 DEF ReadUpTo, SearchFrom

LEMMA WordIsText ==
    ASSUME NEW text \in Text, NEW from, NEW to, WrittenAt(text, from, to),
           NEW k \in 1 .. Len(from)
    PROVE  WordAt(text, from[k], to[k]) \in Text
  <1>1. /\ Len(from) \in Nat /\ Len(text) \in Nat
        /\ from[k] \in Nat /\ to[k] \in Nat /\ 1 <= from[k] /\ to[k] <= Len(text)
        /\ \A i \in 1 .. Len(text) : text[i] \in STRING
    BY WrittenIs, TextIs DEF WrittenAt
  <1>2. SubSeq(text, from[k] + 1, to[k] - 1) \in Seq(STRING)
    <2>1. from[k] + 1 \in Int /\ to[k] - 1 \in Int
      BY <1>1
    <2>2. \A i \in from[k] + 1 .. to[k] - 1 : text[i] \in STRING
      BY <1>1
    <2> QED
      BY <2>1, <2>2, SubSeqProperties
  <1>3. SubSeq(text, from[k], to[k]) \in Seq(STRING)
    <2>1. from[k] \in Int /\ to[k] \in Int
      BY <1>1
    <2>2. \A i \in from[k] .. to[k] : text[i] \in STRING
      BY <1>1
    <2> QED
      BY <2>1, <2>2, SubSeqProperties
  <1> QED
    BY <1>2, <1>3 DEF WordAt, Text

LEMMA ReadUpToNext ==
    ASSUME NEW text \in Text, NEW from, NEW to, WrittenAt(text, from, to),
           NEW k \in 1 .. Len(from)
    PROVE  LET next == single_param[ReadUpTo(text, from, to, k - 1).rest]
           IN  ReadUpTo(text, from, to, k) =
                   [words |-> Append(ReadUpTo(text, from, to, k - 1).words, next.word),
                    rest  |-> next.rest]
  <1> DEFINE word(j) == WordAt(text, from[j], to[j])
  <1>1. Len(from) \in Nat /\ k \in Nat /\ k - 1 \in Nat /\ (k - 1) + 1 = k
    BY WrittenIs
  <1>2. \A j \in 1 .. k : word(j) \in Text
    BY <1>1, WordIsText
  <1> HIDE DEF word
  <1>3. Append([j \in 1 .. k - 1 |-> word(j)], word(k)) = [j \in 1 .. k |-> word(j)]
    <2> DEFINE s == [j \in 1 .. k - 1 |-> word(j)]
               t == [j \in 1 .. k |-> word(j)]
    <2>1. s \in Seq(Text) /\ t \in Seq(Text) /\ Len(s) = k - 1 /\ Len(t) = k
      <3>1. s \in [1 .. k - 1 -> Text] /\ t \in [1 .. k -> Text]
        BY <1>1, <1>2
      <3> HIDE DEF s, t
      <3> QED
        BY <1>1, <3>1
    <2>2. \A j \in 1 .. k - 1 : s[j] = word(j)
      OBVIOUS
    <2>3. \A j \in 1 .. k : t[j] = word(j)
      OBVIOUS
    <2> HIDE DEF s, t
    <2>4. Append(s, word(k)) \in Seq(Text) /\ Len(Append(s, word(k))) = k
      BY <1>1, <1>2, <2>1
    <2>5. ASSUME NEW j \in 1 .. k
          PROVE  Append(s, word(k))[j] = t[j]
      BY <1>1, <2>1, <2>2, <2>3
    <2>6. Append(s, word(k)) = t
      BY <1>1, <2>1, <2>4, <2>5, SeqEqual
    <2> QED
      BY <2>6 DEF s, t
  <1>4. single_param[Rest(text, SearchFrom(text, from, to, k))] =
            [word |-> word(k), rest |-> Rest(text, SearchFrom(text, from, to, k + 1))]
    BY NextWord DEF word
  <1>5. /\ ReadUpTo(text, from, to, k - 1).rest = Rest(text, SearchFrom(text, from, to, k))
        /\ ReadUpTo(text, from, to, k - 1).words = [j \in 1 .. k - 1 |-> word(j)]
    BY <1>1 DEF ReadUpTo, word
  <1>6. ReadUpTo(text, from, to, k) =
            [words |-> [j \in 1 .. k |-> word(j)],
             rest  |-> Rest(text, SearchFrom(text, from, to, k + 1))]
    BY DEF ReadUpTo, word
  <1> DEFINE next == single_param[Rest(text, SearchFrom(text, from, to, k))]
  <1>7. next.word = word(k) /\ next.rest = Rest(text, SearchFrom(text, from, to, k + 1))
    BY <1>4
  <1>8. ReadUpTo(text, from, to, k) =
            [words |-> Append([j \in 1 .. k - 1 |-> word(j)], next.word), rest  |-> next.rest]
    BY <1>3, <1>6, <1>7
  <1> QED
    BY <1>5, <1>8

\* The recursion of Words, which has one solution at most.
ReadsOn(Reading, text, n) ==
    \A k \in 0 .. n :
        Reading[k] = IF k = 0 THEN [words |-> <<>>, rest |-> text]
                   ELSE LET next == single_param[Reading[k - 1].rest]
                        IN  [words |-> Append(Reading[k - 1].words, next.word),
                             rest  |-> next.rest]

LEMMA ReadUpToFollows ==
    ASSUME NEW text \in Text, NEW from, NEW to, WrittenAt(text, from, to),
           NEW Reading,
           ReadsOn(Reading, text, Len(from))
    PROVE  \A k \in 0 .. Len(from) : Reading[k] = ReadUpTo(text, from, to, k)
  <1> DEFINE wrong == {k \in 0 .. Len(from) : Reading[k] # ReadUpTo(text, from, to, k)}
  <1>1. Len(from) \in Nat
    BY WrittenIs
  <1> SUFFICES ASSUME wrong # {}
               PROVE  FALSE
    OBVIOUS
  <1>2. PICK k \in wrong : \A j \in wrong : k <= j
    <2>1. wrong \in SUBSET Nat
      BY <1>1
    <2> HIDE DEF wrong
    <2> QED
      BY <2>1, LeastNat
  <1>3. Reading[0] = ReadUpTo(text, from, to, 0)
    <2>1. Reading[0] = [words |-> <<>>, rest |-> text]
      <3>1. 0 \in 0 .. Len(from)
        BY <1>1
      <3> QED
        BY <3>1, Zenon DEF ReadsOn
    <2> QED
      BY <2>1, StartReading
  <1>4. k \in 1 .. Len(from) /\ k - 1 \in 0 .. Len(from) /\ k - 1 \notin wrong
    BY <1>1, <1>2, <1>3
  <1>5. Reading[k - 1] = ReadUpTo(text, from, to, k - 1)
    BY <1>4
  <1>6. Reading[k] = LET next == single_param[Reading[k - 1].rest]
                   IN  [words |-> Append(Reading[k - 1].words, next.word),
                        rest  |-> next.rest]
    <2>1. k \in 0 .. Len(from) /\ k # 0
      BY <1>1, <1>4
    <2> QED
      BY <2>1, Zenon DEF ReadsOn
  <1>7. Reading[k] = ReadUpTo(text, from, to, k)
    BY <1>4, <1>5, <1>6, ReadUpToNext
  <1> QED
    BY <1>2, <1>7

\* Words gives the words that are written.
LEMMA WordsAre ==
    ASSUME NEW text \in Text, NEW from, NEW to, WrittenAt(text, from, to)
    PROVE  Words(text, Len(from)) = [k \in 1 .. Len(from) |-> WordAt(text, from[k], to[k])]
  <1> DEFINE n == Len(from)
             Step(Reading, k) ==
                 IF k = 0 THEN [words |-> <<>>, rest |-> text]
                 ELSE LET next == single_param[Reading[k - 1].rest]
                      IN  [words |-> Append(Reading[k - 1].words, next.word),
                           rest  |-> next.rest]
             Reading == CHOOSE g : g = [k \in 0 .. n |-> Step(g, k)]
             right == [k \in 0 .. n |-> ReadUpTo(text, from, to, k)]
  <1>1. n \in Nat
    BY WrittenIs
  <1>2. Words(text, n) = Reading[n].words
    BY DEF Words
  <1>3. ASSUME NEW k \in 0 .. n
        PROVE  right[k] = Step(right, k)
    <2>1. CASE k = 0
      <3>1. ReadUpTo(text, from, to, 0) = [words |-> <<>>, rest |-> text]
        BY StartReading
      <3> QED
        BY <2>1, <3>1
    <2>2. CASE k # 0
      <3>1. k \in 1 .. Len(from) /\ k - 1 \in 0 .. n
        BY <1>1, <2>2
      <3>2. right[k] = ReadUpTo(text, from, to, k) /\ right[k - 1] = ReadUpTo(text, from, to, k - 1)
        BY <3>1
      <3> HIDE DEF right
      <3> QED
        BY <2>2, <3>1, <3>2, ReadUpToNext
    <2> QED
      BY <2>1, <2>2
  <1>4. right = [k \in 0 .. n |-> Step(right, k)]
    <2>1. [k \in 0 .. n |-> Step(right, k)] = [k \in 0 .. n |-> right[k]]
      <3> HIDE DEF Step, right, n
      <3> QED
        BY <1>3
    <2> QED
      BY <2>1
  <1> HIDE DEF right
  <1>5. Reading = [k \in 0 .. n |-> Step(Reading, k)]
    <2> HIDE DEF Step
    <2> QED
      BY <1>4, Zenon
  <1>6. \A k \in 0 .. n : Reading[k] = Step(Reading, k)
    <2> HIDE DEF Step, n
    <2>1. PICK g : g = Reading
      OBVIOUS
    <2>2. g = [k \in 0 .. n |-> Step(g, k)]
      BY <1>5, <2>1
    <2>3. \A k \in 0 .. n : g[k] = Step(g, k)
      BY <2>2, Zenon
    <2> QED
      BY <2>1, <2>3, Zenon
  <1> HIDE DEF Reading
  <1>7. Reading[n] = ReadUpTo(text, from, to, n)
    <2>1. n \in 0 .. Len(from)
      BY <1>1
    <2>2. ReadsOn(Reading, text, Len(from))
      BY <1>6 DEF ReadsOn
    <2>3. \A k \in 0 .. Len(from) : Reading[k] = ReadUpTo(text, from, to, k)
      BY <2>2, ReadUpToFollows
    <2> QED
      BY <2>1, <2>3, Zenon
  <1> QED
    BY <1>2, <1>7 DEF ReadUpTo

-----------------------------------------------------------------------------
(* Quotes.                                                                   *)

\* Place i lies behind the first symbol of the k-th word, a quote, and not
\* behind the last one.
InQuotes(text, from, to, k, i) ==
    text[from[k]] \in Quotes /\ from[k] < i /\ i <= to[k]

\* The quote that is open before i.
OpenAt(text, from, to, i) ==
    IF \E k \in 1 .. Len(from) : InQuotes(text, from, to, k, i)
    THEN text[from[CHOOSE k \in 1 .. Len(from) : InQuotes(text, from, to, k, i)]]
    ELSE NoQuote

LEMMA OneWordAt ==
    ASSUME NEW text \in Text, NEW from, NEW to, WrittenAt(text, from, to),
           NEW j \in 1 .. Len(from), NEW k \in 1 .. Len(from), NEW i \in Int,
           from[j] <= i, i <= to[j] + 1, from[k] <= i, i <= to[k]
    PROVE  j = k
  <1>1. /\ Len(from) \in Nat
        /\ from[j] \in Nat /\ to[j] \in Nat /\ from[k] \in Nat /\ to[k] \in Nat
    BY WrittenIs
  <1>2. (j < k => to[j] + 1 < from[k]) /\ (k < j => to[k] + 1 < from[j])
    BY DEF WrittenAt
  <1> QED
    BY <1>1, <1>2

LEMMA OpenIs ==
    ASSUME NEW text \in Text, NEW from, NEW to, WrittenAt(text, from, to), NEW i \in Int
    PROVE  /\ \A k \in 1 .. Len(from) : InQuotes(text, from, to, k, i) =>
                 OpenAt(text, from, to, i) = text[from[k]]
           /\ (\A k \in 1 .. Len(from) : ~InQuotes(text, from, to, k, i)) =>
                 OpenAt(text, from, to, i) = NoQuote
  <1>1. ASSUME NEW k \in 1 .. Len(from), InQuotes(text, from, to, k, i)
        PROVE  OpenAt(text, from, to, i) = text[from[k]]
    <2> DEFINE j == CHOOSE h \in 1 .. Len(from) : InQuotes(text, from, to, h, i)
    <2>1. j \in 1 .. Len(from) /\ InQuotes(text, from, to, j, i)
      BY <1>1
    <2>2. OpenAt(text, from, to, i) = text[from[j]]
      BY <1>1 DEF OpenAt
    <2> HIDE DEF j
    <2>3. j = k
      <3>1. /\ from[j] \in Nat /\ to[j] \in Nat /\ from[k] \in Nat /\ to[k] \in Nat
            /\ from[j] < i /\ i <= to[j] /\ from[k] < i /\ i <= to[k]
        BY <1>1, <2>1, WrittenIs DEF InQuotes
      <3>2. from[j] <= i /\ i <= to[j] + 1 /\ from[k] <= i
        BY <3>1
      <3> QED
        BY <2>1, <3>1, <3>2, OneWordAt
    <2> QED
      BY <2>2, <2>3
  <1> QED
    BY <1>1 DEF OpenAt

\* A quote is the first symbol of its word, the last one, or of the other kind.
LEMMA QuotesInWords ==
    ASSUME NEW text \in Text, NEW from, NEW to, WrittenAt(text, from, to),
           NEW j \in 1 .. Len(text), text[j] \in Quotes
    PROVE  \E k \in 1 .. Len(from) : from[k] <= j /\ j <= to[k] /\ QuotedWord(text, from[k], to[k])
  <1>1. /\ Len(from) \in Nat
        /\ \A k \in 1 .. Len(from) : from[k] \in Nat /\ to[k] \in Nat
    BY WrittenIs
  <1>2. text[j] # Blank
    BY Symbols
  <1>3. PICK k \in 1 .. Len(from) : ~(j < from[k] \/ to[k] < j)
    BY <1>2 DEF WrittenAt
  <1>4. from[k] <= j /\ j <= to[k]
    BY <1>1, <1>3
  <1>5. j \in from[k] .. to[k]
    BY <1>1, <1>4
  <1>6. ~BareWord(text, from[k], to[k])
    BY <1>5 DEF BareWord
  <1> QED
    BY <1>4, <1>6 DEF WrittenAt

\* What is in quotes lies in a quoted word.
LEMMA InQuotesIs ==
    ASSUME NEW text \in Text, NEW from, NEW to, WrittenAt(text, from, to),
           NEW k \in 1 .. Len(from), text[from[k]] \in Quotes
    PROVE  QuotedWord(text, from[k], to[k])
  <1>1. from[k] \in from[k] .. to[k]
    BY WrittenIs DEF WrittenAt
  <1>2. ~BareWord(text, from[k], to[k])
    BY <1>1 DEF BareWord
  <1> QED
    BY <1>2 DEF WrittenAt

LEMMA OpenNext ==
    ASSUME NEW text \in Text, NEW from, NEW to, WrittenAt(text, from, to),
           NEW i \in 2 .. Len(text) + 1
    PROVE  OpenAt(text, from, to, i) =
               IF text[i - 1] \in Quotes
               THEN Behind(OpenAt(text, from, to, i - 1), text[i - 1])
               ELSE OpenAt(text, from, to, i - 1)
  <1> DEFINE j == i - 1
  <1>1. /\ Len(from) \in Nat /\ Len(text) \in Nat
        /\ \A k \in 1 .. Len(from) : from[k] \in Nat /\ to[k] \in Nat
    BY WrittenIs, TextIs
  <1>2. j \in 1 .. Len(text) /\ j \in Int /\ i = j + 1 /\ i \in Int
    BY <1>1
  <1> HIDE DEF j
  <1>3. CASE text[j] \notin Quotes
    <2>1. ASSUME NEW k \in 1 .. Len(from)
          PROVE  InQuotes(text, from, to, k, i) <=> InQuotes(text, from, to, k, j)
      <3>1. from[k] \in Nat /\ to[k] \in Nat
        BY <1>1
      <3>2. CASE text[from[k]] \notin Quotes
        BY <3>2 DEF InQuotes
      <3>3. CASE text[from[k]] \in Quotes
        <4>1. j # from[k] /\ j # to[k]
          BY <1>3, <3>3, InQuotesIs DEF QuotedWord
        <4> QED
          BY <1>2, <3>1, <3>3, <4>1 DEF InQuotes
      <3> QED
        BY <3>2, <3>3
    <2>2. OpenAt(text, from, to, i) = OpenAt(text, from, to, j)
      <3>1. CASE \E k \in 1 .. Len(from) : InQuotes(text, from, to, k, j)
        <4>1. PICK k \in 1 .. Len(from) : InQuotes(text, from, to, k, j)
          BY <3>1
        <4>2. InQuotes(text, from, to, k, i)
          BY <2>1, <4>1
        <4> QED
          BY <1>2, <4>1, <4>2, OpenIs
      <3>2. CASE \A k \in 1 .. Len(from) : ~InQuotes(text, from, to, k, j)
        <4>1. \A k \in 1 .. Len(from) : ~InQuotes(text, from, to, k, i)
          BY <2>1, <3>2
        <4> QED
          BY <1>2, <3>2, <4>1, OpenIs
      <3> QED
        BY <3>1, <3>2
    <2> QED
      BY <1>3, <2>2 DEF j
  <1>4. CASE text[j] \in Quotes
    <2>1. PICK k \in 1 .. Len(from) :
              from[k] <= j /\ j <= to[k] /\ QuotedWord(text, from[k], to[k])
      BY <1>2, <1>4, QuotesInWords
    <2>2. /\ from[k] \in Nat /\ to[k] \in Nat /\ from[k] < to[k]
          /\ text[from[k]] \in Quotes /\ text[to[k]] = text[from[k]]
      BY <1>1, <2>1 DEF QuotedWord
    <2>3. text[from[k]] # NoQuote
      BY <2>2, Symbols
    <2>4. CASE j = from[k]
      <3>1. OpenAt(text, from, to, j) = NoQuote
        <4>1. ASSUME NEW h \in 1 .. Len(from), InQuotes(text, from, to, h, j)
              PROVE  FALSE
          <5>1. from[h] \in Nat /\ to[h] \in Nat /\ from[h] < j /\ j <= to[h]
            BY <1>1, <4>1 DEF InQuotes
          <5>2. from[h] <= j /\ j <= to[h] + 1
            BY <1>2, <5>1
          <5>3. h = k
            BY <1>2, <2>1, <5>2, OneWordAt
          <5> QED
            BY <2>2, <2>4, <5>1, <5>3
        <4> QED
          BY <1>2, <4>1, OpenIs
      <3>2. InQuotes(text, from, to, k, i)
        BY <1>2, <2>2, <2>4 DEF InQuotes
      <3>3. OpenAt(text, from, to, i) = text[j]
        BY <1>2, <2>4, <3>2, OpenIs
      <3> QED
        BY <1>4, <3>1, <3>3 DEF Behind, j
    <2>5. CASE j = to[k]
      <3>1. OpenAt(text, from, to, j) = text[j]
        <4>1. InQuotes(text, from, to, k, j)
          BY <2>2, <2>5 DEF InQuotes
        <4> QED
          BY <1>2, <2>2, <2>5, <4>1, OpenIs
      <3>2. OpenAt(text, from, to, i) = NoQuote
        <4>1. ASSUME NEW h \in 1 .. Len(from), InQuotes(text, from, to, h, i)
              PROVE  FALSE
          <5>1. from[h] \in Nat /\ to[h] \in Nat /\ from[h] < i /\ i <= to[h]
            BY <1>1, <4>1 DEF InQuotes
          <5>2. from[h] <= i /\ from[k] <= i /\ i <= to[k] + 1
            BY <1>2, <2>2, <2>5, <5>1
          <5>3. k = h
            BY <1>2, <5>1, <5>2, OneWordAt
          <5> QED
            BY <1>2, <2>2, <2>5, <5>1, <5>3
        <4> QED
          BY <1>2, <4>1, OpenIs
      <3>3. text[j] # NoQuote
        BY <2>2, <2>3, <2>5
      <3> QED
        BY <1>4, <3>1, <3>2, <3>3 DEF Behind, Closes, j
    <2>6. CASE j # from[k] /\ j # to[k]
      <3>1. InQuotes(text, from, to, k, j) /\ InQuotes(text, from, to, k, i)
        BY <1>2, <2>1, <2>2, <2>6 DEF InQuotes
      <3>2. OpenAt(text, from, to, j) = text[from[k]] /\ OpenAt(text, from, to, i) = text[from[k]]
        BY <1>2, <3>1, OpenIs
      <3>3. text[j] # text[from[k]]
        <4>1. j \in from[k] + 1 .. to[k] - 1
          BY <1>2, <2>1, <2>2, <2>6
        <4> QED
          BY <2>1, <4>1 DEF QuotedWord
      <3> QED
        BY <1>4, <2>3, <3>2, <3>3 DEF Behind, Closes, j
    <2> QED
      BY <2>4, <2>5, <2>6
  <1> QED
    BY <1>3, <1>4

\* The recursion of Bare, which has one solution at most.
OpensOn(Open, text) ==
    \A i \in 1 .. Len(text) + 1 :
        Open[i] = IF i = 1 THEN NoQuote
                  ELSE IF text[i - 1] \in Quotes THEN Behind(Open[i - 1], text[i - 1])
                  ELSE Open[i - 1]

LEMMA NothingOpenAtFirst ==
    ASSUME NEW text \in Text, NEW from, NEW to, WrittenAt(text, from, to)
    PROVE  OpenAt(text, from, to, 1) = NoQuote
  <1>1. ASSUME NEW k \in 1 .. Len(from)
        PROVE  ~InQuotes(text, from, to, k, 1)
    <2>1. from[k] \in Nat /\ 1 <= from[k]
      BY WrittenIs DEF WrittenAt
    <2> QED
      BY <2>1 DEF InQuotes
  <1> QED
    BY <1>1, OpenIs

LEMMA OpensOnIs ==
    ASSUME NEW text \in Text, NEW from, NEW to, WrittenAt(text, from, to),
           NEW Open, OpensOn(Open, text)
    PROVE  \A i \in 1 .. Len(text) + 1 : Open[i] = OpenAt(text, from, to, i)
  <1> DEFINE wrong == {i \in 1 .. Len(text) + 1 : Open[i] # OpenAt(text, from, to, i)}
  <1>1. Len(text) \in Nat
    BY TextIs
  <1> SUFFICES ASSUME wrong # {}
               PROVE  FALSE
    OBVIOUS
  <1>2. PICK i \in wrong : \A j \in wrong : i <= j
    <2>1. wrong \in SUBSET Nat
      BY <1>1
    <2> HIDE DEF wrong
    <2> QED
      BY <2>1, LeastNat
  <1>3. i # 1
    <2>1. Open[1] = NoQuote
      <3>1. 1 \in 1 .. Len(text) + 1
        BY <1>1
      <3> QED
        BY <3>1, Zenon DEF OpensOn
    <2> QED
      BY <1>2, <2>1, NothingOpenAtFirst
  <1>4. i \in 2 .. Len(text) + 1 /\ i - 1 \in 1 .. Len(text) + 1 /\ i - 1 \notin wrong
    BY <1>1, <1>2, <1>3
  <1>5. Open[i - 1] = OpenAt(text, from, to, i - 1)
    BY <1>4
  <1>6. Open[i] = IF text[i - 1] \in Quotes THEN Behind(Open[i - 1], text[i - 1])
                  ELSE Open[i - 1]
    <2>1. i \in 1 .. Len(text) + 1
      BY <1>2
    <2> QED
      BY <1>3, <2>1, Zenon DEF OpensOn
  <1>7. Open[i] = OpenAt(text, from, to, i)
    BY <1>4, <1>5, <1>6, OpenNext
  <1> QED
    BY <1>2, <1>7

\* The places of a symbol outside quotes.
LEMMA BareIs ==
    ASSUME NEW text \in Text, NEW from, NEW to, WrittenAt(text, from, to), NEW c
    PROVE  Bare(text, c) = {i \in 1 .. Len(text) : text[i] = c /\ OpenAt(text, from, to, i) = NoQuote}
  <1> DEFINE n == Len(text) + 1
             Step(Open, i) ==
                 IF i = 1 THEN NoQuote
                 ELSE IF text[i - 1] \in Quotes THEN Behind(Open[i - 1], text[i - 1])
                 ELSE Open[i - 1]
             Open == CHOOSE g : g = [i \in 1 .. n |-> Step(g, i)]
             right == [i \in 1 .. n |-> OpenAt(text, from, to, i)]
  <1>1. Len(text) \in Nat /\ DOMAIN text = 1 .. Len(text)
    BY TextIs
  <1>2. Bare(text, c) = {i \in DOMAIN text : text[i] = c /\ Open[i] = NoQuote}
    BY DEF Bare
  <1>3. ASSUME NEW i \in 1 .. n
        PROVE  right[i] = Step(right, i)
    <2>1. CASE i = 1
      BY <2>1, NothingOpenAtFirst
    <2>2. CASE i # 1
      <3>1. i \in 2 .. Len(text) + 1 /\ i - 1 \in 1 .. n
        BY <1>1, <2>2
      <3>2. right[i] = OpenAt(text, from, to, i) /\ right[i - 1] = OpenAt(text, from, to, i - 1)
        BY <3>1
      <3> HIDE DEF right
      <3> QED
        BY <2>2, <3>1, <3>2, OpenNext
    <2> QED
      BY <2>1, <2>2
  <1>4. right = [i \in 1 .. n |-> Step(right, i)]
    <2>1. [i \in 1 .. n |-> Step(right, i)] = [i \in 1 .. n |-> right[i]]
      <3> HIDE DEF Step, right, n
      <3> QED
        BY <1>3
    <2> QED
      BY <2>1
  <1> HIDE DEF right
  <1>5. Open = [i \in 1 .. n |-> Step(Open, i)]
    <2> HIDE DEF Step
    <2> QED
      BY <1>4, Zenon
  <1>6. \A i \in 1 .. n : Open[i] = Step(Open, i)
    <2> HIDE DEF Step, n
    <2>1. PICK g : g = Open
      OBVIOUS
    <2>2. g = [i \in 1 .. n |-> Step(g, i)]
      BY <1>5, <2>1
    <2>3. \A i \in 1 .. n : g[i] = Step(g, i)
      BY <2>2, Zenon
    <2> QED
      BY <2>1, <2>3, Zenon
  <1> HIDE DEF Open
  <1>7. OpensOn(Open, text)
    BY <1>6 DEF OpensOn
  <1>8. \A i \in 1 .. Len(text) + 1 : Open[i] = OpenAt(text, from, to, i)
    BY <1>7, OpensOnIs
  <1>9. \A i \in 1 .. Len(text) : Open[i] = OpenAt(text, from, to, i)
    BY <1>1, <1>8
  <1> QED
    BY <1>1, <1>2, <1>9

-----------------------------------------------------------------------------
(* A command of words.                                                       *)

\* The blanks outside quotes are what is outside the words.
LEMMA BareBlanks ==
    ASSUME NEW text \in Text, NEW from, NEW to, WrittenAt(text, from, to)
    PROVE  Bare(text, Blank) =
               {i \in 1 .. Len(text) : \A k \in 1 .. Len(from) : i < from[k] \/ to[k] < i}
  <1>1. /\ Len(from) \in Nat /\ Len(text) \in Nat
        /\ \A k \in 1 .. Len(from) : from[k] \in Nat /\ to[k] \in Nat
    BY WrittenIs, TextIs
  <1>2. ASSUME NEW i \in 1 .. Len(text),
               \A k \in 1 .. Len(from) : i < from[k] \/ to[k] < i
        PROVE  text[i] = Blank /\ OpenAt(text, from, to, i) = NoQuote
    <2>1. text[i] = Blank
      BY <1>2 DEF WrittenAt
    <2>2. \A k \in 1 .. Len(from) : ~InQuotes(text, from, to, k, i)
      BY <1>1, <1>2 DEF InQuotes
    <2> QED
      BY <2>1, <2>2, OpenIs
  <1>3. ASSUME NEW i \in 1 .. Len(text), NEW k \in 1 .. Len(from),
               ~(i < from[k] \/ to[k] < i),
               text[i] = Blank, OpenAt(text, from, to, i) = NoQuote
        PROVE  FALSE
    <2>1. /\ from[k] \in Nat /\ to[k] \in Nat /\ from[k] <= i /\ i <= to[k]
          /\ i \in from[k] .. to[k]
      BY <1>1, <1>3
    <2>2. QuotedWord(text, from[k], to[k])
      BY <1>3, <2>1 DEF WrittenAt, BareWord
    <2>3. text[from[k]] \in Quotes /\ i # from[k]
      BY <1>3, <2>2, Symbols DEF QuotedWord
    <2>4. InQuotes(text, from, to, k, i)
      BY <2>1, <2>3 DEF InQuotes
    <2>5. OpenAt(text, from, to, i) = text[from[k]]
      BY <2>4, OpenIs
    <2> QED
      BY <1>3, <2>3, <2>5, Symbols
  <1> QED
    BY <1>2, <1>3, BareIs

\* There is no redirection.
LEMMA NoRedirection ==
    ASSUME NEW text \in Text, NEW from, NEW to, WrittenAt(text, from, to),
           NEW op \in {FromFile, ToFile}
    PROVE  Bare(text, op) = {} /\ Target(text, op) = <<>>
  <1>1. /\ Len(from) \in Nat
        /\ \A k \in 1 .. Len(from) : from[k] \in Nat /\ to[k] \in Nat
    BY WrittenIs
  <1>2. ASSUME NEW i \in 1 .. Len(text), text[i] = op
        PROVE  FALSE
    <2>1. PICK k \in 1 .. Len(from) : ~(i < from[k] \/ to[k] < i)
      BY <1>2, Symbols DEF WrittenAt
    <2>2. /\ from[k] \in Nat /\ to[k] \in Nat /\ from[k] <= i /\ i <= to[k]
          /\ i \in from[k] .. to[k]
      BY <1>1, <2>1
    <2>3. QuotedWord(text, from[k], to[k])
      BY <1>2, <2>2 DEF WrittenAt, BareWord
    <2>4. i # from[k] /\ i # to[k]
      BY <1>2, <2>3, Symbols DEF QuotedWord
    <2>5. i \in from[k] + 1 .. to[k] - 1
      BY <2>2, <2>4
    <2> QED
      BY <1>2, <2>3, <2>5 DEF QuotedWord
  <1>3. Bare(text, op) = {}
    BY <1>2, BareIs
  <1> QED
    BY <1>3 DEF Target

\* Where the first m words have ended.
Ends(to, m) == {to[k] + 1 : k \in 1 .. m}

\* Each word but the last is followed by a run of blanks, and the last one may be.
LEMMA RunsCounted ==
    ASSUME NEW text \in Text, NEW from, NEW to, WrittenAt(text, from, to),
           NEW m \in 0 .. Len(from)
    PROVE  Cardinality(Ends(to, m)) = m
  <1> DEFINE S == Ends(to, m)
             f == [k \in 1 .. m |-> to[k] + 1]
  <1>1. Len(from) \in Nat /\ m \in Nat
        /\ \A k \in 1 .. m : k \in 1 .. Len(from) /\ from[k] \in Nat /\ to[k] \in Nat
    BY WrittenIs
  <1>2. ASSUME NEW j \in 1 .. m, NEW k \in 1 .. m, j < k
        PROVE  to[j] + 1 < to[k] + 1
    <2>1. to[j] + 1 < from[k] /\ from[k] <= to[k]
      BY <1>1, <1>2 DEF WrittenAt
    <2> QED
      BY <1>1, <2>1
  <1>3. f \in Bijection(1 .. m, S)
    <2>1. \A j, k \in 1 .. m : f[j] = f[k] => j = k
      <3> SUFFICES ASSUME NEW j \in 1 .. m, NEW k \in 1 .. m, j # k
                   PROVE  f[j] # f[k]
        OBVIOUS
      <3>1. j < k \/ k < j
        BY <1>1
      <3> QED
        BY <1>1, <1>2, <3>1
    <2> QED
      BY <2>1 DEF Ends, Bijection, Injection, Surjection, IsInjective
  <1>4. IsFiniteSet(1 .. m) /\ Cardinality(1 .. m) = m
    BY <1>1, FS_Interval
  <1> QED
    BY <1>3, <1>4, FS_Bijection DEF ExistsBijection

\* A run of blanks begins behind each word that is not at the end.
LEMMA RunsAre ==
    ASSUME NEW text \in Text, NEW from, NEW to, WrittenAt(text, from, to),
           Len(from) = 0 => Len(text) = 0,
           Len(from) > 0 => from[1] = 1,
           NEW m \in 0 .. Len(from),
           \A k \in 1 .. m : to[k] < Len(text),
           m < Len(from) => m + 1 = Len(from) /\ to[m + 1] = Len(text)
    PROVE  {i \in Bare(text, Blank) : i <= Len(text) /\ i - 1 \notin Bare(text, Blank)}
               = Ends(to, m)
  <1> DEFINE blanks == {i \in 1 .. Len(text) : \A k \in 1 .. Len(from) : i < from[k] \/ to[k] < i}
  <1>1. /\ Len(from) \in Nat /\ Len(text) \in Nat /\ m \in Nat
        /\ \A k \in 1 .. Len(from) : from[k] \in Nat /\ to[k] \in Nat
    BY WrittenIs, TextIs
  <1>2. Bare(text, Blank) = blanks
    BY BareBlanks
  <1>3. ASSUME NEW i \in blanks, i - 1 \notin blanks
        PROVE  \E k \in 1 .. m : i = to[k] + 1
    <2>1. i \in 1 .. Len(text) /\ i \in Nat /\ Len(from) > 0
      BY <1>1
    <2>2. from[1] = 1 /\ 1 \in 1 .. Len(from) /\ to[1] \in Nat /\ 1 <= to[1]
      BY <1>1, <2>1 DEF WrittenAt
    <2>3. i # 1
      BY <2>2
    <2>4. i - 1 \in 1 .. Len(text)
      BY <1>1, <2>1, <2>3
    <2>5. PICK k \in 1 .. Len(from) : ~(i - 1 < from[k] \/ to[k] < i - 1)
      BY <1>3, <2>4
    <2>6. from[k] \in Nat /\ to[k] \in Nat /\ (i < from[k] \/ to[k] < i)
      BY <1>1
    <2>7. i = to[k] + 1
      BY <2>1, <2>5, <2>6
    <2>8. k \in 1 .. m
      <3>1. to[k] < Len(text)
        BY <1>1, <2>1, <2>6, <2>7
      <3>2. k # m + 1 \/ m = Len(from)
        BY <1>1, <2>6, <3>1
      <3> QED
        BY <1>1, <3>2
    <2> QED
      BY <2>7, <2>8
  <1>4. ASSUME NEW k \in 1 .. m
        PROVE  to[k] + 1 \in blanks /\ to[k] + 1 - 1 \notin blanks /\ to[k] + 1 <= Len(text)
    <2>1. /\ k \in 1 .. Len(from) /\ from[k] \in Nat /\ to[k] \in Nat /\ to[k] < Len(text)
          /\ from[k] <= to[k]
      BY <1>1 DEF WrittenAt
    <2>2. to[k] + 1 \in 1 .. Len(text)
      BY <1>1, <2>1
    <2>3. ASSUME NEW h \in 1 .. Len(from), from[h] <= to[k] + 1, to[k] + 1 <= to[h]
          PROVE  FALSE
      <3>1. from[k] <= to[k] + 1 /\ to[k] + 1 \in Int
        BY <2>1
      <3>2. k = h
        BY <2>1, <2>3, <3>1, OneWordAt
      <3> QED
        BY <2>1, <2>3, <3>2
    <2>4. to[k] + 1 \in blanks
      <3>1. ASSUME NEW h \in 1 .. Len(from)
            PROVE  to[k] + 1 < from[h] \/ to[h] < to[k] + 1
        <4>1. from[h] \in Nat /\ to[h] \in Nat /\ ~(from[h] <= to[k] + 1 /\ to[k] + 1 <= to[h])
          BY <1>1, <2>3
        <4> QED
          BY <2>1, <4>1
      <3> QED
        BY <2>2, <3>1
    <2>5. to[k] + 1 - 1 \notin blanks
      BY <2>1
    <2> QED
      BY <2>2, <2>4, <2>5
  <1>5. \A i \in blanks : i <= Len(text)
    BY <1>1
  <1> HIDE DEF blanks
  <1> DEFINE runs == {i \in blanks : i <= Len(text) /\ i - 1 \notin blanks}
             ends == Ends(to, m)
  <1>6. ASSUME NEW i \in runs
        PROVE  i \in ends
    BY <1>3 DEF Ends
  <1>7. ASSUME NEW i \in ends
        PROVE  i \in runs
    <2>1. PICK k \in 1 .. m : i = to[k] + 1
      BY DEF Ends
    <2>2. i \in blanks /\ i - 1 \notin blanks /\ i <= Len(text)
      <3>1. to[k] \in Nat /\ i - 1 = to[k] + 1 - 1 /\ i \in Nat
        BY <1>1, <2>1
      <3> HIDE DEF runs, ends
      <3> QED
        BY <1>4, <2>1, <3>1
    <2> QED
      BY <2>2
  <1>8. runs = ends
    <2> HIDE DEF runs, ends
    <2> QED
      BY <1>6, <1>7
  <1> QED
    BY <1>2, <1>8

\* The runs of blanks, and the last word if it ends the text, are as many as the words.
LEMMA WordsCounted ==
    ASSUME NEW text \in Text, NEW from, NEW to, WrittenAt(text, from, to),
           Len(from) = 0 => Len(text) = 0,
           Len(from) > 0 => from[1] = 1
    PROVE  Cardinality({i \in Bare(text, Blank) : i <= Len(text) /\ i - 1 \notin Bare(text, Blank)})
             + (IF Len(text) > 0 /\ text[Len(text)] # Blank THEN 1 ELSE 0) = Len(from)
  <1> DEFINE n == Len(from)
             runs == {i \in Bare(text, Blank) : i <= Len(text) /\ i - 1 \notin Bare(text, Blank)}
  <1>1. /\ n \in Nat /\ Len(text) \in Nat
        /\ \A k \in 1 .. n : from[k] \in Nat /\ to[k] \in Nat
        /\ \A k \in 1 .. n : 1 <= from[k] /\ from[k] <= to[k] /\ to[k] <= Len(text)
        /\ \A j, k \in 1 .. n : j <= k => to[j] <= to[k]
    BY WrittenIs, TextIs DEF WrittenAt
  <1>2. CASE n > 0 /\ to[n] = Len(text)
    <2>1. n \in 1 .. n /\ n - 1 \in 0 .. n /\ (n - 1) + 1 = n
      BY <1>1, <1>2
    <2>2. \A k \in 1 .. n - 1 : to[k] < Len(text)
      <3> SUFFICES ASSUME NEW k \in 1 .. n - 1
                   PROVE  to[k] < Len(text)
        OBVIOUS
      <3>1. k \in 1 .. n /\ k < n
        BY <1>1
      <3>2. to[k] + 1 < from[n]
        BY <2>1, <3>1 DEF WrittenAt
      <3> QED
        BY <1>1, <2>1, <3>1, <3>2
    <2>3. runs = Ends(to, n - 1)
      <3>1. n - 1 < Len(from) => (n - 1) + 1 = Len(from) /\ to[(n - 1) + 1] = Len(text)
        BY <1>2, <2>1
      <3> HIDE DEF n
      <3>2. n - 1 \in 0 .. Len(from)
        BY <2>1 DEF n
      <3> QED
        BY <2>2, <3>1, <3>2, RunsAre
    <2>4. Cardinality(runs) = n - 1
      <3>1. Cardinality(Ends(to, n - 1)) = n - 1
        BY <2>1, RunsCounted
      <3> QED
        BY <2>3, <3>1, Zenon
    <2>5. Len(text) > 0 /\ text[Len(text)] # Blank
      <3>1. from[n] \in Nat /\ to[n] \in Nat /\ 1 <= from[n] /\ from[n] <= to[n]
            /\ to[n] \in from[n] .. to[n]
        BY <1>1, <2>1
      <3>2. BareWord(text, from[n], to[n]) \/ QuotedWord(text, from[n], to[n])
        BY <2>1 DEF WrittenAt
      <3>3. text[to[n]] # Blank
        BY <3>1, <3>2, Symbols DEF BareWord, QuotedWord
      <3> QED
        BY <1>2, <3>1, <3>3
    <2> HIDE DEF runs, n
    <2>6. Cardinality(runs) + 1 = n
      BY <1>1, <2>4
    <2> QED
      BY <2>5, <2>6 DEF runs, n
  <1>3. CASE ~(n > 0 /\ to[n] = Len(text))
    <2>1. n \in 0 .. n /\ ~(n < n)
      BY <1>1
    <2>2. \A k \in 1 .. n : to[k] < Len(text)
      <3> SUFFICES ASSUME NEW k \in 1 .. n
                   PROVE  to[k] < Len(text)
        OBVIOUS
      <3>1. n \in 1 .. n /\ k <= n /\ n > 0
        BY <1>1
      <3>2. to[k] <= to[n] /\ to[n] <= Len(text) /\ to[n] # Len(text)
        BY <1>1, <1>3, <3>1
      <3> QED
        BY <1>1, <3>1, <3>2
    <2>3. runs = Ends(to, n)
      BY <2>1, <2>2, RunsAre
    <2>4. Cardinality(runs) = n
      <3>1. Cardinality(Ends(to, n)) = n
        BY <2>1, RunsCounted
      <3> QED
        BY <2>3, <3>1, Zenon
    <2>5. ~(Len(text) > 0 /\ text[Len(text)] # Blank)
      <3> SUFFICES ASSUME Len(text) > 0
                   PROVE  text[Len(text)] = Blank
        OBVIOUS
      <3>1. Len(text) \in 1 .. Len(text) /\ n > 0
        BY <1>1
      <3>2. n \in 0 .. Len(from) /\ n \in 1 .. n /\ to[n] < Len(text)
        BY <1>1, <2>2, <3>1
      <3> QED
        BY <2>1, <3>1, <3>2, BlanksBetween
    <2> HIDE DEF runs, n
    <2>6. Cardinality(runs) + 0 = n
      BY <1>1, <2>4
    <2> QED
      BY <2>5, <2>6 DEF runs, n
  <1> QED
    BY <1>2, <1>3

\* The words themselves.
WordsOf(text, from, to) == [k \in 1 .. Len(from) |-> WordAt(text, from[k], to[k])]

\* parser_single on a piece whose first word, if there is one, is behind its
\* leading blanks.
LEMMA TrimmedCommand ==
    ASSUME NEW piece \in Text, NEW text \in Text, DropBlanks[piece] = text,
           NEW from, NEW to, WrittenAt(text, from, to), NEW bg,
           Len(from) = 0 => Len(text) = 0,
           Len(from) > 0 => from[1] = 1
    PROVE  parser_single(piece, bg) =
               [argv |-> WordsOf(text, from, to),
                in |-> <<>>, out |-> <<>>, bg |-> bg, cmdline |-> text]
  <1> DEFINE ops    == Bare(text, FromFile) \cup Bare(text, ToFile)
             length == Least(ops \cup {Len(text) + 1}) - 1
             blanks == Bare(text, Blank)
             runs   == {i \in blanks : i <= length /\ i - 1 \notin blanks}
             argc   == Cardinality(runs) + IF length > 0 /\ text[length] # Blank THEN 1 ELSE 0
  <1>1. parser_single(piece, bg) =
            [argv |-> Words(text, argc), in |-> Target(text, FromFile),
             out |-> Target(text, ToFile), bg |-> bg, cmdline |-> text]
    BY DEF parser_single
  <1>2. /\ Bare(text, FromFile) = {} /\ Bare(text, ToFile) = {}
        /\ Target(text, FromFile) = <<>> /\ Target(text, ToFile) = <<>>
    BY NoRedirection
  <1>3. length = Len(text)
    <2>1. ops \cup {Len(text) + 1} = {Len(text) + 1}
      BY <1>2
    <2>2. Len(text) \in Nat /\ Len(text) + 1 \in Nat
      BY TextIs
    <2>3. Least({Len(text) + 1}) = Len(text) + 1
      <3> DEFINE S == {Len(text) + 1}
      <3>1. S \in SUBSET Nat /\ Len(text) + 1 \in S /\ \A k \in S : Len(text) + 1 <= k
        BY <2>2
      <3> HIDE DEF S
      <3>2. Least(S) = Len(text) + 1
        BY <3>1, LeastEq
      <3> QED
        BY <3>2 DEF S
    <2>4. Least(ops \cup {Len(text) + 1}) = Len(text) + 1
      BY <2>1, <2>3, Zenon
    <2> QED
      BY <2>2, <2>4
  <1> HIDE DEF length
  <1>4. argc = Len(from)
    <2>1. Cardinality({i \in blanks : i <= Len(text) /\ i - 1 \notin blanks})
             + (IF Len(text) > 0 /\ text[Len(text)] # Blank THEN 1 ELSE 0) = Len(from)
      BY WordsCounted
    <2> HIDE DEF blanks
    <2> QED
      BY <1>3, <2>1, Zenon
  <1> HIDE DEF argc
  <1> QED
    BY <1>1, <1>2, <1>4, WordsAre DEF WordsOf

\* The places of the words when the first a symbols are gone.
Moved(places, a) == [k \in 1 .. Len(places) |-> places[k] - a]

\* A text without its leading blanks.
LEMMA WrittenBehind ==
    ASSUME NEW text \in Text, NEW from, NEW to, WrittenAt(text, from, to),
           Len(from) > 0, NEW a \in Nat, from[1] = a + 1
    PROVE  /\ WrittenAt(Rest(text, a + 1), Moved(from, a), Moved(to, a))
           /\ \A k \in 1 .. Len(from) :
                 WordAt(Rest(text, a + 1), Moved(from, a)[k], Moved(to, a)[k])
                     = WordAt(text, from[k], to[k])
  <1> DEFINE s == Rest(text, a + 1)
             f == Moved(from, a)
             t == Moved(to, a)
  <1>1. /\ Len(from) \in Nat /\ Len(text) \in Nat /\ 1 \in 1 .. Len(from)
        /\ a \in Nat /\ a + 1 <= Len(text) /\ Len(to) = Len(from)
    <2>1. /\ Len(from) \in Nat /\ Len(text) \in Nat /\ 1 \in 1 .. Len(from)
      BY WrittenIs, TextIs
    <2>3. Len(to) = Len(from)
      BY DEF WrittenAt
    <2>2. /\ from[1] \in Nat /\ to[1] \in Nat /\ 1 <= from[1] /\ from[1] <= to[1] /\ to[1] <= Len(text)
      BY <2>1, WrittenIs DEF WrittenAt
    <2> QED
      BY <2>1, <2>2, <2>3
  <1>2. ASSUME NEW k \in 1 .. Len(from)
        PROVE  /\ from[k] \in Nat /\ to[k] \in Nat
               /\ a < from[k] /\ from[k] <= to[k] /\ to[k] <= Len(text)
               /\ f[k] = from[k] - a /\ t[k] = to[k] - a
               /\ f[k] \in Nat /\ t[k] \in Nat
               /\ from[k] = a + f[k] /\ to[k] = a + t[k]
    <2>1. from[k] \in Nat /\ to[k] \in Nat /\ a + 1 <= from[k]
      <3>1. 1 <= k
        OBVIOUS
      <3> QED
        BY <1>1, <3>1, WrittenIs
    <2>2. from[k] <= to[k] /\ to[k] <= Len(text)
      BY DEF WrittenAt
    <2>3. f[k] = from[k] - a /\ t[k] = to[k] - a
      BY <1>1 DEF Moved
    <2> QED
      BY <1>1, <2>1, <2>2, <2>3
  <1>3. f \in Seq(Nat) /\ t \in Seq(Nat) /\ Len(f) = Len(from) /\ Len(t) = Len(from)
    <2>1. f \in [1 .. Len(from) -> Nat] /\ t \in [1 .. Len(from) -> Nat]
      BY <1>1, <1>2 DEF Moved
    <2> HIDE DEF f, t
    <2> QED
      BY <1>1, <2>1
  <1> HIDE DEF f, t
  <1>4. /\ s \in Text /\ Len(s) = Len(text) - a
        /\ \A i \in 1 .. Len(text) - a : s[i] = text[a + i]
    <2>1. /\ a + 1 \in Nat /\ a + 1 >= 1
      BY <1>1
    <2>2. /\ s \in Text
          /\ Len(s) = IF a + 1 <= Len(text) THEN Len(text) - (a + 1) + 1 ELSE 0
          /\ \A i \in 1 .. Len(text) - (a + 1) + 1 : s[i] = text[(a + 1) + i - 1]
      BY <2>1, RestIs
    <2> HIDE DEF s
    <2>3. Len(s) = Len(text) - a
      BY <1>1, <2>2
    <2>4. ASSUME NEW i \in 1 .. Len(text) - a
          PROVE  s[i] = text[a + i]
      <3>1. i \in 1 .. Len(text) - (a + 1) + 1 /\ (a + 1) + i - 1 = a + i
        BY <1>1
      <3> QED
        BY <2>2, <3>1
    <2> QED
      BY <2>2, <2>3, <2>4
  <1>5. ASSUME NEW k \in 1 .. Len(from), NEW i \in f[k] .. t[k]
        PROVE  s[i] = text[a + i] /\ i \in Nat /\ a + i \in from[k] .. to[k]
    <2>1. i \in 1 .. Len(text) - a /\ i \in Nat /\ a + i \in from[k] .. to[k]
      BY <1>1, <1>2
    <2> QED
      BY <1>1, <1>2, <1>4, <2>1
  <1>6. ASSUME NEW k \in 1 .. Len(from)
        PROVE  s[f[k]] = text[from[k]] /\ s[t[k]] = text[to[k]]
    <2>1. f[k] \in f[k] .. t[k] /\ t[k] \in f[k] .. t[k]
      BY <1>1, <1>2
    <2> QED
      BY <1>2, <1>5, <2>1
  <1> HIDE DEF s
  <1>7. ASSUME NEW k \in 1 .. Len(from)
        PROVE  BareWord(s, f[k], t[k]) \/ QuotedWord(s, f[k], t[k])
    <2>1. CASE BareWord(text, from[k], to[k])
      BY <1>5, <2>1 DEF BareWord
    <2>2. CASE QuotedWord(text, from[k], to[k])
      <3>1. f[k] < t[k] /\ s[f[k]] \in Quotes /\ s[t[k]] = s[f[k]]
        BY <1>1, <1>2, <1>6, <2>2 DEF QuotedWord
      <3>2. ASSUME NEW i \in f[k] + 1 .. t[k] - 1
            PROVE  s[i] \notin {s[f[k]], FromFile, ToFile}
        <4>1. i \in f[k] .. t[k] /\ i > f[k] /\ i < t[k]
          BY <1>2
        <4>2. s[i] = text[a + i] /\ i \in Nat
          BY <1>5, <4>1
        <4>3. a + i \in from[k] + 1 .. to[k] - 1
          <5>1. /\ from[k] \in Nat /\ to[k] \in Nat /\ f[k] \in Nat /\ t[k] \in Nat
                /\ from[k] = a + f[k] /\ to[k] = a + t[k]
            BY <1>2
          <5> QED
            BY <4>1, <4>2, <5>1
        <4> QED
          BY <1>6, <2>2, <4>2, <4>3 DEF QuotedWord
      <3> QED
        BY <3>1, <3>2 DEF QuotedWord
    <2> QED
      BY <2>1, <2>2 DEF WrittenAt
  <1>8. ASSUME NEW j \in 1 .. Len(from), NEW k \in 1 .. Len(from), j < k
        PROVE  t[j] + 1 < f[k]
    <2>1. to[j] + 1 < from[k]
      BY <1>8 DEF WrittenAt
    <2> QED
      BY <1>1, <1>2, <2>1
  <1>9. ASSUME NEW i \in 1 .. Len(s), \A k \in 1 .. Len(from) : i < f[k] \/ t[k] < i
        PROVE  s[i] = Blank
    <2>1. i \in 1 .. Len(text) - a /\ a + i \in 1 .. Len(text) /\ i \in Nat
      BY <1>1, <1>4
    <2>2. \A k \in 1 .. Len(from) : a + i < from[k] \/ to[k] < a + i
      <3> SUFFICES ASSUME NEW k \in 1 .. Len(from)
                   PROVE  a + i < from[k] \/ to[k] < a + i
        OBVIOUS
      <3>1. i < f[k] \/ t[k] < i
        BY <1>9
      <3>2. /\ f[k] \in Nat /\ t[k] \in Nat
            /\ from[k] = a + f[k] /\ to[k] = a + t[k]
        BY <1>2
      <3> QED
        BY <2>1, <3>1, <3>2
    <2>3. text[a + i] = Blank
      BY <2>1, <2>2 DEF WrittenAt
    <2> QED
      BY <1>4, <2>1, <2>3
  <1>10. WrittenAt(s, f, t)
    <2>1. ASSUME NEW k \in 1 .. Len(from)
          PROVE  1 <= f[k] /\ f[k] <= t[k] /\ t[k] <= Len(s)
      <3>1. /\ f[k] \in Nat /\ t[k] \in Nat /\ a < from[k] /\ from[k] <= to[k] /\ to[k] <= Len(text)
            /\ from[k] = a + f[k] /\ to[k] = a + t[k]
        BY <1>2
      <3>2. Len(s) = Len(text) - a /\ Len(text) \in Nat
        BY <1>1, <1>4
      <3> QED
        BY <3>1, <3>2
    <2> QED
      BY <1>3, <1>7, <1>8, <1>9, <2>1 DEF WrittenAt
  <1>11. ASSUME NEW k \in 1 .. Len(from)
         PROVE  WordAt(s, f[k], t[k]) = WordAt(text, from[k], to[k])
    <2>1. /\ a + 1 \in Nat /\ a + 1 >= 1 /\ f[k] \in Nat /\ f[k] >= 1
          /\ f[k] + 1 \in Nat /\ f[k] + 1 >= 1
          /\ to[k] \in Int /\ to[k] <= Len(text) /\ to[k] - 1 \in Int /\ to[k] - 1 <= Len(text)
          /\ to[k] - (a + 1) + 1 = t[k] /\ (to[k] - 1) - (a + 1) + 1 = t[k] - 1
          /\ (a + 1) + f[k] - 1 = from[k] /\ (a + 1) + (f[k] + 1) - 1 = from[k] + 1
      <3>1. /\ f[k] \in Nat /\ t[k] \in Nat /\ a < from[k] /\ to[k] <= Len(text)
            /\ from[k] = a + f[k] /\ to[k] = a + t[k]
        BY <1>2
      <3>2. Len(text) \in Nat
        BY <1>1
      <3>3. f[k] >= 1 /\ to[k] - 1 <= Len(text) /\ to[k] \in Int
        BY <3>1, <3>2
      <3>4. to[k] - (a + 1) + 1 = t[k] /\ (to[k] - 1) - (a + 1) + 1 = t[k] - 1
        BY <3>1
      <3>5. (a + 1) + f[k] - 1 = from[k] /\ (a + 1) + (f[k] + 1) - 1 = from[k] + 1
        <4>1. \A x \in Nat : (a + 1) + x - 1 = a + x /\ (a + 1) + (x + 1) - 1 = (a + x) + 1
          OBVIOUS
        <4> QED
          BY <3>1, <4>1
      <3>6. f[k] + 1 \in Nat /\ f[k] + 1 >= 1 /\ to[k] - 1 \in Int /\ a + 1 \in Nat /\ a + 1 >= 1
        BY <3>1
      <3> QED
        BY <3>1, <3>3, <3>4, <3>5, <3>6
    <2>2. SubSeq(Rest(text, a + 1), f[k], to[k] - (a + 1) + 1)
              = SubSeq(text, (a + 1) + f[k] - 1, to[k])
      BY <2>1, SubSeqRest
    <2>3. SubSeq(Rest(text, a + 1), f[k] + 1, (to[k] - 1) - (a + 1) + 1)
              = SubSeq(text, (a + 1) + (f[k] + 1) - 1, to[k] - 1)
      BY <2>1, SubSeqRest
    <2>4. SubSeq(s, f[k], t[k]) = SubSeq(text, from[k], to[k])
      BY <2>1, <2>2 DEF s
    <2>5. SubSeq(s, f[k] + 1, t[k] - 1) = SubSeq(text, from[k] + 1, to[k] - 1)
      BY <2>1, <2>3 DEF s
    <2> QED
      BY <1>6, <2>4, <2>5 DEF WordAt
  <1> QED
    BY <1>10, <1>11 DEF s, f, t

\* parser_single gives each command its words, in order and without their
\* quotes, however many blanks stand before, between and behind them and
\* whatever blanks, bars and other quotes stand inside quotes; and it finds no
\* redirection (its count of runs of blanks outside quotes and the cutting by
\* single_param agree).
THEOREM WordsAreRead ==
    ASSUME NEW text \in Text, NEW from, NEW to, WrittenAt(text, from, to), NEW bg
    PROVE  parser_single(text, bg) =
               [argv |-> WordsOf(text, from, to),
                in |-> <<>>, out |-> <<>>, bg |-> bg, cmdline |-> DropBlanks[text]]
  <1>1. Len(from) \in Nat /\ Len(text) \in Nat /\ Len(to) = Len(from)
    BY WrittenIs, TextIs DEF WrittenAt
  <1>2. CASE Len(from) = 0
    <2> DEFINE none == Rest(text, Len(text) + 1)
    <2>1. \A i \in 1 .. Len(text) : text[i] = Blank
      BY <1>2 DEF WrittenAt
    <2>2. DropBlanks[text] = none
      <3>1. Len(text) + 1 \in 1 .. Len(text) + 1 /\ ~(Len(text) + 1 <= Len(text))
            /\ \A k \in 1 .. Len(text) + 1 - 1 : k \in 1 .. Len(text)
        BY <1>1
      <3> QED
        BY <2>1, <3>1, DropBlanksIs
    <2>3. none \in Text /\ Len(none) = 0
      BY <1>1, RestIs
    <2> HIDE DEF none
    <2>4. WrittenAt(none, from, to)
      BY <1>2, <2>3 DEF WrittenAt
    <2>5. parser_single(text, bg) =
              [argv |-> WordsOf(none, from, to),
               in |-> <<>>, out |-> <<>>, bg |-> bg, cmdline |-> none]
      <3>1. (Len(from) = 0 => Len(none) = 0) /\ (Len(from) > 0 => from[1] = 1)
        BY <1>2, <2>3
      <3> QED
        <4>1. \A p, x \in Text : DropBlanks[p] = x /\ WrittenAt(x, from, to)
                  /\ (Len(from) = 0 => Len(x) = 0) /\ (Len(from) > 0 => from[1] = 1)
                  => parser_single(p, bg) =
                        [argv |-> WordsOf(x, from, to),
                         in |-> <<>>, out |-> <<>>, bg |-> bg, cmdline |-> x]
          BY TrimmedCommand
        <4>2. text \in Text /\ none \in Text /\ DropBlanks[text] = none /\ WrittenAt(none, from, to)
          BY <2>2, <2>3, <2>4
        <4> QED
          BY <4>1, <4>2, <3>1
    <2>6. WordsOf(none, from, to)
              = WordsOf(text, from, to)
      BY <1>2 DEF WordsOf
    <2> QED
      BY <2>2, <2>5, <2>6
  <1>3. CASE Len(from) > 0
    <2> DEFINE a == from[1] - 1
               s == Rest(text, a + 1)
               f == Moved(from, a)
               t == Moved(to, a)
    <2>1. /\ 1 \in 1 .. Len(from) /\ from[1] \in Nat /\ 1 <= from[1] /\ from[1] <= Len(text)
          /\ text[from[1]] # Blank
      <3>1. /\ 1 \in 1 .. Len(from) /\ from[1] \in Nat /\ to[1] \in Nat
            /\ 1 <= from[1] /\ from[1] <= to[1] /\ to[1] <= Len(text)
            /\ BareWord(text, from[1], to[1]) \/ QuotedWord(text, from[1], to[1])
        <4>1. 1 \in 1 .. Len(from)
          BY <1>1, <1>3
        <4> QED
          BY <4>1, WrittenIs DEF WrittenAt
      <3>2. from[1] \in from[1] .. to[1] /\ from[1] <= Len(text)
        BY <1>1, <3>1
      <3> QED
        BY <3>1, <3>2, Symbols DEF BareWord, QuotedWord
    <2>2. a \in Nat /\ from[1] = a + 1
      BY <2>1
    <2> HIDE DEF a
    <2>3. DropBlanks[text] = s
      <3>1. ASSUME NEW i \in 1 .. (a + 1) - 1
            PROVE  text[i] = Blank
        <4>1. i \in 1 .. Len(text) /\ 0 \in 0 .. Len(from) /\ i < from[0 + 1]
          BY <1>1, <2>1, <2>2
        <4> QED
          BY <4>1, BlanksBetween
      <3>2. a + 1 \in 1 .. Len(text) + 1 /\ text[a + 1] # Blank
        BY <1>1, <2>1, <2>2
      <3> QED
        BY <3>1, <3>2, DropBlanksIs
    <2>4. /\ WrittenAt(s, f, t)
          /\ \A k \in 1 .. Len(from) : WordAt(s, f[k], t[k]) = WordAt(text, from[k], to[k])
      BY <1>3, <2>2, WrittenBehind
    <2>5. s \in Text
      BY <2>2, RestIs
    <2>6. Len(f) = Len(from) /\ f[1] = 1
      <3>1. f \in Seq(Nat)
        BY <2>4 DEF WrittenAt
      <3>2. DOMAIN f = 1 .. Len(from) /\ f[1] = from[1] - a
        BY <2>1 DEF Moved
      <3> HIDE DEF f
      <3> QED
        BY <1>1, <2>2, <3>1, <3>2
    <2> HIDE DEF s, f, t
    <2>7. parser_single(text, bg) =
              [argv |-> WordsOf(s, f, t),
               in |-> <<>>, out |-> <<>>, bg |-> bg, cmdline |-> s]
      BY <1>3, <2>3, <2>4, <2>5, <2>6, TrimmedCommand
    <2>8. WordsOf(s, f, t)
              = WordsOf(text, from, to)
      BY <2>4, <2>6 DEF WordsOf
    <2> QED
      BY <2>3, <2>7, <2>8
  <1> QED
    BY <1>1, <1>2, <1>3

-----------------------------------------------------------------------------
(* Interpret.                                                                *)

\* A text is put together from its symbols.
LEMMA SymbolsJoin ==
    ASSUME NEW s \in Text
    PROVE  FlattenSeq([i \in DOMAIN s |-> <<s[i]>>]) = s
  <1> DEFINE q == [i \in DOMAIN s |-> <<s[i]>>]
             n == Len(q)
             Step(g, i) == IF i = 1 THEN q[i] ELSE g[i - 1] \o q[i]
             joined == CHOOSE g : g = [i \in 1 .. n |-> Step(g, i)]
             right == [i \in 1 .. n |-> SubSeq(s, 1, i)]
  <1>1. Len(s) \in Nat /\ DOMAIN s = 1 .. Len(s) /\ \A i \in 1 .. Len(s) : s[i] \in STRING
    BY TextIs
  <1>2. /\ q \in Seq(Text) /\ Len(q) = Len(s)
        /\ \A i \in 1 .. Len(s) : q[i] = <<s[i]>>
    <2>1. q \in [1 .. Len(s) -> Text]
      BY <1>1 DEF Text
    <2>2. \A i \in 1 .. Len(s) : q[i] = <<s[i]>>
      BY <1>1
    <2> HIDE DEF q
    <2> QED
      BY <1>1, <2>1, <2>2
  <1>3. FlattenSeq(q) = IF n = 0 THEN q ELSE joined[n]
    BY DEF FlattenSeq
  <1>4. CASE n = 0
    <2>1. q = s
      <3> HIDE DEF q
      <3>1. q \in Seq(Text) /\ Len(q) = 0
        BY <1>2, <1>4
      <3>2. s \in Seq(STRING) /\ Len(s) = 0
        BY <1>2, <1>4 DEF Text
      <3>3. q = <<>>
        BY <3>1
      <3>4. s = <<>>
        BY <3>2
      <3> QED
        BY <3>3, <3>4
    <2> QED
      BY <1>3, <1>4, <2>1
  <1>5. CASE n # 0
    <2> HIDE DEF q
    <2>1. n \in Nat /\ n = Len(s) /\ n >= 1
      BY <1>1, <1>2, <1>5
    <2>2. ASSUME NEW i \in 1 .. n
          PROVE  /\ SubSeq(s, 1, i) \in Seq(STRING) /\ Len(SubSeq(s, 1, i)) = i
                 /\ \A j \in 1 .. i : SubSeq(s, 1, i)[j] = s[j]
      <3>1. 1 \in Int /\ i \in Int /\ 1 <= i /\ \A j \in 1 .. i : s[j] \in STRING
        BY <1>1, <2>1
      <3>2. /\ SubSeq(s, 1, i) \in Seq(STRING)
            /\ Len(SubSeq(s, 1, i)) = IF 1 <= i THEN i - 1 + 1 ELSE 0
            /\ \A j \in 1 .. i - 1 + 1 : SubSeq(s, 1, i)[j] = s[1 + j - 1]
        BY <3>1, SubSeqProperties
      <3>3. i - 1 + 1 = i /\ \A j \in 1 .. i : 1 + j - 1 = j
        BY <3>1
      <3> QED
        BY <3>1, <3>2, <3>3
    <2>3. ASSUME NEW i \in 1 .. n, i # 1
          PROVE  SubSeq(s, 1, i - 1) \o q[i] = SubSeq(s, 1, i)
      <3> DEFINE a == SubSeq(s, 1, i - 1)
                 b == SubSeq(s, 1, i)
      <3>1. i - 1 \in 1 .. n /\ q[i] = <<s[i]>> /\ s[i] \in STRING /\ i \in Nat
        BY <1>1, <1>2, <2>1, <2>3
      <3>2. /\ a \in Seq(STRING) /\ Len(a) = i - 1
            /\ \A j \in 1 .. i - 1 : a[j] = s[j]
        BY <2>2, <3>1
      <3>3. /\ b \in Seq(STRING) /\ Len(b) = i
            /\ \A j \in 1 .. i : b[j] = s[j]
        BY <2>2
      <3> HIDE DEF a, b
      <3>4. <<s[i]>> \in Seq(STRING) /\ Len(<<s[i]>>) = 1
        BY <3>1
      <3>5. a \o <<s[i]>> \in Seq(STRING) /\ Len(a \o <<s[i]>>) = i
        BY <3>1, <3>2, <3>4
      <3>6. ASSUME NEW j \in 1 .. i
            PROVE  (a \o <<s[i]>>)[j] = b[j]
        BY <3>1, <3>2, <3>3
      <3>7. a \o <<s[i]>> = b
        BY <3>1, <3>3, <3>5, <3>6, SeqEqual
      <3> QED
        BY <3>1, <3>7 DEF a, b
    <2>4. SubSeq(s, 1, 1) = q[1]
      <3>1. 1 \in 1 .. n /\ q[1] = <<s[1]>> /\ s[1] \in STRING
        BY <1>1, <1>2, <2>1
      <3>2. /\ SubSeq(s, 1, 1) \in Seq(STRING) /\ Len(SubSeq(s, 1, 1)) = 1
            /\ SubSeq(s, 1, 1)[1] = s[1]
        <4>1. 1 \in 1 .. 1
          OBVIOUS
        <4> QED
          BY <2>2, <3>1, <4>1
      <3> DEFINE a == SubSeq(s, 1, 1)
                 b == <<s[1]>>
      <3>3. b \in Seq(STRING) /\ Len(b) = 1 /\ b[1] = s[1]
        BY <3>1
      <3> HIDE DEF a, b
      <3>4. a \in Seq(STRING) /\ Len(a) = 1 /\ a[1] = s[1]
        BY <3>2 DEF a
      <3>5. \A j \in 1 .. 1 : a[j] = b[j]
        BY <3>3, <3>4
      <3>6. a = b
        BY <3>3, <3>4, <3>5, SeqEqual
      <3> QED
        BY <3>1, <3>6 DEF a, b
    <2>5. ASSUME NEW i \in 1 .. n
          PROVE  right[i] = Step(right, i)
      <3>1. CASE i = 1
        BY <2>4, <3>1
      <3>2. CASE i # 1
        <4>1. i - 1 \in 1 .. n
          BY <2>1, <3>2
        <4>2. right[i] = SubSeq(s, 1, i) /\ right[i - 1] = SubSeq(s, 1, i - 1)
          BY <4>1
        <4> HIDE DEF right
        <4> QED
          BY <2>3, <3>2, <4>2
      <3> QED
        BY <3>1, <3>2
    <2>6. right = [i \in 1 .. n |-> Step(right, i)]
      <3>1. [i \in 1 .. n |-> Step(right, i)] = [i \in 1 .. n |-> right[i]]
        <4> HIDE DEF Step, right, n
        <4> QED
          BY <2>5
      <3> QED
        BY <3>1
    <2> HIDE DEF right
    <2>7. joined = [i \in 1 .. n |-> Step(joined, i)]
      <3> HIDE DEF Step
      <3> QED
        BY <2>6, Zenon
    <2>8. \A i \in 1 .. n : joined[i] = Step(joined, i)
      <3> HIDE DEF Step, n
      <3>1. PICK g : g = joined
        OBVIOUS
      <3>2. g = [i \in 1 .. n |-> Step(g, i)]
        BY <2>7, <3>1
      <3>3. \A i \in 1 .. n : g[i] = Step(g, i)
        BY <3>2, Zenon
      <3> QED
        BY <3>1, <3>3, Zenon
    <2> HIDE DEF joined
    <2>9. \A i \in 1 .. n : joined[i] = SubSeq(s, 1, i)
      <3> DEFINE wrong == {i \in 1 .. n : joined[i] # SubSeq(s, 1, i)}
      <3> SUFFICES ASSUME wrong # {}
                   PROVE  FALSE
        OBVIOUS
      <3>1. PICK i \in wrong : \A j \in wrong : i <= j
        <4>1. wrong \in SUBSET Nat
          BY <2>1
        <4> HIDE DEF wrong
        <4> QED
          BY <4>1, LeastNat
      <3>2. i # 1
        <4>1. joined[1] = q[1]
          BY <2>1, <2>8
        <4> QED
          BY <2>4, <3>1, <4>1
      <3>3. i \in 1 .. n /\ i - 1 \in 1 .. n /\ i - 1 \notin wrong
        BY <2>1, <3>1, <3>2
      <3>4. joined[i] = joined[i - 1] \o q[i]
        BY <2>8, <3>2, <3>3
      <3>5. joined[i] = SubSeq(s, 1, i)
        BY <2>3, <3>2, <3>3, <3>4
      <3> QED
        BY <3>1, <3>5
    <2>10. joined[n] = SubSeq(s, 1, n)
      BY <2>1, <2>9
    <2>11. SubSeq(s, 1, n) = s
      <3>1. n \in 1 .. n
        BY <2>1
      <3> QED
        BY <1>1, <2>1, <2>2, <3>1, SeqEqual DEF Text
    <2> QED
      BY <1>3, <1>5, <2>10, <2>11 DEF q
  <1> QED
    BY <1>4, <1>5

\* A text without bars is one piece.
LEMMA OnePiece ==
    ASSUME NEW text \in Text, Bare(text, Bar) = {}
    PROVE  Pieces[text] = <<text>>
  <1> DEFINE bars    == Bare(text, Bar)
             bar(k)  == CHOOSE i \in bars : Cardinality({j \in bars : j <= i}) = k
             from(k) == IF k = 1 THEN 1 ELSE bar(k - 1) + 1
             to(k)   == IF k > Cardinality(bars) THEN Len(text) ELSE bar(k) - 1
  <1>1. Pieces[text] = [k \in 1 .. Cardinality(bars) + 1 |-> SubSeq(text, from(k), to(k))]
    BY DEF Pieces
  <1>2. Cardinality(bars) = 0
    BY FS_EmptySet, Zenon
  <1> HIDE DEF bar, bars
  <1>3. from(1) = 1 /\ to(1) = Len(text)
    BY <1>2
  <1> HIDE DEF from, to
  <1>4. SubSeq(text, 1, Len(text)) = text
    BY RestOfAll DEF Rest
  <1>5. Pieces[text] = [k \in 1 .. 1 |-> SubSeq(text, from(k), to(k))]
    BY <1>1, <1>2
  <1>6. \A k \in 1 .. 1 : SubSeq(text, from(k), to(k)) = text
    BY <1>3, <1>4
  <1>7. [k \in 1 .. 1 |-> SubSeq(text, from(k), to(k))] = [k \in 1 .. 1 |-> text]
    BY <1>6, Zenon
  <1>8. [k \in 1 .. 1 |-> text] = <<text>>
    OBVIOUS
  <1> QED
    BY <1>5, <1>7, <1>8

\* There is no bar outside quotes if no word has one.
LEMMA NoBars ==
    ASSUME NEW text \in Text, NEW from, NEW to, WrittenAt(text, from, to),
           \A k \in 1 .. Len(from) : text[from[k]] \in Quotes
               \/ \A i \in from[k] .. to[k] : text[i] # Bar
    PROVE  Bare(text, Bar) = {}
  <1>1. /\ Len(from) \in Nat
        /\ \A k \in 1 .. Len(from) : from[k] \in Nat /\ to[k] \in Nat
    BY WrittenIs
  <1>2. Bar # Blank /\ Bar \notin Quotes
    BY Zenon DEF Bar, Blank, Quotes
  <1>3. ASSUME NEW i \in 1 .. Len(text), text[i] = Bar, OpenAt(text, from, to, i) = NoQuote
        PROVE  FALSE
    <2>1. PICK k \in 1 .. Len(from) : ~(i < from[k] \/ to[k] < i)
      BY <1>2, <1>3 DEF WrittenAt
    <2>2. /\ from[k] \in Nat /\ to[k] \in Nat /\ from[k] <= i /\ i <= to[k]
          /\ i \in from[k] .. to[k]
      BY <1>1, <2>1
    <2>3. text[from[k]] \in Quotes /\ i # from[k]
      BY <1>2, <1>3, <2>2
    <2>4. InQuotes(text, from, to, k, i)
      BY <2>2, <2>3 DEF InQuotes
    <2>5. OpenAt(text, from, to, i) = text[from[k]]
      BY <2>4, OpenIs
    <2> QED
      BY <1>3, <2>3, <2>5, Symbols
  <1> QED
    BY <1>3, BareIs

\* What is before a last '&' is a text.
LEMMA ForegroundIs ==
    ASSUME NEW line \in Text
    PROVE  Foreground[line] \in Text
  <1> DEFINE S == {i \in 0 .. Len(line) : \A k \in i + 1 .. Len(line) : line[k] = Blank}
  <1>1. Len(line) \in Nat /\ \A i \in 1 .. Len(line) : line[i] \in STRING
    BY TextIs
  <1>2. S \in SUBSET Nat /\ Len(line) \in S /\ \A i \in S : i <= Len(line)
    BY <1>1
  <1>3. LastText[line] = Least(S)
    BY DEF LastText
  <1> HIDE DEF S
  <1>4. LastText[line] \in Nat /\ LastText[line] <= Len(line)
    <2>1. Least(S) \in S
      BY <1>2, LeastIs
    <2> QED
      BY <1>2, <1>3, <2>1
  <1>5. SubSeq(line, 1, LastText[line] - 1) \in Seq(STRING)
    <2>1. 1 \in Int /\ LastText[line] - 1 \in Int
      BY <1>4
    <2>2. \A i \in 1 .. LastText[line] - 1 : line[i] \in STRING
      BY <1>1, <1>4
    <2> QED
      BY <2>1, <2>2, SubSeqProperties
  <1> QED
    BY <1>5 DEF Foreground, Text

\* A line of words, with an '&' at its end or without, is interpreted as one
\* command with those words, in the background or not: bars and other symbols
\* in quotes do not take the line apart (Interpret, parser_single and
\* single_param each track quotes on their own and agree).
THEOREM LineIsRead ==
    ASSUME NEW line \in Text, line # <<>>, \A i \in 1 .. Len(line) : line[i] # Tilde,
           ~(IsBg[line] /\ LastText[line] = 1),
           NEW text, text = Foreground[line],
           NEW from, NEW to, WrittenAt(text, from, to),
           \A k \in 1 .. Len(from) : text[from[k]] \in Quotes
               \/ \A i \in from[k] .. to[k] : text[i] # Bar
    PROVE  Interpret[line] =
               << [argv |-> WordsOf(text, from, to), in |-> <<>>, out |-> <<>>,
                   bg |-> IsBg[line], cmdline |-> DropBlanks[text]] >>
  <1>1. text \in Text
    BY ForegroundIs
  <1>2. Expanded[line] = line
    <2>1. [i \in DOMAIN line |-> IF line[i] = Tilde THEN Home ELSE <<line[i]>>]
              = [i \in DOMAIN line |-> <<line[i]>>]
      BY TextIs
    <2>2. Expanded[line] = FlattenSeq([i \in DOMAIN line |-> IF line[i] = Tilde THEN Home ELSE <<line[i]>>])
      BY DEF Expanded
    <2> QED
      BY <2>1, <2>2, SymbolsJoin, Zenon
  <1>3. Pieces[text] = <<text>>
    BY <1>1, NoBars, OnePiece
  <1>4. parser_single(text, IsBg[line]) =
            [argv |-> WordsOf(text, from, to), in |-> <<>>, out |-> <<>>,
             bg |-> IsBg[line], cmdline |-> DropBlanks[text]]
    BY <1>1, WordsAreRead
  <1> DEFINE pieces == Pieces[Foreground[line]]
  <1>5. Interpret[line] = [k \in DOMAIN pieces |-> parser_single(pieces[k], IsBg[line])]
    BY <1>2 DEF Interpret
  <1>6. pieces = <<text>>
    BY <1>3
  <1> HIDE DEF pieces
  <1>7. DOMAIN pieces = 1 .. 1 /\ pieces[1] = text
    BY <1>6
  <1>8. [k \in DOMAIN pieces |-> parser_single(pieces[k], IsBg[line])]
            = [k \in 1 .. 1 |-> parser_single(text, IsBg[line])]
    BY <1>7
  <1>9. [k \in 1 .. 1 |-> parser_single(text, IsBg[line])] = <<parser_single(text, IsBg[line])>>
    OBVIOUS
  <1> QED
    BY <1>4, <1>5, <1>8, <1>9
=============================================================================
