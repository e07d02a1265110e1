----------------------------- MODULE PccProofs ------------------------------
(***************************************************************************)
(* Proofs about the single-threaded simulator, for every set of pages and  *)
(* every geometry of the caches.                                           *)
(***************************************************************************)
EXTENDS PccHistory, TlbProofs

(***************************************************************************)
(* The inductive invariants.  The first is behind the types and the shape  *)
(* of the PCC.  The second says what the caches do not hold: a 2MB         *)
(* translation of a region that is not promoted, and a 4KB translation or  *)
(* a PCC line of one that is.                                              *)
(***************************************************************************)
PccInv ==
    /\ Machine \in MachineSet /\ Sound(Machine.pcc)
    /\ clock \in 0..(Factor * Interval - 1)
    /\ isROI \in BOOLEAN

Good(m) == TlbGood(m, m.promoted) /\ PccFresh(m, m.promoted)
PccGood == Good(Machine)

-----------------------------------------------------------------------------
(***************************************************************************)
(* summarize_promotions.                                                   *)
(***************************************************************************)
\* n is m after the loop body for base: base is out of the PCC, all other
\* tags are still there and no more used than before.
LineDone(n, m, base) ==
    /\ n \in MachineSet /\ Sound(n.pcc)
    /\ \A u : Holds(n.pcc, u) <=> Holds(m.pcc, u) /\ u # base
    /\ UsedOnly(n.pcc, m.pcc, {})

\* The machine after the reads of the loop body and the eviction.
ReadLine(m, base) == [m EXCEPT !.reuse[base] = IF @ = "absent" THEN "cold" ELSE @,
                               !.pcc = EvictSet(@, base)]
Demote(m, base, N) == [m EXCEPT !.promoted = @ \ {base},
                                !.l1_2m = Shootdown(@, N), !.l2 = Shootdown(@, N)]

\* The reads and the eviction of the loop body remove the tag from the PCC.
LEMMA ReadLineStep ==
    ASSUME NEW m \in MachineSet, Sound(m.pcc), NEW base \in Base, Holds(m.pcc, base)
    PROVE  LET n == ReadLine(m, base)
           IN  /\ LineDone(n, m, base)
               /\ n.l1_2m = m.l1_2m /\ n.l2 = m.l2 /\ n.promoted = m.promoted
<1> DEFINE x == IF m.reuse[base] = "absent" THEN "cold" ELSE m.reuse[base]
           s == EvictSet(m.pcc, base)
           n == [m EXCEPT !.reuse[base] = x, !.pcc = s]
<1>1. ReadLine(m, base) = n
  BY DEF ReadLine
<1>2. x \in {"absent", "cold", "tracked"} /\ m.pcc \in PccSet
  BY DEF MachineSet
<1>3. s \in PccSet /\ Sound(s) /\ \A u : Holds(s, u) <=> Holds(m.pcc, u) /\ u # base
  BY <1>2, PccEvict
<1>4. UsedOnly(s, m.pcc, {})
  BY <1>2, EvictUsed DEF PccSet
<1> HIDE DEF x, s
<1>5. /\ n \in MachineSet /\ n.pcc = s
      /\ n.l1_2m = m.l1_2m /\ n.l2 = m.l2 /\ n.promoted = m.promoted
  BY <1>2, <1>3 DEF MachineSet
<1> HIDE DEF n
<1>6. QED BY <1>1, <1>3, <1>4, <1>5 DEF LineDone

\* A shootdown brings nothing in.
LEMMA ShootdownHits ==
    ASSUME NEW T, NEW k \in Nat \ {0}, NEW n \in Nat, NEW c \in Tlb(T, k, n), NEW N
    PROVE  Shootdown(c, N) \in Tlb(T, k, n) /\ HitsOnly(Shootdown(c, N), c, {})
<1>1. /\ Shootdown(c, N) \in Tlb(T, k, n)
      /\ \A u \in Nat : CacheHit(Shootdown(c, N), u) => CacheHit(c, u) /\ u \notin N
  BY TlbShootdown
<1>2. QED BY <1>1 DEF HitsOnly

\* The demotion branch.
LEMMA DemoteStep ==
    ASSUME NEW m \in MachineSet, NEW base, NEW N
    PROVE  LET n == Demote(m, base, N)
           IN  /\ n \in MachineSet /\ n.pcc = m.pcc
               /\ n.promoted = m.promoted \ {base}
               /\ HitsOnly(n.l1_2m, m.l1_2m, {}) /\ HitsOnly(n.l2, m.l2, {})
<1> DEFINE x == Shootdown(m.l1_2m, N)
           y == Shootdown(m.l2, N)
           T == Page \cup Region
           n == [m EXCEPT !.promoted = m.promoted \ {base}, !.l1_2m = x, !.l2 = y]
<1>1. Demote(m, base, N) = n
  BY DEF Demote
<1>2. m.l1_2m \in Tlb(Region, L1Sets2M, L1Assoc) /\ m.l2 \in Tlb(T, L2Sets, L2Assoc)
  BY DEF MachineSet
<1> HIDE DEF T
<1>3. x \in Tlb(Region, L1Sets2M, L1Assoc) /\ HitsOnly(x, m.l1_2m, {})
  BY <1>2, Sizes, ShootdownHits
<1>4. y \in Tlb(T, L2Sets, L2Assoc) /\ HitsOnly(y, m.l2, {})
  BY <1>2, Sizes, ShootdownHits
<1> HIDE DEF x, y
<1>5. /\ n \in MachineSet /\ n.pcc = m.pcc /\ n.l1_2m = x /\ n.l2 = y
      /\ n.promoted = m.promoted \ {base}
  BY <1>3, <1>4 DEF MachineSet, T
<1> HIDE DEF n
<1>6. QED BY <1>1, <1>3, <1>4, <1>5

\* The three branches of the loop body.
LEMMA LineBranches ==
    ASSUME NEW m, NEW i, NEW base
    PROVE  LET n == SummarizeLine(m, i, base)
               r == ReadLine(m, base)
           IN  \/ IsCandidate(m, base) /\ n = PromoteRegion(r, base)
               \/ base \in m.promoted /\ \E N : n = Demote(r, base, N)
               \/ base \notin m.promoted /\ n = r
<1>1. CASE IsCandidate(m, base)
  <2>1. base \notin m.promoted
    BY <1>1 DEF IsCandidate
  <2>2. QED BY <1>1, <2>1 DEF SummarizeLine, ReadLine
<1>2. CASE base \in m.promoted
  <2>1. ~IsCandidate(m, base)
    BY <1>2 DEF IsCandidate
  <2>2. QED BY <1>2, <2>1 DEF SummarizeLine, ReadLine, Demote
<1>3. CASE ~IsCandidate(m, base) /\ base \notin m.promoted
  BY <1>3 DEF SummarizeLine, ReadLine
<1>4. QED BY <1>1, <1>2, <1>3

\* The loop body: a promotion, a demotion or neither, and the eviction.
LEMMA SummarizeLineStep ==
    ASSUME NEW m \in MachineSet, Sound(m.pcc), NEW i, NEW base \in Base, Holds(m.pcc, base)
    PROVE  /\ LineDone(SummarizeLine(m, i, base), m, base)
           /\ \A b \in SummarizeLine(m, i, base).promoted : b \in m.promoted \/ Used(m.pcc, b)
<1> DEFINE n == SummarizeLine(m, i, base)
           r == ReadLine(m, base)
<1>1. LineDone(r, m, base) /\ r.promoted = m.promoted
  BY ReadLineStep
<1>2. \/ IsCandidate(m, base) /\ n = PromoteRegion(r, base)
      \/ \E N : n = Demote(r, base, N)
      \/ n = r
  BY LineBranches
<1>3. IsCandidate(m, base) => Used(m.pcc, base)
  BY FoundUsed DEF IsCandidate, MachineSet, PccSet
<1> HIDE DEF n, r
<1>4. r \in MachineSet
  BY <1>1 DEF LineDone
<1>5. n \in MachineSet /\ n.pcc = r.pcc
  BY <1>2, <1>4, PromoteRegionStep, DemoteStep
<1>6. LineDone(n, m, base)
  BY <1>1, <1>5 DEF LineDone
<1>7. \A b \in n.promoted : b \in m.promoted \/ Used(m.pcc, b)
  <2>1. CASE IsCandidate(m, base) /\ n = PromoteRegion(r, base)
    <3>1. n.promoted = r.promoted \cup {base}
      BY <1>4, <2>1, PromoteRegionStep
    <3>2. QED BY <1>1, <1>3, <2>1, <3>1
  <2>2. ASSUME NEW N, n = Demote(r, base, N) PROVE n.promoted \subseteq m.promoted
    <3>1. n.promoted = r.promoted \ {base}
      BY <1>4, <2>2, DemoteStep
    <3>2. QED BY <1>1, <3>1
  <2>3. QED BY <1>1, <1>2, <2>1, <2>2
<1>8. QED BY <1>6, <1>7 DEF n

\* The loop body keeps the machine good and demotes no region that the
\* program touches: one that is promoted is not in the PCC.
LEMMA SummarizeLineGood ==
    ASSUME NEW m \in MachineSet, Sound(m.pcc), NEW i, NEW base \in Base, Holds(m.pcc, base),
           Good(m)
    PROVE  /\ Good(SummarizeLine(m, i, base))
           /\ Region \cap m.promoted \subseteq SummarizeLine(m, i, base).promoted
<1> DEFINE n == SummarizeLine(m, i, base)
           r == ReadLine(m, base)
           P == m.promoted
<1>1. /\ LineDone(r, m, base)
      /\ r.l1_2m = m.l1_2m /\ r.l2 = m.l2 /\ r.promoted = P
  BY ReadLineStep
<1>2. \/ n = PromoteRegion(r, base)
      \/ base \in P /\ \E N : n = Demote(r, base, N)
      \/ base \notin P /\ n = r
  BY LineBranches
<1>3. LineDone(n, m, base)
  BY SummarizeLineStep
<1> HIDE DEF n, r, P
<1>4. r \in MachineSet /\ TlbGood(r, P)
  BY <1>1 DEF LineDone, Good, TlbGood, P
<1>5. ASSUME n.promoted \subseteq P \cup {base} PROVE PccFresh(n, n.promoted)
  BY <1>3, <1>5 DEF LineDone, Good, PccFresh, P
<1>6. CASE n = PromoteRegion(r, base)
  <2>1. TlbGood(n, P \cup {base}) /\ n.promoted = P \cup {base}
    BY <1>1, <1>4, <1>6, PromoteRegionStep
  <2>2. QED BY <1>5, <2>1 DEF Good, n, P
<1>7. ASSUME base \in P, NEW N, n = Demote(r, base, N)
      PROVE  Good(n) /\ Region \cap P \subseteq n.promoted
  <2>1. base \notin Region
    BY <1>7 DEF Good, PccFresh, P
  <2>2. n.promoted = P \ {base} /\ HitsOnly(n.l1_2m, r.l1_2m, {}) /\ HitsOnly(n.l2, r.l2, {})
    BY <1>1, <1>4, <1>7, DemoteStep
  <2>3. \A b \in Region : b \in Nat
    BY Numbers
  <2>4. \A p \in Page : p \in Nat
    BY Numbers
  <2>5. TlbGood(n, n.promoted)
    BY <1>1, <1>4, <2>1, <2>2, <2>3, <2>4 DEF TlbGood, HitsOnly
  <2>6. QED BY <1>5, <2>1, <2>2, <2>5 DEF Good
<1>8. CASE n = r
  <2>1. QED BY <1>1, <1>4, <1>5, <1>8 DEF Good, n, P
<1>9. QED BY <1>2, <1>6, <1>7, <1>8 DEF n, P

\* The loop, as the equation that the machines after each entry satisfy.
LEMMA SummaryEquation ==
    ASSUME NEW m, Len(m.pcc) \in Nat
    PROVE  \E f : /\ f = [i \in 0..Len(m.pcc) |->
                            IF i = 0 THEN m ELSE SummarizeLine(f[i - 1], i, m.pcc[i].tag)]
                  /\ SummarizePromotions(m) = f[Len(m.pcc)]
<1> DEFINE last == Len(m.pcc)
           Body(f, i) == IF i = 0 THEN m ELSE SummarizeLine(f[i - 1], i, m.pcc[i].tag)
           Upto(j) == \E f : f = [i \in 0..j |-> Body(f, i)]
           T == {j \in 0..last : Upto(j)}
<1>0. last \in Nat
  OBVIOUS
<1>1. 0 \in T
  <2> DEFINE g == [i \in 0..0 |-> m]
  <2>1. g = [i \in 0..0 |-> Body(g, i)]
    OBVIOUS
  <2> HIDE DEF g, Body, last
  <2>2. Upto(0)
    BY <2>1
  <2>3. QED BY <1>0, <2>2
<1>2. ASSUME NEW j \in 0..last, j # last, j \in T PROVE j + 1 \in T
  <2> HIDE DEF Body, last
  <2>1. PICK f : f = [i \in 0..j |-> Body(f, i)]
    BY <1>2
  <2> DEFINE g == [i \in 0..(j + 1) |-> IF i = j + 1 THEN Body(f, j + 1) ELSE f[i]]
  <2>2. \A i \in 0..j : g[i] = f[i] /\ f[i] = Body(f, i)
    BY <2>1
  <2>3. g[j + 1] = Body(f, j + 1) /\ DOMAIN g = 0..(j + 1)
    OBVIOUS
  <2> HIDE DEF g
  <2>4. ASSUME NEW i \in 0..(j + 1) PROVE Body(f, i) = Body(g, i)
    <3>1. i # 0 => g[i - 1] = f[i - 1]
      BY <2>2
    <3>2. QED BY <3>1 DEF Body
  <2>5. ASSUME NEW i \in 0..(j + 1) PROVE g[i] = Body(g, i)
    <3>1. i = j + 1 \/ i \in 0..j
      OBVIOUS
    <3>2. g[i] = Body(f, i)
      BY <2>2, <2>3, <3>1
    <3>3. QED BY <2>4, <3>2
  <2>6. g = [i \in 0..(j + 1) |-> IF i = j + 1 THEN Body(f, j + 1) ELSE f[i]]
    BY DEF g
  <2>7. g = [i \in 0..(j + 1) |-> Body(g, i)]
    BY <2>5, <2>6
  <2>8. j + 1 \in 0..last
    BY <1>0, <1>2
  <2>9. QED BY <2>7, <2>8
<1>3. Upto(last)
  <2> HIDE DEF last
  <2>1. \A j \in 0..last : j # last /\ j \in T => j + 1 \in T
    BY <1>2
  <2>2. \A j \in 0..last : j \in T
    <3> HIDE DEF T
    <3>1. QED BY <1>0, <1>1, <2>1, UpToInduction
  <2>3. last \in T
    <3> HIDE DEF T
    <3>1. QED BY <1>0, <2>2
  <2> HIDE DEF Upto
  <2>4. QED BY <2>3
<1> DEFINE after == CHOOSE f : f = [i \in 0..last |-> Body(f, i)]
<1>4. after = [i \in 0..last |-> Body(after, i)]
  BY <1>3
<1>5. SummarizePromotions(m) = after[last]
  BY DEF SummarizePromotions
<1>6. QED BY <1>4, <1>5

\* After entry i the tags that are held are those of the entries behind it,
\* and what has been promoted had been hit.
AfterEntry(n, m, i) ==
    /\ n \in MachineSet /\ Sound(n.pcc)
    /\ \A u : Holds(n.pcc, u) <=> \E j \in 1..Len(m.pcc) : j > i /\ m.pcc[j].tag = u
    /\ UsedOnly(n.pcc, m.pcc, {})
    /\ \A b \in n.promoted : b \in m.promoted \/ Used(m.pcc, b)

\* The machine after each entry; a good one stays good and keeps its regions.
LEMMA SummaryLoop ==
    ASSUME NEW m \in MachineSet, Sound(m.pcc),
           NEW f, f = [i \in 0..Len(m.pcc) |->
                         IF i = 0 THEN m ELSE SummarizeLine(f[i - 1], i, m.pcc[i].tag)],
           Len(m.pcc) \in Nat
    PROVE  \A i \in 0..Len(m.pcc) :
              /\ AfterEntry(f[i], m, i)
              /\ Good(m) => Good(f[i]) /\ Region \cap m.promoted \subseteq f[i].promoted
<1> DEFINE s == m.pcc
           last == Len(s)
           Inv(i) == /\ AfterEntry(f[i], m, i)
                     /\ Good(m) => Good(f[i]) /\ Region \cap m.promoted \subseteq f[i].promoted
           T == {i \in 0..last : Inv(i)}
           L == PccLine(0..(MaxFreq - 1))
<1>1. s \in Seq(L) /\ last \in Nat
  BY DEF MachineSet, PccSet
<1>2. \A x \in L : x.tag \in Base
  BY DEF PccLine, LineOf
<1> HIDE DEF L
<1>3. \A i \in 1..last : s[i].tag \in Base
  BY <1>1, <1>2
<1>4. \A i, j \in 1..last : s[i].tag = s[j].tag => i = j
  BY DEF Sound
<1>5. f[0] = m /\ \A i \in 1..last : f[i] = SummarizeLine(f[i - 1], i, s[i].tag)
  <2>1. \A i \in 0..last :
           f[i] = IF i = 0 THEN m ELSE SummarizeLine(f[i - 1], i, s[i].tag)
    BY Zenon
  <2> HIDE DEF s, last
  <2>2. 0 \in 0..last /\ \A i \in 1..last : i \in 0..last /\ i # 0
    BY <1>1
  <2>3. QED BY <2>1, <2>2
<1> HIDE DEF s, last
<1>6. 0 \in T
  <2>1. \A u : Holds(s, u) <=> \E j \in 1..last : s[j].tag = u
    BY <1>1, SoundHolds DEF s, last
  <2>2. \A j \in 1..last : j > 0
    OBVIOUS
  <2>3. AfterEntry(m, m, 0)
    BY <2>1, <2>2 DEF AfterEntry, UsedOnly, s, last
  <2>4. Inv(0)
    BY <1>5, <2>3
  <2> HIDE DEF Inv
  <2>5. QED BY <1>1, <2>4
<1>7. ASSUME NEW i \in 0..last, i # last, i \in T PROVE i + 1 \in T
  <2> DEFINE k == i + 1
             a == f[i]
             base == s[k].tag
             n == SummarizeLine(a, k, base)
  <2>1. k \in 1..last /\ k \in 0..last /\ i \in Nat
    BY <1>1, <1>7
  <2>2. f[k] = n
    <3>1. k - 1 = i
      BY <2>1
    <3>2. QED BY <1>5, <2>1, <3>1
  <2>3. AfterEntry(a, m, i)
    BY <1>7
  <2>4. base \in Base
    BY <1>3, <2>1
  <2>5. Holds(a.pcc, base)
    <3>1. k > i
      BY <2>1
    <3>2. \E j \in 1..last : j > i /\ s[j].tag = base
      BY <2>1, <3>1
    <3>3. QED BY <2>3, <3>2 DEF AfterEntry, s, last
  <2>6. a \in MachineSet /\ Sound(a.pcc)
    BY <2>3 DEF AfterEntry
  <2> HIDE DEF a, base
  <2>7. LineDone(n, a, base) /\ \A b \in n.promoted : b \in a.promoted \/ Used(a.pcc, b)
    BY <2>4, <2>5, <2>6, SummarizeLineStep
  <2>8. Good(a) => Good(n) /\ Region \cap a.promoted \subseteq n.promoted
    BY <2>4, <2>5, <2>6, SummarizeLineGood
  <2> HIDE DEF n
  <2>9. ASSUME NEW u
        PROVE  Holds(n.pcc, u) <=> \E j \in 1..last : j > k /\ s[j].tag = u
    <3>1. Holds(n.pcc, u) <=> (\E j \in 1..last : j > i /\ s[j].tag = u) /\ u # base
      BY <2>3, <2>7 DEF AfterEntry, LineDone, s, last
    <3>2. \A j \in 1..last : j > i <=> j > k \/ j = k
      BY <2>1
    <3>3. \A j \in 1..last : s[j].tag = base <=> j = k
      BY <1>4, <2>1 DEF base
    <3>4. \A j \in 1..last : j > k => j # k
      BY <2>1
    <3>5. QED BY <3>1, <3>2, <3>3, <3>4
  <2>10. AfterEntry(n, m, k)
    <3>1. UsedOnly(n.pcc, m.pcc, {})
      BY <2>3, <2>7 DEF AfterEntry, LineDone, UsedOnly
    <3>2. \A b \in n.promoted : b \in m.promoted \/ Used(m.pcc, b)
      BY <2>3, <2>7 DEF AfterEntry, UsedOnly
    <3>3. QED BY <2>7, <2>9, <3>1, <3>2 DEF AfterEntry, LineDone, s, last
  <2>11. Good(m) => Good(a) /\ Region \cap m.promoted \subseteq a.promoted
    BY <1>7 DEF a
  <2>12. Inv(k)
    BY <2>2, <2>8, <2>10, <2>11
  <2> HIDE DEF Inv
  <2>13. QED BY <2>1, <2>12
<1>8. \A i \in 0..last : i \in T
  <2> HIDE DEF T
  <2>1. \A i \in 0..last : i # last /\ i \in T => i + 1 \in T
    BY <1>7
  <2>2. QED BY <1>1, <1>6, <2>1, UpToInduction
<1>9. \A i \in 0..last : Inv(i)
  <2> HIDE DEF Inv
  <2>1. QED BY <1>8
<1>10. QED BY <1>9 DEF last, s

\* A summary empties the PCC, promotes only what was hit in it, keeps a good
\* machine good and demotes no region that the program touches.
LEMMA SummaryStep ==
    ASSUME NEW m \in MachineSet, Sound(m.pcc)
    PROVE  LET n == SummarizePromotions(m)
           IN  /\ n \in MachineSet /\ Sound(n.pcc) /\ n.pcc = <<>>
               /\ \A b \in n.promoted : b \in m.promoted \/ Used(m.pcc, b)
               /\ Good(m) => Good(n) /\ Region \cap m.promoted \subseteq n.promoted
<1> DEFINE last == Len(m.pcc)
           n == SummarizePromotions(m)
           L == PccLine(0..(MaxFreq - 1))
<1>1. last \in Nat /\ last \in 0..last
  BY DEF MachineSet, PccSet
<1>2. PICK f : /\ f = [i \in 0..last |->
                         IF i = 0 THEN m ELSE SummarizeLine(f[i - 1], i, m.pcc[i].tag)]
               /\ n = f[last]
  BY <1>1, SummaryEquation
<1>3. /\ AfterEntry(f[last], m, last)
      /\ Good(m) => Good(f[last]) /\ Region \cap m.promoted \subseteq f[last].promoted
  BY <1>1, <1>2, SummaryLoop
<1> HIDE DEF n
<1>4. n \in MachineSet /\ Sound(n.pcc) /\ \A u : ~Holds(n.pcc, u)
  <2>1. ~\E j \in 1..last : j > last
    BY <1>1
  <2>2. QED BY <1>2, <1>3, <2>1 DEF AfterEntry
<1>5. n.pcc \in Seq(L)
  BY <1>4 DEF MachineSet, PccSet
<1> HIDE DEF L
<1>6. n.pcc = <<>>
  <2>1. \A u : ~\E i \in 1..Len(n.pcc) : n.pcc[i].tag = u
    BY <1>4, <1>5, SoundHolds
  <2>2. \A i \in 1..Len(n.pcc) : FALSE
    BY <2>1
  <2>3. Len(n.pcc) = 0
    <3>1. Len(n.pcc) \in Nat
      BY <1>5
    <3>2. QED BY <2>2, <3>1
  <2>4. QED BY <1>5, <2>3, EmptySeq
<1>7. \A b \in n.promoted : b \in m.promoted \/ Used(m.pcc, b)
  BY <1>2, <1>3 DEF AfterEntry
<1>8. QED BY <1>2, <1>3, <1>4, <1>6, <1>7 DEF n

-----------------------------------------------------------------------------
(***************************************************************************)
(* The steps of the specification.                                         *)
(***************************************************************************)
\* The machine of the next state, and the access counter.
LEMMA BecomesMachine ==
    ASSUME NEW m \in MachineSet, Becomes(m)
    PROVE  Machine' = m
<1>1. Machine' = [l1_4k |-> m.l1_4k, l1_2m |-> m.l1_2m, l2 |-> m.l2, pcc |-> m.pcc,
                  reuse |-> m.reuse, promoted |-> m.promoted, evicted |-> m.evicted]
  BY DEF Becomes, Machine
<1>2. QED BY <1>1 DEF MachineSet

\* The machine record and the variables it is made of.
LEMMA MachineParts ==
    /\ Machine.l1_4k = l1_tlb_4k /\ Machine.l1_2m = l1_tlb_2m /\ Machine.l2 = l2_tlb
    /\ Machine.pcc = promotion_cache /\ Machine.reuse = reuse_map
    /\ Machine.promoted = pcc_promotions /\ Machine.evicted = evicted
BY DEF Machine

\* The period is positive and the counter stays within it.
LEMMA Period ==
    /\ Factor * Interval \in Nat \ {0}
    /\ \A c \in Nat : (c + 1) % (Factor * Interval) \in 0..(Factor * Interval - 1)
<1> DEFINE k == Factor * Interval
<1>1. Factor \in Nat \ {0} /\ Interval \in Nat \ {0}
  BY Sizes
<1>2. k \in Nat \ {0}
  BY <1>1
<1> HIDE DEF k
<1>3. \A c \in Nat : (c + 1) % k \in 0..(k - 1)
  BY <1>2
<1>4. QED BY <1>2, <1>3 DEF k

\* The machine that the access of a step starts from: the one of the state,
\* or what a summary makes of it.
Start(n) == n = Machine \/ (n = SummarizePromotions(Machine) /\ SummaryDue(clock'))

\* A step accesses a page, or leaves all but isROI as it is.
LEMMA Steps ==
    ASSUME PccInv, [Next]_vars
    PROVE  \/ UNCHANGED <<Machine, clock>> /\ isROI' \in BOOLEAN
           \/ \E p \in Page, n \in MachineSet :
                 /\ Start(n) /\ Sound(n.pcc)
                 /\ Machine' = AccessPage(n, p)
                 /\ clock' \in 0..(Factor * Interval - 1) /\ isROI' = isROI
<1>1. /\ Machine \in MachineSet /\ Sound(Machine.pcc)
      /\ clock \in 0..(Factor * Interval - 1) /\ isROI \in BOOLEAN
  BY DEF PccInv
<1>2. clock \in Nat
  <2> DEFINE k == Factor * Interval
  <2>1. k \in Nat /\ clock \in 0..(k - 1)
    BY <1>1, Period
  <2> HIDE DEF k
  <2>2. QED BY <2>1
<1>3. (clock + 1) % (Factor * Interval) \in 0..(Factor * Interval - 1)
  BY <1>2, Period
<1>4. ASSUME NEW p \in Page, NEW n \in MachineSet, Sound(n.pcc), Becomes(AccessPage(n, p))
      PROVE  Machine' = AccessPage(n, p)
  BY <1>4, AccessPageStep, BecomesMachine
<1>5. ASSUME NEW p \in Page, TrackAccess(p)
      PROVE  \E n \in MachineSet :
                 /\ Start(n) /\ Sound(n.pcc)
                 /\ Machine' = AccessPage(n, p)
                 /\ clock' \in 0..(Factor * Interval - 1) /\ isROI' = isROI
  <2>1. /\ clock' = (clock + 1) % (Factor * Interval) /\ isROI' = isROI
        /\ Becomes(AccessPage(Machine, p))
    BY <1>5 DEF TrackAccess
  <2>2. Machine' = AccessPage(Machine, p)
    BY <1>1, <1>4, <2>1
  <2>3. Start(Machine)
    BY DEF Start
  <2>4. QED BY <1>1, <1>3, <2>1, <2>2, <2>3
<1>6. ASSUME NEW p \in Page, SummarizeAndTrack(p)
      PROVE  \E n \in MachineSet :
                 /\ Start(n) /\ Sound(n.pcc)
                 /\ Machine' = AccessPage(n, p)
                 /\ clock' \in 0..(Factor * Interval - 1) /\ isROI' = isROI
  <2> DEFINE n == SummarizePromotions(Machine)
  <2>1. /\ clock' = (clock + 1) % (Factor * Interval) /\ isROI' = isROI /\ SummaryDue(clock')
        /\ Becomes(AccessPage(n, p))
    BY <1>6 DEF SummarizeAndTrack
  <2>2. n \in MachineSet /\ Sound(n.pcc)
    BY <1>1, SummaryStep
  <2>3. Start(n)
    BY <2>1 DEF Start
  <2> HIDE DEF n
  <2>4. Machine' = AccessPage(n, p)
    BY <1>4, <2>1, <2>2
  <2>5. QED BY <1>3, <2>1, <2>2, <2>3, <2>4
<1>7. ASSUME StartROI \/ StopROI \/ UNCHANGED vars
      PROVE  UNCHANGED <<Machine, clock>> /\ isROI' \in BOOLEAN
  BY <1>1, <1>7 DEF StartROI, StopROI, vars, Machine
<1>8. QED BY <1>5, <1>6, <1>7 DEF Next

\* Both invariants hold at the start.
LEMMA InitInv == Init => PccInv /\ PccGood
<1>1. SUFFICES ASSUME Init PROVE PccInv /\ PccGood
  OBVIOUS
<1>2. Machine = [l1_4k |-> EmptyTlb(L1Sets4K), l1_2m |-> EmptyTlb(L1Sets2M),
                 l2 |-> EmptyTlb(L2Sets), pcc |-> <<>>,
                 reuse |-> [b \in Base |-> "absent"], promoted |-> {}, evicted |-> None]
  BY <1>1 DEF Init, Machine
<1>3. Machine \in MachineSet /\ Machine.pcc = <<>>
  BY <1>2, EmptyMachine
<1>4. Sound(<<>>)
  BY DEF Sound
<1>5. clock \in 0..(Factor * Interval - 1) /\ isROI \in BOOLEAN
  <2> DEFINE k == Factor * Interval
  <2>1. k \in Nat \ {0} /\ clock = 0 /\ isROI \in BOOLEAN
    BY <1>1, Period DEF Init
  <2> HIDE DEF k
  <2>2. clock \in 0..(k - 1)
    BY <2>1
  <2>3. QED BY <2>1, <2>2 DEF k
<1>6. PccInv
  BY <1>3, <1>4, <1>5 DEF PccInv
<1>7. \A b \in Region : ~CacheHit(EmptyTlb(L1Sets2M), b) /\ ~CacheHit(EmptyTlb(L2Sets), b)
  BY Sizes, Numbers, EmptyMisses
<1>8. PccGood
  BY <1>2, <1>7 DEF PccGood, Good, TlbGood, PccFresh
<1>9. QED BY <1>6, <1>8

\* Every step keeps PccInv.
LEMMA NextInv == PccInv /\ [Next]_vars => PccInv'
<1>1. SUFFICES ASSUME PccInv, [Next]_vars PROVE PccInv'
  OBVIOUS
<1>2. CASE UNCHANGED <<Machine, clock>> /\ isROI' \in BOOLEAN
  BY <1>1, <1>2 DEF PccInv
<1>3. ASSUME NEW p \in Page, NEW n \in MachineSet, Sound(n.pcc), Machine' = AccessPage(n, p),
             clock' \in 0..(Factor * Interval - 1), isROI' = isROI
      PROVE  PccInv'
  <2>1. Machine' \in MachineSet /\ Sound(Machine'.pcc)
    BY <1>3, AccessPageStep
  <2>2. isROI' \in BOOLEAN
    BY <1>1, <1>3 DEF PccInv
  <2>3. QED BY <1>3, <2>1, <2>2 DEF PccInv
<1>4. QED BY <1>1, <1>2, <1>3, Steps

\* PccInv holds in every state of the single-threaded simulator.
THEOREM PccInductive == Spec => []PccInv
<1>1. QED BY InitInv, NextInv, PTL DEF Spec

\* The TLBs and the PCC hold at most their number of lines, every field of
\* every line, the reuse map, the promoted regions and the last victim are in
\* range, and so is the access counter (huge_page_reuse.h, tlb.h).
THEOREM PccTypes == Spec => []TypeOK
<1>1. PccInv => TypeOK
  <2>1. SUFFICES ASSUME PccInv PROVE TypeOK
    OBVIOUS
  <2>2. Machine \in MachineSet
    BY <2>1 DEF PccInv
  <2>3. /\ \A k \in 0..(L1Sets4K - 1) : LinesOK(Machine.l1_4k[k], L1Assoc, Page, {0}, {0})
        /\ \A k \in 0..(L1Sets2M - 1) : LinesOK(Machine.l1_2m[k], L1Assoc, Region, {0}, {0})
        /\ \A k \in 0..(L2Sets - 1) : LinesOK(Machine.l2[k], L2Assoc, Page \cup Region, {0}, {0})
        /\ LinesOK(Machine.pcc, PccSize, Base, 0..(PagesPerRegion - 1), 0..(MaxFreq - 1))
        /\ Machine.reuse \in [Base -> {"absent", "cold", "tracked"}]
        /\ Machine.promoted \in SUBSET Base /\ Machine.evicted \in Base \cup {None}
    BY <2>2, MachineLines
  <2>4. QED BY <2>1, <2>3, MachineParts DEF PccInv, TypeOK
<1>2. QED BY <1>1, PccInductive, PTL

\* Every line of the PCC is found by its tag, no tag has two lines and the
\* lines are ordered by use: the lookups and evictions of summarize_promotions
\* never meet a null pointer.
THEOREM PccStaysConsistent == Spec => []PccConsistent
<1>1. PccInv => PccConsistent
  <2>1. SUFFICES ASSUME PccInv PROVE PccConsistent
    OBVIOUS
  <2>2. promotion_cache \in PccSet /\ Sound(promotion_cache)
    BY <2>1, MachineParts DEF PccInv, MachineSet
  <2>3. DOMAIN promotion_cache = 1..Len(promotion_cache)
    BY <2>2 DEF PccSet
  <2>4. QED BY <2>2, <2>3 DEF Sound, PccConsistent
<1>2. QED BY <1>1, PccInductive, PTL

\* A summary empties the PCC before the access that triggered it goes on.
LEMMA DrainsStep ==
    ASSUME PccInv, NEW p \in Page, SummarizeAndTrack(p)
    PROVE  /\ Len(promotion_cache') <= 1
           /\ \A i \in DOMAIN promotion_cache' : promotion_cache'[i].freq = 0
<1> DEFINE n == SummarizePromotions(Machine)
           a == AccessPage(n, p)
<1>1. Machine \in MachineSet /\ Sound(Machine.pcc) /\ Becomes(a)
  BY DEF PccInv, SummarizeAndTrack
<1>2. n \in MachineSet /\ Sound(n.pcc) /\ n.pcc = <<>>
  BY <1>1, SummaryStep
<1> HIDE DEF n
<1>3. a \in MachineSet /\ AtMostNew(a.pcc)
  BY <1>2, AccessPageStep
<1>4. promotion_cache' = a.pcc
  BY <1>1 DEF Becomes
<1> HIDE DEF a
<1>5. DOMAIN a.pcc = 1..Len(a.pcc)
  BY <1>3 DEF MachineSet, PccSet
<1>6. QED BY <1>3, <1>4, <1>5 DEF AtMostNew

\* A summary hands over every candidate: afterwards the PCC holds at most the
\* region of the access that triggered it, and that one unused.
THEOREM PccDrains == Spec => SummaryDrains
<1>1. PccInv /\ [Next]_vars =>
        [\A p \in Page : SummarizeAndTrack(p) =>
            /\ Len(promotion_cache') <= 1
            /\ \A i \in DOMAIN promotion_cache' : promotion_cache'[i].freq = 0]_vars
  BY DrainsStep
<1>2. QED BY <1>1, PccInductive, PTL DEF Spec, SummaryDrains

-----------------------------------------------------------------------------
(***************************************************************************)
(* What the caches do not hold.                                            *)
(***************************************************************************)
LEMMA NextGood ==
    PccInv /\ PccGood /\ [Next]_vars =>
        PccGood' /\ Region \cap pcc_promotions \subseteq pcc_promotions'
<1>1. SUFFICES ASSUME PccInv, PccGood, [Next]_vars
               PROVE  PccGood' /\ Region \cap pcc_promotions \subseteq pcc_promotions'
  OBVIOUS
<1>2. /\ Machine.promoted = pcc_promotions /\ Machine'.promoted = pcc_promotions'
      /\ Machine \in MachineSet /\ Sound(Machine.pcc) /\ Good(Machine)
  BY <1>1 DEF Machine, PccInv, PccGood
<1>3. CASE UNCHANGED <<Machine, clock>>
  BY <1>1, <1>2, <1>3 DEF PccGood
<1>4. ASSUME NEW p \in Page, NEW n \in MachineSet, Start(n), Sound(n.pcc),
             Machine' = AccessPage(n, p)
      PROVE  PccGood' /\ Region \cap pcc_promotions \subseteq pcc_promotions'
  <2>1. Good(n) /\ Region \cap Machine.promoted \subseteq n.promoted
    BY <1>2, <1>4, SummaryStep DEF Start
  <2>2. AccessPage(n, p).promoted = n.promoted
    BY <1>4, AccessPageStep
  <2>3. TlbGood(AccessPage(n, p), n.promoted) /\ PccFresh(AccessPage(n, p), n.promoted)
    BY <1>4, <2>1, AccessPageGood DEF Good
  <2>4. Good(Machine')
    BY <1>4, <2>2, <2>3 DEF Good
  <2>5. PccGood'
    BY <2>4 DEF PccGood
  <2>6. QED BY <1>2, <1>4, <2>1, <2>2, <2>5
<1>5. QED BY <1>1, <1>3, <1>4, Steps

\* PccGood holds in every state.
THEOREM PccGoodInductive == Spec => []PccGood
<1>1. QED BY PccInductive, InitInv, NextGood, PTL DEF Spec

\* A promoted region is not in the PCC: it cannot be handed to the promotion
\* process again, and the demotion branch is not taken for it.
THEOREM PccCandidates == Spec => []CandidatesNotPromoted
<1>1. PccInv /\ PccGood => CandidatesNotPromoted
  <2>1. SUFFICES ASSUME PccInv, PccGood, NEW i \in DOMAIN promotion_cache,
                        promotion_cache[i].tag \in Region
                 PROVE  promotion_cache[i].tag \notin pcc_promotions
    BY DEF CandidatesNotPromoted
  <2>2. promotion_cache \in PccSet /\ Sound(promotion_cache)
    BY <2>1, MachineParts DEF PccInv, MachineSet
  <2>3. DOMAIN promotion_cache = 1..Len(promotion_cache)
    BY <2>2 DEF PccSet
  <2>4. Holds(promotion_cache, promotion_cache[i].tag)
    BY <2>1, <2>2, <2>3 DEF Holds, Sound
  <2>5. QED BY <2>1, <2>4, MachineParts DEF PccGood, Good, PccFresh
<1>2. QED BY <1>1, PccInductive, PccGoodInductive, PTL

\* No page of a promoted region is translated by a 4KB entry of the L2 TLB.
THEOREM PccL2ShotDown == Spec => []L2ShotDown
<1>1. PccGood => L2ShotDown
  BY MachineParts DEF PccGood, Good, TlbGood, L2ShotDown
<1>2. QED BY <1>1, PccGoodInductive, PTL

\* A 2MB translation exists, in the L1 or the L2 TLB, only for a promoted
\* region.
THEOREM PccHugeEntries == Spec => []HugeEntriesPromoted
<1>1. PccGood => HugeEntriesPromoted
  BY MachineParts DEF PccGood, Good, TlbGood, HugeEntriesPromoted
<1>2. QED BY <1>1, PccGoodInductive, PTL

\* No summary ever demotes a region that the program touches: the demotion
\* branch is dead for them, not only in the run that refutes
\* PromotedWalkerDemoted.
THEOREM PccNeverDemotes ==
    Spec => [][ Region \cap pcc_promotions \subseteq pcc_promotions' ]_vars
<1>1. PccInv /\ PccGood /\ [Next]_vars =>
        [Region \cap pcc_promotions \subseteq pcc_promotions']_vars
  BY NextGood
<1>2. QED BY <1>1, PccInductive, PccGoodInductive, PTL DEF Spec

-----------------------------------------------------------------------------
(***************************************************************************)
(* What a promotion takes.  Inductive invariant: a region in the PCC has   *)
(* been walked since the last summary, and one hit there at least twice.   *)
(***************************************************************************)
Counts == [Region -> 0..2]
Earned(s, w) ==
    \A b \in Region : /\ Holds(s, b) => w[b] >= 1
                      /\ Used(s, b) => w[b] >= 2
WalksInv == walks \in Counts /\ Earned(promotion_cache, walks)

\* A hit in the PCC uses the tag of the region, an insertion uses none.
LEMMA TouchPccUsed ==
    ASSUME NEW m \in MachineSet, NEW base \in Region
    PROVE  LET tag == PccTag(m, base)
               s == TouchPcc(m, base).pcc
           IN  \/ UsedOnly(s, m.pcc, {})
               \/ Holds(m.pcc, tag) /\ UsedOnly(s, m.pcc, {tag})
<1> DEFINE tag == PccTag(m, base)
           off == PccOffset(m, base)
           x == AccessSet(2, MaxFreq, m.pcc, tag, off)
           y == InsertSet(2, PccSize, m.pcc, tag, off)
<1>1. tag \in Base /\ off \in 0..(PagesPerRegion - 1) /\ m.pcc \in PccSet
  BY Numbers DEF PccTag, PccOffset, MachineSet
<1>2. TouchPcc(m, base).pcc = IF Holds(m.pcc, tag) THEN x ELSE y
  BY DEF TouchPcc, PccHit, MachineSet
<1> HIDE DEF tag, off
<1>3. CASE Holds(m.pcc, tag)
  <2>1. UsedOnly(x, m.pcc, {tag})
    BY <1>1, <1>3, AccessUsed
  <2>2. QED BY <1>2, <1>3, <2>1 DEF tag
<1>4. CASE ~Holds(m.pcc, tag)
  <2>1. UsedOnly(y, m.pcc, {})
    BY <1>1, InsertUsed
  <2>2. QED BY <1>2, <1>4, <2>1 DEF tag
<1>5. QED BY <1>3, <1>4

\* The PCC after an access, and whether the access was a walk.
LEMMA AccessPagePcc ==
    ASSUME NEW m \in MachineSet, Sound(m.pcc), NEW p \in Page
    PROVE  LET a == AccessPage(m, p)
               tag == PccTag(m, BaseOf(p))
           IN  \/ a.pcc = m.pcc
               \/ /\ Misses(m, p) /\ HoldsOnly(a.pcc, m.pcc, {tag})
                  /\ \/ Holds(m.pcc, tag) /\ UsedOnly(a.pcc, m.pcc, {tag})
                     \/ UsedOnly(a.pcc, m.pcc, {})
<1> DEFINE a == AccessPage(m, p)
           b == BaseOf(p)
           tag == PccTag(m, b)
           l == LookupL1(m, p)
           w == Walk(l, p)
           n == TouchPcc(w, b)
           o == IF PccHit(w, b) THEN n ELSE LoseEvicted(n)
<1>0. b \in Region
  BY Numbers
<1>1. /\ TlbStep(l, m, {}, {}) /\ TlbStep(L2Hit4k(l, p), m, {}, {})
      /\ TlbStep(L2Hit2m(l, p), m, {b}, {}) /\ \E X, Y : TlbStep(w, m, X, Y)
  BY TlbPaths
<1>2. \/ a = l \/ a = L2Hit4k(l, p) \/ a = L2Hit2m(l, p)
      \/ Misses(m, p) /\ a = TrackWalk(w, b)
  BY DEF AccessPage, Misses
<1>3. HoldsOnly(a.pcc, m.pcc, {tag})
  BY AccessPageStep
<1> HIDE DEF l, w, a, b
<1>4. w \in MachineSet /\ w.pcc = m.pcc /\ w.promoted = m.promoted
  BY <1>1 DEF TlbStep
<1>5. PccTag(w, b) = tag
  BY <1>4 DEF PccTag
<1>6. CASE a = l \/ a = L2Hit4k(l, p) \/ a = L2Hit2m(l, p)
  <2>1. a.pcc = m.pcc
    BY <1>1, <1>6 DEF TlbStep
  <2>2. QED BY <2>1 DEF a
<1>7. CASE Misses(m, p) /\ a = TrackWalk(w, b)
  <2>1. CASE w.reuse[b] = "absent"
    <3>1. a = [w EXCEPT !.reuse[b] = "cold"]
      BY <1>7, <2>1 DEF TrackWalk
    <3>2. a.pcc = m.pcc
      BY <1>4, <3>1 DEF MachineSet
    <3>3. QED BY <3>2 DEF a
  <2>2. CASE w.reuse[b] # "absent"
    <3>1. a = Record(o, b)
      BY <1>7, <2>2 DEF TrackWalk, LookupPcc
    <3>2. n \in MachineSet /\ Sound(n.pcc)
      BY <1>0, <1>4, TouchPccStep DEF PccStep
    <3>3. UsedOnly(n.pcc, w.pcc, {}) \/ (Holds(w.pcc, tag) /\ UsedOnly(n.pcc, w.pcc, {tag}))
      BY <1>0, <1>4, <1>5, TouchPccUsed
    <3> HIDE DEF n
    <3>4. LoseEvicted(n) \in MachineSet /\ Sound(LoseEvicted(n).pcc) /\ LoseEvicted(n).pcc = n.pcc
      BY <1>0, <3>2, RecordStep DEF PccStep
    <3>5. o \in MachineSet /\ Sound(o.pcc) /\ o.pcc = n.pcc
      BY <3>2, <3>4
    <3> HIDE DEF o
    <3>6. a.pcc = n.pcc
      BY <1>0, <3>1, <3>5, RecordStep
    <3> HIDE DEF tag
    <3>7. \/ Holds(m.pcc, tag) /\ UsedOnly(a.pcc, m.pcc, {tag})
          \/ UsedOnly(a.pcc, m.pcc, {})
      BY <1>4, <3>3, <3>6
    <3>8. QED BY <1>3, <1>7, <3>7 DEF a, b, tag
  <2>3. QED BY <2>1, <2>2
<1>8. QED BY <1>2, <1>6, <1>7

\* A walk is counted for its region, up to 2.
LEMMA CountWalkStep ==
    ASSUME NEW w \in Counts, NEW m, NEW p \in Page
    PROVE  LET v == CountWalk(w, m, p)
               b == BaseOf(p)
           IN  /\ v \in Counts
               /\ \A c \in Region : v[c] >= w[c]
               /\ Misses(m, p) => v[b] >= 1 /\ (w[b] >= 1 => v[b] >= 2)
<1> DEFINE b == BaseOf(p)
           x == w[b] + 1
           y == Min({x, 2})
           v == CountWalk(w, m, p)
<1>1. b \in Region
  BY Numbers
<1>2. w \in [Region -> 0..2]
  BY DEF Counts
<1> HIDE DEF b
<1>3. w[b] \in 0..2 /\ x \in Nat
  BY <1>1, <1>2
<1>4. y \in {x, 2} /\ \A z \in {x, 2} : y <= z
  <2> DEFINE T == {x, 2}
  <2>1. T \in SUBSET Nat /\ T # {}
    BY <1>3
  <2> HIDE DEF T
  <2>2. Min(T) \in T /\ \A z \in T : Min(T) <= z
    BY <2>1, NatMin
  <2>3. QED BY <2>2 DEF T
<1> HIDE DEF y
<1>5. y \in 0..2 /\ y >= w[b] /\ y >= 1 /\ (w[b] >= 1 => y >= 2)
  BY <1>3, <1>4
<1>6. v = IF Misses(m, p) THEN [w EXCEPT ![b] = y] ELSE w
  BY DEF CountWalk, b, x, y
<1> HIDE DEF v
<1>7. v \in [Region -> 0..2]
  BY <1>1, <1>2, <1>5, <1>6
<1>8. \A c \in Region : v[c] >= w[c]
  BY <1>1, <1>2, <1>5, <1>6
<1>9. Misses(m, p) => v[b] = y
  BY <1>1, <1>2, <1>6
<1>10. QED BY <1>5, <1>7, <1>8, <1>9 DEF Counts, v, b

\* An access keeps the counts ahead of the PCC.
LEMMA AccessEarned ==
    ASSUME NEW m \in MachineSet, Sound(m.pcc), NEW p \in Page,
           NEW w \in Counts, Earned(m.pcc, w)
    PROVE  CountWalk(w, m, p) \in Counts /\ Earned(AccessPage(m, p).pcc, CountWalk(w, m, p))
<1> DEFINE a == AccessPage(m, p)
           b == BaseOf(p)
           tag == PccTag(m, b)
           v == CountWalk(w, m, p)
<1>1. /\ v \in Counts
      /\ \A c \in Region : v[c] >= w[c]
      /\ Misses(m, p) => v[b] >= 1 /\ (w[b] >= 1 => v[b] >= 2)
  BY CountWalkStep
<1>2. \/ a.pcc = m.pcc
      \/ /\ Misses(m, p) /\ HoldsOnly(a.pcc, m.pcc, {tag})
         /\ \/ Holds(m.pcc, tag) /\ UsedOnly(a.pcc, m.pcc, {tag})
            \/ UsedOnly(a.pcc, m.pcc, {})
  BY AccessPagePcc
<1>3. b \in Region /\ (tag = b \/ tag \notin Region)
  BY Numbers, LayoutAssumption DEF PccTag
<1> HIDE DEF a, b, tag, v
<1>4. \A c \in Region : w[c] \in Nat /\ v[c] \in Nat
  BY <1>1 DEF Counts
<1>5. ASSUME NEW c \in Region, Holds(a.pcc, c) PROVE v[c] >= 1
  <2>1. CASE Holds(m.pcc, c)
    BY <1>1, <1>4, <2>1 DEF Earned
  <2>2. CASE ~Holds(m.pcc, c)
    <3>1. Misses(m, p) /\ c = tag
      BY <1>2, <1>5, <2>2 DEF HoldsOnly
    <3>2. QED BY <1>1, <1>3, <3>1
  <2>3. QED BY <2>1, <2>2
<1>6. ASSUME NEW c \in Region, Used(a.pcc, c) PROVE v[c] >= 2
  <2>1. CASE Used(m.pcc, c)
    BY <1>1, <1>4, <2>1 DEF Earned
  <2>2. CASE ~Used(m.pcc, c)
    <3>1. Misses(m, p) /\ c = tag /\ Holds(m.pcc, tag)
      BY <1>2, <1>6, <2>2 DEF UsedOnly
    <3>2. c = b /\ w[b] >= 1
      BY <1>3, <3>1 DEF Earned
    <3>3. QED BY <1>1, <3>1, <3>2
  <2>3. QED BY <2>1, <2>2
<1>7. QED BY <1>1, <1>5, <1>6 DEF Earned, a, v

\* A step with history: the access of a step of Pcc, counted.
LEMMA HistorySteps ==
    ASSUME PccInv, WalksInv, [HistoryNext]_historyVars
    PROVE  \/ UNCHANGED <<promotion_cache, pcc_promotions, walks>>
           \/ \E p \in Page, n \in MachineSet, w \in Counts :
                 /\ Sound(n.pcc) /\ Earned(n.pcc, w)
                 /\ n = Machine \/ (n = SummarizePromotions(Machine) /\ SummaryDue(clock'))
                 /\ promotion_cache' = AccessPage(n, p).pcc
                 /\ pcc_promotions' = AccessPage(n, p).promoted
                 /\ walks' = CountWalk(w, n, p)
<1>1. Machine \in MachineSet /\ Sound(Machine.pcc) /\ Machine.pcc = promotion_cache
  BY MachineParts DEF PccInv
<1>2. walks \in Counts /\ Earned(promotion_cache, walks)
  BY DEF WalksInv
<1>3. ASSUME NEW p \in Page, TrackAccess(p), walks' = CountWalk(walks, Machine, p)
      PROVE  \E n \in MachineSet, w \in Counts :
                 /\ Sound(n.pcc) /\ Earned(n.pcc, w)
                 /\ n = Machine \/ (n = SummarizePromotions(Machine) /\ SummaryDue(clock'))
                 /\ promotion_cache' = AccessPage(n, p).pcc
                 /\ pcc_promotions' = AccessPage(n, p).promoted
                 /\ walks' = CountWalk(w, n, p)
  <2>1. /\ promotion_cache' = AccessPage(Machine, p).pcc
        /\ pcc_promotions' = AccessPage(Machine, p).promoted
    BY <1>3 DEF TrackAccess, Becomes
  <2>2. QED BY <1>1, <1>2, <1>3, <2>1
<1>4. ASSUME NEW p \in Page, SummarizeAndTrack(p),
             walks' = CountWalk([b \in Region |-> 0], SummarizePromotions(Machine), p)
      PROVE  \E n \in MachineSet, w \in Counts :
                 /\ Sound(n.pcc) /\ Earned(n.pcc, w)
                 /\ n = Machine \/ (n = SummarizePromotions(Machine) /\ SummaryDue(clock'))
                 /\ promotion_cache' = AccessPage(n, p).pcc
                 /\ pcc_promotions' = AccessPage(n, p).promoted
                 /\ walks' = CountWalk(w, n, p)
  <2> DEFINE n == SummarizePromotions(Machine)
             zero == [b \in Region |-> 0]
  <2>1. /\ promotion_cache' = AccessPage(n, p).pcc
        /\ pcc_promotions' = AccessPage(n, p).promoted
        /\ SummaryDue(clock')
    BY <1>4 DEF SummarizeAndTrack, Becomes
  <2>2. n \in MachineSet /\ Sound(n.pcc) /\ n.pcc = <<>>
    BY <1>1, SummaryStep
  <2>3. zero \in Counts
    BY DEF Counts
  <2> HIDE DEF n, zero
  <2>4. Earned(n.pcc, zero)
    BY <2>2 DEF Earned, Holds, Used
  <2>5. n = SummarizePromotions(Machine) /\ walks' = CountWalk(zero, n, p)
    BY <1>4 DEF n, zero
  <2>6. QED BY <2>1, <2>2, <2>3, <2>4, <2>5
<1>5. ASSUME ((StartROI \/ StopROI) /\ UNCHANGED walks) \/ UNCHANGED historyVars
      PROVE  UNCHANGED <<promotion_cache, pcc_promotions, walks>>
  BY <1>5 DEF StartROI, StopROI, historyVars, vars
<1>6. QED BY <1>3, <1>4, <1>5 DEF HistoryNext

\* Every step keeps WalksInv, and promotes only regions walked twice.
LEMMA NextWalks ==
    PccInv /\ WalksInv /\ [HistoryNext]_historyVars =>
        /\ WalksInv'
        /\ \A b \in Region \cap (pcc_promotions' \ pcc_promotions) :
              SummaryDue(clock') /\ walks[b] >= 2
<1>1. SUFFICES ASSUME PccInv, WalksInv, [HistoryNext]_historyVars
               PROVE  /\ WalksInv'
                      /\ \A b \in Region \cap (pcc_promotions' \ pcc_promotions) :
                            SummaryDue(clock') /\ walks[b] >= 2
  OBVIOUS
<1>2. CASE UNCHANGED <<promotion_cache, pcc_promotions, walks>>
  BY <1>1, <1>2 DEF WalksInv
<1>3. ASSUME NEW p \in Page, NEW n \in MachineSet, NEW w \in Counts,
             Sound(n.pcc), Earned(n.pcc, w),
             n = Machine \/ (n = SummarizePromotions(Machine) /\ SummaryDue(clock')),
             promotion_cache' = AccessPage(n, p).pcc,
             pcc_promotions' = AccessPage(n, p).promoted,
             walks' = CountWalk(w, n, p)
      PROVE  /\ WalksInv'
             /\ \A b \in Region \cap (pcc_promotions' \ pcc_promotions) :
                   SummaryDue(clock') /\ walks[b] >= 2
  <2>1. WalksInv'
    BY <1>3, AccessEarned DEF WalksInv
  <2>2. pcc_promotions' = n.promoted
    BY <1>3, AccessPageStep
  <2>3. /\ Machine \in MachineSet /\ Sound(Machine.pcc) /\ Machine.pcc = promotion_cache
        /\ Machine.promoted = pcc_promotions
    BY <1>1, MachineParts DEF PccInv
  <2>4. ASSUME NEW b \in Region, b \in pcc_promotions', b \notin pcc_promotions
        PROVE  SummaryDue(clock') /\ walks[b] >= 2
    <3>1. n = SummarizePromotions(Machine) /\ SummaryDue(clock')
      BY <1>3, <2>2, <2>3, <2>4
    <3>2. Used(promotion_cache, b)
      BY <2>2, <2>3, <2>4, <3>1, SummaryStep
    <3>3. QED BY <1>1, <3>1, <3>2 DEF WalksInv, Earned
  <2>5. QED BY <2>1, <2>4
<1>4. QED BY <1>1, <1>2, <1>3, HistorySteps

\* The history leaves the simulator as it is: the theorems about Spec hold of
\* HistorySpec.
THEOREM HistoryRefines == HistorySpec => Spec
<1>1. HistoryInit => Init
  BY DEF HistoryInit
<1>2. [HistoryNext]_historyVars => [Next]_vars
  BY DEF HistoryNext, Next, historyVars
<1>3. QED BY <1>1, <1>2, PTL DEF HistorySpec, Spec

\* WalksInv holds in every state of the simulator with history.
THEOREM WalksInductive == HistorySpec => []WalksInv
<1>1. HistoryInit => WalksInv
  <2>1. SUFFICES ASSUME HistoryInit PROVE WalksInv
    OBVIOUS
  <2>2. promotion_cache = <<>> /\ walks = [b \in Region |-> 0]
    BY <2>1 DEF HistoryInit, Init
  <2>3. walks \in Counts
    BY <2>2 DEF Counts
  <2>4. QED BY <2>2, <2>3 DEF WalksInv, Earned, Holds, Used
<1>2. HistorySpec => []PccInv
  BY HistoryRefines, PccInductive, PTL
<1>3. QED BY <1>1, <1>2, NextWalks, PTL DEF HistorySpec

\* A region is promoted only at a summary, and only if accesses to it missed
\* both TLBs at least twice since the summary before.
THEOREM PccPromotionEarned == HistorySpec => PromotionEarned
<1>1. HistorySpec => []PccInv
  BY HistoryRefines, PccInductive, PTL
<1>2. PccInv /\ WalksInv /\ [HistoryNext]_historyVars =>
        [\A b \in Region \cap (pcc_promotions' \ pcc_promotions) :
            SummaryDue(clock') /\ walks[b] >= 2]_historyVars
  BY NextWalks
<1>3. QED BY <1>1, <1>2, WalksInductive, PTL DEF HistorySpec, PromotionEarned
=============================================================================
