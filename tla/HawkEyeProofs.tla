--------------------------- MODULE HawkEyeProofs ----------------------------
(***************************************************************************)
(* For every number of regions, buckets and promotions and every history   *)
(* of accesses: the buckets of HawkEye follow the averages, and a summary  *)
(* promotes from the top bucket down and uses its allowance.               *)
(***************************************************************************)
EXTENDS HawkEye, ListLemmas, FiniteSetTheorems

(***************************************************************************)
(* Lists and numbers.                                                      *)
(***************************************************************************)
\* r is s without one e: the other entries stay, and none of them is doubled.
Erased(r, s, e) ==
    /\ \A j, k \in 1..Len(r) : \E i, l \in 1..Len(s) : r[j] = s[i] /\ r[k] = s[l] /\ (i = l => j = k)
    /\ \A i \in 1..Len(s) : s[i] # e => \E j \in 1..Len(r) : r[j] = s[i]
    /\ (\A i, l \in 1..Len(s) : s[i] = e /\ s[l] = e => i = l) => \A j \in 1..Len(r) : r[j] # e

\* Erasing the first occurrence.
LEMMA RemoveFirstErases ==
    ASSUME NEW S, NEW s \in Seq(S), NEW e, NEW r, r = RemoveFirst(s, e)
    PROVE  r \in Seq(S) /\ Erased(r, s, e)
<1> DEFINE I == {i \in 1..Len(s) : s[i] = e}
<1>0. Len(s) \in Nat
  OBVIOUS
<1>1. CASE I = {}
  <2>1. r = s
    BY <1>1 DEF RemoveFirst
  <2>2. QED BY <1>1, <2>1 DEF Erased
<1>2. CASE I # {}
  <2>1. Min(I) \in I
    <3>1. I \in SUBSET Nat
      OBVIOUS
    <3> HIDE DEF I
    <3>2. QED BY <1>2, <3>1, NatMin
  <2>2. PICK p \in 1..Len(s) : p = Min(I) /\ s[p] = e
    BY <2>1
  <2>3. r = RemoveAt(s, p)
    <3>1. SelectInSeq(s, LAMBDA v : v = e) = p
      BY <1>2, <2>2 DEF SelectInSeq
    <3>2. QED BY <1>2, <3>1 DEF RemoveFirst
  <2>4. r \in Seq(S) /\ Unlinked(r, s, p)
    BY <2>3, RemoveAtUnlinks
  <2> DEFINE Old(j) == IF j < p THEN j ELSE j + 1
  <2>5. \A j \in 1..Len(r) : Old(j) \in 1..Len(s) /\ Old(j) # p /\ r[j] = s[Old(j)]
    BY <2>4, UnlinkedMembers
  <2>6. \A j, k \in 1..Len(r) : Old(j) = Old(k) => j = k
    <3>1. p \in Nat /\ Len(r) \in Nat
      BY <2>4
    <3>2. QED BY <3>1
  <2>7. ASSUME NEW i \in 1..Len(s), i # p PROVE \E j \in 1..Len(r) : r[j] = s[i]
    <3>1. Len(r) = Len(s) - 1 /\ \A j \in 1..(Len(s) - 1) : r[j] = IF j < p THEN s[j] ELSE s[j + 1]
      BY <2>4 DEF Unlinked
    <3>2. CASE i < p
      <4>1. i \in 1..(Len(s) - 1)
        BY <1>0, <3>2
      <4>2. QED BY <3>1, <3>2, <4>1
    <3>3. CASE i > p
      <4>1. i - 1 \in 1..(Len(s) - 1) /\ ~(i - 1 < p) /\ (i - 1) + 1 = i
        BY <1>0, <3>3
      <4>2. r[i - 1] = s[(i - 1) + 1]
        BY <3>1, <4>1
      <4>3. QED BY <3>1, <4>1, <4>2
    <3>4. QED BY <2>7, <3>2, <3>3
  <2> HIDE DEF Old
  <2>8. \A j, k \in 1..Len(r) : \E i, l \in 1..Len(s) : r[j] = s[i] /\ r[k] = s[l] /\ (i = l => j = k)
    BY <2>5, <2>6
  <2>9. (\A i, l \in 1..Len(s) : s[i] = e /\ s[l] = e => i = l) => \A j \in 1..Len(r) : r[j] # e
    BY <2>2, <2>5
  <2>10. \A i \in 1..Len(s) : s[i] # e => \E j \in 1..Len(r) : r[j] = s[i]
    BY <2>2, <2>7
  <2>11. QED BY <2>4, <2>8, <2>9, <2>10 DEF Erased
<1>3. QED BY <1>1, <1>2

\* The buckets are numbered, and every average has one.
LEMMA BucketFacts ==
    /\ Top \in Nat /\ Top \in Bucket /\ NUM_BUCKETS \in Nat \ {0} /\ Top = NUM_BUCKETS - 1
    /\ \A a \in Nat : BucketOf(a) \in Nat
    /\ BucketOf(Unknown) = 0
    /\ \A k \in Nat : Clamp(k) \in Bucket /\ (k <= Top => k \in Bucket /\ Clamp(k) = k)
<1>1. NUM_BUCKETS \in Nat \ {0} /\ BUCKET_SIZE \in Nat \ {0}
  BY HawkEyeAssumption
<1>2. Top \in Nat /\ Top \in Bucket /\ Top = NUM_BUCKETS - 1
  BY <1>1 DEF Top, Bucket
<1>3. ASSUME NEW a \in Nat PROVE BucketOf(a) \in Nat
  <2>1. Max({a, 0}) = a
    BY DEF Max
  <2>2. QED BY <1>1, <2>1 DEF BucketOf
<1>4. BucketOf(Unknown) = 0
  <2>1. Max({-1, 0}) = 0
    BY DEF Max
  <2>2. QED BY <1>1, <2>1 DEF BucketOf, Unknown
<1>5. ASSUME NEW k \in Nat PROVE Clamp(k) \in Bucket /\ (k <= Top => k \in Bucket /\ Clamp(k) = k)
  <2>1. CASE k <= Top
    <3>1. Min({k, Top}) = k
      BY <1>2, <2>1 DEF Min
    <3>2. QED BY <1>1, <1>2, <2>1, <3>1 DEF Clamp, Bucket
  <2>2. CASE ~(k <= Top)
    <3>1. Min({k, Top}) = Top
      BY <1>2, <2>2 DEF Min
    <3>2. QED BY <1>2, <2>2, <3>1 DEF Clamp
  <2>3. QED BY <2>1, <2>2
<1>6. QED BY <1>1, <1>2, <1>3, <1>4, <1>5

\* An average of counts is a natural.
LEMMA AverageType ==
    ASSUME NEW old \in Nat \cup {Unknown}, NEW cov \in Nat PROVE Average(old, cov) \in Nat
<1>1. AlphaNum \in Nat /\ AlphaDen \in Nat \ {0} /\ AlphaDen - AlphaNum \in Nat
  BY HawkEyeAssumption
<1>2. CASE old = Unknown
  BY <1>2 DEF Average
<1>3. CASE old # Unknown
  <2>1. PICK x \in Nat : x = AlphaNum * old
    BY <1>1, <1>3
  <2>2. PICK y \in Nat : y = (AlphaDen - AlphaNum) * cov
    BY <1>1
  <2>3. (x + y) \div AlphaDen \in Nat
    BY <1>1
  <2>4. QED BY <1>3, <2>1, <2>2, <2>3 DEF Average
<1>4. QED BY <1>2, <1>3
-----------------------------------------------------------------------------
(***************************************************************************)
(* The buckets.                                                            *)
(***************************************************************************)
Table == [Bucket -> Seq(Region)]

\* Region b has entry i of bucket k.
Where(B, b, k, i) == k \in Bucket /\ i \in 1..Len(B[k]) /\ B[k][i] = b

\* C is B with at most entries of base taken out.
Thinned(C, B, base) ==
    /\ \A b, k, j, m : Where(C, b, k, j) /\ Where(C, b, k, m) =>
          \E i, l : Where(B, b, k, i) /\ Where(B, b, k, l) /\ (i = l => j = m)
    /\ \A b, k, i : Where(B, b, k, i) /\ b # base => \E j : Where(C, b, k, j)

\* D is C with an entry of base added to bucket new.
Grown(D, C, base, new) ==
    /\ \A b, k, j : Where(C, b, k, j) => Where(D, b, k, j)
    /\ Where(D, base, new, Len(C[new]) + 1)
    /\ \A b, k, j : Where(D, b, k, j) => \/ Where(C, b, k, j)
                                         \/ b = base /\ k = new /\ j = Len(C[new]) + 1

\* Erasing base from bucket old.
LEMMA EraseOne ==
    ASSUME NEW B \in Table, NEW old \in Bucket, NEW base \in Region, NEW C,
           C = [B EXCEPT ![old] = RemoveFirst(@, base)]
    PROVE  /\ C \in Table /\ Thinned(C, B, base)
           /\ (\A i, l : Where(B, base, old, i) /\ Where(B, base, old, l) => i = l) =>
                 \A j : ~Where(C, base, old, j)
<1>1. B[old] \in Seq(Region) /\ C[old] = RemoveFirst(B[old], base) /\ \A k \in Bucket : k # old => C[k] = B[k]
  BY DEF Table
<1>2. PICK s \in Seq(Region) : s = B[old]
  BY <1>1
<1>3. PICK r : r = C[old] /\ r = RemoveFirst(s, base)
  BY <1>2, <1>1
<1>4. /\ r \in Seq(Region)
      /\ \A j, k \in 1..Len(r) : \E i, l \in 1..Len(s) : r[j] = s[i] /\ r[k] = s[l] /\ (i = l => j = k)
      /\ \A i \in 1..Len(s) : s[i] # base => \E j \in 1..Len(r) : r[j] = s[i]
      /\ (\A i, l \in 1..Len(s) : s[i] = base /\ s[l] = base => i = l) => \A j \in 1..Len(r) : r[j] # base
  <2>1. r \in Seq(Region) /\ Erased(r, s, base)
    BY <1>3, RemoveFirstErases
  <2>2. QED BY <2>1 DEF Erased
<1>5. C \in Table
  <2>1. RemoveFirst(B[old], base) \in Seq(Region)
    BY <1>2, <1>3, <1>4
  <2>2. QED BY <2>1 DEF Table
<1>6. ASSUME NEW b, NEW k, NEW j, NEW m, Where(C, b, k, j), Where(C, b, k, m)
      PROVE  \E i, l : Where(B, b, k, i) /\ Where(B, b, k, l) /\ (i = l => j = m)
  <2>1. CASE k = old
    <3>1. j \in 1..Len(r) /\ m \in 1..Len(r) /\ r[j] = b /\ r[m] = b
      BY <1>6, <1>3, <2>1 DEF Where
    <3>2. PICK i, l \in 1..Len(s) : r[j] = s[i] /\ r[m] = s[l] /\ (i = l => j = m)
      BY <1>4, <3>1
    <3>3. Where(B, b, k, i) /\ Where(B, b, k, l)
      BY <1>2, <2>1, <3>1, <3>2 DEF Where
    <3>4. QED BY <3>2, <3>3
  <2>2. CASE k # old
    BY <1>1, <1>6, <2>2 DEF Where
  <2>3. QED BY <2>1, <2>2
<1>7. ASSUME NEW b, NEW k, NEW i, Where(B, b, k, i), b # base
      PROVE  \E j : Where(C, b, k, j)
  <2>1. CASE k = old
    <3>1. i \in 1..Len(s) /\ s[i] = b
      BY <1>2, <1>7, <2>1 DEF Where
    <3>2. PICK j \in 1..Len(r) : r[j] = b
      BY <1>4, <1>7, <3>1
    <3>3. QED BY <1>3, <2>1, <3>2 DEF Where
  <2>2. CASE k # old
    BY <1>1, <1>7, <2>2 DEF Where
  <2>3. QED BY <2>1, <2>2
<1>8. ASSUME \A i, l : Where(B, base, old, i) /\ Where(B, base, old, l) => i = l
      PROVE  \A j : ~Where(C, base, old, j)
  <2>1. \A i, l \in 1..Len(s) : s[i] = base /\ s[l] = base => i = l
    BY <1>2, <1>8 DEF Where
  <2>2. \A j \in 1..Len(r) : r[j] # base
    BY <1>4, <2>1
  <2>3. QED BY <1>3, <2>2 DEF Where
<1>9. \A b, k, j, m : Where(C, b, k, j) /\ Where(C, b, k, m) =>
          \E i, l : Where(B, b, k, i) /\ Where(B, b, k, l) /\ (i = l => j = m)
  BY <1>6
<1>10. \A b, k, i : Where(B, b, k, i) /\ b # base => \E j : Where(C, b, k, j)
  BY <1>7
<1>11. QED BY <1>5, <1>8, <1>9, <1>10 DEF Thinned

\* Appending base to bucket new.
LEMMA AppendOne ==
    ASSUME NEW C \in Table, NEW new \in Bucket, NEW base \in Region, NEW D,
           D = [C EXCEPT ![new] = Append(@, base)]
    PROVE  D \in Table /\ Grown(D, C, base, new)
<1>1. C[new] \in Seq(Region) /\ D[new] = Append(C[new], base) /\ \A k \in Bucket : k # new => D[k] = C[k]
  BY DEF Table
<1>2. ASSUME NEW s \in Seq(Region)
      PROVE  /\ Append(s, base) \in Seq(Region) /\ Len(Append(s, base)) = Len(s) + 1 /\ Len(s) \in Nat
             /\ Append(s, base)[Len(s) + 1] = base
             /\ \A j \in 1..Len(s) : Append(s, base)[j] = s[j]
  OBVIOUS
<1>3. D \in Table
  BY <1>1, <1>2 DEF Table
<1>4. /\ Len(D[new]) = Len(C[new]) + 1 /\ Len(C[new]) \in Nat
      /\ D[new][Len(C[new]) + 1] = base
      /\ \A i \in 1..Len(C[new]) : D[new][i] = C[new][i]
  BY <1>1, <1>2
<1>5. ASSUME NEW j
      PROVE  /\ j \in 1..Len(C[new]) => j \in 1..Len(D[new])
             /\ j \in 1..Len(D[new]) => j \in 1..Len(C[new]) \/ j = Len(C[new]) + 1
  BY <1>4
<1>6. Where(D, base, new, Len(C[new]) + 1)
  BY <1>4 DEF Where
<1>7. ASSUME NEW b, NEW k, NEW j, Where(C, b, k, j) PROVE Where(D, b, k, j)
  BY <1>1, <1>4, <1>5, <1>7 DEF Where
<1>8. ASSUME NEW b, NEW k, NEW j, Where(D, b, k, j)
      PROVE  Where(C, b, k, j) \/ (b = base /\ k = new /\ j = Len(C[new]) + 1)
  BY <1>1, <1>4, <1>5, <1>8 DEF Where
<1>9. QED BY <1>3, <1>6, <1>7, <1>8 DEF Grown

\* The state of the loop over coverage.
Tables == [buckets : Table, ema : [Region -> Nat \cup {Unknown}],
           lost : SUBSET Region, memory0 : Region \cup {Unknown}]

\* A region without an average has no entry; one with an average has an entry in
\* its bucket, and no other one unless it was lost.
Home(a) == Clamp(BucketOf(a))
Placed(B, avg, gone) ==
    \A b \in Region :
        /\ avg[b] = Unknown => \A k, i : ~Where(B, b, k, i)
        /\ avg[b] # Unknown => \E i : Where(B, b, Home(avg[b]), i)
        /\ avg[b] # Unknown /\ b \notin gone =>
              \A k, i, l, j : Where(B, b, k, i) /\ Where(B, b, l, j) => k = l /\ i = j

\* The averages and the lost regions of two states differ at most at base.
SameBut(base, avg, gone, avg2, gone2) ==
    \A b \in Region : b # base => avg2[b] = avg[b] /\ (b \in gone2 <=> b \in gone)

\* base has no entry, or counts as lost.
Loose(B, gone, base) == base \in gone \/ \A k, j : ~Where(B, base, k, j)

\* Appending a region that has no other entry, or that counts as lost.
LEMMA AppendPlaced ==
    ASSUME NEW B \in Table, NEW C \in Table, NEW D, NEW base \in Region, NEW new \in Bucket,
           NEW avg, NEW gone, Placed(B, avg, gone), NEW avg2, NEW gone2,
           D = [C EXCEPT ![new] = Append(@, base)],
           avg2[base] # Unknown, new = Home(avg2[base]),
           SameBut(base, avg, gone, avg2, gone2), Thinned(C, B, base), Loose(C, gone2, base)
    PROVE  D \in Table /\ Placed(D, avg2, gone2)
<1>1. D \in Table /\ Grown(D, C, base, new)
  BY AppendOne
<1>2. ASSUME NEW b \in Region, b # base
      PROVE  /\ avg2[b] = Unknown => \A k, i : ~Where(D, b, k, i)
             /\ avg2[b] # Unknown => \E i : Where(D, b, Home(avg2[b]), i)
             /\ avg2[b] # Unknown /\ b \notin gone2 =>
                   \A k, i, l, j : Where(D, b, k, i) /\ Where(D, b, l, j) => k = l /\ i = j
  <2>0. \A k, j : Where(D, b, k, j) => Where(C, b, k, j)
    BY <1>1, <1>2 DEF Grown
  <2>1. /\ avg2[b] = avg[b] /\ (b \in gone2 <=> b \in gone)
        /\ \A k, j : Where(D, b, k, j) => Where(C, b, k, j)
        /\ \A k, j : Where(C, b, k, j) => Where(D, b, k, j)
    BY <1>1, <1>2, <2>0 DEF Grown, SameBut
  <2>2. \A k, j : Where(C, b, k, j) => \E i : Where(B, b, k, i)
    BY DEF Thinned
  <2>3. avg2[b] = Unknown => \A k, i : ~Where(D, b, k, i)
    BY <2>1, <2>2 DEF Placed
  <2>4. avg2[b] # Unknown => \E i : Where(D, b, Home(avg2[b]), i)
    <3>1. avg2[b] # Unknown => \E i : Where(B, b, Home(avg2[b]), i)
      BY <2>1 DEF Placed
    <3>2. QED BY <1>2, <2>1, <3>1 DEF Thinned
  <2>5. ASSUME avg2[b] # Unknown, b \notin gone2, NEW k, NEW i, NEW l, NEW j,
               Where(D, b, k, i), Where(D, b, l, j)
        PROVE  k = l /\ i = j
    <3>0. \A x, y, z, w : Where(B, b, x, y) /\ Where(B, b, z, w) => x = z /\ y = w
      BY <2>1, <2>5 DEF Placed
    <3>1. Where(C, b, k, i) /\ Where(C, b, l, j)
      BY <2>1, <2>5
    <3>2. k = l
      BY <2>2, <3>0, <3>1
    <3>3. PICK x, y : Where(B, b, k, x) /\ Where(B, b, k, y) /\ (x = y => i = j)
      BY <3>1, <3>2 DEF Thinned
    <3>4. QED BY <3>0, <3>2, <3>3
  <2>6. QED BY <2>3, <2>4, <2>5
<1>3. \E i : Where(D, base, Home(avg2[base]), i)
  BY <1>1 DEF Grown
<1>4. base \notin gone2 => \A k, i, l, j : Where(D, base, k, i) /\ Where(D, base, l, j) => k = l /\ i = j
  <2>1. SUFFICES ASSUME base \notin gone2, NEW k, NEW i, NEW l, NEW j, Where(D, base, k, i), Where(D, base, l, j)
                 PROVE  k = l /\ i = j
    OBVIOUS
  <2>2. \A x, y : ~Where(C, base, x, y)
    BY <2>1 DEF Loose
  <2>3. k = new /\ i = Len(C[new]) + 1
    BY <1>1, <2>1, <2>2 DEF Grown
  <2>4. l = new /\ j = Len(C[new]) + 1
    BY <1>1, <2>1, <2>2 DEF Grown
  <2>5. QED BY <2>3, <2>4
<1>5. ASSUME NEW b \in Region
      PROVE  /\ avg2[b] = Unknown => \A k, i : ~Where(D, b, k, i)
             /\ avg2[b] # Unknown => \E i : Where(D, b, Home(avg2[b]), i)
             /\ avg2[b] # Unknown /\ b \notin gone2 =>
                   \A k, i, l, j : Where(D, b, k, i) /\ Where(D, b, l, j) => k = l /\ i = j
  <2>1. CASE b = base
    BY <1>3, <1>4, <2>1
  <2>2. CASE b # base
    BY <1>2, <2>2
  <2>3. QED BY <2>1, <2>2
<1>6. QED BY <1>1, <1>5 DEF Placed

\* change_bucket and the update of the average keep the regions placed: an entry
\* is erased where one is appended, except past the last bucket.
LEMMA MovePlaced ==
    ASSUME NEW t \in Tables, Placed(t.buckets, t.ema, t.lost), NEW cov, NEW base \in Region,
           cov[base] \in Nat, NEW u, u = MoveRegion(t, cov, base)
    PROVE  u \in Tables /\ Placed(u.buckets, u.ema, u.lost)
<1> DEFINE old == BucketOf(t.ema[base])
           avg == Average(t.ema[base], cov[base])
           new == BucketOf(avg)
           C == IF old <= Top THEN [t.buckets EXCEPT ![old] = RemoveFirst(@, base)] ELSE t.buckets
           D == [C EXCEPT ![Clamp(new)] = Append(@, base)]
           gone == IF old <= Top THEN t.lost ELSE t.lost \cup {base}
           avg2 == [t.ema EXCEPT ![base] = avg]
           m == IF D[Top] = <<>> THEN t.memory0 ELSE Head(D[Top])
<1>0. /\ t.buckets \in Table /\ t.ema \in [Region -> Nat \cup {Unknown}] /\ t.lost \in SUBSET Region
      /\ t.memory0 \in Region \cup {Unknown}
      /\ t = [buckets |-> t.buckets, ema |-> t.ema, lost |-> t.lost, memory0 |-> t.memory0]
  BY DEF Tables
<1>1. avg \in Nat /\ new \in Nat /\ old \in Nat /\ Clamp(new) \in Bucket /\ Top \in Bucket /\ Top \in Nat
  <2>1. t.ema[base] \in Nat \cup {Unknown}
    BY <1>0
  <2>2. avg \in Nat
    BY <2>1, AverageType
  <2>3. old \in Nat
    BY <2>1, BucketFacts
  <2> HIDE DEF avg, old
  <2>4. QED BY <2>2, <2>3, BucketFacts
<1>2. u = [buckets |-> D, ema |-> avg2, lost |-> gone, memory0 |-> m]
  <2>1. ChangeBucket(t, base, old, new) = [buckets |-> D, ema |-> t.ema, lost |-> gone, memory0 |-> t.memory0]
    <3>1. PICK B, g, a, x : B = t.buckets /\ g = t.lost /\ a = t.ema /\ x = t.memory0
      OBVIOUS
    <3>2. t = [buckets |-> B, ema |-> a, lost |-> g, memory0 |-> x]
      BY <1>0, <3>1
    <3>3. ChangeBucket(t, base, old, new) = [[t EXCEPT !.buckets = D] EXCEPT !.lost = gone]
      BY DEF ChangeBucket
    <3> HIDE DEF D, gone
    <3>4. QED BY <3>1, <3>2, <3>3
  <2> HIDE DEF D, gone, old, avg
  <2>2. [ChangeBucket(t, base, old, new) EXCEPT !.ema[base] = avg]
          = [buckets |-> D, ema |-> avg2, lost |-> gone, memory0 |-> t.memory0]
    BY <2>1
  <2>3. u = [[ChangeBucket(t, base, old, new) EXCEPT !.ema[base] = avg] EXCEPT !.memory0 = m]
    BY <2>2 DEF MoveRegion, old, avg
  <2>4. QED BY <2>2, <2>3
<1> HIDE DEF avg, new
<1>3. avg2[base] = avg /\ avg # Unknown /\ \A b \in Region : b # base => avg2[b] = t.ema[b]
  BY <1>0, <1>1 DEF Unknown
<1>4. Clamp(new) = Home(avg2[base])
  BY <1>3 DEF Home, new
<1>5. /\ C \in Table /\ Thinned(C, t.buckets, base)
      /\ base \in gone \/ \A k, j : ~Where(C, base, k, j)
  <2>1. CASE old <= Top
    <3>1. old \in Bucket /\ Clamp(old) = old /\ C = [t.buckets EXCEPT ![old] = RemoveFirst(@, base)]
          /\ gone = t.lost
      BY <1>1, <2>1, BucketFacts
    <3> HIDE DEF C
    <3>2. /\ C \in Table /\ Thinned(C, t.buckets, base)
          /\ (\A i, l : Where(t.buckets, base, old, i) /\ Where(t.buckets, base, old, l) => i = l) =>
                \A j : ~Where(C, base, old, j)
      BY <1>0, <3>1, EraseOne
    <3>3. ASSUME base \notin t.lost PROVE \A k, j : ~Where(C, base, k, j)
      <4>1. CASE t.ema[base] = Unknown
        <5>1. \A k, i : ~Where(t.buckets, base, k, i)
          BY <4>1 DEF Placed
        <5>2. QED BY <3>2, <5>1 DEF Thinned
      <4>2. CASE t.ema[base] # Unknown
        <5>1. /\ \E i : Where(t.buckets, base, old, i)
              /\ \A k, i, l, j : Where(t.buckets, base, k, i) /\ Where(t.buckets, base, l, j) => k = l /\ i = j
          BY <3>1, <3>3, <4>2 DEF Placed, Home
        <5>2. \A j : ~Where(C, base, old, j)
          BY <3>2, <5>1
        <5>3. \A k, j : Where(C, base, k, j) => k = old
          BY <3>2, <5>1 DEF Thinned
        <5>4. QED BY <5>2, <5>3
      <4>3. QED BY <4>1, <4>2
    <3>4. QED BY <3>1, <3>2, <3>3
  <2>2. CASE ~(old <= Top)
    <3>1. C = t.buckets /\ base \in gone
      BY <2>2
    <3> HIDE DEF C, gone
    <3>2. QED BY <1>0, <3>1 DEF Thinned
  <2>3. QED BY <2>1, <2>2
<1>6. \A b \in Region : b # base => (b \in gone <=> b \in t.lost)
  OBVIOUS
<1>7. gone \in SUBSET Region /\ avg2 \in [Region -> Nat \cup {Unknown}]
  BY <1>0, <1>1
<1> HIDE DEF old, C, gone, avg2
<1>8. D \in Table /\ Placed(D, avg2, gone)
  <2>1. PICK E : E = D
    OBVIOUS
  <2>2. PICK n \in Bucket : n = Clamp(new)
    BY <1>1
  <2>3. E = [C EXCEPT ![n] = Append(@, base)] /\ avg2[base] # Unknown /\ n = Home(avg2[base])
    BY <1>3, <1>4, <2>1, <2>2
  <2> HIDE DEF D
  <2>4. PICK B, a, g : B \in Table /\ B = t.buckets /\ a = t.ema /\ g = t.lost
    BY <1>0
  <2>5. Placed(B, a, g) /\ Thinned(C, B, base)
    BY <1>5, <2>4
  <2>6. SameBut(base, a, g, avg2, gone)
    BY <1>3, <1>6, <2>4 DEF SameBut
  <2>7. C \in Table
    BY <1>5
  <2>8. Loose(C, gone, base)
    BY <1>5 DEF Loose
  <2>9. E \in Table /\ Placed(E, avg2, gone)
    <3>1. B \in Table
      BY <2>4
    <3>2. QED BY <2>3, <2>5, <2>6, <2>7, <2>8, <3>1, AppendPlaced
  <2>10. QED BY <2>1, <2>9
<1> HIDE DEF D
<1>9. m \in Region \cup {Unknown}
  <2>1. D[Top] \in Seq(Region)
    BY <1>1, <1>8 DEF Table
  <2>2. QED BY <1>0, <2>1
<1> HIDE DEF m
<1>10. QED BY <1>2, <1>7, <1>8, <1>9 DEF Tables
-----------------------------------------------------------------------------
(***************************************************************************)
(* The loop over coverage.                                                 *)
(***************************************************************************)
Now == [buckets |-> buckets, ema |-> ema, lost |-> lost, memory0 |-> memory0]

\* M holds the state before the loop and after each of its passes.
Passes(M, cov, order) ==
    M = [n \in 0..Len(order) |-> IF n = 0 THEN Now ELSE MoveRegion(M[n - 1], cov, order[n])]

\* MoveRegions is the last of one pass per region of the order.
LEMMA MoveRegionsEquation ==
    ASSUME NEW cov, NEW order, Len(order) \in Nat
    PROVE  \E M : Passes(M, cov, order) /\ MoveRegions(cov, order) = M[Len(order)]
<1> DEFINE N == Len(order)
           Body(f, n) == IF n = 0 THEN Now ELSE MoveRegion(f[n - 1], cov, order[n])
           Upto(j) == \E f : f = [n \in 0..j |-> Body(f, n)]
           T == {j \in 0..N : Upto(j)}
<1>0. N \in Nat
  OBVIOUS
<1>1. 0 \in T
  <2> DEFINE g == [n \in 0..0 |-> Now]
  <2>1. g = [n \in 0..0 |-> Body(g, n)]
    OBVIOUS
  <2> HIDE DEF g, Body
  <2>2. Upto(0)
    BY <2>1
  <2>3. QED BY <1>0, <2>2
<1>2. ASSUME NEW j \in 0..N, j # N, j \in T PROVE j + 1 \in T
  <2> HIDE DEF Body, N
  <2>1. PICK f : f = [n \in 0..j |-> Body(f, n)]
    BY <1>2
  <2> DEFINE g == [n \in 0..(j + 1) |-> IF n = j + 1 THEN Body(f, j + 1) ELSE f[n]]
  <2>2. \A n \in 0..j : g[n] = f[n] /\ f[n] = Body(f, n)
    BY <2>1
  <2>3. g[j + 1] = Body(f, j + 1) /\ DOMAIN g = 0..(j + 1)
    OBVIOUS
  <2> HIDE DEF g
  <2>4. ASSUME NEW n \in 0..(j + 1) PROVE g[n] = Body(g, n)
    <3>1. n # 0 => g[n - 1] = f[n - 1]
      BY <2>2
    <3>2. Body(f, n) = Body(g, n)
      BY <3>1 DEF Body
    <3>3. n = j + 1 \/ n \in 0..j
      OBVIOUS
    <3>4. QED BY <2>2, <2>3, <3>2, <3>3
  <2>5. g = [n \in 0..(j + 1) |-> IF n = j + 1 THEN Body(f, j + 1) ELSE f[n]]
    BY DEF g
  <2>6. g = [n \in 0..(j + 1) |-> Body(g, n)]
    BY <2>4, <2>5
  <2>7. j + 1 \in 0..N
    BY <1>0, <1>2
  <2>8. QED BY <2>6, <2>7
<1>3. Upto(N)
  <2> HIDE DEF N
  <2>1. \A j \in 0..N : j # N /\ j \in T => j + 1 \in T
    BY <1>2
  <2>2. \A j \in 0..N : j \in T
    <3> HIDE DEF T
    <3>1. QED BY <1>0, <1>1, <2>1, UpToInduction
  <2>3. N \in T
    <3> HIDE DEF T
    <3>1. QED BY <1>0, <2>2
  <2> HIDE DEF Upto
  <2>4. QED BY <2>3
<1> DEFINE M == CHOOSE f : f = [n \in 0..N |-> Body(f, n)]
<1>4. M = [n \in 0..N |-> Body(M, n)]
  BY <1>3
<1>5. MoveRegions(cov, order) = M[N]
  BY DEF MoveRegions, Now
<1>6. Passes(M, cov, order)
  BY <1>4 DEF Passes
<1>7. QED BY <1>5, <1>6

\* The state of the loop has its type, and every region is placed.
Sound(t) == t \in Tables /\ Placed(t.buckets, t.ema, t.lost)

\* The loop over coverage keeps the regions placed, whatever order the hash map
\* has.
LEMMA MoveRegionsSound ==
    ASSUME Sound(Now), NEW cov, NEW order, Len(order) \in Nat,
           \A i \in 1..Len(order) : order[i] \in Region /\ cov[order[i]] \in Nat
    PROVE  Sound(MoveRegions(cov, order))
<1>1. PICK M : Passes(M, cov, order) /\ MoveRegions(cov, order) = M[Len(order)]
  BY MoveRegionsEquation
<1>2. PICK N \in Nat : N = Len(order)
  OBVIOUS
<1>3. M[0] = Now
  BY <1>1 DEF Passes
<1>4. \A n \in 1..N : M[n] = MoveRegion(M[n - 1], cov, order[n])
  BY <1>1, <1>2 DEF Passes
<1> DEFINE T == {n \in 0..N : Sound(M[n])}
<1>5. 0 \in T
  BY <1>3
<1>6. ASSUME NEW i \in 0..N, i # N, i \in T PROVE i + 1 \in T
  <2>1. i + 1 \in 1..N /\ i + 1 \in 0..N /\ (i + 1) - 1 = i /\ Sound(M[i])
    BY <1>6
  <2>2. M[i + 1] = MoveRegion(M[i], cov, order[i + 1])
    BY <1>4, <2>1
  <2>3. PICK t, u, base : t = M[i] /\ u = M[i + 1] /\ base = order[i + 1]
    OBVIOUS
  <2>4. base \in Region /\ cov[base] \in Nat
    BY <1>2, <2>1, <2>3
  <2>5. t \in Tables /\ Placed(t.buckets, t.ema, t.lost) /\ u = MoveRegion(t, cov, base)
    BY <2>1, <2>2, <2>3 DEF Sound
  <2>6. u \in Tables /\ Placed(u.buckets, u.ema, u.lost)
    BY <2>4, <2>5, MovePlaced
  <2>7. Sound(M[i + 1])
    BY <2>3, <2>6 DEF Sound
  <2>8. QED BY <2>1, <2>7
<1>7. \A i \in 0..N : i \in T
  <2>1. \A i \in 0..N : i # N /\ i \in T => i + 1 \in T
    BY <1>6
  <2> HIDE DEF T
  <2>2. QED BY <1>5, <2>1, UpToInduction
<1>8. N \in 0..N
  OBVIOUS
<1>9. QED BY <1>1, <1>2, <1>7, <1>8
-----------------------------------------------------------------------------
(***************************************************************************)
(* The invariant.                                                          *)
(***************************************************************************)
HInv == coverage \in [Region -> Nat \cup {Unknown}] /\ Sound(Now)

\* Marking a page keeps the counts.
LEMMA MarkedType ==
    ASSUME coverage \in [Region -> Nat \cup {Unknown}], NEW base \in Region, NEW fresh \in BOOLEAN
    PROVE  Marked(base, fresh) \in [Region -> Nat \cup {Unknown}]
<1>1. ASSUME NEW x \in Nat \cup {Unknown} PROVE Max({x, 0}) + 1 \in Nat
  <2>1. CASE x = Unknown
    <3>1. Max({-1, 0}) = 0
      BY DEF Max
    <3>2. QED BY <2>1, <3>1 DEF Unknown
  <2>2. CASE x \in Nat
    <3>1. Max({x, 0}) = x
      BY <2>2 DEF Max
    <3>2. QED BY <2>2, <3>1
  <2>3. QED BY <2>1, <2>2
<1>2. coverage[base] \in Nat \cup {Unknown}
  OBVIOUS
<1>3. (IF fresh THEN Max({coverage[base], 0}) + 1 ELSE coverage[base]) \in Nat \cup {Unknown}
  BY <1>1, <1>2
<1>4. QED BY <1>3 DEF Marked

\* The state that a summary computes, in any order of the map.
LEMMA SummarySound ==
    ASSUME HInv, NEW base \in Region, NEW fresh \in BOOLEAN, NEW cov, cov = Marked(base, fresh),
           NEW known, known = {b \in Region : cov[b] # Unknown}, NEW order \in SetToSeqs(known)
    PROVE  Sound(MoveRegions(cov, order))
<1>1. cov \in [Region -> Nat \cup {Unknown}]
  BY MarkedType DEF HInv
<1>2. known \in SUBSET Region /\ \A b \in known : cov[b] \in Nat
  BY <1>1
<1>3. IsFiniteSet(known)
  BY <1>2, HawkEyeAssumption, FS_Subset
<1>4. PICK c \in Nat : c = Cardinality(known)
  BY <1>3, FS_CardinalityType
<1>5. order \in [1..c -> known]
  BY <1>4 DEF SetToSeqs
<1>6. Len(order) = c
  BY <1>5, FunctionIsList
<1>7. \A i \in 1..Len(order) : order[i] \in Region /\ cov[order[i]] \in Nat
  BY <1>2, <1>5, <1>6
<1>8. Len(order) \in Nat
  BY <1>6
<1>9. Sound(Now)
  BY DEF HInv
<1>10. QED BY <1>7, <1>8, <1>9, MoveRegionsSound

\* In the first state no region has an average or an entry.
LEMMA HInit == Init => HInv
<1>1. SUFFICES ASSUME Init PROVE HInv
  OBVIOUS
<1>2. /\ coverage = [b \in Region |-> Unknown] /\ ema = [b \in Region |-> Unknown]
      /\ buckets = [k \in Bucket |-> <<>>] /\ memory0 = Unknown /\ lost = {}
  BY <1>1 DEF Init
<1>3. Now \in Tables
  BY <1>2 DEF Now, Tables, Table
<1>4. \A b, k, i : ~Where(buckets, b, k, i)
  BY <1>2 DEF Where
<1>5. Placed(buckets, ema, lost)
  BY <1>2, <1>4 DEF Placed
<1>6. Now.buckets = buckets /\ Now.ema = ema /\ Now.lost = lost
  BY DEF Now
<1>7. QED BY <1>2, <1>3, <1>5, <1>6 DEF HInv, Sound

\* Every step keeps the invariant.
LEMMA HNext == HInv /\ [Next]_vars => HInv'
<1>1. SUFFICES ASSUME HInv, [Next]_vars PROVE HInv'
  OBVIOUS
<1>2. ASSUME UNCHANGED <<buckets, ema, lost, memory0>> PROVE Sound(Now)'
  <2>1. Now' = Now
    BY <1>2 DEF Now
  <2>2. Sound(Now)
    BY <1>1 DEF HInv
  <2>3. QED BY <2>1, <2>2 DEF Sound, Tables, Table
<1>3. ASSUME NEW base \in Region, NEW fresh \in BOOLEAN, Track(base, fresh) PROVE HInv'
  <2>1. coverage' \in [Region -> Nat \cup {Unknown}]
    BY <1>1, <1>3, MarkedType DEF HInv, Track
  <2>2. Sound(Now)'
    BY <1>2, <1>3 DEF Track
  <2>3. QED BY <2>1, <2>2 DEF HInv
<1>4. ASSUME Skip PROVE HInv'
  <2>1. coverage' = coverage /\ Sound(Now)'
    BY <1>2, <1>4 DEF Skip
  <2>2. QED BY <1>1, <2>1 DEF HInv
<1>5. ASSUME NEW base \in Region, NEW fresh \in BOOLEAN, Summarize(base, fresh) PROVE HInv'
  <2>1. PICK cov : cov = Marked(base, fresh)
    OBVIOUS
  <2>2. PICK known : known = {b \in Region : cov[b] # Unknown}
    OBVIOUS
  <2>3. PICK order \in SetToSeqs(known) :
           /\ buckets' = MoveRegions(cov, order).buckets /\ ema' = MoveRegions(cov, order).ema
           /\ memory0' = MoveRegions(cov, order).memory0 /\ lost' = MoveRegions(cov, order).lost
    BY <1>5, <2>1, <2>2 DEF Summarize
  <2>4. PICK t : t = MoveRegions(cov, order)
    OBVIOUS
  <2>5. t \in Tables /\ Placed(t.buckets, t.ema, t.lost)
    BY <1>1, <2>1, <2>2, <2>4, SummarySound DEF Sound
  <2>6. Now' = t
    <3>1. t = [buckets |-> t.buckets, ema |-> t.ema, lost |-> t.lost, memory0 |-> t.memory0]
      BY <2>5 DEF Tables
    <3>2. QED BY <2>3, <2>4, <3>1 DEF Now
  <2>7. Sound(Now)'
    BY <2>5, <2>6 DEF Sound, Tables, Table
  <2>8. coverage' = [b \in Region |-> IF b \in known THEN 0 ELSE Unknown]
    BY <1>5, <2>1, <2>2 DEF Summarize
  <2>9. QED BY <2>7, <2>8 DEF HInv
<1>6. ASSUME NEW base \in Region, NEW fresh \in BOOLEAN, Crash(base, fresh) PROVE HInv'
  <2>1. coverage' = coverage /\ Sound(Now)'
    BY <1>2, <1>6 DEF Crash
  <2>2. QED BY <1>1, <2>1 DEF HInv
<1>7. CASE UNCHANGED vars
  <2>1. coverage' = coverage /\ Sound(Now)'
    BY <1>2, <1>7 DEF vars
  <2>2. QED BY <1>1, <2>1 DEF HInv
<1>8. QED BY <1>1, <1>3, <1>4, <1>5, <1>6, <1>7 DEF Next

\* Placed regions have their entries where their averages say.
LEMMA PlacedMatches == HInv => BucketsMatchAverages
<1>1. SUFFICES ASSUME HInv, NEW b \in Region
               PROVE  /\ (\E e \in Entries(b) : e[1] = Clamp(BucketOf(ema[b]))) <=> b \in Known
                      /\ b \in Known \ lost => Cardinality(Entries(b)) = 1
  BY DEF BucketsMatchAverages
<1>2. /\ buckets \in Table
      /\ ema[b] = Unknown => \A k, i : ~Where(buckets, b, k, i)
      /\ ema[b] # Unknown => \E i : Where(buckets, b, Home(ema[b]), i)
      /\ ema[b] # Unknown /\ b \notin lost =>
            \A k, i, l, j : Where(buckets, b, k, i) /\ Where(buckets, b, l, j) => k = l /\ i = j
  <2>1. Now \in Tables /\ Placed(buckets, ema, lost)
    BY <1>1 DEF HInv, Sound, Now
  <2>2. QED BY <2>1 DEF Placed, Tables, Now
<1>3. \A k \in Bucket : DOMAIN buckets[k] = 1..Len(buckets[k])
  BY <1>2 DEF Table
<1>4. \A k, i : Where(buckets, b, k, i) => <<k, i>> \in Entries(b)
  BY <1>3 DEF Where, Entries
<1>5. ASSUME NEW e \in Entries(b) PROVE Where(buckets, b, e[1], e[2]) /\ e = <<e[1], e[2]>>
  <2>1. PICK k \in Bucket : e \in {k} \X DOMAIN buckets[k]
    BY DEF Entries
  <2>2. QED BY <1>3, <2>1 DEF Where, Entries
<1>6. (\E e \in Entries(b) : e[1] = Clamp(BucketOf(ema[b]))) <=> b \in Known
  <2>1. CASE ema[b] = Unknown
    BY <1>2, <1>5, <2>1 DEF Known
  <2>2. CASE ema[b] # Unknown
    <3>1. PICK i : Where(buckets, b, Home(ema[b]), i)
      BY <1>2, <2>2
    <3>2. <<Home(ema[b]), i>> \in Entries(b)
      BY <1>4, <3>1
    <3>3. QED BY <2>2, <3>2 DEF Known, Home
  <2>3. QED BY <2>1, <2>2
<1>7. b \in Known \ lost => Cardinality(Entries(b)) = 1
  <2>1. SUFFICES ASSUME b \in Known \ lost PROVE Cardinality(Entries(b)) = 1
    OBVIOUS
  <2>2. PICK i : Where(buckets, b, Home(ema[b]), i)
    BY <1>2, <2>1 DEF Known
  <2>3. <<Home(ema[b]), i>> \in Entries(b)
    BY <1>4, <2>2
  <2>4. ASSUME NEW e \in Entries(b) PROVE e = <<Home(ema[b]), i>>
    <3>1. Where(buckets, b, e[1], e[2]) /\ e = <<e[1], e[2]>>
      BY <1>5
    <3>2. e[1] = Home(ema[b]) /\ e[2] = i
      BY <1>2, <2>1, <2>2, <3>1 DEF Known
    <3>3. QED BY <3>1, <3>2
  <2>5. Entries(b) = {<<Home(ema[b]), i>>}
    BY <2>3, <2>4
  <2>6. QED BY <2>5, FS_Singleton
<1>8. QED BY <1>6, <1>7

\* However many summaries move the regions up and down, change_bucket leaves
\* every region with an average in the bucket of that average, and in no other
\* one unless it was moved from past the last bucket (hawkeye.h, summarize).
THEOREM BucketsFollow == Spec => []BucketsMatchAverages
<1>1. Init => HInv
  BY HInit
<1>2. HInv /\ [Next]_vars => HInv'
  BY HNext
<1>3. HInv => BucketsMatchAverages
  BY PlacedMatches
<1>4. QED BY <1>1, <1>2, <1>3, PTL DEF Spec
-----------------------------------------------------------------------------
(***************************************************************************)
(* The promotion loop.                                                     *)
(***************************************************************************)
\* d holds the lists of the regions in the k highest buckets.
Lists(d, B) ==
    d = [k \in 0..NUM_BUCKETS |-> IF k = 0 THEN <<>> ELSE d[k - 1] \o B[NUM_BUCKETS - k]]

\* Visits goes through one bucket after the other.
LEMMA VisitsEquation ==
    ASSUME NEW t
    PROVE  \E d : /\ Lists(d, t.buckets)
                 /\ Visits(t) = IF t.buckets[Top] = <<>> THEN <<t.memory0>> \o d[NUM_BUCKETS]
                                ELSE d[NUM_BUCKETS]
<1> DEFINE N == NUM_BUCKETS
           Body(f, n) == IF n = 0 THEN <<>> ELSE f[n - 1] \o t.buckets[NUM_BUCKETS - n]
           Upto(j) == \E f : f = [n \in 0..j |-> Body(f, n)]
           T == {j \in 0..N : Upto(j)}
<1>0. N \in Nat
  BY BucketFacts
<1>1. 0 \in T
  <2> DEFINE g == [n \in 0..0 |-> <<>>]
  <2>1. g = [n \in 0..0 |-> Body(g, n)]
    OBVIOUS
  <2> HIDE DEF g, Body
  <2>2. Upto(0)
    BY <2>1
  <2>3. QED BY <1>0, <2>2
<1>2. ASSUME NEW j \in 0..N, j # N, j \in T PROVE j + 1 \in T
  <2> HIDE DEF Body, N
  <2>1. PICK f : f = [n \in 0..j |-> Body(f, n)]
    BY <1>2
  <2> DEFINE g == [n \in 0..(j + 1) |-> IF n = j + 1 THEN Body(f, j + 1) ELSE f[n]]
  <2>2. \A n \in 0..j : g[n] = f[n] /\ f[n] = Body(f, n)
    BY <2>1
  <2>3. g[j + 1] = Body(f, j + 1) /\ DOMAIN g = 0..(j + 1)
    OBVIOUS
  <2> HIDE DEF g
  <2>4. ASSUME NEW n \in 0..(j + 1) PROVE g[n] = Body(g, n)
    <3>1. n # 0 => g[n - 1] = f[n - 1]
      BY <2>2
    <3>2. Body(f, n) = Body(g, n)
      BY <3>1 DEF Body
    <3>3. n = j + 1 \/ n \in 0..j
      OBVIOUS
    <3>4. QED BY <2>2, <2>3, <3>2, <3>3
  <2>5. g = [n \in 0..(j + 1) |-> IF n = j + 1 THEN Body(f, j + 1) ELSE f[n]]
    BY DEF g
  <2>6. g = [n \in 0..(j + 1) |-> Body(g, n)]
    BY <2>4, <2>5
  <2>7. j + 1 \in 0..N
    BY <1>0, <1>2
  <2>8. QED BY <2>6, <2>7
<1>3. Upto(N)
  <2> HIDE DEF N
  <2>1. \A j \in 0..N : j # N /\ j \in T => j + 1 \in T
    BY <1>2
  <2>2. \A j \in 0..N : j \in T
    <3> HIDE DEF T
    <3>1. QED BY <1>0, <1>1, <2>1, UpToInduction
  <2>3. N \in T
    <3> HIDE DEF T
    <3>1. QED BY <1>0, <2>2
  <2> HIDE DEF Upto
  <2>4. QED BY <2>3
<1> DEFINE d == CHOOSE f : f = [n \in 0..N |-> Body(f, n)]
<1>4. d = [n \in 0..N |-> Body(d, n)]
  BY <1>3
<1>5. Visits(t) = IF t.buckets[Top] = <<>> THEN <<t.memory0>> \o d[N] ELSE d[N]
  BY DEF Visits
<1>6. Lists(d, t.buckets)
  BY <1>4 DEF Lists
<1>7. QED BY <1>5, <1>6

\* w tells the bucket of each entry of the list v: none is lower than m, they
\* do not rise, and every entry of a bucket from m upwards is listed.
Ordered(v, w, B, m) ==
    /\ v \in Seq(Region) /\ w \in [1..Len(v) -> Bucket]
    /\ \A p, q \in 1..Len(v) : p < q => w[p] >= w[q]
    /\ \A p \in 1..Len(v) : w[p] >= m /\ \E i : Where(B, v[p], w[p], i)
    /\ \A b, k, i : Where(B, b, k, i) /\ k >= m => \E p \in 1..Len(v) : v[p] = b /\ w[p] = k

\* Appending the next bucket keeps the list ordered.
LEMMA OrderedStep ==
    ASSUME NEW B \in Table, NEW m \in Bucket, NEW v, NEW w, Ordered(v, w, B, m + 1)
    PROVE  \E x : Ordered(v \o B[m], x, B, m)
<1>1. PICK s \in Seq(Region) : s = B[m]
  BY DEF Table
<1>2. v \in Seq(Region) /\ w \in [1..Len(v) -> Bucket]
  BY DEF Ordered
<1>3. PICK n \in Nat : n = Len(v)
  BY <1>2
<1>4. PICK l \in Nat : l = Len(s)
  OBVIOUS
<1>5. PICK r : r = v \o s
  OBVIOUS
<1>6. /\ r \in Seq(Region) /\ Len(r) = n + l
      /\ \A p \in 1..(n + l) : r[p] = IF p <= n THEN v[p] ELSE s[p - n]
  BY <1>2, <1>3, <1>4, <1>5
<1> DEFINE x == [p \in 1..(n + l) |-> IF p <= n THEN w[p] ELSE m]
<1>7. Bucket \in SUBSET Nat /\ m \in Nat
  BY BucketFacts DEF Bucket
<1>8. x \in [1..Len(r) -> Bucket]
  BY <1>2, <1>3, <1>6
<1>9. \A p \in 1..n : x[p] = w[p] /\ r[p] = v[p] /\ w[p] \in Nat
  <2>1. \A p \in 1..n : p \in 1..(n + l) /\ p <= n
    OBVIOUS
  <2>2. \A p \in 1..n : w[p] \in Nat
    BY <1>2, <1>3, <1>7
  <2>3. \A p \in 1..n : x[p] = w[p]
    BY <2>1
  <2> HIDE DEF x
  <2>4. \A p \in 1..n : r[p] = v[p]
    BY <1>6, <2>1
  <2>5. QED BY <2>2, <2>3, <2>4
<1>10. \A p \in 1..(n + l) : ~(p <= n) => x[p] = m /\ r[p] = s[p - n] /\ p - n \in 1..l
  BY <1>6
<1>11. /\ \A p, q \in 1..n : p < q => w[p] >= w[q]
       /\ \A p \in 1..n : w[p] >= m + 1 /\ \E i : Where(B, v[p], w[p], i)
       /\ \A b, k, i : Where(B, b, k, i) /\ k >= m + 1 => \E p \in 1..n : v[p] = b /\ w[p] = k
  BY <1>3 DEF Ordered
<1>12. \A p \in 1..(n + l) : p \in 1..n \/ ~(p <= n)
  OBVIOUS
<1> HIDE DEF x
<1>13. ASSUME NEW p \in 1..(n + l), NEW q \in 1..(n + l), p < q PROVE x[p] >= x[q]
  <2>1. CASE q \in 1..n
    <3>1. p \in 1..n
      BY <1>13, <2>1
    <3>2. QED BY <1>9, <1>11, <1>13, <2>1, <3>1
  <2>2. CASE ~(q <= n)
    <3>1. CASE p \in 1..n
      <4>1. w[p] >= m + 1 /\ x[p] = w[p] /\ w[p] \in Nat
        BY <1>9, <1>11, <3>1
      <4>2. x[q] = m
        BY <1>10, <2>2
      <4>3. QED BY <1>7, <4>1, <4>2
    <3>2. CASE ~(p <= n)
      BY <1>7, <1>10, <2>2, <3>2
    <3>3. QED BY <1>12, <3>1, <3>2
  <2>3. QED BY <1>12, <2>1, <2>2
<1>14. ASSUME NEW p \in 1..(n + l) PROVE x[p] >= m /\ \E i : Where(B, r[p], x[p], i)
  <2>1. CASE p \in 1..n
    <3>1. x[p] >= m
      <4>1. w[p] >= m + 1 /\ x[p] = w[p] /\ w[p] \in Nat
        BY <1>9, <1>11, <2>1
      <4>2. QED BY <1>7, <4>1
    <3>2. PICK i : Where(B, v[p], w[p], i)
      BY <1>11, <2>1
    <3>3. Where(B, r[p], x[p], i)
      BY <1>9, <2>1, <3>2
    <3>4. QED BY <3>1, <3>3
  <2>2. CASE ~(p <= n)
    <3>1. x[p] = m /\ r[p] = s[p - n] /\ p - n \in 1..l
      BY <1>10, <2>2
    <3>2. Where(B, r[p], x[p], p - n)
      BY <1>1, <1>4, <3>1 DEF Where
    <3>3. QED BY <1>7, <3>1, <3>2
  <2>3. QED BY <1>12, <2>1, <2>2
<1>15. ASSUME NEW b, NEW k, NEW i, Where(B, b, k, i), k >= m
       PROVE  \E p \in 1..(n + l) : r[p] = b /\ x[p] = k
  <2>1. k \in Bucket /\ k \in Nat
    BY <1>7, <1>15 DEF Where
  <2>2. CASE k = m
    <3>1. i \in 1..l /\ s[i] = b
      BY <1>1, <1>4, <1>15, <2>2 DEF Where
    <3>2. n + i \in 1..(n + l) /\ ~(n + i <= n) /\ (n + i) - n = i
      BY <3>1
    <3>3. r[n + i] = s[(n + i) - n] /\ x[n + i] = m
      BY <1>10, <3>2
    <3>4. QED BY <2>2, <3>1, <3>2, <3>3
  <2>3. CASE k # m
    <3>1. k >= m + 1
      BY <1>7, <1>15, <2>1, <2>3
    <3>2. PICK p \in 1..n : v[p] = b /\ w[p] = k
      BY <1>11, <1>15, <3>1
    <3>3. p \in 1..(n + l)
      OBVIOUS
    <3>4. QED BY <1>9, <3>2, <3>3
  <2>4. QED BY <2>2, <2>3
<1>16. Ordered(r, x, B, m)
  BY <1>6, <1>8, <1>13, <1>14, <1>15 DEF Ordered
<1>17. QED BY <1>1, <1>5, <1>16

\* The list of a summary: w tells the bucket of each region visited, which do not
\* rise; every entry is visited; and only the first region may have no entry, when
\* it is read from the memory of an empty top bucket.
Queue(v, w, t) ==
    /\ v \in Seq(Region \cup {Unknown}) /\ Len(v) >= 1 /\ w \in [1..Len(v) -> Bucket]
    /\ \A p, q \in 1..Len(v) : p < q => w[p] >= w[q]
    /\ \A p \in 1..Len(v) : \/ \E i : Where(t.buckets, v[p], w[p], i)
                            \/ t.buckets[Top] = <<>> /\ v[p] = t.memory0
    /\ \A b, k, i : Where(t.buckets, b, k, i) => \E p \in 1..Len(v) : v[p] = b /\ w[p] = k

\* The regions are visited from the top bucket down.
LEMMA VisitsQueue ==
    ASSUME NEW t \in Tables
    PROVE  \E w : Queue(Visits(t), w, t)
<1>1. PICK B \in Table, y \in Region \cup {Unknown} : B = t.buckets /\ y = t.memory0
  BY DEF Tables
<1>2. PICK d : /\ Lists(d, B)
               /\ Visits(t) = IF B[Top] = <<>> THEN <<y>> \o d[NUM_BUCKETS] ELSE d[NUM_BUCKETS]
  BY <1>1, VisitsEquation
<1>3. PICK N \in Nat \ {0} : N = NUM_BUCKETS /\ Top = N - 1
  BY BucketFacts
<1>4. Bucket = 0..(N - 1)
  BY <1>3 DEF Bucket
<1>5. d[0] = <<>> /\ \A k \in 1..N : d[k] = d[k - 1] \o B[N - k]
  BY <1>2, <1>3 DEF Lists
<1> DEFINE Good(k) == \E w : Ordered(d[k], w, B, N - k)
           T == {k \in 0..N : Good(k)}
<1>6. 0 \in T
  <2>1. PICK v : v = <<>>
    OBVIOUS
  <2>2. v \in Seq(Region) /\ Len(v) = 0 /\ v = d[0]
    BY <1>5, <2>1
  <2>3. PICK w : w \in [1..Len(v) -> Bucket]
    <3>1. [p \in 1..Len(v) |-> 0] \in [1..Len(v) -> Bucket]
      BY <2>2
    <3>2. QED BY <3>1
  <2>4. \A b, k, i : ~(Where(B, b, k, i) /\ k >= N)
    BY <1>3, <1>4 DEF Where
  <2>5. N - 0 = N /\ \A p : p \notin 1..Len(v)
    BY <1>3, <2>2
  <2>6. Ordered(v, w, B, N - 0)
    BY <2>2, <2>3, <2>4, <2>5 DEF Ordered
  <2>7. QED BY <2>2, <2>6
<1>7. ASSUME NEW k \in 0..N, k # N, k \in T PROVE k + 1 \in T
  <2>1. PICK w : Ordered(d[k], w, B, N - k)
    BY <1>7
  <2>2. PICK m \in Bucket : m = N - (k + 1) /\ m + 1 = N - k
    BY <1>3, <1>4, <1>7
  <2>3. \E x : Ordered(d[k] \o B[m], x, B, m)
    <3>1. Ordered(d[k], w, B, m + 1)
      BY <2>1, <2>2
    <3>2. QED BY <3>1, OrderedStep
  <2>4. k + 1 \in 1..N /\ k + 1 \in 0..N /\ (k + 1) - 1 = k
    BY <1>7
  <2>5. d[k + 1] = d[k] \o B[m]
    BY <1>5, <2>2, <2>4
  <2>6. Good(k + 1)
    BY <2>2, <2>3, <2>5
  <2>7. QED BY <2>4, <2>6
<1>8. Good(N)
  <2>1. \A k \in 0..N : k # N /\ k \in T => k + 1 \in T
    BY <1>7
  <2>2. \A k \in 0..N : k \in T
    <3> HIDE DEF T
    <3>1. QED BY <1>6, <2>1, UpToInduction
  <2>3. N \in 0..N
    OBVIOUS
  <2>4. QED BY <2>2, <2>3
<1>9. PICK v, w : v = d[N] /\ Ordered(v, w, B, 0)
  <2>1. N - N = 0
    OBVIOUS
  <2>2. QED BY <1>8, <2>1
<1>10. /\ v \in Seq(Region) /\ w \in [1..Len(v) -> Bucket]
       /\ \A p, q \in 1..Len(v) : p < q => w[p] >= w[q]
       /\ \A p \in 1..Len(v) : \E i : Where(B, v[p], w[p], i)
       /\ \A b, k, i : Where(B, b, k, i) => \E p \in 1..Len(v) : v[p] = b /\ w[p] = k
  <2>1. \A b, k, i : Where(B, b, k, i) => k >= 0
    BY <1>4 DEF Where
  <2>2. QED BY <1>9, <2>1 DEF Ordered
<1>11. CASE B[Top] # <<>>
  <2>1. Visits(t) = v
    BY <1>2, <1>3, <1>9, <1>11
  <2>2. Top \in Bucket /\ B[Top] \in Seq(Region)
    BY BucketFacts DEF Table
  <2>3. Where(B, B[Top][1], Top, 1)
    <3>1. ASSUME NEW s \in Seq(Region), s # <<>> PROVE 1 \in 1..Len(s)
      BY <3>1
    <3>2. QED BY <1>11, <2>2, <3>1 DEF Where
  <2>4. Len(v) >= 1
    BY <1>10, <2>3
  <2>5. v \in Seq(Region \cup {Unknown})
    BY <1>10
  <2>6. Queue(v, w, t)
    BY <1>1, <1>10, <2>4, <2>5 DEF Queue
  <2>7. QED BY <2>1, <2>6
<1>12. CASE B[Top] = <<>>
  <2>1. PICK r : r = <<y>> \o v
    OBVIOUS
  <2>2. PICK n \in Nat : n = Len(v)
    BY <1>10
  <2>3. /\ Visits(t) = r /\ r \in Seq(Region \cup {Unknown}) /\ Len(r) = n + 1
        /\ r[1] = y /\ \A p \in 1..n : r[p + 1] = v[p]
    <3>1. v \in Seq(Region \cup {Unknown})
      BY <1>10
    <3>2. Visits(t) = r
      BY <1>2, <1>3, <1>9, <1>12, <2>1
    <3>3. r \in Seq(Region \cup {Unknown}) /\ Len(r) = n + 1
      BY <2>1, <2>2, <3>1
    <3>4. \A p \in 1..(n + 1) : r[p] = IF p <= 1 THEN <<y>>[p] ELSE v[p - 1]
      BY <2>1, <2>2, <3>1
    <3>5. r[1] = y
      BY <3>4
    <3>6. ASSUME NEW p \in 1..n PROVE r[p + 1] = v[p]
      <4>1. p + 1 \in 1..(n + 1) /\ ~(p + 1 <= 1) /\ (p + 1) - 1 = p
        OBVIOUS
      <4>2. r[p + 1] = v[(p + 1) - 1]
        BY <3>4, <4>1
      <4>3. QED BY <4>1, <4>2
    <3>7. QED BY <3>2, <3>3, <3>5, <3>6
  <2> DEFINE x == [p \in 1..(n + 1) |-> IF p = 1 THEN Top ELSE w[p - 1]]
  <2>4. x[1] = Top /\ \A p \in 1..n : x[p + 1] = w[p]
    <3>1. \A p \in 1..n : p + 1 \in 1..(n + 1) /\ p + 1 # 1 /\ (p + 1) - 1 = p
      OBVIOUS
    <3>2. QED BY <3>1
  <2>5. \A p \in 1..(n + 1) : p # 1 => p - 1 \in 1..n /\ (p - 1) + 1 = p
    OBVIOUS
  <2>6. x \in [1..(n + 1) -> Bucket]
    BY <1>10, <2>2, <2>5, BucketFacts
  <2> HIDE DEF x
  <2>7. ASSUME NEW p \in 1..(n + 1), NEW q \in 1..(n + 1), p < q PROVE x[p] >= x[q]
    <3>1. q # 1 /\ q - 1 \in 1..n /\ (q - 1) + 1 = q
      BY <2>7
    <3>2. x[q] = w[q - 1] /\ w[q - 1] \in Bucket
      BY <1>10, <2>2, <2>4, <3>1
    <3>3. CASE p = 1
      <4>1. x[p] = N - 1 /\ N - 1 >= w[q - 1]
        BY <1>3, <1>4, <2>4, <3>2, <3>3
      <4>2. QED BY <3>2, <4>1
    <3>4. CASE p # 1
      <4>1. p - 1 \in 1..n /\ (p - 1) + 1 = p /\ p - 1 < q - 1
        BY <2>7, <3>1, <3>4
      <4>2. x[p] = w[p - 1]
        BY <2>4, <4>1
      <4>3. w[p - 1] >= w[q - 1]
        BY <1>10, <2>2, <3>1, <4>1
      <4>4. QED BY <3>2, <4>2, <4>3
    <3>5. QED BY <3>3, <3>4
  <2>8. ASSUME NEW p \in 1..(n + 1)
        PROVE  (\E i : Where(B, r[p], x[p], i)) \/ r[p] = y
    <3>1. CASE p = 1
      BY <2>3, <3>1
    <3>2. CASE p # 1
      <4>1. p - 1 \in 1..n /\ (p - 1) + 1 = p
        BY <2>5, <3>2
      <4>2. r[p] = v[p - 1] /\ x[p] = w[p - 1]
        BY <2>3, <2>4, <4>1
      <4>3. QED BY <1>10, <2>2, <4>1, <4>2
    <3>3. QED BY <3>1, <3>2
  <2>9. ASSUME NEW b, NEW k, NEW i, Where(B, b, k, i)
        PROVE  \E p \in 1..(n + 1) : r[p] = b /\ x[p] = k
    <3>1. PICK p \in 1..n : v[p] = b /\ w[p] = k
      BY <1>10, <2>2, <2>9
    <3>2. r[p + 1] = b /\ x[p + 1] = k /\ p + 1 \in 1..(n + 1)
      BY <2>3, <2>4, <3>1
    <3>3. QED BY <3>2
  <2>10. Queue(r, x, t)
    BY <1>1, <1>12, <2>3, <2>6, <2>7, <2>8, <2>9 DEF Queue
  <2>11. QED BY <2>3, <2>10
<1>13. QED BY <1>11, <1>12

\* The regions among the first n visits.
First(v, n) == {v[p] : p \in 1..n}

\* They are the range of the list's beginning.
LEMMA PrefixRange ==
    ASSUME NEW S, NEW v \in Seq(S), NEW n \in 0..Len(v)
    PROVE  Range(SubSeq(v, 1, n)) = First(v, n)
<1>1. PICK r : r = SubSeq(v, 1, n)
  OBVIOUS
<1>2. r \in Seq(S) /\ Len(r) = n /\ \A p \in 1..n : r[p] = v[p]
  BY <1>1
<1>3. DOMAIN r = 1..n
  BY <1>2
<1>4. QED BY <1>1, <1>2, <1>3 DEF Range, First

\* r are the first n visits: n is the last one, or the one that completes the
\* allowance, and no fewer complete it.
Stopped(r, v, n) ==
    /\ n \in 1..Len(v) /\ r = First(v, n)
    /\ n = Len(v) \/ Cardinality(First(v, n) \ hawkeye_promotions) = MAX_NUM_PROMOTIONS
    /\ \A i \in 1..Len(v) : i < n => Cardinality(First(v, i) \ hawkeye_promotions) # MAX_NUM_PROMOTIONS

\* Visited is what the loop has promoted when it stops.
LEMMA VisitedStops ==
    ASSUME NEW S, NEW v \in Seq(S), Len(v) >= 1
    PROVE  \E n : Stopped(Visited(v), v, n)
<1> DEFINE Found(n) == Cardinality(Range(SubSeq(v, 1, n)) \ hawkeye_promotions)
           Q == {n \in 1..Len(v) : Found(n) = MAX_NUM_PROMOTIONS \/ n = Len(v)}
<1>1. Len(v) \in 1..Len(v) /\ Len(v) \in Nat
  OBVIOUS
<1>2. \A n \in 1..Len(v) : Range(SubSeq(v, 1, n)) = First(v, n)
  <2>1. \A n \in 1..Len(v) : n \in 0..Len(v)
    OBVIOUS
  <2>2. QED BY <2>1, PrefixRange
<1>3. Q \in SUBSET Nat /\ Q # {}
  BY <1>1
<1>4. Min(Q) \in Q /\ \A y \in Q : Min(Q) <= y
  <2> HIDE DEF Q
  <2>1. QED BY <1>3, NatMin
<1>5. PICK n : n = Min(Q)
  OBVIOUS
<1>6. n \in 1..Len(v) /\ (Found(n) = MAX_NUM_PROMOTIONS \/ n = Len(v))
  BY <1>4, <1>5
<1>7. Visited(v) = Range(SubSeq(v, 1, n))
  BY <1>5 DEF Visited
<1>8. ASSUME NEW i \in 1..Len(v), i < n PROVE Found(i) # MAX_NUM_PROMOTIONS
  <2>1. i \notin Q
    <3> HIDE DEF Q
    <3>1. QED BY <1>4, <1>5, <1>6, <1>8
  <2>2. QED BY <2>1
<1>9. QED BY <1>2, <1>6, <1>7, <1>8 DEF Stopped

\* The loop promotes at most one region per visit, so it stops at its allowance.
LEMMA AllowanceKept ==
    ASSUME NEW S, IsFiniteSet(S), NEW v \in Seq(S), NEW r, NEW n, Stopped(r, v, n)
    PROVE  Cardinality(r \ hawkeye_promotions) \in 0..MAX_NUM_PROMOTIONS
<1>1. PICK h : h = hawkeye_promotions
  OBVIOUS
<1>2. PICK M \in Nat \ {0} : M = MAX_NUM_PROMOTIONS
  BY HawkEyeAssumption
<1>3. PICK l \in Nat : l = Len(v)
  OBVIOUS
<1>4. n \in 1..l /\ n \in Nat /\ r = First(v, n) /\ \A i \in 1..l : i < n => Cardinality(First(v, i) \ h) # M
  BY <1>1, <1>2, <1>3 DEF Stopped
<1>5. ASSUME NEW i \in 0..l PROVE IsFiniteSet(First(v, i) \ h) /\ Cardinality(First(v, i) \ h) \in Nat
  <2>1. First(v, i) \ h \in SUBSET S
    BY <1>3 DEF First
  <2>2. IsFiniteSet(First(v, i) \ h)
    BY <2>1, FS_Subset
  <2>3. QED BY <2>2, FS_CardinalityType
<1> DEFINE T == {i \in 0..n : Cardinality(First(v, i) \ h) <= M}
<1>6. 0 \in T
  <2>1. First(v, 0) \ h = {}
    BY DEF First
  <2>2. Cardinality(First(v, 0) \ h) = 0
    BY <2>1, FS_EmptySet
  <2>3. QED BY <1>4, <2>2
<1>7. ASSUME NEW i \in 0..n, i # n, i \in T PROVE i + 1 \in T
  <2>1. i + 1 \in 0..n /\ i \in 0..l /\ i < n /\ i + 1 \in 1..l
    BY <1>4, <1>7
  <2>2. PICK A : A = First(v, i) \ h
    OBVIOUS
  <2>3. IsFiniteSet(A) /\ Cardinality(A) \in Nat /\ Cardinality(A) <= M
    BY <1>5, <1>7, <2>1, <2>2
  <2>4. Cardinality(A) # M
    <3>1. CASE i = 0
      <4>1. A = {}
        BY <2>2, <3>1 DEF First
      <4>2. Cardinality(A) = 0
        BY <4>1, FS_EmptySet
      <4>3. QED BY <1>2, <4>2
    <3>2. CASE i # 0
      <4>1. i \in 1..l
        BY <2>1, <3>2
      <4>2. QED BY <1>4, <2>1, <2>2, <4>1
    <3>3. QED BY <3>1, <3>2
  <2>5. First(v, i + 1) = First(v, i) \cup {v[i + 1]}
    <3>1. \A p : p \in 1..(i + 1) <=> p \in 1..i \/ p = i + 1
      OBVIOUS
    <3>2. QED BY <3>1 DEF First
  <2>6. CASE v[i + 1] \in h
    <3>1. First(v, i + 1) \ h = A
      BY <2>2, <2>5, <2>6
    <3>2. QED BY <2>1, <2>3, <3>1
  <2>7. CASE v[i + 1] \notin h
    <3>1. First(v, i + 1) \ h = A \cup {v[i + 1]}
      BY <2>2, <2>5, <2>7
    <3>2. Cardinality(A \cup {v[i + 1]}) <= Cardinality(A) + 1
      <4>1. Cardinality(A \cup {v[i + 1]}) = IF v[i + 1] \in A THEN Cardinality(A) ELSE Cardinality(A) + 1
        BY <2>3, FS_AddElement
      <4>2. QED BY <2>3, <4>1
    <3>3. Cardinality(A \cup {v[i + 1]}) \in Nat
      <4>1. IsFiniteSet(A \cup {v[i + 1]})
        BY <2>3, FS_AddElement
      <4>2. QED BY <4>1, FS_CardinalityType
    <3>4. Cardinality(A \cup {v[i + 1]}) <= M
      BY <2>3, <2>4, <3>2, <3>3
    <3>5. QED BY <2>1, <3>1, <3>4
  <2>8. QED BY <2>6, <2>7
<1>8. \A i \in 0..n : i \in T
  <2>1. \A i \in 0..n : i # n /\ i \in T => i + 1 \in T
    BY <1>7
  <2> HIDE DEF T
  <2>2. QED BY <1>4, <1>6, <2>1, UpToInduction
<1>9. n \in 0..n /\ n \in 0..l
  BY <1>4
<1>10. Cardinality(First(v, n) \ h) \in Nat
  BY <1>5, <1>9
<1>11. Cardinality(First(v, n) \ h) <= M
  <2>1. n \in T
    <3> HIDE DEF T
    <3>1. QED BY <1>8, <1>9
  <2>2. QED BY <2>1
<1>12. QED BY <1>1, <1>2, <1>4, <1>10, <1>11
-----------------------------------------------------------------------------
(***************************************************************************)
(* What a summary promotes.                                                *)
(***************************************************************************)
\* The promotions of a summary, in terms of the state that it leaves.
Promotes(v, w, n) ==
    /\ Queue(v, w, Now') /\ Stopped(First(v, n), v, n)
    /\ hawkeye_promotions' = hawkeye_promotions \cup First(v, n)

\* A summary promotes the regions that the loop visits in the new buckets.
LEMMA SummaryPromotes ==
    ASSUME HInv, NEW base \in Region, NEW fresh \in BOOLEAN, Summarize(base, fresh)
    PROVE  \E v, w, n : Promotes(v, w, n)
<1>1. PICK cov : cov = Marked(base, fresh)
  OBVIOUS
<1>2. PICK known : known = {b \in Region : cov[b] # Unknown}
  OBVIOUS
<1>3. PICK order \in SetToSeqs(known) :
         /\ buckets' = MoveRegions(cov, order).buckets /\ ema' = MoveRegions(cov, order).ema
         /\ memory0' = MoveRegions(cov, order).memory0 /\ lost' = MoveRegions(cov, order).lost
         /\ hawkeye_promotions' = hawkeye_promotions \cup Visited(Visits(MoveRegions(cov, order)))
  BY <1>1, <1>2 DEF Summarize
<1>4. PICK t : t = MoveRegions(cov, order)
  OBVIOUS
<1>5. t \in Tables
  BY <1>1, <1>2, <1>4, SummarySound DEF Sound
<1>6. Now' = t
  <2>1. t = [buckets |-> t.buckets, ema |-> t.ema, lost |-> t.lost, memory0 |-> t.memory0]
    BY <1>5 DEF Tables
  <2>2. QED BY <1>3, <1>4, <2>1 DEF Now
<1>7. PICK v : v = Visits(t)
  OBVIOUS
<1>8. PICK w : Queue(v, w, t)
  BY <1>5, <1>7, VisitsQueue
<1>9. v \in Seq(Region \cup {Unknown}) /\ Len(v) >= 1
  BY <1>8 DEF Queue
<1>10. PICK n : Stopped(Visited(v), v, n)
  BY <1>9, VisitedStops
<1>11. Visited(v) = First(v, n)
  BY <1>10 DEF Stopped
<1>12. hawkeye_promotions' = hawkeye_promotions \cup First(v, n)
  BY <1>3, <1>4, <1>7, <1>11
<1>13. Stopped(First(v, n), v, n)
  BY <1>10, <1>11
<1>14. QED BY <1>6, <1>8, <1>12, <1>13 DEF Promotes

\* Only a summary promotes, or ends a tracking window.
LEMMA OnlySummaries ==
    ASSUME HInv, [Next]_vars, hawkeye_promotions' # hawkeye_promotions \/ tracking' # tracking,
           tracking \/ hawkeye_promotions' # hawkeye_promotions
    PROVE  \E v, w, n : Promotes(v, w, n)
<1>1. ASSUME NEW base \in Region, NEW fresh \in BOOLEAN, Summarize(base, fresh)
      PROVE  \E v, w, n : Promotes(v, w, n)
  BY <1>1, SummaryPromotes
<1>2. PICK base \in Region, fresh \in BOOLEAN : Summarize(base, fresh)
  BY DEF Next, vars, Track, Skip, Crash
<1>3. QED BY <1>1, <1>2

\* A region promoted before one that is left out is in no lower bucket.
LEMMA DensestStep ==
    ASSUME HInv, HInv', NEW v, NEW w, NEW n, Promotes(v, w, n),
           NEW b \in hawkeye_promotions' \ hawkeye_promotions, NEW c \in Known' \ hawkeye_promotions'
    PROVE  \/ Clamp(BucketOf(ema'[b])) >= Clamp(BucketOf(ema'[c]))
           \/ buckets'[Top] = <<>> /\ b = memory0'
           \/ b \in lost'
<1>1. PICK B, a, g, y : B = buckets' /\ a = ema' /\ g = lost' /\ y = memory0'
  OBVIOUS
<1>2. PICK t : t = Now'
  OBVIOUS
<1>3. t.buckets = B /\ t.ema = a /\ t.lost = g /\ t.memory0 = y
  BY <1>1, <1>2 DEF Now
<1>4. Placed(B, a, g) /\ B \in Table
  <2>1. Sound(Now)'
    BY DEF HInv
  <2>2. t \in Tables /\ Placed(t.buckets, t.ema, t.lost)
    BY <1>2, <2>1 DEF Sound, Tables, Table
  <2>3. QED BY <1>3, <2>2 DEF Tables
<1>5. Queue(v, w, t)
  BY <1>2 DEF Promotes
<1>6. /\ \A p, q \in 1..Len(v) : p < q => w[p] >= w[q]
      /\ \A p \in 1..Len(v) : (\E i : Where(B, v[p], w[p], i)) \/ (B[Top] = <<>> /\ v[p] = y)
      /\ \A r, k, i : Where(B, r, k, i) => \E p \in 1..Len(v) : v[p] = r /\ w[p] = k
  BY <1>3, <1>5 DEF Queue
<1>7. PICK p \in 1..n : v[p] = b
  BY DEF Promotes, First
<1>8. c \in Region /\ a[c] # Unknown /\ c \notin First(v, n)
  BY <1>1 DEF Promotes, Known
<1>9. PICK i : Where(B, c, Home(a[c]), i)
  BY <1>4, <1>8 DEF Placed
<1>10. PICK q \in 1..Len(v) : v[q] = c /\ w[q] = Home(a[c])
  BY <1>6, <1>9
<1>11. n \in 1..Len(v) /\ Len(v) \in Nat
  BY <1>5 DEF Promotes, Stopped, Queue
<1>12. q \notin 1..n
  BY <1>8, <1>10 DEF First
<1>13. p \in 1..Len(v) /\ p < q
  BY <1>11, <1>12
<1>14. w[p] >= Home(a[c])
  BY <1>6, <1>10, <1>13
<1>15. CASE B[Top] = <<>> /\ v[p] = y
  BY <1>1, <1>7, <1>15
<1>16. CASE b \in g
  BY <1>1, <1>16
<1>17. CASE b \notin g /\ \E j : Where(B, v[p], w[p], j)
  <2>1. PICK j : Where(B, b, w[p], j)
    BY <1>7, <1>17
  <2>2. b \in Region
    BY <1>4, <2>1 DEF Where, Table
  <2>3. a[b] # Unknown
    BY <1>4, <2>1, <2>2 DEF Placed
  <2>4. PICK l : Where(B, b, Home(a[b]), l)
    BY <1>4, <2>2, <2>3 DEF Placed
  <2>5. w[p] = Home(a[b])
    BY <1>4, <1>17, <2>1, <2>2, <2>3, <2>4 DEF Placed
  <2>6. QED BY <1>1, <1>14, <2>5 DEF Home
<1>18. QED BY <1>6, <1>13, <1>15, <1>16, <1>17

\* The loop of summarize promotes from the top bucket down: a region that it
\* leaves out has no denser bucket than one that it promotes, except for the slot
\* of an empty top bucket and for regions whose old entry was not found.
THEOREM PromotesDensest == Spec => DensestFirst
<1> DEFINE Step == \A b \in hawkeye_promotions' \ hawkeye_promotions, c \in Known' \ hawkeye_promotions' :
                      \/ Clamp(BucketOf(ema'[b])) >= Clamp(BucketOf(ema'[c]))
                      \/ buckets'[Top] = <<>> /\ b = memory0'
                      \/ b \in lost'
<1>1. Init => HInv
  BY HInit
<1>2. HInv /\ [Next]_vars => HInv'
  BY HNext
<1>3. HInv /\ HInv' /\ [Next]_vars => [Step]_vars
  <2>1. SUFFICES ASSUME HInv, HInv', [Next]_vars,
                        NEW b \in hawkeye_promotions' \ hawkeye_promotions,
                        NEW c \in Known' \ hawkeye_promotions'
                 PROVE  \/ Clamp(BucketOf(ema'[b])) >= Clamp(BucketOf(ema'[c]))
                        \/ buckets'[Top] = <<>> /\ b = memory0'
                        \/ b \in lost'
    OBVIOUS
  <2>2. hawkeye_promotions' # hawkeye_promotions
    OBVIOUS
  <2>3. PICK v, w, n : Promotes(v, w, n)
    BY <2>1, <2>2, OnlySummaries
  <2>4. QED BY <2>1, <2>3, DensestStep
<1>4. QED BY <1>1, <1>2, <1>3, PTL DEF Spec, DensestFirst

\* The regions that are left when the loop runs through are promoted already.
LEMMA AllowanceStep ==
    ASSUME HInv, HInv', NEW v, NEW w, NEW n, Promotes(v, w, n)
    PROVE  \/ Cardinality(hawkeye_promotions' \ hawkeye_promotions) = MAX_NUM_PROMOTIONS
           \/ /\ Cardinality(hawkeye_promotions' \ hawkeye_promotions) < MAX_NUM_PROMOTIONS
              /\ Known' \subseteq hawkeye_promotions'
<1>1. hawkeye_promotions' \ hawkeye_promotions = First(v, n) \ hawkeye_promotions
  BY DEF Promotes
<1>2. PICK t : t = Now'
  OBVIOUS
<1>3. Queue(v, w, t) /\ Stopped(First(v, n), v, n)
  BY <1>2 DEF Promotes
<1>4. v \in Seq(Region \cup {Unknown})
  BY <1>3 DEF Queue
<1>5. IsFiniteSet(Region \cup {Unknown})
  BY HawkEyeAssumption, FS_AddElement
<1>6. Cardinality(First(v, n) \ hawkeye_promotions) \in 0..MAX_NUM_PROMOTIONS
  BY <1>3, <1>4, <1>5, AllowanceKept
<1>7. n = Len(v) \/ Cardinality(First(v, n) \ hawkeye_promotions) = MAX_NUM_PROMOTIONS
  BY <1>3 DEF Stopped
<1>8. ASSUME n = Len(v) PROVE Known' \subseteq hawkeye_promotions'
  <2>1. SUFFICES ASSUME NEW c \in Known' PROVE c \in hawkeye_promotions'
    OBVIOUS
  <2>2. c \in Region /\ t.ema[c] # Unknown
    BY <1>2, <2>1 DEF Known, Now
  <2>3. Placed(t.buckets, t.ema, t.lost)
    BY <1>2 DEF HInv, Sound, Tables, Table
  <2>4. PICK i : Where(t.buckets, c, Home(t.ema[c]), i)
    BY <2>2, <2>3 DEF Placed
  <2>5. PICK p \in 1..Len(v) : v[p] = c
    BY <1>3, <2>4 DEF Queue
  <2>6. QED BY <1>8, <2>5 DEF Promotes, First
<1>9. MAX_NUM_PROMOTIONS \in Nat
  BY HawkEyeAssumption
<1>10. PICK x : x = Cardinality(First(v, n) \ hawkeye_promotions)
  OBVIOUS
<1>11. x = MAX_NUM_PROMOTIONS \/ (x < MAX_NUM_PROMOTIONS /\ n = Len(v))
  BY <1>6, <1>7, <1>9, <1>10
<1>12. QED BY <1>1, <1>8, <1>10, <1>11

\* A summary makes its MAX_NUM_PROMOTIONS new promotions and never more: those of
\* earlier summaries that it meets again do not count (hawkeye.h, summarize), and
\* it makes fewer only when every region with an average is promoted.
THEOREM AllowanceIsUsed == Spec => AllowanceUsed
<1> DEFINE Step == tracking /\ ~tracking' =>
                      \/ Cardinality(hawkeye_promotions' \ hawkeye_promotions) = MAX_NUM_PROMOTIONS
                      \/ /\ Cardinality(hawkeye_promotions' \ hawkeye_promotions) < MAX_NUM_PROMOTIONS
                         /\ Known' \subseteq hawkeye_promotions'
<1>1. Init => HInv
  BY HInit
<1>2. HInv /\ [Next]_vars => HInv'
  BY HNext
<1>3. HInv /\ HInv' /\ [Next]_vars => [Step]_vars
  <2>1. SUFFICES ASSUME HInv, HInv', [Next]_vars, tracking, ~tracking'
                 PROVE  \/ Cardinality(hawkeye_promotions' \ hawkeye_promotions) = MAX_NUM_PROMOTIONS
                        \/ /\ Cardinality(hawkeye_promotions' \ hawkeye_promotions) < MAX_NUM_PROMOTIONS
                           /\ Known' \subseteq hawkeye_promotions'
    OBVIOUS
  <2>2. tracking' # tracking
    BY <2>1
  <2>3. PICK v, w, n : Promotes(v, w, n)
    BY <2>1, <2>2, OnlySummaries
  <2>4. QED BY <2>1, <2>3, AllowanceStep
<1>4. QED BY <1>1, <1>2, <1>3, PTL DEF Spec, AllowanceUsed
=============================================================================
