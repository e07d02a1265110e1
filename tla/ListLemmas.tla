----------------------------- MODULE ListLemmas -----------------------------
(***************************************************************************)
(* Facts about sequences and naturals that the proofs share.               *)
(***************************************************************************)
EXTENDS SequencesExt, SequenceTheorems, WellFoundedInduction, TLAPS

\* A nonempty set of naturals has a least element.
LEMMA NatMin ==
    ASSUME NEW T \in SUBSET Nat, T # {}
    PROVE  /\ Min(T) \in T
           /\ \A y \in T : Min(T) <= y
<1> DEFINE R == OpToRel(<, Nat)
<1>1. R = {ss \in Nat \X Nat : ss[1] < ss[2]}
  BY Zenon DEF OpToRel
<1>2. IsWellFoundedOn(R, Nat)
  BY NatLessThanWellFounded
<1> HIDE DEF R
<1>3. PICK x \in T : \A y \in T : ~(<<y, x>> \in R)
  BY <1>2, WFMin
<1>4. ASSUME NEW y \in T PROVE x <= y
  <2>1. ~(y < x)
    BY <1>1, <1>3
  <2>2. QED BY <2>1
<1>5. QED BY <1>4 DEF Min

\* Induction up to n, for the property of belonging to T.
LEMMA UpToInduction ==
    ASSUME NEW n \in Nat, NEW T, 0 \in T,
           \A i \in 0..n : i # n /\ i \in T => i + 1 \in T
    PROVE  \A i \in 0..n : i \in T
<1> DEFINE U == {i \in 0..n : i \notin T}
<1>1. SUFFICES ASSUME U # {} PROVE FALSE
  OBVIOUS
<1>2. U \in SUBSET Nat
  OBVIOUS
<1>3. Min(U) \in U /\ \A y \in U : Min(U) <= y
  <2> HIDE DEF U
  <2>1. QED BY <1>1, <1>2, NatMin
<1>4. PICK k \in U : \A y \in U : k <= y
  BY <1>3
<1>5. k # 0 /\ k - 1 \in 0..n /\ k - 1 # n /\ (k - 1) + 1 = k
  BY <1>4
<1>6. k - 1 \in T
  BY <1>4, <1>5
<1>7. QED BY <1>4, <1>5, <1>6

\* A function on 1..n is a list of length n.
LEMMA FunctionIsList ==
    ASSUME NEW S, NEW n \in Nat, NEW f \in [1..n -> S]
    PROVE  f \in Seq(S) /\ Len(f) = n
<1>1. f \in Seq(S)
  BY SeqDef
<1>2. DOMAIN f = 1..n /\ DOMAIN f = 1..Len(f) /\ Len(f) \in Nat
  BY <1>1
<1>3. QED BY <1>1, <1>2

\* Linking an element into a list at position i.
LEMMA InsertAtProperties ==
    ASSUME NEW S, NEW s \in Seq(S), NEW i \in 1..(Len(s) + 1), NEW e \in S
    PROVE  /\ InsertAt(s, i, e) \in Seq(S)
           /\ Len(InsertAt(s, i, e)) = Len(s) + 1
           /\ \A j \in 1..(Len(s) + 1) :
                InsertAt(s, i, e)[j] =
                    IF j < i THEN s[j] ELSE IF j = i THEN e ELSE s[j - 1]
<1>0. Len(s) \in Nat /\ i \in Int
  OBVIOUS
<1> DEFINE a == SubSeq(s, 1, i - 1)
           b == SubSeq(s, i, Len(s))
           ae == a \o <<e>>
<1>1. /\ a \in Seq(S) /\ Len(a) = i - 1
      /\ \A j \in 1..(i - 1) : a[j] = s[j]
  <2>1. i - 1 \in Int /\ 1 \in Int /\ \A j \in 1..(i - 1) : s[j] \in S
    OBVIOUS
  <2>2. /\ a \in Seq(S) /\ Len(a) = IF 1 <= i - 1 THEN (i - 1) - 1 + 1 ELSE 0
        /\ \A j \in 1..((i - 1) - 1 + 1) : a[j] = s[1 + j - 1]
    BY <2>1, SubSeqProperties
  <2>3. QED BY <2>2
<1>2. /\ b \in Seq(S) /\ Len(b) = Len(s) - i + 1
      /\ \A j \in 1..(Len(s) - i + 1) : b[j] = s[i + j - 1]
  <2>1. i \in Int /\ Len(s) \in Int /\ \A j \in i..Len(s) : s[j] \in S
    OBVIOUS
  <2>2. /\ b \in Seq(S) /\ Len(b) = IF i <= Len(s) THEN Len(s) - i + 1 ELSE 0
        /\ \A j \in 1..(Len(s) - i + 1) : b[j] = s[i + j - 1]
    BY <2>1, SubSeqProperties
  <2>3. QED BY <2>2
<1>3. <<e>> \in Seq(S) /\ Len(<<e>>) = 1 /\ <<e>>[1] = e
  OBVIOUS
<1> HIDE DEF a, b
<1>4. /\ ae \in Seq(S) /\ Len(ae) = i
      /\ \A j \in 1..i : ae[j] = IF j <= i - 1 THEN a[j] ELSE <<e>>[j - (i - 1)]
  <2>1. /\ ae \in Seq(S) /\ Len(ae) = Len(a) + Len(<<e>>)
        /\ \A j \in 1..(Len(a) + Len(<<e>>)) :
              ae[j] = IF j <= Len(a) THEN a[j] ELSE <<e>>[j - Len(a)]
    BY <1>1, <1>3, ConcatProperties
  <2>2. QED BY <2>1, <1>1, <1>3
<1>5. \A j \in 1..i : ae[j] = IF j < i THEN s[j] ELSE e
  BY <1>1, <1>3, <1>4
<1> HIDE DEF ae
<1>6. /\ ae \o b \in Seq(S) /\ Len(ae \o b) = i + (Len(s) - i + 1)
      /\ \A j \in 1..(i + (Len(s) - i + 1)) :
            (ae \o b)[j] = IF j <= i THEN ae[j] ELSE b[j - i]
  <2>1. /\ ae \o b \in Seq(S) /\ Len(ae \o b) = Len(ae) + Len(b)
        /\ \A j \in 1..(Len(ae) + Len(b)) :
              (ae \o b)[j] = IF j <= Len(ae) THEN ae[j] ELSE b[j - Len(ae)]
    BY <1>2, <1>4, ConcatProperties
  <2>2. QED BY <2>1, <1>2, <1>4
<1>7. InsertAt(s, i, e) = ae \o b
  BY DEF InsertAt, ae, a, b
<1>8. ASSUME NEW j \in 1..(Len(s) + 1)
      PROVE  (ae \o b)[j] = IF j < i THEN s[j] ELSE IF j = i THEN e ELSE s[j - 1]
  <2>1. CASE j <= i
    BY <2>1, <1>5, <1>6
  <2>2. CASE j > i
    <3>1. (ae \o b)[j] = b[j - i] /\ j - i \in 1..(Len(s) - i + 1)
      BY <2>2, <1>6
    <3>2. b[j - i] = s[i + (j - i) - 1]
      BY <3>1, <1>2
    <3>3. QED BY <2>2, <3>1, <3>2
  <2>3. j <= i \/ j > i
    BY <1>0
  <2>4. QED BY <2>1, <2>2, <2>3, Zenon
<1>9. QED BY <1>0, <1>6, <1>7, <1>8

\* Unlinking the element at position i.
LEMMA RemoveAtProperties ==
    ASSUME NEW S, NEW s \in Seq(S), NEW i \in 1..Len(s)
    PROVE  /\ RemoveAt(s, i) \in Seq(S)
           /\ Len(RemoveAt(s, i)) = Len(s) - 1
           /\ \A j \in 1..(Len(s) - 1) :
                RemoveAt(s, i)[j] = IF j < i THEN s[j] ELSE s[j + 1]
<1>0. Len(s) \in Nat /\ i \in Int
  OBVIOUS
<1> DEFINE a == SubSeq(s, 1, i - 1)
           b == SubSeq(s, i + 1, Len(s))
<1>1. /\ a \in Seq(S) /\ Len(a) = i - 1
      /\ \A j \in 1..(i - 1) : a[j] = s[j]
  <2>1. i - 1 \in Int /\ 1 \in Int /\ \A j \in 1..(i - 1) : s[j] \in S
    OBVIOUS
  <2>2. /\ a \in Seq(S) /\ Len(a) = IF 1 <= i - 1 THEN (i - 1) - 1 + 1 ELSE 0
        /\ \A j \in 1..((i - 1) - 1 + 1) : a[j] = s[1 + j - 1]
    BY <2>1, SubSeqProperties
  <2>3. QED BY <2>2
<1>2. /\ b \in Seq(S) /\ Len(b) = Len(s) - i
      /\ \A j \in 1..(Len(s) - i) : b[j] = s[i + j]
  <2>1. i + 1 \in Int /\ Len(s) \in Int /\ \A j \in (i + 1)..Len(s) : s[j] \in S
    OBVIOUS
  <2>2. /\ b \in Seq(S) /\ Len(b) = IF i + 1 <= Len(s) THEN Len(s) - (i + 1) + 1 ELSE 0
        /\ \A j \in 1..(Len(s) - (i + 1) + 1) : b[j] = s[(i + 1) + j - 1]
    BY <2>1, SubSeqProperties
  <2>3. QED BY <2>2
<1> HIDE DEF a, b
<1>3. /\ a \o b \in Seq(S) /\ Len(a \o b) = (i - 1) + (Len(s) - i)
      /\ \A j \in 1..((i - 1) + (Len(s) - i)) :
            (a \o b)[j] = IF j <= i - 1 THEN a[j] ELSE b[j - (i - 1)]
  <2>1. /\ a \o b \in Seq(S) /\ Len(a \o b) = Len(a) + Len(b)
        /\ \A j \in 1..(Len(a) + Len(b)) :
              (a \o b)[j] = IF j <= Len(a) THEN a[j] ELSE b[j - Len(a)]
    BY <1>1, <1>2, ConcatProperties
  <2>2. QED BY <2>1, <1>1, <1>2
<1>4. RemoveAt(s, i) = a \o b
  BY DEF RemoveAt, a, b
<1>5. ASSUME NEW j \in 1..(Len(s) - 1)
      PROVE  (a \o b)[j] = IF j < i THEN s[j] ELSE s[j + 1]
  <2>1. CASE j < i
    BY <2>1, <1>1, <1>3
  <2>2. CASE j >= i
    <3>1. (a \o b)[j] = b[j - (i - 1)] /\ j - (i - 1) \in 1..(Len(s) - i)
      BY <2>2, <1>3
    <3>2. b[j - (i - 1)] = s[i + (j - (i - 1))]
      BY <3>1, <1>2
    <3>3. QED BY <2>2, <3>1, <3>2
  <2>3. j < i \/ j >= i
    BY <1>0
  <2>4. QED BY <2>1, <2>2, <2>3, Zenon
<1>6. QED BY <1>0, <1>3, <1>4, <1>5

\* r is s with e linked in at position i, and s with position i unlinked.
Linked(r, s, i, e) ==
    /\ i \in 1..(Len(s) + 1) /\ Len(s) \in Nat /\ Len(r) = Len(s) + 1
    /\ \A j \in 1..(Len(s) + 1) : r[j] = IF j < i THEN s[j] ELSE IF j = i THEN e ELSE s[j - 1]
Unlinked(r, s, i) ==
    /\ i \in 1..Len(s) /\ Len(s) \in Nat /\ Len(r) = Len(s) - 1
    /\ \A j \in 1..(Len(s) - 1) : r[j] = IF j < i THEN s[j] ELSE s[j + 1]

\* InsertAt links.
LEMMA InsertAtLinks ==
    ASSUME NEW S, NEW s \in Seq(S), NEW i \in 1..(Len(s) + 1), NEW e \in S
    PROVE  InsertAt(s, i, e) \in Seq(S) /\ Linked(InsertAt(s, i, e), s, i, e)
BY InsertAtProperties, SMTT(30) DEF Linked

\* RemoveAt unlinks.
LEMMA RemoveAtUnlinks ==
    ASSUME NEW S, NEW s \in Seq(S), NEW i \in 1..Len(s)
    PROVE  RemoveAt(s, i) \in Seq(S) /\ Unlinked(RemoveAt(s, i), s, i)
BY RemoveAtProperties, SMTT(30) DEF Unlinked

\* The members of a list with e linked in, and where they were before.
LEMMA LinkedMembers ==
    ASSUME NEW r, NEW s, NEW i, NEW e, Linked(r, s, i, e)
    PROVE  /\ r[i] = e /\ i \in 1..Len(r)
           /\ \A j \in 1..Len(r) : j # i =>
                 LET k == IF j < i THEN j ELSE j - 1
                 IN  k \in 1..Len(s) /\ r[j] = s[k]
<1>1. /\ i \in 1..(Len(s) + 1) /\ Len(s) \in Nat /\ Len(r) = Len(s) + 1
      /\ \A j \in 1..(Len(s) + 1) : r[j] = IF j < i THEN s[j] ELSE IF j = i THEN e ELSE s[j - 1]
  BY DEF Linked
<1>2. r[i] = e /\ i \in 1..Len(r)
  BY <1>1
<1>3. ASSUME NEW j \in 1..Len(r), j # i
      PROVE  LET k == IF j < i THEN j ELSE j - 1 IN k \in 1..Len(s) /\ r[j] = s[k]
  <2>1. CASE j < i
    BY <1>1, <2>1
  <2>2. CASE j > i
    <3>1. ~(j < i) /\ j - 1 \in 1..Len(s) /\ j \in 1..(Len(s) + 1)
      BY <1>1, <2>2
    <3>2. r[j] = s[j - 1]
      BY <1>1, <1>3, <3>1
    <3>3. QED BY <3>1, <3>2
  <2>3. QED BY <1>1, <1>3, <2>1, <2>2
<1>4. QED BY <1>2, <1>3

\* The members of a list with one unlinked, and where they were before.
LEMMA UnlinkedMembers ==
    ASSUME NEW r, NEW s, NEW i, Unlinked(r, s, i)
    PROVE  \A j \in 1..Len(r) :
              LET k == IF j < i THEN j ELSE j + 1
              IN  k \in 1..Len(s) /\ k # i /\ r[j] = s[k]
<1>1. /\ i \in 1..Len(s) /\ Len(s) \in Nat /\ Len(r) = Len(s) - 1
      /\ \A j \in 1..(Len(s) - 1) : r[j] = IF j < i THEN s[j] ELSE s[j + 1]
  BY DEF Unlinked
<1>2. QED BY <1>1
=============================================================================
