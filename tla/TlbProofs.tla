----------------------------- MODULE TlbProofs ------------------------------
(***************************************************************************)
(* What the operations on a set, on a TLB and on the machine of            *)
(* TlbHierarchy preserve, for every geometry of the caches.                *)
(***************************************************************************)
EXTENDS TlbHierarchy, ListLemmas

(***************************************************************************)
(* Line sets.                                                              *)
(***************************************************************************)
\* The line that access finds.
LEMMA FoundLine ==
    ASSUME NEW s, NEW t, Holds(s, t)
    PROVE  /\ Find(s, t) \in DOMAIN s
           /\ s[Find(s, t)].live
           /\ s[Find(s, t)].tag = t
BY DEF Holds, Find

\* Position p of s is behind exactly the leading lines used more often than e.
BehindMoreUsed(s, p, e) ==
    \A j \in 1..Len(s) : /\ j < p => e.freq < s[j].freq
                         /\ j = p => ~(e.freq < s[j].freq)

\* A line is linked at the position of the policy: at the head, or behind the
\* lines used more often.
LEMMA PlaceLineLinks ==
    ASSUME NEW S, NEW s \in Seq(S), NEW e \in S, NEW policy
    PROVE  /\ PlaceLine(policy, s, e) \in Seq(S)
           /\ \E p \in 1..(Len(s) + 1) :
                /\ Linked(PlaceLine(policy, s, e), s, p, e)
                /\ policy # 0 => BehindMoreUsed(s, p, e)
<1> DEFINE stops == {i \in 1..(Len(s) + 1) : i = Len(s) + 1 \/ ~(e.freq < s[i].freq)}
           p == IF policy = 0 THEN 1 ELSE Min(stops)
<1>0. Len(s) \in Nat
  OBVIOUS
<1>1. stops \in SUBSET Nat /\ Len(s) + 1 \in stops
  BY <1>0
<1>2. Min(stops) \in stops /\ \A y \in stops : Min(stops) <= y
  <2> HIDE DEF stops
  <2>1. stops # {}
    BY <1>1
  <2>2. QED BY <1>1, <2>1, NatMin
<1>3. PlaceLine(policy, s, e) = InsertAt(s, p, e)
  BY DEF PlaceLine
<1>4. Min(stops) \in 1..(Len(s) + 1)
  BY <1>2
<1>5. p \in 1..(Len(s) + 1)
  <2> HIDE DEF stops
  <2>1. QED BY <1>0, <1>4
<1>6. ASSUME policy # 0 PROVE BehindMoreUsed(s, p, e)
  <2>1. p = Min(stops)
    BY <1>6
  <2>2. p \in stops /\ \A y \in stops : p <= y
    BY <1>2, <2>1
  <2> HIDE DEF p
  <2>3. ASSUME NEW j \in 1..Len(s), j < p PROVE e.freq < s[j].freq
    <3>1. j \notin stops
      BY <1>0, <1>5, <2>2, <2>3
    <3>2. QED BY <1>0, <3>1
  <2>4. QED BY <1>0, <1>5, <2>2, <2>3 DEF BehindMoreUsed
<1> HIDE DEF p, stops
<1>7. InsertAt(s, p, e) \in Seq(S) /\ Linked(InsertAt(s, p, e), s, p, e)
  BY <1>5, InsertAtLinks
<1>8. QED BY <1>3, <1>5, <1>6, <1>7

\* The found line of s unlinked.
LEMMA FoundUnlinks ==
    ASSUME NEW S, NEW s \in Seq(S), NEW t, Holds(s, t)
    PROVE  /\ Find(s, t) \in 1..Len(s) /\ Len(s) \in Nat
           /\ RemoveAt(s, Find(s, t)) \in Seq(S)
           /\ Unlinked(RemoveAt(s, Find(s, t)), s, Find(s, t))
<1>1. Find(s, t) \in 1..Len(s) /\ Len(s) \in Nat
  BY FoundLine
<1>2. QED BY <1>1, RemoveAtUnlinks

\* The lines with the given tags, frequencies and offsets.
LineOf(T, F, O) == [tag : T, freq : F, offset : O, live : BOOLEAN]

\* Every line that access finds in r it found in s, except those of X.
HoldsOnly(r, s, X) == \A u : Holds(r, u) => Holds(s, u) \/ u \in X

\* A set with tag t erased from addr_map.
LEMMA UnmapProperties ==
    ASSUME NEW T, NEW F, NEW O, NEW s \in Seq(LineOf(T, F, O)), NEW t
    PROVE  /\ Unmap(s, t) \in Seq(LineOf(T, F, O))
           /\ Len(Unmap(s, t)) = Len(s)
           /\ \A i \in 1..Len(s) :
                 Unmap(s, t)[i] = IF s[i].tag = t THEN [s[i] EXCEPT !.live = FALSE] ELSE s[i]
           /\ HoldsOnly(Unmap(s, t), s, {})
           /\ ~Holds(Unmap(s, t), t)
<1> DEFINE r == Unmap(s, t)
<1>1. DOMAIN s = 1..Len(s) /\ Len(s) \in Nat /\ \A i \in 1..Len(s) : s[i] \in LineOf(T, F, O)
  OBVIOUS
<1>2. \A x \in LineOf(T, F, O) :
         /\ [x EXCEPT !.live = FALSE] \in LineOf(T, F, O)
         /\ [x EXCEPT !.live = FALSE].live = FALSE
         /\ [x EXCEPT !.live = FALSE].tag = x.tag
  BY DEF LineOf
<1>3. /\ r \in [1..Len(s) -> LineOf(T, F, O)]
      /\ \A i \in 1..Len(s) :
            r[i] = IF s[i].tag = t THEN [s[i] EXCEPT !.live = FALSE] ELSE s[i]
  BY <1>1, <1>2 DEF Unmap
<1> HIDE DEF r
<1>4. r \in Seq(LineOf(T, F, O)) /\ Len(r) = Len(s) /\ DOMAIN r = 1..Len(s)
  BY <1>1, <1>3, FunctionIsList
<1>5. ASSUME NEW i \in 1..Len(s), r[i].live PROVE r[i] = s[i] /\ r[i].tag # t
  <2>1. s[i] \in LineOf(T, F, O)
    BY <1>1
  <2>2. s[i].tag # t
    BY <1>2, <1>3, <1>5, <2>1
  <2>3. QED BY <1>3, <2>2
<1>6. HoldsOnly(r, s, {}) /\ ~Holds(r, t)
  BY <1>1, <1>4, <1>5 DEF HoldsOnly, Holds
<1>7. QED BY <1>3, <1>4, <1>6 DEF r

\* The set without its last line.
LEMMA FrontProperties ==
    ASSUME NEW S, NEW s \in Seq(S), Len(s) >= 1
    PROVE  /\ Front(s) \in Seq(S)
           /\ Len(Front(s)) = Len(s) - 1
           /\ \A i \in 1..(Len(s) - 1) : Front(s)[i] = s[i]
           /\ Last(s) = s[Len(s)] /\ Last(s) \in S
<1>1. Len(s) \in Nat /\ Front(s) = SubSeq(s, 1, Len(s) - 1) /\ Last(s) = s[Len(s)]
  BY DEF Front, Last
<1>2. 1 \in Int /\ Len(s) - 1 \in Int /\ \A i \in 1..(Len(s) - 1) : s[i] \in S
  BY <1>1
<1>3. /\ SubSeq(s, 1, Len(s) - 1) \in Seq(S)
      /\ Len(SubSeq(s, 1, Len(s) - 1)) = IF 1 <= Len(s) - 1 THEN (Len(s) - 1) - 1 + 1 ELSE 0
      /\ \A i \in 1..((Len(s) - 1) - 1 + 1) : SubSeq(s, 1, Len(s) - 1)[i] = s[1 + i - 1]
  BY <1>2, SubSeqProperties
<1>4. (Len(s) - 1) - 1 + 1 = Len(s) - 1 /\ \A i \in 1..(Len(s) - 1) : 1 + i - 1 = i
  BY <1>1
<1>5. Len(SubSeq(s, 1, Len(s) - 1)) = Len(s) - 1
  <2> DEFINE n == Len(s)
  <2>1. n \in Nat /\ n >= 1
    BY <1>1
  <2> HIDE DEF n
  <2>2. CASE 1 <= n - 1
    BY <1>3, <2>1, <2>2 DEF n
  <2>3. CASE ~(1 <= n - 1)
    <3>1. n - 1 = 0
      BY <2>1, <2>3
    <3>2. QED BY <1>3, <2>3, <3>1 DEF n
  <2>4. QED BY <2>2, <2>3
<1>6. \A i \in 1..(Len(s) - 1) : SubSeq(s, 1, Len(s) - 1)[i] = s[i]
  BY <1>3, <1>4
<1>7. s[Len(s)] \in S
  BY <1>1
<1>8. QED BY <1>1, <1>3, <1>5, <1>6, <1>7

\* The set that an insertion links the new line into: a full one gives up its
\* last line, and the new tag is taken from whichever line had it.
Recycled(assoc, s, t) ==
    Unmap(IF Len(s) = assoc THEN Unmap(Front(s), Last(s).tag) ELSE s, t)

\* The lines that stay leave room for one and are found as before.
LEMMA RecycledProperties ==
    ASSUME NEW T, NEW F, NEW O, NEW s \in Seq(LineOf(T, F, O)), NEW t,
           NEW n \in Nat \ {0}, Len(s) <= n
    PROVE  /\ Recycled(n, s, t) \in Seq(LineOf(T, F, O))
           /\ Len(Recycled(n, s, t)) <= n - 1
           /\ HoldsOnly(Recycled(n, s, t), s, {})
<1> DEFINE front == Unmap(Front(s), Last(s).tag)
           rest == IF Len(s) = n THEN front ELSE s
<1>1. CASE Len(s) = n
  <2>1. /\ Front(s) \in Seq(LineOf(T, F, O)) /\ Len(Front(s)) = n - 1
        /\ \A i \in 1..(n - 1) : Front(s)[i] = s[i]
    BY <1>1, FrontProperties
  <2>2. HoldsOnly(Front(s), s, {})
    BY <1>1, <2>1 DEF HoldsOnly, Holds
  <2>3. front \in Seq(LineOf(T, F, O)) /\ Len(front) = n - 1 /\ HoldsOnly(front, Front(s), {})
    BY <2>1, UnmapProperties
  <2> HIDE DEF front
  <2>4. rest = front /\ HoldsOnly(rest, s, {})
    BY <1>1, <2>2, <2>3 DEF HoldsOnly
  <2>5. QED BY <2>3, <2>4, UnmapProperties DEF Recycled, HoldsOnly, front
<1>2. CASE Len(s) # n
  <2>1. rest = s /\ Len(s) <= n - 1
    BY <1>2
  <2>2. QED BY <2>1, UnmapProperties DEF Recycled, HoldsOnly
<1>3. QED BY <1>1, <1>2

\* What an insertion puts into a set besides the new line was there before.
LEMMA InsertProperties ==
    ASSUME NEW T, NEW F, NEW O, NEW s \in Seq(LineOf(T, F, O)), NEW t \in T, NEW o \in O,
           0 \in F, NEW n \in Nat \ {0}, Len(s) <= n, NEW policy
    PROVE  /\ InsertSet(policy, n, s, t, o) \in Seq(LineOf(T, F, O))
           /\ Len(InsertSet(policy, n, s, t, o)) <= n
           /\ HoldsOnly(InsertSet(policy, n, s, t, o), s, {t})
<1> DEFINE e == [tag |-> t, freq |-> 0, offset |-> o, live |-> TRUE]
           rest == Recycled(n, s, t)
           r == PlaceLine(policy, rest, e)
<1>1. InsertSet(policy, n, s, t, o) = r
  BY DEF InsertSet, Recycled
<1>2. e \in LineOf(T, F, O) /\ e.tag = t
  BY DEF LineOf
<1>3. rest \in Seq(LineOf(T, F, O)) /\ Len(rest) <= n - 1 /\ HoldsOnly(rest, s, {})
  BY RecycledProperties
<1> HIDE DEF e, rest
<1>4. r \in Seq(LineOf(T, F, O)) /\ \E p \in 1..(Len(rest) + 1) : Linked(r, rest, p, e)
  BY <1>2, <1>3, PlaceLineLinks
<1> HIDE DEF r
<1>5. PICK p : Linked(r, rest, p, e)
  BY <1>4
<1>6. /\ r[p] = e
      /\ \A j \in 1..Len(r) : j # p => \E k \in 1..Len(rest) : r[j] = rest[k]
  BY <1>5, LinkedMembers
<1>7. Len(r) <= n
  BY <1>3, <1>5 DEF Linked
<1>8. ASSUME NEW u, Holds(r, u) PROVE Holds(s, u) \/ u \in {t}
  <2>1. PICK j \in 1..Len(r) : r[j].live /\ r[j].tag = u
    BY <1>4, <1>8 DEF Holds
  <2>2. CASE j = p
    BY <1>2, <1>6, <2>1, <2>2
  <2>3. CASE j # p
    <3>1. Holds(rest, u)
      BY <1>3, <1>6, <2>1, <2>3 DEF Holds
    <3>2. QED BY <1>3, <3>1 DEF HoldsOnly
  <2>4. QED BY <2>2, <2>3
<1>9. QED BY <1>1, <1>4, <1>7, <1>8 DEF HoldsOnly

-----------------------------------------------------------------------------
(***************************************************************************)
(* A set of a TLB: least recently used, frequencies and offsets 0.         *)
(***************************************************************************)
TlbLine(T) == LineOf(T, {0}, {0})
TlbSet(T, n) == {s \in Seq(TlbLine(T)) : Len(s) <= n}

\* An access keeps the set and finds no more than before.
LEMMA TlbSetAccess ==
    ASSUME NEW T, NEW n \in Nat, NEW s \in TlbSet(T, n), NEW t
    PROVE  /\ AccessSet(0, MaxFreq, s, t, 0) \in TlbSet(T, n)
           /\ HoldsOnly(AccessSet(0, MaxFreq, s, t, 0), s, {})
<1> DEFINE q == Find(s, t)
           e == [s[q] EXCEPT !.offset = 0]
           rest == RemoveAt(s, q)
           placed == PlaceLine(0, rest, e)
           at == Find(placed, t)
           r == [placed EXCEPT ![at].freq = 0]
<1>0. s \in Seq(TlbLine(T)) /\ Len(s) <= n
  BY DEF TlbSet
<1>1. CASE ~Holds(s, t)
  BY <1>1 DEF AccessSet, HoldsOnly
<1>2. CASE Holds(s, t)
  <2>1. AccessSet(0, MaxFreq, s, t, 0) = r
    BY <1>2 DEF AccessSet
  <2>2. q \in 1..Len(s) /\ Len(s) \in Nat /\ rest \in Seq(TlbLine(T)) /\ Unlinked(rest, s, q)
    BY <1>0, <1>2, FoundUnlinks
  <2>3. s[q].live /\ s[q].tag = t
    BY <1>2, FoundLine
  <2> HIDE DEF q, rest
  <2>4. s[q] \in TlbLine(T)
    BY <1>0, <2>2
  <2>5. e \in TlbLine(T) /\ e.live /\ e.tag = t
    BY <2>3, <2>4 DEF TlbLine, LineOf
  <2> HIDE DEF e
  <2>6. placed \in Seq(TlbLine(T)) /\ \E p \in 1..(Len(rest) + 1) : Linked(placed, rest, p, e)
    BY <2>2, <2>5, PlaceLineLinks
  <2> HIDE DEF placed
  <2>7. PICK p : Linked(placed, rest, p, e)
    BY <2>6
  <2>8. /\ placed[p] = e /\ p \in 1..Len(placed)
        /\ \A j \in 1..Len(placed) : j # p => \E k \in 1..Len(rest) : placed[j] = rest[k]
    BY <2>7, LinkedMembers
  <2>9. \A j \in 1..Len(rest) : \E k \in 1..Len(s) : rest[j] = s[k]
    BY <2>2, UnlinkedMembers
  <2>10. DOMAIN placed = 1..Len(placed) /\ Len(placed) \in Nat
    BY <2>6
  <2>11. Len(placed) = Len(s)
    BY <2>2, <2>7 DEF Linked, Unlinked
  <2>12. Holds(placed, t)
    BY <2>5, <2>8, <2>10 DEF Holds
  <2>13. at \in 1..Len(placed)
    BY <2>10, <2>12, FoundLine
  <2> HIDE DEF at
  <2>14. \A j \in 1..Len(placed) : placed[j] \in TlbLine(T)
    BY <2>6
  <2>15. r \in [1..Len(s) -> TlbLine(T)]
    BY <2>10, <2>11, <2>13, <2>14 DEF TlbLine, LineOf
  <2>16. r \in Seq(TlbLine(T)) /\ Len(r) = Len(s) /\ DOMAIN r = 1..Len(s)
    <3> HIDE DEF r
    <3>1. QED BY <2>2, <2>15, FunctionIsList
  <2>17. \A j \in 1..Len(s) : r[j].live = placed[j].live /\ r[j].tag = placed[j].tag
    BY <2>10, <2>11, <2>13, <2>14 DEF TlbLine, LineOf
  <2>18. ASSUME NEW u, Holds(r, u) PROVE Holds(s, u)
    <3>1. PICK j \in 1..Len(s) : r[j].live /\ r[j].tag = u
      BY <2>16, <2>18 DEF Holds
    <3>2. placed[j].live /\ placed[j].tag = u
      BY <2>17, <3>1
    <3>3. CASE j = p
      <4>1. u = t
        BY <2>5, <2>8, <3>2, <3>3
      <4>2. QED BY <1>2, <4>1
    <3>4. CASE j # p
      <4>1. PICK k \in 1..Len(s) : placed[j] = s[k]
        BY <2>8, <2>9, <2>11, <3>4
      <4>2. QED BY <1>0, <3>2, <4>1 DEF Holds
    <3>5. QED BY <3>3, <3>4
  <2>19. QED BY <1>0, <2>1, <2>16, <2>18 DEF TlbSet, HoldsOnly
<1>3. QED BY <1>1, <1>2

\* An insertion keeps the set and adds no tag but t.
LEMMA TlbSetInsert ==
    ASSUME NEW T, NEW n \in Nat \ {0}, NEW s \in TlbSet(T, n), NEW t \in T
    PROVE  /\ InsertSet(0, n, s, t, 0) \in TlbSet(T, n)
           /\ HoldsOnly(InsertSet(0, n, s, t, 0), s, {t})
<1>1. s \in Seq(LineOf(T, {0}, {0})) /\ Len(s) <= n /\ 0 \in {0}
  BY DEF TlbSet, TlbLine
<1>2. /\ InsertSet(0, n, s, t, 0) \in Seq(LineOf(T, {0}, {0}))
      /\ Len(InsertSet(0, n, s, t, 0)) <= n
      /\ HoldsOnly(InsertSet(0, n, s, t, 0), s, {t})
  BY <1>1, InsertProperties
<1>3. QED BY <1>2 DEF TlbSet, TlbLine

\* The loop of a shootdown, as the equation its list satisfies.
LEMMA EvictEachEquation ==
    ASSUME NEW s, Len(s) \in Nat, NEW N
    PROVE  \E f : /\ f = [i \in 0..Len(s) |->
                            IF i = 0 THEN <<>>
                            ELSE IF s[i].live /\ s[i].tag \in N THEN f[i - 1]
                            ELSE Append(f[i - 1], s[i])]
                  /\ EvictEach(s, N) = f[Len(s)]
<1> DEFINE Body(f, i) == IF i = 0 THEN <<>>
                         ELSE IF s[i].live /\ s[i].tag \in N THEN f[i - 1]
                         ELSE Append(f[i - 1], s[i])
           Upto(j) == \E f : f = [i \in 0..j |-> Body(f, i)]
           T == {j \in 0..Len(s) : Upto(j)}
<1>1. 0 \in T
  <2> DEFINE g == [i \in 0..0 |-> <<>>]
  <2>1. g = [i \in 0..0 |-> Body(g, i)]
    OBVIOUS
  <2> HIDE DEF g, Body
  <2>2. Upto(0)
    BY <2>1
  <2>3. QED BY <2>2
<1>2. ASSUME NEW j \in 0..Len(s), j # Len(s), j \in T PROVE j + 1 \in T
  <2> HIDE DEF Body
  <2>1. PICK f : f = [i \in 0..j |-> Body(f, i)]
    BY <1>2
  <2> DEFINE g == [i \in 0..(j + 1) |-> IF i = j + 1 THEN Body(f, j + 1) ELSE f[i]]
  <2>2. \A i \in 0..j : g[i] = f[i] /\ f[i] = Body(f, i)
    BY <2>1
  <2>3. g[j + 1] = Body(f, j + 1) /\ DOMAIN g = 0..(j + 1)
    OBVIOUS
  <2> HIDE DEF g
  <2>4. ASSUME NEW i \in 0..(j + 1) PROVE Body(f, i) = Body(g, i)
    <3>1. i # 0 => g[i - 1] = f[i - 1]
      BY <2>2
    <3>2. QED BY <3>1 DEF Body
  <2>5. ASSUME NEW i \in 0..(j + 1) PROVE g[i] = Body(g, i)
    <3>1. i = j + 1 \/ i \in 0..j
      OBVIOUS
    <3>2. g[i] = Body(f, i)
      BY <2>2, <2>3, <3>1
    <3>3. QED BY <2>4, <3>2
  <2>6. g = [i \in 0..(j + 1) |-> IF i = j + 1 THEN Body(f, j + 1) ELSE f[i]]
    BY DEF g
  <2>7. g = [i \in 0..(j + 1) |-> Body(g, i)]
    BY <2>5, <2>6
  <2>8. j + 1 \in 0..Len(s)
    BY <1>2
  <2>9. QED BY <2>7, <2>8
<1>3. Upto(Len(s))
  <2>1. \A j \in 0..Len(s) : j # Len(s) /\ j \in T => j + 1 \in T
    BY <1>2
  <2>2. \A j \in 0..Len(s) : j \in T
    <3> HIDE DEF T
    <3>1. QED BY <1>1, <2>1, UpToInduction
  <2>3. Len(s) \in T
    <3> HIDE DEF T
    <3>1. QED BY <2>2
  <2> HIDE DEF Upto
  <2>4. QED BY <2>3
<1> DEFINE kept == CHOOSE f : f = [i \in 0..Len(s) |-> Body(f, i)]
<1>4. kept = [i \in 0..Len(s) |-> Body(kept, i)]
  BY <1>3
<1>5. EvictEach(s, N) = kept[Len(s)]
  BY DEF EvictEach
<1>6. QED BY <1>4, <1>5

\* A shootdown keeps the set and leaves none of the tags of N to be found.
LEMMA TlbSetShootdown ==
    ASSUME NEW T, NEW n \in Nat, NEW s \in TlbSet(T, n), NEW N
    PROVE  /\ EvictEach(s, N) \in TlbSet(T, n)
           /\ \A u : Holds(EvictEach(s, N), u) => Holds(s, u) /\ u \notin N
<1> DEFINE L == TlbLine(T)
           Survives(x) == \E k \in 1..Len(s) : x = s[k] /\ ~(s[k].live /\ s[k].tag \in N)
           Good(i, x) == x \in Seq(L) /\ Len(x) <= i /\ \A j \in 1..Len(x) : Survives(x[j])
<1>0. s \in Seq(L) /\ Len(s) <= n /\ Len(s) \in Nat
  BY DEF TlbSet
<1>1. PICK f : /\ f = [i \in 0..Len(s) |->
                        IF i = 0 THEN <<>>
                        ELSE IF s[i].live /\ s[i].tag \in N THEN f[i - 1]
                        ELSE Append(f[i - 1], s[i])]
               /\ EvictEach(s, N) = f[Len(s)]
  BY <1>0, EvictEachEquation
<1> DEFINE G == {i \in 0..Len(s) : Good(i, f[i])}
<1>2. 0 \in G
  <2>1. f[0] = <<>>
    BY <1>0, <1>1
  <2>2. Good(0, <<>>)
    OBVIOUS
  <2> HIDE DEF Good
  <2>3. QED BY <1>0, <2>1, <2>2
<1>3. ASSUME NEW i \in 0..Len(s), i # Len(s), i \in G PROVE i + 1 \in G
  <2>1. i + 1 \in 1..Len(s) /\ i + 1 \in 0..Len(s) /\ i + 1 # 0 /\ (i + 1) - 1 = i
    BY <1>0, <1>3
  <2>2. f[i + 1] = IF s[i + 1].live /\ s[i + 1].tag \in N THEN f[i]
                   ELSE Append(f[i], s[i + 1])
    BY <1>1, <2>1
  <2>3. Good(i, f[i]) /\ s[i + 1] \in L
    BY <1>0, <1>3, <2>1
  <2>4. CASE s[i + 1].live /\ s[i + 1].tag \in N
    <3>1. f[i + 1] = f[i] /\ Len(f[i + 1]) <= i + 1
      BY <2>2, <2>3, <2>4
    <3> HIDE DEF Survives
    <3>2. QED BY <2>1, <2>3, <3>1
  <2>5. CASE ~(s[i + 1].live /\ s[i + 1].tag \in N)
    <3>1. f[i + 1] = Append(f[i], s[i + 1]) /\ Survives(s[i + 1])
      BY <2>1, <2>2, <2>5
    <3> HIDE DEF Survives, L
    <3>2. Good(i + 1, Append(f[i], s[i + 1]))
      BY <2>3, <3>1
    <3>3. QED BY <2>1, <3>1, <3>2
  <2>6. QED BY <2>4, <2>5
<1>4. Good(Len(s), EvictEach(s, N))
  <2>1. \A i \in 0..Len(s) : i # Len(s) /\ i \in G => i + 1 \in G
    BY <1>3
  <2>2. \A i \in 0..Len(s) : i \in G
    <3> HIDE DEF G
    <3>1. QED BY <1>0, <1>2, <2>1, UpToInduction
  <2> HIDE DEF Good
  <2>3. QED BY <1>0, <1>1, <2>2
<1> DEFINE r == EvictEach(s, N)
<1>5. ASSUME NEW u, Holds(r, u) PROVE Holds(s, u) /\ u \notin N
  <2>1. PICK j \in 1..Len(r) : r[j].live /\ r[j].tag = u
    BY <1>4, <1>5 DEF Holds
  <2>2. PICK k \in 1..Len(s) : r[j] = s[k] /\ ~(s[k].live /\ s[k].tag \in N)
    BY <1>4, <2>1
  <2>3. QED BY <1>0, <2>1, <2>2 DEF Holds
<1>6. r \in Seq(L) /\ Len(r) <= n
  BY <1>0, <1>4
<1>7. QED BY <1>5, <1>6 DEF TlbSet

-----------------------------------------------------------------------------
(***************************************************************************)
(* TLBs: k sets of n lines.                                                *)
(***************************************************************************)
Tlb(T, k, n) == [0..(k - 1) -> TlbSet(T, n)]

\* Every number that hits in d hit in c, except those of X.
HitsOnly(d, c, X) == \A u \in Nat : CacheHit(d, u) => CacheHit(c, u) \/ u \in X

\* The set index is in range.
LEMMA SetOfRange ==
    ASSUME NEW k \in Nat \ {0}, NEW c, DOMAIN c = 0..(k - 1), NEW x \in Nat
    PROVE  SetOf(c, x) = x % k /\ x % k \in 0..(k - 1)
<1>1. \E y \in 0..(k - 1) : \A z \in 0..(k - 1) : y >= z
  <2>1. k - 1 \in 0..(k - 1) /\ \A z \in 0..(k - 1) : k - 1 >= z
    OBVIOUS
  <2>2. QED BY <2>1
<1>2. /\ Max(0..(k - 1)) \in 0..(k - 1)
      /\ \A z \in 0..(k - 1) : Max(0..(k - 1)) >= z
  BY <1>1 DEF Max
<1>3. Max(0..(k - 1)) = k - 1
  <2>1. k - 1 \in 0..(k - 1)
    OBVIOUS
  <2>2. QED BY <1>2, <2>1
<1>4. (k - 1) + 1 = k /\ x % k \in 0..(k - 1)
  OBVIOUS
<1>5. QED BY <1>3, <1>4 DEF SetOf

\* A lookup brings nothing into a TLB.
LEMMA TlbAccess ==
    ASSUME NEW T, NEW k \in Nat \ {0}, NEW n \in Nat, NEW c \in Tlb(T, k, n), NEW x \in Nat
    PROVE  /\ CacheAccess(c, x) \in Tlb(T, k, n)
           /\ HitsOnly(CacheAccess(c, x), c, {})
<1> DEFINE i == x % k
           d == CacheAccess(c, x)
           new == AccessSet(0, MaxFreq, c[i], x, 0)
<1>1. c \in [0..(k - 1) -> TlbSet(T, n)] /\ DOMAIN c = 0..(k - 1)
  BY DEF Tlb
<1>2. SetOf(c, x) = i /\ i \in 0..(k - 1)
  BY <1>1, SetOfRange
<1>3. d = [c EXCEPT ![i] = new]
  BY <1>2 DEF CacheAccess
<1> HIDE DEF i, d
<1>4. c[i] \in TlbSet(T, n)
  BY <1>1, <1>2
<1>5. new \in TlbSet(T, n) /\ HoldsOnly(new, c[i], {})
  BY <1>4, TlbSetAccess
<1> HIDE DEF new
<1>6. d \in Tlb(T, k, n) /\ DOMAIN d = 0..(k - 1)
  BY <1>1, <1>2, <1>3, <1>5 DEF Tlb
<1>7. ASSUME NEW u \in Nat, CacheHit(d, u) PROVE CacheHit(c, u)
  <2>1. SetOf(c, u) = u % k /\ SetOf(d, u) = u % k /\ u % k \in 0..(k - 1)
    BY <1>1, <1>6, SetOfRange
  <2>2. Holds(d[u % k], u)
    BY <1>7, <2>1 DEF CacheHit
  <2>3. Holds(c[u % k], u)
    BY <1>1, <1>2, <1>3, <1>5, <2>1, <2>2 DEF HoldsOnly
  <2>4. QED BY <2>1, <2>3 DEF CacheHit
<1>8. QED BY <1>6, <1>7 DEF HitsOnly, d

\* An insertion brings in the number inserted and nothing else.
LEMMA TlbInsert ==
    ASSUME NEW T \in SUBSET Nat, NEW k \in Nat \ {0}, NEW n \in Nat \ {0},
           NEW c \in Tlb(T, k, n), NEW x \in T
    PROVE  /\ CacheInsert(c, n, x) \in Tlb(T, k, n)
           /\ HitsOnly(CacheInsert(c, n, x), c, {x})
<1> DEFINE i == x % k
           d == CacheInsert(c, n, x)
           new == InsertSet(0, n, c[i], x, 0)
<1>0. x \in Nat
  OBVIOUS
<1>1. c \in [0..(k - 1) -> TlbSet(T, n)] /\ DOMAIN c = 0..(k - 1)
  BY DEF Tlb
<1>2. SetOf(c, x) = i /\ i \in 0..(k - 1)
  BY <1>0, <1>1, SetOfRange
<1>3. d = [c EXCEPT ![i] = new]
  BY <1>2 DEF CacheInsert
<1> HIDE DEF i, d
<1>4. c[i] \in TlbSet(T, n)
  BY <1>1, <1>2
<1>5. new \in TlbSet(T, n) /\ HoldsOnly(new, c[i], {x})
  BY <1>4, TlbSetInsert
<1> HIDE DEF new
<1>6. d \in Tlb(T, k, n) /\ DOMAIN d = 0..(k - 1)
  BY <1>1, <1>2, <1>3, <1>5 DEF Tlb
<1>7. ASSUME NEW u \in Nat, CacheHit(d, u), u # x PROVE CacheHit(c, u)
  <2>1. SetOf(c, u) = u % k /\ SetOf(d, u) = u % k /\ u % k \in 0..(k - 1)
    BY <1>1, <1>6, SetOfRange
  <2>2. Holds(d[u % k], u)
    BY <1>7, <2>1 DEF CacheHit
  <2>3. Holds(c[u % k], u)
    BY <1>1, <1>2, <1>3, <1>5, <1>7, <2>1, <2>2 DEF HoldsOnly
  <2>4. QED BY <2>1, <2>3 DEF CacheHit
<1>8. QED BY <1>6, <1>7 DEF HitsOnly, d

\* No number of N hits after it has been shot down.
LEMMA TlbShootdown ==
    ASSUME NEW T, NEW k \in Nat \ {0}, NEW n \in Nat, NEW c \in Tlb(T, k, n), NEW N
    PROVE  /\ Shootdown(c, N) \in Tlb(T, k, n)
           /\ \A u \in Nat : CacheHit(Shootdown(c, N), u) => CacheHit(c, u) /\ u \notin N
<1> DEFINE d == Shootdown(c, N)
<1>1. c \in [0..(k - 1) -> TlbSet(T, n)] /\ DOMAIN c = 0..(k - 1)
  BY DEF Tlb
<1>2. d = [i \in 0..(k - 1) |-> EvictEach(c[i], N)]
  BY <1>1 DEF Shootdown
<1>3. ASSUME NEW i \in 0..(k - 1)
      PROVE  /\ EvictEach(c[i], N) \in TlbSet(T, n)
             /\ \A u : Holds(EvictEach(c[i], N), u) => Holds(c[i], u) /\ u \notin N
  <2>1. c[i] \in TlbSet(T, n)
    BY <1>1
  <2>2. QED BY <2>1, TlbSetShootdown
<1> HIDE DEF d
<1>4. d \in Tlb(T, k, n) /\ DOMAIN d = 0..(k - 1)
  BY <1>2, <1>3 DEF Tlb
<1>5. ASSUME NEW u \in Nat, CacheHit(d, u) PROVE CacheHit(c, u) /\ u \notin N
  <2>1. SetOf(c, u) = u % k /\ SetOf(d, u) = u % k /\ u % k \in 0..(k - 1)
    BY <1>1, <1>4, SetOfRange
  <2>2. Holds(EvictEach(c[u % k], N), u)
    BY <1>2, <1>5, <2>1 DEF CacheHit
  <2>3. QED BY <1>3, <2>1, <2>2 DEF CacheHit
<1>6. QED BY <1>4, <1>5 DEF d

-----------------------------------------------------------------------------
(***************************************************************************)
(* The PCC: every line is found by its tag, no tag has two lines, and the  *)
(* lines are ordered by use.                                               *)
(***************************************************************************)
PccLine(F) == LineOf(Base, F, 0..(PagesPerRegion - 1))
PccSet == {s \in Seq(PccLine(0..(MaxFreq - 1))) : Len(s) <= PccSize}

Sound(s) ==
    \A i, j \in 1..Len(s) : /\ s[i].live
                            /\ s[i].tag = s[j].tag => i = j
                            /\ i < j => s[i].freq >= s[j].freq

\* In a sound set a tag is held when a line has it.
LEMMA SoundHolds ==
    ASSUME NEW S, NEW s \in Seq(S), Sound(s), NEW t
    PROVE  Holds(s, t) <=> \E i \in 1..Len(s) : s[i].tag = t
BY DEF Holds, Sound

\* The line that is found is the only one with its tag.
LEMMA SoundFind ==
    ASSUME NEW S, NEW s \in Seq(S), Sound(s), NEW i \in 1..Len(s)
    PROVE  Holds(s, s[i].tag) /\ Find(s, s[i].tag) = i
<1>1. Holds(s, s[i].tag)
  BY SoundHolds
<1>2. Find(s, s[i].tag) \in 1..Len(s) /\ s[Find(s, s[i].tag)].tag = s[i].tag
  BY <1>1, FoundLine
<1>3. QED BY <1>1, <1>2 DEF Sound

\* Unlinking the line found for t: t is not held any more, the others are.
LEMMA EvictSound ==
    ASSUME NEW S, NEW s \in Seq(S), Sound(s), NEW t, Holds(s, t)
    PROVE  /\ RemoveAt(s, Find(s, t)) \in Seq(S)
           /\ Len(RemoveAt(s, Find(s, t))) = Len(s) - 1
           /\ Sound(RemoveAt(s, Find(s, t)))
           /\ \A u : Holds(RemoveAt(s, Find(s, t)), u) <=> Holds(s, u) /\ u # t
<1> DEFINE q == Find(s, t)
           r == RemoveAt(s, q)
           Was(j) == IF j < q THEN j ELSE j + 1
<1>1. q \in 1..Len(s) /\ Len(s) \in Nat /\ r \in Seq(S) /\ Unlinked(r, s, q)
  BY FoundUnlinks
<1>2. s[q].tag = t
  BY FoundLine
<1> HIDE DEF q, r
<1>3. Len(r) = Len(s) - 1
  BY <1>1 DEF Unlinked
<1>4. \A j \in 1..Len(r) : Was(j) \in 1..Len(s) /\ Was(j) # q /\ r[j] = s[Was(j)]
  BY <1>1, UnlinkedMembers
<1>5. \A i, j \in 1..Len(r) : (Was(i) = Was(j) => i = j) /\ (i < j => Was(i) < Was(j))
  BY <1>1, <1>3
<1>6. ASSUME NEW i \in 1..Len(s), i # q PROVE \E j \in 1..Len(r) : Was(j) = i
  <2>1. CASE i < q
    BY <1>1, <1>3, <2>1
  <2>2. CASE i > q
    <3>1. i - 1 \in 1..Len(r) /\ Was(i - 1) = i
      BY <1>1, <1>3, <2>2
    <3>2. QED BY <3>1
  <2>3. QED BY <1>1, <1>6, <2>1, <2>2
<1> HIDE DEF Was
<1>7. Sound(r)
  BY <1>4, <1>5 DEF Sound
<1>8. ASSUME NEW u PROVE Holds(r, u) <=> Holds(s, u) /\ u # t
  <2>1. Holds(r, u) <=> \E j \in 1..Len(r) : r[j].tag = u
    BY <1>1, <1>7, SoundHolds
  <2>2. Holds(s, u) <=> \E i \in 1..Len(s) : s[i].tag = u
    BY SoundHolds
  <2>3. ASSUME NEW j \in 1..Len(r), r[j].tag = u PROVE Holds(s, u) /\ u # t
    <3>1. Was(j) \in 1..Len(s) /\ Was(j) # q /\ s[Was(j)].tag = u
      BY <1>4, <2>3
    <3>2. QED BY <1>1, <1>2, <2>2, <3>1 DEF Sound
  <2>4. ASSUME NEW i \in 1..Len(s), s[i].tag = u, u # t PROVE \E j \in 1..Len(r) : r[j].tag = u
    <3>1. i # q
      BY <1>2, <2>4
    <3>2. PICK j \in 1..Len(r) : Was(j) = i
      BY <1>6, <3>1
    <3>3. QED BY <1>4, <2>4, <3>2
  <2>5. QED BY <2>1, <2>2, <2>3, <2>4
<1>9. QED BY <1>1, <1>3, <1>7, <1>8 DEF q, r

\* r is the sound set s with the new line e in its place.
WellPlaced(r, s, e) ==
    /\ Len(r) = Len(s) + 1
    /\ Sound(r)
    /\ \A u : Holds(r, u) <=> Holds(s, u) \/ u = e.tag
    /\ Find(r, e.tag) \in 1..Len(r)
    /\ r[Find(r, e.tag)] = e
    /\ \A i \in 1..Len(r) : i < Find(r, e.tag) => r[i].freq > e.freq

\* A new live line linked behind the lines used more often.
LEMMA PlaceSound ==
    ASSUME NEW T, NEW F \in SUBSET Nat, NEW O, NEW s \in Seq(LineOf(T, F, O)), Sound(s),
           NEW e \in LineOf(T, F, O), e.live, ~Holds(s, e.tag)
    PROVE  /\ PlaceLine(2, s, e) \in Seq(LineOf(T, F, O))
           /\ WellPlaced(PlaceLine(2, s, e), s, e)
<1> DEFINE L == LineOf(T, F, O)
           r == PlaceLine(2, s, e)
<1>1. r \in Seq(L) /\ \E p \in 1..(Len(s) + 1) : Linked(r, s, p, e) /\ BehindMoreUsed(s, p, e)
  <2> HIDE DEF L
  <2>1. 2 # 0 /\ s \in Seq(L) /\ e \in L
    BY DEF L
  <2>2. QED BY <2>1, PlaceLineLinks
<1> HIDE DEF r
<1>2. PICK p \in 1..(Len(s) + 1) : Linked(r, s, p, e) /\ BehindMoreUsed(s, p, e)
  BY <1>1
<1> DEFINE Was(j) == IF j < p THEN j ELSE j - 1
<1>3. /\ r[p] = e /\ p \in 1..Len(r)
      /\ \A j \in 1..Len(r) : j # p => Was(j) \in 1..Len(s) /\ r[j] = s[Was(j)]
  BY <1>2, LinkedMembers
<1>4. Len(r) = Len(s) + 1 /\ Len(s) \in Nat
  BY <1>2 DEF Linked
<1>5. \A i \in 1..Len(s) : s[i] \in L /\ s[i].freq \in Nat
  <2>1. \A x \in L : x.freq \in Nat
    BY DEF LineOf
  <2>2. s \in Seq(L)
    BY DEF L
  <2> HIDE DEF L
  <2>3. QED BY <2>1, <2>2
<1>6. e.freq \in Nat
  BY DEF LineOf
<1>7. \A j \in 1..Len(s) : s[j].tag # e.tag
  BY SoundHolds
<1>8. \A i, j \in 1..Len(r) : i # p /\ j # p =>
         (Was(i) = Was(j) => i = j) /\ (i < j => Was(i) < Was(j))
  BY <1>4
<1>9. \A j \in 1..Len(r) : /\ j < p => Was(j) < p
                           /\ p < j => p <= Was(j)
  BY <1>4
<1>10. \A j \in 1..Len(s) : /\ j < p => e.freq < s[j].freq
                            /\ p <= j => s[j].freq <= e.freq
  <2>1. \A j \in 1..Len(s) : j < p => e.freq < s[j].freq
    BY <1>2 DEF BehindMoreUsed
  <2>2. ASSUME NEW j \in 1..Len(s), p <= j PROVE s[j].freq <= e.freq
    <3>1. p \in 1..Len(s) /\ ~(e.freq < s[p].freq)
      BY <1>2, <1>4, <2>2 DEF BehindMoreUsed
    <3>2. s[p].freq >= s[j].freq
      BY <1>5, <2>2, <3>1 DEF Sound
    <3>3. QED BY <1>5, <1>6, <3>1, <3>2
  <2>3. QED BY <2>1, <2>2
<1>11. \A j \in 1..Len(r) : /\ j < p => r[j].freq > e.freq
                            /\ p < j => r[j].freq <= e.freq
  <2>1. ASSUME NEW j \in 1..Len(r), j < p PROVE r[j].freq > e.freq
    <3>1. PICK k \in 1..Len(s) : r[j] = s[k] /\ k < p
      <4>1. j # p /\ Was(j) < p
        BY <1>4, <1>9, <2>1
      <4> HIDE DEF Was
      <4>2. QED BY <1>3, <4>1
    <3>2. s[k].freq \in Nat /\ e.freq < s[k].freq
      BY <1>5, <1>10, <3>1
    <3>3. QED BY <1>6, <3>1, <3>2
  <2>2. ASSUME NEW j \in 1..Len(r), p < j PROVE r[j].freq <= e.freq
    <3>1. PICK k \in 1..Len(s) : r[j] = s[k] /\ p <= k
      <4>1. j # p /\ p <= Was(j)
        BY <1>4, <1>9, <2>2
      <4> HIDE DEF Was
      <4>2. QED BY <1>3, <4>1
    <3>2. s[k].freq <= e.freq
      BY <1>10, <3>1
    <3>3. QED BY <3>1, <3>2
  <2>3. QED BY <2>1, <2>2
<1> HIDE DEF Was
<1>12. ASSUME NEW i \in 1..Len(r), NEW j \in 1..Len(r)
       PROVE  /\ r[i].live
              /\ r[i].tag = r[j].tag => i = j
              /\ i < j => r[i].freq >= r[j].freq
  <2>1. CASE i # p /\ j # p
    BY <1>3, <1>8, <2>1, SMTT(30) DEF Sound
  <2>2. CASE i = p
    BY <1>3, <1>4, <1>6, <1>7, <1>11, <2>2
  <2>3. CASE i # p /\ j = p
    <3>1. r[i].live /\ r[i].tag # r[j].tag
      BY <1>3, <1>7, <2>3 DEF Sound
    <3>2. i < j => r[i].freq > e.freq /\ r[j] = e /\ r[i].freq \in Nat
      BY <1>3, <1>5, <1>11, <2>3
    <3>3. QED BY <1>6, <3>1, <3>2
  <2>4. QED BY <2>1, <2>2, <2>3
<1>13. Sound(r)
  BY <1>12 DEF Sound
<1>14. ASSUME NEW u PROVE Holds(r, u) <=> Holds(s, u) \/ u = e.tag
  <2>1. Holds(r, u) <=> \E j \in 1..Len(r) : r[j].tag = u
    BY <1>1, <1>13, SoundHolds
  <2>2. Holds(s, u) <=> \E i \in 1..Len(s) : s[i].tag = u
    BY SoundHolds
  <2>3. ASSUME NEW i \in 1..Len(s) PROVE \E j \in 1..Len(r) : j # p /\ Was(j) = i
    <3>1. CASE i < p
      BY <1>4, <3>1 DEF Was
    <3>2. CASE ~(i < p)
      <4>1. i + 1 \in 1..Len(r) /\ i + 1 # p /\ Was(i + 1) = i
        BY <1>4, <3>2 DEF Was
      <4>2. QED BY <4>1
    <3>3. QED BY <3>1, <3>2
  <2>4. ASSUME NEW j \in 1..Len(r), r[j].tag = u PROVE Holds(s, u) \/ u = e.tag
    BY <1>3, <2>2, <2>4
  <2>5. ASSUME NEW i \in 1..Len(s), s[i].tag = u PROVE Holds(r, u)
    <3>1. PICK j \in 1..Len(r) : j # p /\ Was(j) = i
      BY <2>3
    <3>2. r[j] = s[i]
      BY <1>3, <3>1
    <3>3. QED BY <2>1, <2>5, <3>2
  <2>6. u = e.tag => Holds(r, u)
    BY <1>3, <2>1
  <2>7. QED BY <2>1, <2>2, <2>4, <2>5, <2>6
<1>15. Find(r, e.tag) = p
  BY <1>1, <1>3, <1>13, SoundFind
<1>16. QED BY <1>1, <1>3, <1>4, <1>11, <1>13, <1>14, <1>15 DEF r, WellPlaced

\* What the constants are, one by one.
LEMMA Sizes ==
    /\ Page \in SUBSET Nat
    /\ PagesPerRegion \in Nat \ {0}
    /\ L1Sets4K \in Nat \ {0} /\ L1Sets2M \in Nat \ {0} /\ L2Sets \in Nat \ {0}
    /\ L1Assoc \in Nat \ {0} /\ L2Assoc \in Nat \ {0}
    /\ PccSize \in Nat \ {0} /\ MaxFreq \in Nat \ {0}
    /\ Interval \in Nat \ {0} /\ Factor \in Nat \ {0}
BY SizesAssumption

\* Halving every frequency keeps a sound set sound and makes room below the
\* maximum.
LEMMA DecaySound ==
    ASSUME NEW s \in Seq(PccLine(0..MaxFreq)), Sound(s)
    PROVE  /\ Decay(s) \in Seq(PccLine(0..(MaxFreq - 1)))
           /\ Len(Decay(s)) = Len(s)
           /\ Sound(Decay(s))
           /\ \A i \in 1..Len(s) : Decay(s)[i].tag = s[i].tag
<1> DEFINE r == Decay(s)
<1>0. MaxFreq \in Nat \ {0}
  BY Sizes
<1>1. DOMAIN s = 1..Len(s) /\ Len(s) \in Nat /\ \A i \in 1..Len(s) : s[i] \in PccLine(0..MaxFreq)
  OBVIOUS
<1>2. \A i \in 1..Len(s) : r[i] = [s[i] EXCEPT !.freq = @ \div 2]
  BY <1>1 DEF Decay
<1>3. DOMAIN r = 1..Len(s) /\ r = [i \in 1..Len(s) |-> r[i]]
  BY <1>1 DEF Decay
<1> HIDE DEF r
<1>4. ASSUME NEW i \in 1..Len(s)
      PROVE  /\ r[i] \in PccLine(0..(MaxFreq - 1))
             /\ r[i].live = s[i].live /\ r[i].tag = s[i].tag
             /\ s[i].freq \in Nat /\ r[i].freq = s[i].freq \div 2
  <2>1. s[i] \in PccLine(0..MaxFreq) /\ r[i] = [s[i] EXCEPT !.freq = @ \div 2]
    BY <1>1, <1>2
  <2>2. s[i].freq \in 0..MaxFreq /\ s[i].freq \div 2 \in 0..(MaxFreq - 1)
    <3>1. s[i].freq \in 0..MaxFreq
      BY <2>1 DEF PccLine, LineOf
    <3>2. \A x \in 0..MaxFreq : x \div 2 \in 0..(MaxFreq - 1)
      BY <1>0
    <3>3. QED BY <3>1, <3>2
  <2>3. ASSUME NEW x \in PccLine(0..MaxFreq), NEW y \in 0..(MaxFreq - 1)
        PROVE  /\ [x EXCEPT !.freq = y] \in PccLine(0..(MaxFreq - 1))
               /\ [x EXCEPT !.freq = y].live = x.live /\ [x EXCEPT !.freq = y].tag = x.tag
               /\ [x EXCEPT !.freq = y].freq = y
    BY DEF PccLine, LineOf
  <2>4. s[i].freq \in Nat
    BY <1>0, <2>2
  <2> HIDE DEF r
  <2>5. QED BY <2>1, <2>2, <2>3, <2>4
<1>5. r \in [1..Len(s) -> PccLine(0..(MaxFreq - 1))]
  BY <1>3, <1>4
<1>6. r \in Seq(PccLine(0..(MaxFreq - 1))) /\ Len(r) = Len(s)
  BY <1>1, <1>5, FunctionIsList
<1>7. \A x, y \in Nat : x >= y => x \div 2 >= y \div 2
  OBVIOUS
<1>8. Sound(r)
  BY <1>4, <1>6, <1>7, SMTT(30) DEF Sound
<1>9. QED BY <1>4, <1>6, <1>8 DEF r

\* A hit in the PCC.
LEMMA PccAccess ==
    ASSUME NEW s \in PccSet, Sound(s), NEW t, Holds(s, t), NEW o \in 0..(PagesPerRegion - 1)
    PROVE  /\ AccessSet(2, MaxFreq, s, t, o) \in PccSet
           /\ Sound(AccessSet(2, MaxFreq, s, t, o))
           /\ HoldsOnly(AccessSet(2, MaxFreq, s, t, o), s, {})
<1> DEFINE L == PccLine(0..(MaxFreq - 1))
           M == PccLine(0..MaxFreq)
           q == Find(s, t)
           e == [s[q] EXCEPT !.offset = o]
           rest == RemoveAt(s, q)
           placed == PlaceLine(2, rest, e)
           at == Find(placed, t)
           counted == [placed EXCEPT ![at].freq = @ + 1]
           r == AccessSet(2, MaxFreq, s, t, o)
<1>0. MaxFreq \in Nat \ {0} /\ s \in Seq(L) /\ Len(s) <= PccSize
  BY Sizes DEF PccSet
<1>1. r = IF counted[at].freq = MaxFreq THEN Decay(counted) ELSE counted
  BY DEF AccessSet
<1>2. /\ rest \in Seq(L) /\ Len(rest) = Len(s) - 1 /\ Sound(rest)
      /\ \A u : Holds(rest, u) <=> Holds(s, u) /\ u # t
  BY <1>0, EvictSound
<1>3. q \in 1..Len(s) /\ s[q].live /\ s[q].tag = t /\ Len(s) \in Nat
  BY <1>0, FoundLine
<1> HIDE DEF q, rest, r
<1>4. s[q] \in L
  BY <1>0, <1>3
<1>5. e \in L /\ e.live /\ e.tag = t /\ e.freq \in 0..(MaxFreq - 1)
  BY <1>3, <1>4 DEF PccLine, LineOf
<1> HIDE DEF e
<1>6. /\ placed \in Seq(L) /\ Len(placed) = Len(s) /\ Sound(placed)
      /\ \A u : Holds(placed, u) <=> Holds(rest, u) \/ u = t
      /\ at \in 1..Len(placed) /\ placed[at] = e
      /\ \A i \in 1..Len(placed) : i < at => placed[i].freq > e.freq
  <2> DEFINE F == 0..(MaxFreq - 1)
             O == 0..(PagesPerRegion - 1)
  <2>1. F \in SUBSET Nat /\ ~Holds(rest, e.tag)
    BY <1>0, <1>2, <1>5
  <2>2. L = LineOf(Base, F, O)
    BY DEF PccLine
  <2> HIDE DEF L, F, O
  <2>3. rest \in Seq(LineOf(Base, F, O)) /\ e \in LineOf(Base, F, O) /\ Sound(rest) /\ e.live
    BY <1>2, <1>5, <2>2
  <2>4. placed \in Seq(LineOf(Base, F, O)) /\ WellPlaced(placed, rest, e)
    BY <2>1, <2>3, PlaceSound
  <2> HIDE DEF placed
  <2>5. QED BY <1>2, <1>3, <1>5, <2>2, <2>4 DEF WellPlaced
<1> HIDE DEF placed, at
<1>7. DOMAIN placed = 1..Len(s) /\ \A i \in 1..Len(s) : placed[i] \in L /\ placed[i].freq \in 0..(MaxFreq - 1)
  <2>1. \A x \in L : x.freq \in 0..(MaxFreq - 1)
    BY DEF PccLine, LineOf
  <2> HIDE DEF L
  <2>2. QED BY <1>6, <2>1
<1>8. ASSUME NEW i \in 1..Len(s)
      PROVE  /\ counted[i] \in M
             /\ counted[i].live = placed[i].live /\ counted[i].tag = placed[i].tag
             /\ counted[i].freq = IF i = at THEN e.freq + 1 ELSE placed[i].freq
  <2>1. CASE i = at
    <3>1. counted[i] = [e EXCEPT !.freq = e.freq + 1]
      BY <1>6, <1>7, <2>1
    <3>2. e.freq + 1 \in 0..MaxFreq
      BY <1>0, <1>5
    <3>3. ASSUME NEW x \in L, NEW y \in 0..MaxFreq
          PROVE  /\ [x EXCEPT !.freq = y] \in M /\ [x EXCEPT !.freq = y].live = x.live
                 /\ [x EXCEPT !.freq = y].tag = x.tag /\ [x EXCEPT !.freq = y].freq = y
      BY DEF PccLine, LineOf
    <3> HIDE DEF L, M, counted
    <3>4. QED BY <1>5, <1>6, <2>1, <3>1, <3>2, <3>3
  <2>2. CASE i # at
    <3>1. counted[i] = placed[i]
      BY <1>6, <1>7, <2>2
    <3>2. placed[i].freq \in 0..MaxFreq
      BY <1>0, <1>7
    <3>3. placed[i] \in M
      BY <1>7, <3>2 DEF PccLine, LineOf
    <3>4. QED BY <2>2, <3>1, <3>3
  <2>3. QED BY <2>1, <2>2
<1>9. counted \in [1..Len(s) -> M]
  <2>1. counted = [i \in 1..Len(s) |-> counted[i]]
    BY <1>7
  <2> HIDE DEF M, counted
  <2>2. QED BY <1>8, <2>1
<1> HIDE DEF counted
<1>10. counted \in Seq(M) /\ Len(counted) = Len(s)
  <2> HIDE DEF M
  <2>1. QED BY <1>3, <1>9, FunctionIsList
<1>11. Sound(counted)
  <2>1. ASSUME NEW i \in 1..Len(s), NEW j \in 1..Len(s)
        PROVE  /\ counted[i].live
               /\ counted[i].tag = counted[j].tag => i = j
               /\ i < j => counted[i].freq >= counted[j].freq
    <3>1. counted[i].live /\ (counted[i].tag = counted[j].tag => i = j)
      BY <1>6, <1>8 DEF Sound
    <3>2. ASSUME i < j PROVE counted[i].freq >= counted[j].freq
      <4>1. /\ placed[i].freq >= placed[j].freq
            /\ placed[i].freq \in Nat /\ placed[j].freq \in Nat /\ e.freq \in Nat
        BY <1>5, <1>6, <1>7, <3>2 DEF Sound
      <4>2. j = at => placed[i].freq > e.freq
        BY <1>6, <3>2
      <4>3. i = at => placed[i] = e
        BY <1>6
      <4>4. /\ counted[i].freq = IF i = at THEN e.freq + 1 ELSE placed[i].freq
            /\ counted[j].freq = IF j = at THEN e.freq + 1 ELSE placed[j].freq
        BY <1>8
      <4>5. QED BY <3>2, <4>1, <4>2, <4>3, <4>4
    <3>3. QED BY <3>1, <3>2
  <2>2. QED BY <1>10, <2>1 DEF Sound
<1>12. \A u : Holds(counted, u) => Holds(s, u)
  <2>1. ASSUME NEW u, Holds(counted, u) PROVE Holds(placed, u)
    <3>1. PICK i \in 1..Len(s) : counted[i].tag = u
      BY <1>9, <2>1 DEF Holds
    <3>2. QED BY <1>6, <1>8, <3>1, SoundHolds
  <2>2. QED BY <1>2, <1>6, <2>1
<1>13. CASE counted[at].freq = MaxFreq
  <2>1. /\ r \in Seq(L) /\ Len(r) = Len(s) /\ Sound(r)
        /\ \A i \in 1..Len(s) : r[i].tag = counted[i].tag
    BY <1>1, <1>10, <1>11, <1>13, DecaySound
  <2>2. \A u : Holds(r, u) => Holds(counted, u)
    <3> HIDE DEF L, M
    <3>1. QED BY <1>10, <1>11, <2>1, SoundHolds
  <2>3. QED BY <1>0, <1>12, <2>1, <2>2 DEF PccSet, HoldsOnly, r
<1>14. CASE counted[at].freq # MaxFreq
  <2>1. r = counted
    BY <1>1, <1>14
  <2>2. ASSUME NEW i \in 1..Len(s) PROVE counted[i] \in L
    <3>1. counted[i].freq \in 0..(MaxFreq - 1)
      <4>1. CASE i = at
        BY <1>0, <1>5, <1>8, <1>14, <4>1
      <4>2. CASE i # at
        BY <1>7, <1>8, <4>2
      <4>3. QED BY <4>1, <4>2
    <3>2. counted[i] \in M
      BY <1>8
    <3>3. QED BY <3>1, <3>2 DEF PccLine, LineOf
  <2>3. counted \in [1..Len(s) -> L]
    <3> HIDE DEF L, M
    <3>1. QED BY <1>9, <2>2
  <2>4. r \in Seq(L)
    BY <1>3, <2>1, <2>3, FunctionIsList
  <2>5. QED BY <1>0, <1>10, <1>11, <1>12, <2>1, <2>4 DEF PccSet, HoldsOnly, r
<1>15. QED BY <1>13, <1>14

\* A full sound set without its last line, for a tag it does not hold.
LEMMA RecycledSound ==
    ASSUME NEW T, NEW F, NEW O, NEW s \in Seq(LineOf(T, F, O)), Sound(s), NEW t, ~Holds(s, t),
           NEW n \in Nat \ {0}, Len(s) <= n
    PROVE  Sound(Recycled(n, s, t))
<1> DEFINE rest == IF Len(s) = n THEN Unmap(Front(s), Last(s).tag) ELSE s
<1>0. Len(s) \in Nat
  OBVIOUS
<1>1. /\ rest \in Seq(LineOf(T, F, O)) /\ Len(rest) <= Len(s)
      /\ \A i \in 1..Len(rest) : rest[i] = s[i]
  <2>1. CASE Len(s) = n
    <3>1. /\ Front(s) \in Seq(LineOf(T, F, O)) /\ Len(Front(s)) = Len(s) - 1
          /\ \A i \in 1..(Len(s) - 1) : Front(s)[i] = s[i]
          /\ Last(s) = s[Len(s)]
      BY <2>1, FrontProperties, SMTT(30)
    <3>2. \A i \in 1..(Len(s) - 1) : Front(s)[i].tag # Last(s).tag
      BY <1>0, <2>1, <3>1 DEF Sound
    <3>3. /\ rest \in Seq(LineOf(T, F, O)) /\ Len(rest) = Len(Front(s))
          /\ \A i \in 1..Len(Front(s)) :
                rest[i] = IF Front(s)[i].tag = Last(s).tag
                          THEN [Front(s)[i] EXCEPT !.live = FALSE] ELSE Front(s)[i]
      BY <2>1, <3>1, UnmapProperties
    <3> HIDE DEF rest
    <3>4. \A i \in 1..(Len(s) - 1) : rest[i] = Front(s)[i]
      BY <3>1, <3>2, <3>3
    <3>5. Len(rest) = Len(s) - 1
      BY <3>1, <3>3
    <3>6. QED BY <1>0, <3>1, <3>3, <3>4, <3>5
  <2>2. CASE Len(s) # n
    BY <1>0, <2>2
  <2>3. QED BY <2>1, <2>2
<1>2. Recycled(n, s, t) = Unmap(rest, t)
  BY DEF Recycled
<1> HIDE DEF rest
<1>3. \A i \in 1..Len(rest) : rest[i].tag # t
  <2>1. \A i \in 1..Len(s) : s[i].tag # t
    BY SoundHolds
  <2>2. QED BY <1>0, <1>1, <2>1
<1>4. /\ Len(Unmap(rest, t)) = Len(rest)
      /\ \A i \in 1..Len(rest) :
            Unmap(rest, t)[i] = IF rest[i].tag = t THEN [rest[i] EXCEPT !.live = FALSE] ELSE rest[i]
  BY <1>1, UnmapProperties
<1>5. Len(rest) \in Nat /\ \A i \in 1..Len(rest) : i \in 1..Len(s) /\ Unmap(rest, t)[i] = s[i]
  <2>1. \A i \in 1..Len(rest) : Unmap(rest, t)[i] = rest[i]
    BY <1>3, <1>4
  <2>2. Len(rest) \in Nat
    BY <1>1
  <2>3. \A i \in 1..Len(rest) : i \in 1..Len(s)
    BY <1>0, <1>1, <2>2
  <2>4. QED BY <1>1, <2>1, <2>2, <2>3
<1>6. QED BY <1>2, <1>4, <1>5 DEF Sound

\* A miss in the PCC, followed by the insertion.
LEMMA PccInsert ==
    ASSUME NEW s \in PccSet, Sound(s), NEW t \in Base, ~Holds(s, t),
           NEW o \in 0..(PagesPerRegion - 1)
    PROVE  /\ InsertSet(2, PccSize, s, t, o) \in PccSet
           /\ Sound(InsertSet(2, PccSize, s, t, o))
           /\ HoldsOnly(InsertSet(2, PccSize, s, t, o), s, {t})
           /\ s = <<>> => /\ Len(InsertSet(2, PccSize, s, t, o)) = 1
                          /\ InsertSet(2, PccSize, s, t, o)[1].freq = 0
<1> DEFINE F == 0..(MaxFreq - 1)
           O == 0..(PagesPerRegion - 1)
           e == [tag |-> t, freq |-> 0, offset |-> o, live |-> TRUE]
           rest == Recycled(PccSize, s, t)
           r == InsertSet(2, PccSize, s, t, o)
<1>0. /\ s \in Seq(LineOf(Base, F, O)) /\ Len(s) <= PccSize /\ PccSize \in Nat \ {0}
      /\ 0 \in F /\ F \in SUBSET Nat /\ o \in O
  BY Sizes DEF PccSet, PccLine
<1>1. e \in LineOf(Base, F, O) /\ e.live /\ e.tag = t /\ e.freq = 0
  BY <1>0 DEF LineOf
<1>2. r = PlaceLine(2, rest, e)
  BY DEF InsertSet, Recycled
<1>3. r \in PccSet
  <2> HIDE DEF F, O
  <2>1. r \in Seq(LineOf(Base, F, O)) /\ Len(r) <= PccSize
    BY <1>0, InsertProperties
  <2>2. QED BY <2>1 DEF PccSet, PccLine, F, O
<1> HIDE DEF F, O, e, r
<1>4. HoldsOnly(r, s, {t})
  <2>1. QED BY <1>0, InsertProperties DEF r
<1>5. rest \in Seq(LineOf(Base, F, O)) /\ Sound(rest) /\ HoldsOnly(rest, s, {})
  BY <1>0, RecycledProperties, RecycledSound
<1> HIDE DEF rest
<1>6. ~Holds(rest, e.tag)
  BY <1>1, <1>5 DEF HoldsOnly
<1>7. WellPlaced(PlaceLine(2, rest, e), rest, e)
  BY <1>0, <1>1, <1>5, <1>6, PlaceSound
<1>8. ASSUME s = <<>> PROVE Len(r) = 1 /\ r[1].freq = 0
  <2>1. Len(rest) = 0
    <3>1. Len(s) = 0 /\ Len(s) # PccSize
      BY <1>0, <1>8
    <3>2. rest = Unmap(s, t)
      BY <3>1 DEF rest, Recycled
    <3>3. Len(Unmap(s, t)) = Len(s)
      BY <1>0, UnmapProperties
    <3>4. QED BY <3>1, <3>2, <3>3
  <2>2. Len(r) = 1 /\ Find(r, e.tag) \in 1..1 /\ r[Find(r, e.tag)] = e
    BY <1>2, <1>7, <2>1 DEF WellPlaced
  <2>3. Find(r, e.tag) = 1
    BY <2>2
  <2>4. QED BY <1>1, <2>2, <2>3
<1>9. QED BY <1>2, <1>3, <1>4, <1>7, <1>8 DEF WellPlaced, r

\* Eviction from the PCC.
LEMMA PccEvict ==
    ASSUME NEW s \in PccSet, Sound(s), NEW t, Holds(s, t)
    PROVE  /\ EvictSet(s, t) \in PccSet
           /\ Len(EvictSet(s, t)) = Len(s) - 1
           /\ Sound(EvictSet(s, t))
           /\ \A u : Holds(EvictSet(s, t), u) <=> Holds(s, u) /\ u # t
<1> DEFINE L == PccLine(0..(MaxFreq - 1))
<1>1. s \in Seq(L) /\ Len(s) <= PccSize /\ PccSize \in Nat
  BY Sizes DEF PccSet
<1> HIDE DEF L
<1>2. /\ EvictSet(s, t) \in Seq(L) /\ Len(EvictSet(s, t)) = Len(s) - 1
      /\ Sound(EvictSet(s, t))
      /\ \A u : Holds(EvictSet(s, t), u) <=> Holds(s, u) /\ u # t
  BY <1>1, EvictSound DEF EvictSet
<1>3. QED BY <1>1, <1>2 DEF PccSet, L

-----------------------------------------------------------------------------
(***************************************************************************)
(* Which tags of the PCC have been hit.                                    *)
(***************************************************************************)
Used(s, u) == \E i \in DOMAIN s : s[i].tag = u /\ s[i].freq > 0

\* Every tag that is used in r was used in s, except those of X.
UsedOnly(r, s, X) == \A u : Used(r, u) => Used(s, u) \/ u \in X

\* The line found for t gives away whether t was hit.
LEMMA FoundUsed ==
    ASSUME NEW S, NEW s \in Seq(S), NEW t, Holds(s, t), s[Find(s, t)].freq > 0
    PROVE  Used(s, t)
BY FoundLine DEF Used

\* An eviction uses no tag.
LEMMA EvictUsed ==
    ASSUME NEW S, NEW s \in Seq(S), NEW t, Holds(s, t)
    PROVE  UsedOnly(EvictSet(s, t), s, {})
<1> DEFINE r == RemoveAt(s, Find(s, t))
<1>1. r \in Seq(S) /\ Unlinked(r, s, Find(s, t))
  BY FoundUnlinks
<1> HIDE DEF r
<1>2. \A j \in 1..Len(r) : \E k \in 1..Len(s) : r[j] = s[k]
  BY <1>1, UnlinkedMembers
<1>3. DOMAIN r = 1..Len(r) /\ DOMAIN s = 1..Len(s)
  BY <1>1
<1>4. UsedOnly(r, s, {})
  BY <1>2, <1>3 DEF UsedOnly, Used
<1>5. QED BY <1>4 DEF EvictSet, r

\* A hit uses no tag but the one it is for, decay included.
LEMMA AccessUsed ==
    ASSUME NEW s \in PccSet, NEW t, Holds(s, t), NEW o \in 0..(PagesPerRegion - 1)
    PROVE  UsedOnly(AccessSet(2, MaxFreq, s, t, o), s, {t})
<1> DEFINE L == PccLine(0..(MaxFreq - 1))
           q == Find(s, t)
           e == [s[q] EXCEPT !.offset = o]
           rest == RemoveAt(s, q)
           placed == PlaceLine(2, rest, e)
           at == Find(placed, t)
           counted == [placed EXCEPT ![at].freq = @ + 1]
           r == AccessSet(2, MaxFreq, s, t, o)
<1>1. s \in Seq(L) /\ MaxFreq \in Nat
  BY Sizes DEF PccSet
<1>2. r = IF counted[at].freq = MaxFreq THEN Decay(counted) ELSE counted
  BY DEF AccessSet
<1>3. /\ q \in 1..Len(s) /\ Len(s) \in Nat /\ s[q].live /\ s[q].tag = t
      /\ rest \in Seq(L) /\ Unlinked(rest, s, q)
  BY <1>1, FoundLine, FoundUnlinks
<1> HIDE DEF q, rest, r
<1>4. s[q] \in L
  BY <1>1, <1>3
<1>5. e \in L /\ e.tag = t /\ e.live
  BY <1>3, <1>4 DEF PccLine, LineOf
<1>6. \A x \in L : x.freq \in Nat
  BY <1>1 DEF PccLine, LineOf
<1> HIDE DEF e, L
<1>7. placed \in Seq(L) /\ \E p \in 1..(Len(rest) + 1) : Linked(placed, rest, p, e)
  <2>1. 2 # 0
    OBVIOUS
  <2>2. QED BY <1>3, <1>5, <2>1, PlaceLineLinks
<1> HIDE DEF placed
<1>8. PICK p : Linked(placed, rest, p, e)
  BY <1>7
<1>9. /\ placed[p] = e /\ p \in 1..Len(placed)
      /\ \A j \in 1..Len(placed) : j # p => \E k \in 1..Len(rest) : placed[j] = rest[k]
  BY <1>8, LinkedMembers
<1>10. \A j \in 1..Len(rest) : \E k \in 1..Len(s) : rest[j] = s[k]
  BY <1>3, UnlinkedMembers
<1>11. DOMAIN placed = 1..Len(placed) /\ DOMAIN s = 1..Len(s)
  BY <1>1, <1>7
<1>12. at \in 1..Len(placed) /\ placed[at].tag = t
  <2>1. Holds(placed, t)
    BY <1>5, <1>9, <1>11 DEF Holds
  <2>2. QED BY <1>7, <2>1, FoundLine
<1> HIDE DEF at
<1>13. DOMAIN counted = 1..Len(placed) /\ \A i \in 1..Len(placed) : i # at => counted[i] = placed[i]
  BY <1>11
<1>14. counted[at].tag = t
  <2>1. placed[at] \in L
    BY <1>7, <1>12
  <2>2. counted[at] = [placed[at] EXCEPT !.freq = @ + 1]
    BY <1>11, <1>12
  <2>3. QED BY <1>12, <2>1, <2>2 DEF L, PccLine, LineOf
<1>15. \A i \in 1..Len(placed) : placed[i] \in L /\ placed[i].freq \in Nat
  BY <1>6, <1>7
<1> HIDE DEF counted
<1>16. ASSUME NEW i \in 1..Len(placed), r[i].freq > 0, r[i].tag # t
       PROVE  r[i].tag = placed[i].tag /\ placed[i].freq > 0
  <2>1. CASE r = counted
    BY <1>13, <1>14, <1>16, <2>1
  <2>2. CASE r = Decay(counted)
    <3>1. r[i] = [counted[i] EXCEPT !.freq = @ \div 2]
      BY <1>13, <2>2 DEF Decay
    <3>2. i # at
      <4>1. ASSUME i = at PROVE r[i].tag = t
        BY <1>14, <3>1, <4>1
      <4>2. QED BY <1>16, <4>1
    <3>3. counted[i] = placed[i]
      BY <1>13, <3>2
    <3>4. r[i].tag = placed[i].tag /\ r[i].freq = placed[i].freq \div 2
      BY <1>15, <3>1, <3>3 DEF L, PccLine, LineOf
    <3>5. \A x \in Nat : x \div 2 > 0 => x > 0
      OBVIOUS
    <3>6. QED BY <1>15, <1>16, <3>4, <3>5
  <2>3. QED BY <1>2, <2>1, <2>2
<1>17. DOMAIN r = 1..Len(placed)
  BY <1>2, <1>13 DEF Decay
<1>18. ASSUME NEW u, Used(r, u), u # t PROVE Used(s, u)
  <2>1. PICK i \in 1..Len(placed) : r[i].tag = u /\ r[i].freq > 0
    BY <1>17, <1>18 DEF Used
  <2>2. placed[i].tag = u /\ placed[i].freq > 0
    BY <1>16, <1>18, <2>1
  <2>3. i # p
    BY <1>5, <1>9, <1>18, <2>2
  <2>4. PICK k \in 1..Len(s) : placed[i] = s[k]
    BY <1>9, <1>10, <2>3
  <2>5. QED BY <1>11, <2>2, <2>4 DEF Used
<1>19. QED BY <1>18 DEF UsedOnly, r

\* An insertion uses no tag.
LEMMA InsertUsed ==
    ASSUME NEW s \in PccSet, NEW t \in Base, NEW o \in 0..(PagesPerRegion - 1)
    PROVE  UsedOnly(InsertSet(2, PccSize, s, t, o), s, {})
<1> DEFINE F == 0..(MaxFreq - 1)
           O == 0..(PagesPerRegion - 1)
           L == LineOf(Base, F, O)
           e == [tag |-> t, freq |-> 0, offset |-> o, live |-> TRUE]
           front == IF Len(s) = PccSize THEN Unmap(Front(s), Last(s).tag) ELSE s
           rest == Unmap(front, t)
           r == PlaceLine(2, rest, e)
<1>1. s \in Seq(L) /\ Len(s) <= PccSize /\ PccSize \in Nat \ {0} /\ 0 \in F /\ o \in O
  BY Sizes DEF PccSet, PccLine
<1>2. InsertSet(2, PccSize, s, t, o) = r
  BY DEF InsertSet
<1>3. e \in L /\ ~(e.freq > 0)
  BY <1>1 DEF LineOf
<1> HIDE DEF F, O, e
<1>4. ASSUME NEW x \in Seq(L), NEW u PROVE Unmap(x, u) \in Seq(L) /\ UsedOnly(Unmap(x, u), x, {})
  <2> DEFINE y == Unmap(x, u)
  <2>1. /\ y \in Seq(L) /\ Len(y) = Len(x)
        /\ \A i \in 1..Len(x) : y[i] = IF x[i].tag = u THEN [x[i] EXCEPT !.live = FALSE] ELSE x[i]
    BY <1>4, UnmapProperties
  <2> HIDE DEF y
  <2>2. DOMAIN x = 1..Len(x) /\ DOMAIN y = 1..Len(x) /\ \A i \in 1..Len(x) : x[i] \in L
    BY <1>4, <2>1
  <2>3. \A i \in 1..Len(x) : y[i].tag = x[i].tag /\ y[i].freq = x[i].freq
    BY <2>1, <2>2 DEF LineOf
  <2>4. UsedOnly(y, x, {})
    BY <2>2, <2>3 DEF UsedOnly, Used
  <2>5. QED BY <2>1, <2>4 DEF y
<1> HIDE DEF L
<1>5. front \in Seq(L) /\ UsedOnly(front, s, {})
  <2>1. CASE Len(s) = PccSize
    <3>1. /\ Front(s) \in Seq(L) /\ Len(Front(s)) = Len(s) - 1
          /\ \A i \in 1..(Len(s) - 1) : Front(s)[i] = s[i]
      BY <1>1, <2>1, FrontProperties
    <3>2. DOMAIN Front(s) = 1..(Len(s) - 1) /\ DOMAIN s = 1..Len(s) /\ Len(s) \in Nat
      BY <1>1, <3>1
    <3>3. \A i \in 1..(Len(s) - 1) : i \in 1..Len(s)
      BY <3>2
    <3>4. UsedOnly(Front(s), s, {})
      BY <3>1, <3>2, <3>3 DEF UsedOnly, Used
    <3>5. /\ Unmap(Front(s), Last(s).tag) \in Seq(L)
          /\ UsedOnly(Unmap(Front(s), Last(s).tag), Front(s), {})
      BY <1>4, <3>1
    <3>6. QED BY <2>1, <3>4, <3>5 DEF UsedOnly
  <2>2. CASE Len(s) # PccSize
    BY <1>1, <2>2 DEF UsedOnly
  <2>3. QED BY <2>1, <2>2
<1> HIDE DEF front
<1>6. rest \in Seq(L) /\ UsedOnly(rest, front, {})
  BY <1>4, <1>5
<1> HIDE DEF rest
<1>7. r \in Seq(L) /\ \E p \in 1..(Len(rest) + 1) : Linked(r, rest, p, e)
  <2>1. 2 # 0
    OBVIOUS
  <2>2. QED BY <1>3, <1>6, <2>1, PlaceLineLinks
<1> HIDE DEF r
<1>8. PICK p : Linked(r, rest, p, e)
  BY <1>7
<1>9. /\ r[p] = e
      /\ \A j \in 1..Len(r) : j # p => \E k \in 1..Len(rest) : r[j] = rest[k]
  BY <1>8, LinkedMembers
<1>10. DOMAIN r = 1..Len(r) /\ DOMAIN rest = 1..Len(rest)
  BY <1>6, <1>7
<1>11. ASSUME NEW u, Used(r, u) PROVE Used(rest, u)
  <2>1. PICK j \in 1..Len(r) : r[j].tag = u /\ r[j].freq > 0
    BY <1>10, <1>11 DEF Used
  <2>2. j # p
    BY <1>3, <1>9, <2>1
  <2>3. QED BY <1>9, <1>10, <2>1, <2>2 DEF Used
<1>12. QED BY <1>2, <1>5, <1>6, <1>11 DEF UsedOnly

-----------------------------------------------------------------------------
(***************************************************************************)
(* The machine.                                                            *)
(***************************************************************************)
MachineSet ==
    [l1_4k : Tlb(Page, L1Sets4K, L1Assoc), l1_2m : Tlb(Region, L1Sets2M, L1Assoc),
     l2 : Tlb(Page \cup Region, L2Sets, L2Assoc), pcc : PccSet,
     reuse : [Base -> {"absent", "cold", "tracked"}],
     promoted : SUBSET Base, evicted : Base \cup {None}]

\* The machine a simulated core starts with.
LEMMA EmptyMachine ==
    LET c == [l1_4k |-> EmptyTlb(L1Sets4K), l1_2m |-> EmptyTlb(L1Sets2M),
              l2 |-> EmptyTlb(L2Sets), pcc |-> <<>>,
              reuse |-> [b \in Base |-> "absent"], promoted |-> {}, evicted |-> None]
    IN  c \in MachineSet /\ c.pcc = <<>>
<1>1. ASSUME NEW T, NEW k, NEW n \in Nat PROVE EmptyTlb(k) \in Tlb(T, k, n)
  <2>1. <<>> \in TlbSet(T, n)
    BY DEF TlbSet
  <2>2. QED BY <2>1 DEF EmptyTlb, Tlb
<1>2. L1Assoc \in Nat /\ L2Assoc \in Nat /\ PccSize \in Nat
  BY Sizes
<1>3. <<>> \in PccSet
  BY <1>2 DEF PccSet
<1>4. /\ EmptyTlb(L1Sets4K) \in Tlb(Page, L1Sets4K, L1Assoc)
      /\ EmptyTlb(L1Sets2M) \in Tlb(Region, L1Sets2M, L1Assoc)
      /\ EmptyTlb(L2Sets) \in Tlb(Page \cup Region, L2Sets, L2Assoc)
  BY <1>1, <1>2
<1>5. QED BY <1>3, <1>4 DEF MachineSet

\* No number hits in an empty TLB.
LEMMA EmptyMisses ==
    ASSUME NEW k \in Nat \ {0}, NEW x \in Nat
    PROVE  ~CacheHit(EmptyTlb(k), x)
<1>1. DOMAIN EmptyTlb(k) = 0..(k - 1)
  BY DEF EmptyTlb
<1>2. SetOf(EmptyTlb(k), x) \in 0..(k - 1)
  BY <1>1, SetOfRange
<1>3. EmptyTlb(k)[SetOf(EmptyTlb(k), x)] = <<>>
  BY <1>2 DEF EmptyTlb
<1>4. QED BY <1>3 DEF CacheHit, Holds

\* A machine of the right type satisfies the type invariants' parts.
LEMMA MachineLines ==
    ASSUME NEW m \in MachineSet
    PROVE  /\ \A k \in 0..(L1Sets4K - 1) : LinesOK(m.l1_4k[k], L1Assoc, Page, {0}, {0})
           /\ \A k \in 0..(L1Sets2M - 1) : LinesOK(m.l1_2m[k], L1Assoc, Region, {0}, {0})
           /\ \A k \in 0..(L2Sets - 1) : LinesOK(m.l2[k], L2Assoc, Page \cup Region, {0}, {0})
           /\ LinesOK(m.pcc, PccSize, Base, 0..(PagesPerRegion - 1), 0..(MaxFreq - 1))
           /\ m.reuse \in [Base -> {"absent", "cold", "tracked"}]
           /\ m.promoted \in SUBSET Base /\ m.evicted \in Base \cup {None}
<1>1. ASSUME NEW T, NEW n, NEW s \in TlbSet(T, n) PROVE LinesOK(s, n, T, {0}, {0})
  <2>1. s \in Seq(TlbLine(T)) /\ Len(s) <= n
    BY <1>1 DEF TlbSet
  <2>2. \A i \in DOMAIN s : s[i] \in TlbLine(T)
    BY <2>1
  <2>3. QED BY <2>1, <2>2 DEF TlbLine, LineOf, LinesOK
<1>2. ASSUME NEW T, NEW k, NEW n, NEW c \in Tlb(T, k, n), NEW i \in 0..(k - 1)
      PROVE  LinesOK(c[i], n, T, {0}, {0})
  BY <1>1, <1>2 DEF Tlb
<1>3. ASSUME NEW s \in PccSet
      PROVE  LinesOK(s, PccSize, Base, 0..(PagesPerRegion - 1), 0..(MaxFreq - 1))
  <2> DEFINE L == PccLine(0..(MaxFreq - 1))
  <2>1. s \in Seq(L) /\ Len(s) <= PccSize
    BY <1>3 DEF PccSet
  <2> HIDE DEF L
  <2>2. \A i \in DOMAIN s : s[i] \in L
    BY <2>1
  <2>3. QED BY <2>1, <2>2 DEF L, PccLine, LineOf, LinesOK
<1>4. /\ m.l1_4k \in Tlb(Page, L1Sets4K, L1Assoc) /\ m.l1_2m \in Tlb(Region, L1Sets2M, L1Assoc)
      /\ m.l2 \in Tlb(Page \cup Region, L2Sets, L2Assoc) /\ m.pcc \in PccSet
      /\ m.reuse \in [Base -> {"absent", "cold", "tracked"}]
      /\ m.promoted \in SUBSET Base /\ m.evicted \in Base \cup {None}
  BY DEF MachineSet
<1>5. QED BY <1>2, <1>3, <1>4

\* A 2MB translation exists only for a promoted region, and no page of a
\* region of D is translated by a 4KB entry of the L2 TLB.
TlbGood(m, D) ==
    /\ \A b \in Region : CacheHit(m.l1_2m, b) \/ CacheHit(m.l2, b) => b \in m.promoted
    /\ \A p \in Page : BaseOf(p) \in D => ~CacheHit(m.l2, p)

\* No region of D is in the PCC.
PccFresh(m, D) == \A b \in Region \cap D : ~Holds(m.pcc, b)

\* The numbers involved.
LEMMA Numbers ==
    /\ Region \in SUBSET Nat
    /\ \A p \in Page : p \in Nat /\ BaseOf(p) \in Region /\ BaseOf(p) \in Nat
    /\ \A b \in Region : b \in Nat /\ b \in Base /\ BaseOf(b) \in Base
    /\ \A b \in Region : b % PagesPerRegion \in 0..(PagesPerRegion - 1)
    /\ 0 \in 0..(PagesPerRegion - 1)
    /\ Page \cup Region \in SUBSET Nat
<1>1. Page \in SUBSET Nat /\ PagesPerRegion \in Nat \ {0}
  BY Sizes
<1>2. \A p \in Page : p \in Nat /\ BaseOf(p) \in Region /\ BaseOf(p) \in Nat
  BY <1>1 DEF BaseOf, Region
<1>3. Region \in SUBSET Nat
  BY <1>2 DEF Region
<1>4. \A b \in Region : b \in Base /\ BaseOf(b) \in Base
  BY DEF Base
<1>5. \A b \in Nat : b % PagesPerRegion \in 0..(PagesPerRegion - 1)
  BY <1>1
<1>6. QED BY <1>1, <1>2, <1>3, <1>4, <1>5

\* n differs from m only in its TLBs and its last victim; only numbers of X
\* are new in the 2MB L1 TLB and only numbers of Y in the L2 TLB.
TlbStep(n, m, X, Y) ==
    /\ n \in MachineSet
    /\ n.pcc = m.pcc /\ n.reuse = m.reuse /\ n.promoted = m.promoted
    /\ HitsOnly(n.l1_2m, m.l1_2m, X)
    /\ HitsOnly(n.l2, m.l2, Y)

\* Two steps of the TLBs make one.
LEMMA TlbSteps ==
    ASSUME NEW m, NEW n, NEW o, NEW X, NEW Y, NEW Z, NEW W,
           TlbStep(n, m, X, Y), TlbStep(o, n, Z, W)
    PROVE  TlbStep(o, m, X \cup Z, Y \cup W)
BY DEF TlbStep, HitsOnly

\* The lookups in the L1 TLBs bring nothing in.
LEMMA LookupL1Step ==
    ASSUME NEW m \in MachineSet, NEW p \in Page
    PROVE  TlbStep(LookupL1(m, p), m, {}, {})
<1> DEFINE x == CacheAccess(m.l1_4k, p)
           y == CacheAccess(m.l1_2m, BaseOf(p))
           n == [m EXCEPT !.l1_4k = x, !.l1_2m = y]
<1>1. LookupL1(m, p) = n
  BY DEF LookupL1
<1>2. p \in Nat /\ BaseOf(p) \in Nat
  BY Numbers
<1>3. m.l1_4k \in Tlb(Page, L1Sets4K, L1Assoc) /\ m.l1_2m \in Tlb(Region, L1Sets2M, L1Assoc)
  BY DEF MachineSet
<1>4. x \in Tlb(Page, L1Sets4K, L1Assoc)
  BY <1>2, <1>3, Sizes, TlbAccess
<1>5. y \in Tlb(Region, L1Sets2M, L1Assoc) /\ HitsOnly(y, m.l1_2m, {})
  BY <1>2, <1>3, Sizes, TlbAccess
<1> HIDE DEF x, y
<1>6. n \in MachineSet /\ n.l1_2m = y /\ n.l2 = m.l2
      /\ n.pcc = m.pcc /\ n.reuse = m.reuse /\ n.promoted = m.promoted
  BY <1>4, <1>5 DEF MachineSet
<1>7. QED BY <1>1, <1>5, <1>6 DEF TlbStep, HitsOnly

\* The 4KB L1 TLB plays no part in the 2MB translations and in the L2 TLB.
LEMMA FillL1_4kStep ==
    ASSUME NEW m \in MachineSet, NEW p \in Page
    PROVE  TlbStep(FillL1_4k(m, p), m, {}, {})
<1> DEFINE x == CacheInsert(m.l1_4k, L1Assoc, p)
           v == EvictedBy(m.l1_4k[SetOf(m.l1_4k, p)], L1Assoc, m.evicted)
           n == [m EXCEPT !.l1_4k = x, !.evicted = v]
<1>1. FillL1_4k(m, p) = n
  BY DEF FillL1_4k
<1>2. m.l1_4k \in Tlb(Page, L1Sets4K, L1Assoc) /\ m.evicted \in Base \cup {None}
  BY DEF MachineSet
<1>3. x \in Tlb(Page, L1Sets4K, L1Assoc)
  BY <1>2, Sizes, TlbInsert
<1>4. v \in Base \cup {None}
  BY <1>2 DEF EvictedBy
<1> HIDE DEF x, v
<1>5. n \in MachineSet /\ n.l1_2m = m.l1_2m /\ n.l2 = m.l2
      /\ n.pcc = m.pcc /\ n.reuse = m.reuse /\ n.promoted = m.promoted
  BY <1>3, <1>4 DEF MachineSet
<1>6. QED BY <1>1, <1>5 DEF TlbStep, HitsOnly

\* The 2MB L1 TLB gets the region of the page and nothing else.
LEMMA FillL1_2mStep ==
    ASSUME NEW m \in MachineSet, NEW p \in Page
    PROVE  TlbStep(FillL1_2m(m, p), m, {BaseOf(p)}, {})
<1> DEFINE x == CacheInsert(m.l1_2m, L1Assoc, BaseOf(p))
           n == [m EXCEPT !.l1_2m = x]
<1>1. FillL1_2m(m, p) = n
  BY DEF FillL1_2m
<1>2. m.l1_2m \in Tlb(Region, L1Sets2M, L1Assoc) /\ BaseOf(p) \in Region /\ Region \in SUBSET Nat
  BY Numbers DEF MachineSet
<1>3. x \in Tlb(Region, L1Sets2M, L1Assoc) /\ HitsOnly(x, m.l1_2m, {BaseOf(p)})
  BY <1>2, Sizes, TlbInsert
<1> HIDE DEF x
<1>4. n \in MachineSet /\ n.l1_2m = x /\ n.l2 = m.l2
      /\ n.pcc = m.pcc /\ n.reuse = m.reuse /\ n.promoted = m.promoted
  BY <1>3 DEF MachineSet
<1>5. QED BY <1>1, <1>3, <1>4 DEF TlbStep, HitsOnly

\* The L2 TLB is looked up, and filled.
LEMMA L2Step ==
    ASSUME NEW m \in MachineSet, NEW x \in Page \cup Region
    PROVE  /\ TlbStep([m EXCEPT !.l2 = CacheAccess(@, x)], m, {}, {})
           /\ TlbStep([m EXCEPT !.l2 = CacheInsert(@, L2Assoc, x)], m, {}, {x})
<1> DEFINE T == Page \cup Region
           c == CacheAccess(m.l2, x)
           d == CacheInsert(m.l2, L2Assoc, x)
<1>1. m.l2 \in Tlb(T, L2Sets, L2Assoc) /\ T \in SUBSET Nat /\ x \in T /\ x \in Nat
  BY Numbers DEF MachineSet
<1> HIDE DEF T
<1>2. c \in Tlb(T, L2Sets, L2Assoc) /\ HitsOnly(c, m.l2, {})
  BY <1>1, Sizes, TlbAccess
<1>3. d \in Tlb(T, L2Sets, L2Assoc) /\ HitsOnly(d, m.l2, {x})
  BY <1>1, Sizes, TlbInsert
<1> HIDE DEF c, d
<1>4. ASSUME NEW y \in Tlb(T, L2Sets, L2Assoc), NEW Y, HitsOnly(y, m.l2, Y)
      PROVE  TlbStep([m EXCEPT !.l2 = y], m, {}, Y)
  <2> DEFINE n == [m EXCEPT !.l2 = y]
  <2>1. n \in MachineSet /\ n.l1_2m = m.l1_2m /\ n.l2 = y
        /\ n.pcc = m.pcc /\ n.reuse = m.reuse /\ n.promoted = m.promoted
    BY DEF MachineSet, T
  <2> HIDE DEF n
  <2>2. TlbStep(n, m, {}, Y)
    BY <1>4, <2>1 DEF TlbStep, HitsOnly
  <2>3. QED BY <2>2 DEF n
<1>5. TlbStep([m EXCEPT !.l2 = c], m, {}, {}) /\ TlbStep([m EXCEPT !.l2 = d], m, {}, {x})
  BY <1>2, <1>3, <1>4
<1>6. QED BY <1>5 DEF c, d

\* A page table walk fills with the size the page has now.
LEMMA WalkStep ==
    ASSUME NEW m \in MachineSet, NEW p \in Page
    PROVE  \/ BaseOf(p) \in m.promoted /\ TlbStep(Walk(m, p), m, {BaseOf(p)}, {BaseOf(p)})
           \/ BaseOf(p) \notin m.promoted /\ TlbStep(Walk(m, p), m, {}, {p})
<1> DEFINE x == IF BaseOf(p) \in m.promoted THEN BaseOf(p) ELSE p
           inL2 == [m EXCEPT !.l2 = CacheInsert(@, L2Assoc, x)]
           filled == FillBySize(m, p)
<1>1. x \in Page \cup Region
  BY Numbers
<1>2. TlbStep(inL2, m, {}, {x})
  <2> HIDE DEF x
  <2>1. QED BY <1>1, L2Step
<1>3. inL2 \in MachineSet
  BY <1>2 DEF TlbStep
<1>4. filled = IF BaseOf(p) \in m.promoted THEN FillL1_2m(inL2, p) ELSE FillL1_4k(inL2, p)
  BY DEF FillBySize
<1> HIDE DEF inL2, filled
<1>5. CASE BaseOf(p) \in m.promoted
  <2>1. TlbStep(filled, inL2, {BaseOf(p)}, {})
    BY <1>3, <1>4, <1>5, FillL1_2mStep
  <2>2. filled \in MachineSet
    BY <2>1 DEF TlbStep
  <2>3. TlbStep(Walk(m, p), filled, {}, {})
    BY <2>2, FillL1_4kStep DEF Walk, filled
  <2>4. x = BaseOf(p)
    BY <1>5
  <2> HIDE DEF x
  <2>5. TlbStep(Walk(m, p), inL2, {BaseOf(p)} \cup {}, {} \cup {})
    BY <2>1, <2>3, TlbSteps
  <2>6. TlbStep(Walk(m, p), m, {} \cup ({BaseOf(p)} \cup {}), {x} \cup ({} \cup {}))
    BY <1>2, <2>5, TlbSteps
  <2>7. {} \cup ({BaseOf(p)} \cup {}) = {BaseOf(p)} /\ {x} \cup ({} \cup {}) = {BaseOf(p)}
    BY <2>4
  <2>8. QED BY <1>5, <2>6, <2>7
<1>6. CASE BaseOf(p) \notin m.promoted
  <2>1. TlbStep(filled, inL2, {}, {})
    BY <1>3, <1>4, <1>6, FillL1_4kStep
  <2>2. filled \in MachineSet
    BY <2>1 DEF TlbStep
  <2>3. TlbStep(Walk(m, p), filled, {}, {})
    BY <2>2, FillL1_4kStep DEF Walk, filled
  <2>4. x = p
    BY <1>6
  <2> HIDE DEF x
  <2>5. TlbStep(Walk(m, p), inL2, {} \cup {}, {} \cup {})
    BY <2>1, <2>3, TlbSteps
  <2>6. TlbStep(Walk(m, p), m, {} \cup ({} \cup {}), {x} \cup ({} \cup {}))
    BY <1>2, <2>5, TlbSteps
  <2>7. {} \cup ({} \cup {}) = {} /\ {x} \cup ({} \cup {}) = {p}
    BY <2>4
  <2>8. QED BY <1>6, <2>6, <2>7
<1>7. QED BY <1>5, <1>6

\* A step keeps the TLBs good if the 2MB numbers it adds are promoted and the
\* page it adds is not in a region of D.
LEMMA StepGood ==
    ASSUME NEW m, NEW n, NEW X, NEW Y, NEW D, TlbStep(n, m, X, Y), TlbGood(m, D),
           X \subseteq m.promoted,
           \A y \in Y : \/ y \in Region /\ y \in m.promoted
                        \/ y \in Page /\ BaseOf(y) \notin D
    PROVE  TlbGood(n, D)
<1>1. \A b \in Region : b \in Nat /\ b \notin Page
  BY Numbers, LayoutAssumption
<1>2. \A p \in Page : p \in Nat /\ p \notin Region
  BY Numbers, LayoutAssumption
<1>3. ASSUME NEW b \in Region, CacheHit(n.l1_2m, b) \/ CacheHit(n.l2, b) PROVE b \in n.promoted
  BY <1>1, <1>3 DEF TlbStep, TlbGood, HitsOnly
<1>4. ASSUME NEW p \in Page, BaseOf(p) \in D, CacheHit(n.l2, p) PROVE FALSE
  BY <1>2, <1>4 DEF TlbStep, TlbGood, HitsOnly
<1>5. QED BY <1>3, <1>4 DEF TlbGood

\* What a lookup adds to the TLBs: nothing on a hit of the page, the region
\* on a hit of the region, and on a walk the page or, if it is promoted, its
\* region.
LEMMA TlbPaths ==
    ASSUME NEW m \in MachineSet, NEW p \in Page
    PROVE  LET n == LookupL1(m, p)
           IN  /\ TlbStep(n, m, {}, {})
               /\ TlbStep(L2Hit4k(n, p), m, {}, {})
               /\ TlbStep(L2Hit2m(n, p), m, {BaseOf(p)}, {})
               /\ \/ BaseOf(p) \in m.promoted /\ TlbStep(Walk(n, p), m, {BaseOf(p)}, {BaseOf(p)})
                  \/ BaseOf(p) \notin m.promoted /\ TlbStep(Walk(n, p), m, {}, {p})
<1> DEFINE n == LookupL1(m, p)
<1>0. /\ p \in Page \cup Region /\ BaseOf(p) \in Page \cup Region
      /\ \A X : {} \cup X = X
  BY Numbers
<1>1. TlbStep(n, m, {}, {})
  BY LookupL1Step
<1> HIDE DEF n
<1>2. n \in MachineSet /\ n.promoted = m.promoted
  BY <1>1 DEF TlbStep
<1>3. ASSUME NEW o, NEW X, NEW Y, TlbStep(o, n, X, Y) PROVE TlbStep(o, m, X, Y)
  <2>1. TlbStep(o, m, {} \cup X, {} \cup Y)
    BY <1>1, <1>3, TlbSteps
  <2>2. QED BY <1>0, <2>1
<1>4. TlbStep(L2Hit4k(n, p), m, {}, {})
  <2> DEFINE o == [n EXCEPT !.l2 = CacheAccess(@, p)]
  <2>1. TlbStep(o, n, {}, {})
    BY <1>0, <1>2, L2Step
  <2> HIDE DEF o
  <2>2. TlbStep(FillL1_4k(o, p), o, {}, {})
    BY <2>1, FillL1_4kStep DEF TlbStep
  <2>3. TlbStep(FillL1_4k(o, p), n, {} \cup {}, {} \cup {})
    BY <2>1, <2>2, TlbSteps
  <2>4. QED BY <1>0, <1>3, <2>3 DEF L2Hit4k, o
<1>5. TlbStep(L2Hit2m(n, p), m, {BaseOf(p)}, {})
  <2> DEFINE o == [n EXCEPT !.l2 = CacheAccess(@, BaseOf(p))]
  <2>1. TlbStep(o, n, {}, {})
    BY <1>0, <1>2, L2Step
  <2> HIDE DEF o
  <2>2. TlbStep(FillL1_2m(o, p), o, {BaseOf(p)}, {})
    BY <2>1, FillL1_2mStep DEF TlbStep
  <2>3. TlbStep(FillL1_2m(o, p), n, {} \cup {BaseOf(p)}, {} \cup {})
    BY <2>1, <2>2, TlbSteps
  <2>4. QED BY <1>0, <1>3, <2>3 DEF L2Hit2m, o
<1>6. \/ BaseOf(p) \in m.promoted /\ TlbStep(Walk(n, p), m, {BaseOf(p)}, {BaseOf(p)})
      \/ BaseOf(p) \notin m.promoted /\ TlbStep(Walk(n, p), m, {}, {p})
  BY <1>2, <1>3, WalkStep
<1>7. QED BY <1>1, <1>4, <1>5, <1>6 DEF n

\* The TLBs stay good on a hit in either level and on a walk.
LEMMA TlbsStayGood ==
    ASSUME NEW m \in MachineSet, NEW p \in Page, NEW D \in SUBSET m.promoted, TlbGood(m, D)
    PROVE  LET n == LookupL1(m, p)
           IN  /\ TlbGood(n, D)
               /\ TlbGood(L2Hit4k(n, p), D)
               /\ CacheHit(m.l2, BaseOf(p)) => TlbGood(L2Hit2m(n, p), D)
               /\ TlbGood(Walk(n, p), D)
<1> DEFINE n == LookupL1(m, p)
<1>0. BaseOf(p) \in Region
  BY Numbers
<1>1. /\ TlbStep(n, m, {}, {})
      /\ TlbStep(L2Hit4k(n, p), m, {}, {})
      /\ TlbStep(L2Hit2m(n, p), m, {BaseOf(p)}, {})
      /\ \/ BaseOf(p) \in m.promoted /\ TlbStep(Walk(n, p), m, {BaseOf(p)}, {BaseOf(p)})
         \/ BaseOf(p) \notin m.promoted /\ TlbStep(Walk(n, p), m, {}, {p})
  BY TlbPaths
<1> HIDE DEF n
<1>2. TlbGood(n, D) /\ TlbGood(L2Hit4k(n, p), D)
  BY <1>1, StepGood
<1>3. ASSUME CacheHit(m.l2, BaseOf(p)) PROVE TlbGood(L2Hit2m(n, p), D)
  <2>1. BaseOf(p) \in m.promoted
    BY <1>0, <1>3 DEF TlbGood
  <2>2. QED BY <1>1, <2>1, StepGood
<1>4. TlbGood(Walk(n, p), D)
  <2>1. CASE BaseOf(p) \in m.promoted
    BY <1>0, <1>1, <2>1, StepGood
  <2>2. CASE BaseOf(p) \notin m.promoted
    <3>1. BaseOf(p) \notin D
      BY <2>2
    <3>2. QED BY <1>1, <2>2, <3>1, StepGood
  <2>3. QED BY <2>1, <2>2
<1>5. QED BY <1>2, <1>3, <1>4 DEF n

-----------------------------------------------------------------------------
(***************************************************************************)
(* The promotion cache logic.                                              *)
(***************************************************************************)
\* n differs from m only in its PCC, its reuse map and its last victim, and
\* only tags of X are new in the PCC.
PccStep(n, m, X) ==
    /\ n \in MachineSet /\ Sound(n.pcc)
    /\ n.l1_4k = m.l1_4k /\ n.l1_2m = m.l1_2m /\ n.l2 = m.l2 /\ n.promoted = m.promoted
    /\ HoldsOnly(n.pcc, m.pcc, X)

\* At most one line, and that one never hit.
AtMostNew(s) == Len(s) <= 1 /\ \A i \in 1..Len(s) : s[i].freq = 0

\* The access to the PCC brings in at most the tag of the region.
LEMMA TouchPccStep ==
    ASSUME NEW m \in MachineSet, Sound(m.pcc), NEW base \in Region
    PROVE  /\ PccStep(TouchPcc(m, base), m, {PccTag(m, base)})
           /\ TouchPcc(m, base).reuse = m.reuse
           /\ m.pcc = <<>> => AtMostNew(TouchPcc(m, base).pcc)
<1> DEFINE tag == PccTag(m, base)
           off == PccOffset(m, base)
           x == AccessSet(2, MaxFreq, m.pcc, tag, off)
           y == InsertSet(2, PccSize, m.pcc, tag, off)
           v == EvictedBy(m.pcc, PccSize, m.evicted)
<1>1. tag \in Base /\ off \in 0..(PagesPerRegion - 1)
  BY Numbers DEF PccTag, PccOffset
<1>2. m.pcc \in PccSet /\ v \in Base \cup {None}
  BY DEF MachineSet, EvictedBy
<1>3. TouchPcc(m, base) = IF Holds(m.pcc, tag) THEN [m EXCEPT !.pcc = x]
                          ELSE [m EXCEPT !.pcc = y, !.evicted = v]
  BY DEF TouchPcc, PccHit
<1> HIDE DEF tag, off, v
<1>4. CASE Holds(m.pcc, tag)
  <2>1. x \in PccSet /\ Sound(x) /\ HoldsOnly(x, m.pcc, {})
    BY <1>1, <1>2, <1>4, PccAccess
  <2> HIDE DEF x
  <2> DEFINE n == [m EXCEPT !.pcc = x]
  <2>2. /\ n \in MachineSet /\ n.pcc = x /\ n.reuse = m.reuse
        /\ n.l1_4k = m.l1_4k /\ n.l1_2m = m.l1_2m /\ n.l2 = m.l2 /\ n.promoted = m.promoted
    BY <2>1 DEF MachineSet
  <2>3. TouchPcc(m, base) = n
    BY <1>3, <1>4
  <2> HIDE DEF n
  <2>4. m.pcc # <<>>
    BY <1>4 DEF Holds
  <2>5. QED BY <2>1, <2>2, <2>3, <2>4 DEF PccStep, HoldsOnly
<1>5. CASE ~Holds(m.pcc, tag)
  <2>1. /\ y \in PccSet /\ Sound(y) /\ HoldsOnly(y, m.pcc, {tag})
        /\ m.pcc = <<>> => Len(y) = 1 /\ y[1].freq = 0
    BY <1>1, <1>2, <1>5, PccInsert
  <2> HIDE DEF y
  <2> DEFINE n == [m EXCEPT !.pcc = y, !.evicted = v]
  <2>2. /\ n \in MachineSet /\ n.pcc = y /\ n.reuse = m.reuse
        /\ n.l1_4k = m.l1_4k /\ n.l1_2m = m.l1_2m /\ n.l2 = m.l2 /\ n.promoted = m.promoted
    BY <1>2, <2>1 DEF MachineSet
  <2>3. TouchPcc(m, base) = n
    BY <1>3, <1>5
  <2> HIDE DEF n
  <2>4. ASSUME m.pcc = <<>> PROVE AtMostNew(y)
    <3>1. Len(y) = 1 /\ \A i \in 1..1 : y[i].freq = 0
      BY <2>1, <2>4
    <3>2. QED BY <3>1 DEF AtMostNew
  <2>5. QED BY <2>1, <2>2, <2>3, <2>4 DEF PccStep, tag
<1>6. QED BY <1>4, <1>5

\* Recording the access, and resetting the victim's record.
LEMMA RecordStep ==
    ASSUME NEW m \in MachineSet, Sound(m.pcc), NEW base \in Region
    PROVE  /\ PccStep(Record(m, base), m, {}) /\ Record(m, base).pcc = m.pcc
           /\ PccStep(LoseEvicted(m), m, {}) /\ LoseEvicted(m).pcc = m.pcc
<1>1. base \in Base
  BY Numbers
<1>2. m.evicted # None => m.evicted \in Base
  BY DEF MachineSet
<1>3. ASSUME NEW b \in Base, NEW x \in {"cold", "tracked"}
      PROVE  /\ PccStep([m EXCEPT !.reuse[b] = x], m, {})
             /\ [m EXCEPT !.reuse[b] = x].pcc = m.pcc
  <2> DEFINE n == [m EXCEPT !.reuse[b] = x]
  <2>1. /\ n \in MachineSet /\ n.pcc = m.pcc
        /\ n.l1_4k = m.l1_4k /\ n.l1_2m = m.l1_2m /\ n.l2 = m.l2 /\ n.promoted = m.promoted
    BY DEF MachineSet
  <2> HIDE DEF n
  <2>2. PccStep(n, m, {}) /\ n.pcc = m.pcc
    BY <2>1 DEF PccStep, HoldsOnly
  <2>3. QED BY <2>2 DEF n
<1>4. PccStep(m, m, {})
  BY DEF PccStep, HoldsOnly
<1>5. PccStep(Record(m, base), m, {}) /\ Record(m, base).pcc = m.pcc
  BY <1>1, <1>3 DEF Record
<1>6. PccStep(LoseEvicted(m), m, {}) /\ LoseEvicted(m).pcc = m.pcc
  <2>1. CASE m.evicted = None
    BY <1>4, <2>1 DEF LoseEvicted
  <2>2. CASE m.evicted # None
    BY <1>2, <1>3, <2>2 DEF LoseEvicted
  <2>3. QED BY <2>1, <2>2
<1>7. QED BY <1>5, <1>6

\* The reuse map and the PCC after a walk.
LEMMA TrackWalkStep ==
    ASSUME NEW m \in MachineSet, Sound(m.pcc), NEW base \in Region
    PROVE  /\ PccStep(TrackWalk(m, base), m, {PccTag(m, base)})
           /\ m.pcc = <<>> => AtMostNew(TrackWalk(m, base).pcc)
<1> DEFINE X == {PccTag(m, base)}
           n == TouchPcc(m, base)
           o == IF PccHit(m, base) THEN n ELSE LoseEvicted(n)
<1>1. CASE m.reuse[base] = "absent"
  <2> DEFINE c == [m EXCEPT !.reuse[base] = "cold"]
  <2>1. base \in Base
    BY Numbers
  <2>2. /\ c \in MachineSet /\ c.pcc = m.pcc
        /\ c.l1_4k = m.l1_4k /\ c.l1_2m = m.l1_2m /\ c.l2 = m.l2 /\ c.promoted = m.promoted
    BY <2>1 DEF MachineSet
  <2>3. TrackWalk(m, base) = c
    BY <1>1 DEF TrackWalk
  <2> HIDE DEF c, X
  <2>4. PccStep(c, m, X)
    BY <2>2 DEF PccStep, HoldsOnly
  <2>5. m.pcc = <<>> => AtMostNew(m.pcc)
    BY DEF AtMostNew
  <2>6. QED BY <2>2, <2>3, <2>4, <2>5 DEF X
<1>2. CASE m.reuse[base] # "absent"
  <2>1. TrackWalk(m, base) = Record(o, base)
    BY <1>2 DEF TrackWalk, LookupPcc
  <2>2. PccStep(n, m, X) /\ (m.pcc = <<>> => AtMostNew(n.pcc))
    BY TouchPccStep
  <2> HIDE DEF n, X
  <2>3. n \in MachineSet /\ Sound(n.pcc)
    BY <2>2 DEF PccStep
  <2>4. PccStep(n, n, {}) /\ PccStep(LoseEvicted(n), n, {}) /\ LoseEvicted(n).pcc = n.pcc
    BY <2>3, RecordStep DEF PccStep, HoldsOnly
  <2>5. PccStep(o, n, {}) /\ o.pcc = n.pcc
    BY <2>4
  <2> HIDE DEF o
  <2>6. PccStep(Record(o, base), o, {}) /\ Record(o, base).pcc = o.pcc
    BY <2>5, RecordStep DEF PccStep
  <2>7. PccStep(Record(o, base), m, X) /\ Record(o, base).pcc = n.pcc
    BY <2>2, <2>5, <2>6 DEF PccStep, HoldsOnly
  <2>8. QED BY <2>1, <2>2, <2>7 DEF X
<1>3. QED BY <1>1, <1>2

\* The whole of an access after the summary.
LEMMA AccessPageStep ==
    ASSUME NEW m \in MachineSet, Sound(m.pcc), NEW p \in Page
    PROVE  LET n == AccessPage(m, p)
           IN  /\ n \in MachineSet /\ Sound(n.pcc)
               /\ n.promoted = m.promoted
               /\ HoldsOnly(n.pcc, m.pcc, {PccTag(m, BaseOf(p))})
               /\ m.pcc = <<>> => AtMostNew(n.pcc)
<1> DEFINE l == LookupL1(m, p)
           w == Walk(l, p)
           b == BaseOf(p)
           n == AccessPage(m, p)
<1>0. b \in Region
  BY Numbers
<1>1. /\ TlbStep(l, m, {}, {})
      /\ TlbStep(L2Hit4k(l, p), m, {}, {})
      /\ TlbStep(L2Hit2m(l, p), m, {b}, {})
      /\ \E X, Y : TlbStep(w, m, X, Y)
  BY TlbPaths
<1>2. \/ n = l \/ n = L2Hit4k(l, p) \/ n = L2Hit2m(l, p) \/ n = TrackWalk(w, b)
  BY DEF AccessPage
<1> HIDE DEF l, w, n, b
<1>3. AtMostNew(<<>>)
  BY DEF AtMostNew
<1>4. CASE n = l \/ n = L2Hit4k(l, p) \/ n = L2Hit2m(l, p)
  <2>1. n \in MachineSet /\ n.pcc = m.pcc /\ n.promoted = m.promoted
    BY <1>1, <1>4 DEF TlbStep
  <2>2. QED BY <1>3, <2>1 DEF HoldsOnly, n
<1>5. CASE n = TrackWalk(w, b)
  <2>1. w \in MachineSet /\ w.pcc = m.pcc /\ w.promoted = m.promoted
    BY <1>1 DEF TlbStep
  <2>2. PccStep(n, w, {PccTag(w, b)}) /\ (w.pcc = <<>> => AtMostNew(n.pcc))
    BY <1>0, <1>5, <2>1, TrackWalkStep
  <2>3. PccTag(w, b) = PccTag(m, b)
    BY <2>1 DEF PccTag
  <2>4. QED BY <2>1, <2>2, <2>3 DEF PccStep, n, b
<1>6. QED BY <1>2, <1>4, <1>5

\* A region that is promoted is not entered in the PCC under its own number.
LEMMA TagNotPromoted ==
    ASSUME NEW m, NEW base \in Region
    PROVE  PccTag(m, base) \in Region => PccTag(m, base) \notin m.promoted
BY LayoutAssumption DEF PccTag

\* A tag that may enter is not that of a promoted region.
LEMMA PccStaysFresh ==
    ASSUME NEW m, NEW n, NEW base \in Region, NEW D \in SUBSET m.promoted,
           HoldsOnly(n.pcc, m.pcc, {PccTag(m, base)}), PccFresh(m, D)
    PROVE  PccFresh(n, D)
<1>1. PccTag(m, base) \in Region => PccTag(m, base) \notin D
  BY TagNotPromoted
<1>2. QED BY <1>1 DEF PccFresh, HoldsOnly

\* An access keeps what the TLBs and the PCC may not hold.
LEMMA AccessPageGood ==
    ASSUME NEW m \in MachineSet, Sound(m.pcc), NEW p \in Page, NEW D \in SUBSET m.promoted,
           TlbGood(m, D), PccFresh(m, D)
    PROVE  TlbGood(AccessPage(m, p), D) /\ PccFresh(AccessPage(m, p), D)
<1> DEFINE l == LookupL1(m, p)
           w == Walk(l, p)
           b == BaseOf(p)
           n == AccessPage(m, p)
<1>0. b \in Region
  BY Numbers
<1>1. \E X, Y : TlbStep(w, m, X, Y)
  BY TlbPaths
<1>2. /\ TlbGood(l, D) /\ TlbGood(L2Hit4k(l, p), D) /\ TlbGood(w, D)
      /\ CacheHit(m.l2, b) => TlbGood(L2Hit2m(l, p), D)
  BY TlbsStayGood
<1>3. \/ n = l \/ n = L2Hit4k(l, p)
      \/ CacheHit(m.l2, b) /\ n = L2Hit2m(l, p)
      \/ n = TrackWalk(w, b)
  BY DEF AccessPage
<1>4. PccFresh(n, D)
  <2>1. HoldsOnly(n.pcc, m.pcc, {PccTag(m, b)})
    BY AccessPageStep
  <2> HIDE DEF n, b
  <2>2. QED BY <1>0, <2>1, PccStaysFresh
<1> HIDE DEF l, w, n, b
<1>5. CASE n = TrackWalk(w, b)
  <2>1. w \in MachineSet /\ w.pcc = m.pcc
    BY <1>1 DEF TlbStep
  <2>2. PccStep(n, w, {PccTag(w, b)})
    BY <1>0, <1>5, <2>1, TrackWalkStep
  <2>3. TlbGood(n, D)
    BY <1>2, <2>2 DEF PccStep, TlbGood
  <2>4. QED BY <1>4, <2>3 DEF n
<1>6. QED BY <1>2, <1>3, <1>4, <1>5 DEF n

-----------------------------------------------------------------------------
(***************************************************************************)
(* Promotion.                                                              *)
(***************************************************************************)
\* The pages of a region are the ones the shootdown goes through.
LEMMA PagesOfRegion ==
    ASSUME NEW p \in Page
    PROVE  p \in PagesOf(BaseOf(p))
<1> DEFINE k == PagesPerRegion
           q == p \div k
<1>1. p \in Nat /\ k \in Nat \ {0}
  BY Sizes
<1> HIDE DEF k
<1>2. q \in Nat /\ p = k * q + (p % k) /\ p % k \in 0..(k - 1)
  BY <1>1
<1> HIDE DEF q
<1>3. (q + 1) * k - 1 = k * q + (k - 1) /\ q * k = k * q /\ q * k \in Nat
  BY <1>1, <1>2
<1>4. q * k <= p /\ p <= (q + 1) * k - 1
  BY <1>1, <1>2, <1>3
<1>5. (q + 1) * k - 1 \in Int
  BY <1>1, <1>2
<1>6. p \in (q * k)..((q + 1) * k - 1)
  BY <1>1, <1>3, <1>4, <1>5
<1>7. QED BY <1>6 DEF PagesOf, BaseOf, q, k

\* A promotion leaves no page of the region in the 4KB and L2 TLBs.
LEMMA PromoteRegionStep ==
    ASSUME NEW m \in MachineSet, NEW base \in Base
    PROVE  LET n == PromoteRegion(m, base)
           IN  /\ n \in MachineSet /\ n.pcc = m.pcc
               /\ n.promoted = m.promoted \cup {base}
               /\ \A D : TlbGood(m, D) => TlbGood(n, D \cup {base})
<1> DEFINE n == PromoteRegion(m, base)
           x == Shootdown(m.l1_4k, PagesOf(base))
           y == Shootdown(m.l2, PagesOf(base))
           T == Page \cup Region
<1>1. n = [m EXCEPT !.promoted = m.promoted \cup {base}, !.reuse[base] = "absent",
                    !.l1_4k = x, !.l2 = y]
  BY DEF PromoteRegion
<1>2. m.l1_4k \in Tlb(Page, L1Sets4K, L1Assoc) /\ m.l2 \in Tlb(T, L2Sets, L2Assoc)
  BY DEF MachineSet
<1>3. x \in Tlb(Page, L1Sets4K, L1Assoc)
  BY <1>2, Sizes, TlbShootdown
<1> HIDE DEF T
<1>4. /\ y \in Tlb(T, L2Sets, L2Assoc)
      /\ \A u \in Nat : CacheHit(y, u) => CacheHit(m.l2, u) /\ u \notin PagesOf(base)
  <2> DEFINE c == m.l2
             N == PagesOf(base)
  <2>1. L2Sets \in Nat \ {0} /\ L2Assoc \in Nat /\ c \in Tlb(T, L2Sets, L2Assoc)
    BY <1>2, Sizes
  <2> HIDE DEF c, N
  <2>2. /\ Shootdown(c, N) \in Tlb(T, L2Sets, L2Assoc)
        /\ \A u \in Nat : CacheHit(Shootdown(c, N), u) => CacheHit(c, u) /\ u \notin N
    BY <2>1, TlbShootdown
  <2>3. QED BY <2>2 DEF c, N
<1> HIDE DEF n, x, y
<1>5. /\ n \in MachineSet /\ n.pcc = m.pcc /\ n.l1_2m = m.l1_2m /\ n.l2 = y
      /\ n.promoted = m.promoted \cup {base}
  BY <1>1, <1>3, <1>4 DEF MachineSet, T
<1>6. ASSUME NEW D, TlbGood(m, D) PROVE TlbGood(n, D \cup {base})
  <2>1. ASSUME NEW b \in Region, CacheHit(n.l1_2m, b) \/ CacheHit(n.l2, b) PROVE b \in n.promoted
    <3>1. b \in Nat
      BY Numbers
    <3>2. QED BY <1>4, <1>5, <1>6, <2>1, <3>1 DEF TlbGood
  <2>2. ASSUME NEW p \in Page, BaseOf(p) \in D \cup {base}, CacheHit(n.l2, p) PROVE FALSE
    <3>1. p \in Nat /\ CacheHit(m.l2, p) /\ p \notin PagesOf(base)
      BY <1>4, <1>5, <2>2, Numbers
    <3>2. p \in PagesOf(BaseOf(p))
      BY PagesOfRegion
    <3>3. QED BY <1>6, <2>2, <3>1, <3>2 DEF TlbGood
  <2>3. QED BY <2>1, <2>2 DEF TlbGood
<1>7. QED BY <1>5, <1>6 DEF n
=============================================================================
