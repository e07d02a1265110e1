--------------------------- MODULE CacheSetProofs ---------------------------
(***************************************************************************)
(* Proofs about class CacheSet, for every number of lines and tags, every  *)
(* MAX_FREQ, both policies and both kinds of callers: the set stays well   *)
(* formed, its LFU list implements the frequency table of Lfu, its LRU     *)
(* list is the order of recency, and it behaves like the value of LineSet, *)
(* from which the models of the simulators are built.                      *)
(***************************************************************************)
EXTENDS CacheSetLru, FiniteSetTheorems, ListLemmas

(***************************************************************************)
(* The linked list.                                                        *)
(***************************************************************************)
\* A list without repetition.
Simple(s) == \A i, j \in 1..Len(s) : s[i] = s[j] => i = j

\* A list ordered by the frequencies f, most used first.
SortedBy(s, f) == \A i, j \in 1..Len(s) : i < j => f[s[i]] >= f[s[j]]

\* The lines on a list, with its domain spelled out.
LEMMA LinesOfList ==
    ASSUME NEW s \in Seq(Line)
    PROVE  /\ DOMAIN s = 1..Len(s) /\ Len(s) \in Nat
           /\ Lines(s) = {s[i] : i \in 1..Len(s)}
           /\ Lines(s) \subseteq Line
BY DEF Lines

\* Where insertLFU stops: behind exactly the leading lines that are used
\* more often than c.
LEMMA LfuPositionProperties ==
    ASSUME NEW s \in Seq(Line), NEW c \in Line, NEW f \in [Line -> Nat]
    PROVE  LET p == LfuPosition(s, c, f)
           IN  /\ p \in 1..(Len(s) + 1)
               /\ \A j \in 1..Len(s) : j < p => f[c] < f[s[j]]
               /\ p <= Len(s) => f[s[p]] <= f[c]
<1> DEFINE stops == {i \in 1..(Len(s) + 1) : i = Len(s) + 1 \/ ~(f[c] < f[s[i]])}
           p == LfuPosition(s, c, f)
<1>0. Len(s) \in Nat
  OBVIOUS
<1>1. stops \in SUBSET Nat /\ Len(s) + 1 \in stops
  BY <1>0
<1>2. p = Min(stops)
  BY DEF LfuPosition
<1> HIDE DEF p
<1>3. p \in stops /\ \A y \in stops : p <= y
  <2> HIDE DEF stops
  <2>1. stops # {}
    BY <1>1
  <2>2. QED BY <1>1, <1>2, <2>1, NatMin
<1>4. p \in 1..(Len(s) + 1)
  BY <1>3
<1>5. ASSUME NEW j \in 1..Len(s), j < p PROVE f[c] < f[s[j]]
  <2>1. j \notin stops
    BY <1>0, <1>3, <1>4, <1>5
  <2>2. QED BY <1>0, <2>1
<1>6. ASSUME p <= Len(s) PROVE f[s[p]] <= f[c]
  <2>1. ~(f[c] < f[s[p]])
    BY <1>0, <1>3, <1>4, <1>6
  <2>2. f[c] \in Nat /\ f[s[p]] \in Nat
    BY <1>0, <1>4, <1>6
  <2>3. QED BY <2>1, <2>2
<1>7. QED BY <1>4, <1>5, <1>6 DEF p

\* Linking line c, which is not on the list, at the position of the policy.
LEMMA PlaceProperties ==
    ASSUME NEW s \in Seq(Line), Simple(s), NEW c \in Line, c \notin Lines(s),
           NEW f \in [Line -> Nat]
    PROVE  /\ Place(s, c, f) \in Seq(Line)
           /\ Simple(Place(s, c, f))
           /\ Lines(Place(s, c, f)) = Lines(s) \cup {c}
           /\ Len(Place(s, c, f)) = Len(s) + 1
           /\ \E p \in 1..(Len(s) + 1) :
                /\ p = IF Policy = 0 THEN 1 ELSE LfuPosition(s, c, f)
                /\ \A j \in 1..(Len(s) + 1) :
                      Place(s, c, f)[j] =
                         IF j < p THEN s[j] ELSE IF j = p THEN c ELSE s[j - 1]
<1> DEFINE p == IF Policy = 0 THEN 1 ELSE LfuPosition(s, c, f)
           r == Place(s, c, f)
           n == Len(s)
<1>0. n \in Nat /\ Lines(s) = {s[i] : i \in 1..n}
  BY LinesOfList
<1>1. p \in 1..(n + 1)
  BY <1>0, LfuPositionProperties
<1>2. r = InsertAt(s, p, c)
  BY DEF Place
<1> HIDE DEF p, r
<1>3. /\ r \in Seq(Line) /\ Len(r) = n + 1
      /\ \A j \in 1..(n + 1) :
            r[j] = IF j < p THEN s[j] ELSE IF j = p THEN c ELSE s[j - 1]
  <2>1. /\ InsertAt(s, p, c) \in Seq(Line) /\ Len(InsertAt(s, p, c)) = Len(s) + 1
        /\ \A j \in 1..(Len(s) + 1) :
              InsertAt(s, p, c)[j] =
                 IF j < p THEN s[j] ELSE IF j = p THEN c ELSE s[j - 1]
    BY <1>1, InsertAtProperties
  <2>2. QED BY <1>2, <2>1
<1>4. \A i \in 1..n : s[i] \in Line /\ s[i] # c
  BY <1>0
<1>5. Lines(r) = {r[j] : j \in 1..(n + 1)}
  BY <1>3, LinesOfList
<1>6. Simple(r)
  <2>1. SUFFICES ASSUME NEW i \in 1..(n + 1), NEW j \in 1..(n + 1), r[i] = r[j]
                 PROVE  i = j
    BY <1>3 DEF Simple
  <2> DEFINE Old(k) == IF k < p THEN k ELSE k - 1
  <2>2. ASSUME NEW k \in 1..(n + 1), k # p
        PROVE  Old(k) \in 1..n /\ r[k] = s[Old(k)] /\ r[k] # c
    <3>1. Old(k) \in 1..n /\ r[k] = s[Old(k)]
      <4>1. CASE k < p
        BY <1>0, <1>1, <1>3, <2>2, <4>1, SMTT(30)
      <4>2. CASE k > p
        <5>1. Old(k) = k - 1 /\ k - 1 \in 1..n
          BY <1>0, <1>1, <4>2
        <5>2. ~(k < p) /\ k # p
          BY <1>0, <1>1, <4>2
        <5>3. r[k] = s[k - 1]
          BY <1>3, <5>2
        <5>4. QED BY <5>1, <5>3
      <4>3. k < p \/ k > p
        BY <1>0, <1>1, <2>2
      <4>4. QED BY <4>1, <4>2, <4>3, Zenon
    <3>2. QED BY <1>4, <3>1
  <2>3. r[p] = c
    BY <1>0, <1>1, <1>3
  <2>4. CASE i = p
    BY <2>1, <2>2, <2>3, <2>4
  <2>5. CASE i # p
    <3>1. j # p /\ s[Old(i)] = s[Old(j)]
      BY <2>1, <2>2, <2>3, <2>5
    <3>2. Old(i) = Old(j)
      BY <2>2, <2>5, <3>1 DEF Simple
    <3>3. QED BY <1>0, <1>1, <2>5, <3>1, <3>2
  <2>6. QED BY <2>4, <2>5
<1>7. Lines(r) = Lines(s) \cup {c}
  <2>1. ASSUME NEW j \in 1..(n + 1) PROVE r[j] \in Lines(s) \cup {c}
    <3>1. j < p => j \in 1..n
      BY <1>0, <1>1
    <3>2. j > p => j - 1 \in 1..n
      BY <1>0, <1>1
    <3>3. QED BY <1>0, <1>1, <1>3, <3>1, <3>2
  <2>2. c \in Lines(r)
    BY <1>1, <1>3, <1>5
  <2>3. ASSUME NEW i \in 1..n PROVE s[i] \in Lines(r)
    <3>1. CASE i < p
      <4>1. i \in 1..(n + 1) /\ r[i] = s[i]
        BY <3>1, <1>0, <1>3
      <4>2. QED BY <4>1, <1>5
    <3>2. CASE i >= p
      <4>1. i + 1 \in 1..(n + 1) /\ (i + 1) - 1 = i /\ i + 1 # p /\ ~(i + 1 < p)
        BY <3>2, <1>0, <1>1
      <4>2. r[i + 1] = s[(i + 1) - 1]
        BY <4>1, <1>3
      <4>3. r[i + 1] = s[i]
        BY <4>1, <4>2
      <4>4. QED BY <4>1, <4>3, <1>5
    <3>3. QED BY <3>1, <3>2, <1>0, <1>1
  <2>4. QED BY <2>1, <2>2, <2>3, <1>0, <1>5
<1>8. QED BY <1>1, <1>3, <1>6, <1>7 DEF p, r

\* Unlinking a line of the list.
LEMMA DeleteProperties ==
    ASSUME NEW s \in Seq(Line), Simple(s), NEW c \in Lines(s)
    PROVE  /\ DeleteNode(s, c) \in Seq(Line)
           /\ Simple(DeleteNode(s, c))
           /\ Lines(DeleteNode(s, c)) = Lines(s) \ {c}
           /\ Len(DeleteNode(s, c)) = Len(s) - 1
           /\ \E p \in 1..Len(s) :
                /\ s[p] = c
                /\ \A j \in 1..(Len(s) - 1) :
                      DeleteNode(s, c)[j] = IF j < p THEN s[j] ELSE s[j + 1]
<1> DEFINE p == Position(s, c)
           r == DeleteNode(s, c)
           n == Len(s)
<1>0. n \in Nat /\ DOMAIN s = 1..n /\ Lines(s) = {s[i] : i \in 1..n}
  BY LinesOfList
<1>1. p \in 1..n /\ s[p] = c
  BY <1>0 DEF Position
<1>2. r = RemoveAt(s, p)
  BY DEF DeleteNode
<1> HIDE DEF p, r
<1>3. /\ r \in Seq(Line) /\ Len(r) = n - 1
      /\ \A j \in 1..(n - 1) : r[j] = IF j < p THEN s[j] ELSE s[j + 1]
  BY <1>1, <1>2, RemoveAtProperties
<1>4. Simple(r)
  BY <1>0, <1>1, <1>3, SMTT(30) DEF Simple
<1>5. Lines(r) = {r[j] : j \in 1..(n - 1)}
  BY <1>3, LinesOfList
<1>6. Lines(r) = Lines(s) \ {c}
  <2>1. ASSUME NEW j \in 1..(n - 1) PROVE r[j] \in Lines(s) /\ r[j] # c
    <3>1. CASE j < p
      BY <3>1, <1>0, <1>1, <1>3 DEF Simple
    <3>2. CASE j >= p
      <4>1. r[j] = s[j + 1] /\ j + 1 \in 1..n /\ j + 1 # p
        BY <3>2, <1>0, <1>1, <1>3
      <4>2. QED BY <4>1, <1>0, <1>1 DEF Simple
    <3>3. QED BY <3>1, <3>2, <1>0, <1>1
  <2>2. ASSUME NEW i \in 1..n, s[i] # c PROVE s[i] \in Lines(r)
    <3>1. CASE i < p
      BY <3>1, <1>0, <1>1, <1>3, <1>5
    <3>2. CASE i > p
      <4>1. i - 1 \in 1..(n - 1) /\ r[i - 1] = s[i]
        BY <3>2, <1>0, <1>1, <1>3
      <4>2. QED BY <4>1, <1>5
    <3>3. i < p \/ i > p
      BY <1>0, <1>1, <2>2
    <3>4. QED BY <3>1, <3>2, <3>3
  <2>3. QED BY <2>1, <2>2, <1>0, <1>5
<1>7. QED BY <1>1, <1>3, <1>4, <1>6 DEF p, r

(***************************************************************************)
(* The order by frequency.                                                 *)
(***************************************************************************)
\* Unlinking a line keeps the order.
LEMMA DeleteSorted ==
    ASSUME NEW s \in Seq(Line), Simple(s), NEW c \in Lines(s),
           NEW f \in [Line -> Nat], SortedBy(s, f)
    PROVE  SortedBy(DeleteNode(s, c), f)
<1> DEFINE r == DeleteNode(s, c)
           n == Len(s)
<1>0. n \in Nat
  OBVIOUS
<1>1. PICK p \in 1..n :
        /\ s[p] = c
        /\ \A j \in 1..(n - 1) : r[j] = IF j < p THEN s[j] ELSE s[j + 1]
  BY DeleteProperties
<1>2. Len(r) = n - 1
  BY DeleteProperties
<1> HIDE DEF r
<1>3. SUFFICES ASSUME NEW i \in 1..(n - 1), NEW j \in 1..(n - 1), i < j
               PROVE  f[r[i]] >= f[r[j]]
  BY <1>2 DEF SortedBy, r
<1> DEFINE Old(k) == IF k < p THEN k ELSE k + 1
<1>4. ASSUME NEW k \in 1..(n - 1) PROVE Old(k) \in 1..n /\ r[k] = s[Old(k)]
  <2>1. CASE k < p
    <3>1. r[k] = s[k]
      BY <1>1, <2>1
    <3>2. QED BY <1>0, <2>1, <3>1
  <2>2. CASE ~(k < p)
    <3>1. r[k] = s[k + 1]
      BY <1>1, <2>2
    <3>2. Old(k) = k + 1 /\ k + 1 \in 1..n
      BY <1>0, <2>2
    <3>3. QED BY <3>1, <3>2
  <2>3. QED BY <2>1, <2>2
<1>5. Old(i) < Old(j)
  BY <1>0, <1>3
<1> HIDE DEF Old
<1>6. f[s[Old(i)]] >= f[s[Old(j)]]
  BY <1>4, <1>5 DEF SortedBy
<1>7. QED BY <1>4, <1>6

\* insertLFU keeps the order, and keeps it even if the line is counted once
\* after it was placed: all lines before it are used strictly more often.
LEMMA PlaceSorted ==
    ASSUME Policy = 2,
           NEW s \in Seq(Line), Simple(s), NEW c \in Line, c \notin Lines(s),
           NEW f \in [Line -> Nat], SortedBy(s, f),
           NEW g \in [Line -> Nat],
           \A l \in Line : l # c => g[l] = f[l],
           f[c] <= g[c], g[c] <= f[c] + 1
    PROVE  SortedBy(Place(s, c, f), g)
<1> DEFINE r == Place(s, c, f)
           n == Len(s)
           p == LfuPosition(s, c, f)
<1>0. n \in Nat /\ Lines(s) = {s[i] : i \in 1..n}
  BY LinesOfList
<1>1. /\ p \in 1..(n + 1)
      /\ \A j \in 1..n : j < p => f[c] < f[s[j]]
      /\ p <= n => f[s[p]] <= f[c]
  BY LfuPositionProperties
<1>2. /\ Len(r) = n + 1
      /\ \A j \in 1..(n + 1) :
            r[j] = IF j < p THEN s[j] ELSE IF j = p THEN c ELSE s[j - 1]
  BY PlaceProperties, SMTT(30)
<1> HIDE DEF p, r
<1>3. ASSUME NEW k \in 1..n
      PROVE  s[k] \in Line /\ g[s[k]] = f[s[k]] /\ f[s[k]] \in Nat
  BY <1>0
<1>4. ASSUME NEW k \in 1..n, k < p PROVE g[s[k]] >= g[c]
  BY <1>1, <1>3, <1>4
<1>5. ASSUME NEW k \in 1..n, k >= p PROVE g[c] >= g[s[k]]
  <2>1. p \in 1..n /\ f[s[p]] <= f[c]
    BY <1>0, <1>1, <1>5
  <2>2. f[s[p]] >= f[s[k]]
    <3>1. CASE p < k
      BY <2>1, <3>1 DEF SortedBy
    <3>2. CASE p = k
      BY <1>3, <3>2
    <3>3. QED BY <1>0, <1>5, <2>1, <3>1, <3>2
  <2>3. QED BY <1>3, <2>1, <2>2, SMTT(30)
<1>6. SUFFICES ASSUME NEW i \in 1..(n + 1), NEW j \in 1..(n + 1), i < j
               PROVE  g[r[i]] >= g[r[j]]
  BY <1>2 DEF SortedBy, r
<1>7. CASE i = p
  <2>1. r[i] = c /\ r[j] = s[j - 1] /\ j - 1 \in 1..n /\ j - 1 >= p
    BY <1>0, <1>1, <1>2, <1>6, <1>7
  <2>2. QED BY <1>5, <2>1
<1>8. CASE j = p
  <2>1. r[j] = c /\ r[i] = s[i] /\ i \in 1..n /\ i < p
    BY <1>0, <1>1, <1>2, <1>6, <1>8
  <2>2. QED BY <1>4, <2>1
<1>9. CASE i # p /\ j # p
  <2> DEFINE Old(k) == IF k < p THEN k ELSE k - 1
  <2>0. p \in Int /\ (i < p \/ i > p) /\ (j < p \/ j > p)
    BY <1>0, <1>1, <1>9
  <2>1. Old(i) \in 1..n /\ Old(j) \in 1..n /\ Old(i) < Old(j)
    <3>1. Old(i) \in 1..n
      BY <1>0, <1>1, <1>6, <2>0
    <3>2. Old(j) \in 1..n
      BY <1>0, <1>1, <1>6, <2>0
    <3>3. Old(i) < Old(j)
      BY <1>0, <1>1, <1>6, <2>0
    <3>4. QED BY <3>1, <3>2, <3>3
  <2>2. r[i] = s[Old(i)] /\ r[j] = s[Old(j)]
    BY <1>0, <1>1, <1>2, <1>9
  <2> HIDE DEF Old
  <2>3. f[s[Old(i)]] >= f[s[Old(j)]]
    BY <2>1 DEF SortedBy
  <2>4. QED BY <1>3, <2>1, <2>2, <2>3
<1>10. QED BY <1>7, <1>8, <1>9

\* Halving is monotone, so decay_freqs keeps the order.
LEMMA DecaySorted ==
    ASSUME NEW s \in Seq(Line), NEW f \in [Line -> Nat], SortedBy(s, f)
    PROVE  SortedBy(s, DecayFreqs(s, f))
<1> DEFINE g == DecayFreqs(s, f)
<1>1. ASSUME NEW i \in 1..Len(s)
      PROVE  s[i] \in Line /\ f[s[i]] \in Nat /\ g[s[i]] = f[s[i]] \div 2
  <2>1. s[i] \in Lines(s)
    BY LinesOfList
  <2>2. QED BY <2>1, LinesOfList DEF DecayFreqs
<1>2. \A a, b \in Nat : a >= b => a \div 2 >= b \div 2
  OBVIOUS
<1> HIDE DEF g
<1>3. QED BY <1>1, <1>2 DEF SortedBy, g

(***************************************************************************)
(* The inductive invariant.                                                *)
(***************************************************************************)
\* No conjunct is inductive alone: an access keeps the order only because
\* the line it moves is on the list (MapSound) exactly once (Partitioned),
\* and an insertion keeps MapSound only because the line it takes was either
\* free or unmapped by the erase of the victim's tag.
Inv == TypeOK /\ Partitioned /\ MapSound /\ NoGhost /\ Sorted

\* Partitioned, with the list as a sequence.
LEMMA PartitionedList ==
    ASSUME TypeOK
    PROVE  Partitioned <=> Simple(list) /\ freeEntries = Line \ Lines(list)
<1>1. DOMAIN list = 1..Len(list)
  BY DEF TypeOK
<1>2. freeEntries \subseteq Line
  BY DEF TypeOK
<1>3. QED BY <1>1, <1>2 DEF Partitioned, Simple

\* Sorted, with the list as a sequence.
LEMMA SortedList ==
    ASSUME TypeOK
    PROVE  Sorted <=> (Policy = 2 => SortedBy(list, freq))
<1>1. DOMAIN list = 1..Len(list)
  BY DEF TypeOK
<1>2. QED BY <1>1 DEF Sorted, SortedBy

\* The constructor establishes the invariant.
LEMMA InitInv == Init => Inv
<1> SUFFICES ASSUME Init PROVE Inv
  OBVIOUS
<1> USE LineAssumption, FreqAssumption
<1>1. TypeOK
  BY DEF Init, TypeOK
<1>2. list = <<>> /\ DOMAIN list = {} /\ Lines(list) = {}
  BY DEF Init, Lines
<1>3. Partitioned /\ MapSound /\ NoGhost /\ Sorted
  BY <1>2 DEF Init, Partitioned, MapSound, NoGhost, Sorted
<1>4. QED BY <1>1, <1>3 DEF Inv

\* What TypeOK says of the frequencies.
LEMMA FreqType ==
    ASSUME TypeOK
    PROVE  /\ freq \in [Line -> Nat]
           /\ \A l \in Line : freq[l] <= MaxFreq - 1
BY FreqAssumption DEF TypeOK

\* access keeps the invariant: the line hit is relinked among the same lines,
\* its frequency grows by one, and the list is halved at the cap.
LEMMA AccessInv ==
    ASSUME Inv, NEW t \in Tag, NEW o \in Offset, Access(t, o)
    PROVE  Inv'
<1> DEFINE c == addr_map[t]
           rest == DeleteNode(list, c)
           counted == [freq EXCEPT ![c] = @ + 1]
<1> USE DEF Inv
<1>1. /\ c \in Lines(list) /\ c \in Line /\ addr[c] = t
      /\ list \in Seq(Line) /\ Simple(list) /\ freeEntries = Line \ Lines(list)
  BY PartitionedList, LinesOfList DEF Access, MapSound, TypeOK
<1>2. freq \in [Line -> Nat] /\ \A l \in Line : freq[l] <= MaxFreq - 1
  BY FreqType
<1>3. /\ rest \in Seq(Line) /\ Simple(rest) /\ Lines(rest) = Lines(list) \ {c}
  BY <1>1, DeleteProperties
<1>4. list' = Place(rest, c, freq)
  BY DEF Access
<1>5. list' \in Seq(Line) /\ Simple(list') /\ Lines(list') = Lines(list)
  <2>1. c \notin Lines(rest)
    BY <1>3
  <2> HIDE DEF rest, c
  <2>2. /\ Place(rest, c, freq) \in Seq(Line) /\ Simple(Place(rest, c, freq))
        /\ Lines(Place(rest, c, freq)) = Lines(rest) \cup {c}
    BY <1>1, <1>2, <1>3, <2>1, PlaceProperties
  <2>3. QED BY <1>1, <1>3, <1>4, <2>2
<1>6. /\ counted \in [Line -> Nat]
      /\ \A l \in Line : l # c => counted[l] = freq[l]
      /\ counted[c] = freq[c] + 1
  BY <1>1, <1>2
<1>7. freq' = IF counted[c] = MaxFreq THEN DecayFreqs(list', counted) ELSE counted
  BY DEF Access
<1>8. UNCHANGED <<addr, addr_map, freeEntries>> /\ offset' = [offset EXCEPT ![c] = o]
  BY DEF Access
<1> HIDE DEF rest, c, counted
<1>9. freq' \in [Line -> 0..(MaxFreq - 1)]
  <2>1. CASE counted[c] # MaxFreq
    <3>1. \A l \in Line : counted[l] \in 0..(MaxFreq - 1)
      <4>1. freq[c] \in Nat /\ freq[c] <= MaxFreq - 1 /\ counted[c] = freq[c] + 1
        BY <1>1, <1>2, <1>6
      <4>2. counted[c] \in 0..(MaxFreq - 1)
        BY <2>1, <4>1, FreqAssumption
      <4>3. ASSUME NEW l \in Line, l # c PROVE counted[l] \in 0..(MaxFreq - 1)
        BY <1>2, <1>6, <4>3, FreqAssumption
      <4>4. QED BY <4>2, <4>3
    <3>2. QED BY <1>6, <1>7, <2>1, <3>1
  <2>2. CASE counted[c] = MaxFreq
    <3>1. ASSUME NEW l \in Line
          PROVE  (IF l \in Lines(list') THEN counted[l] \div 2 ELSE counted[l])
                    \in 0..(MaxFreq - 1)
      <4>1. CASE l = c
        <5>1. l \in Lines(list') /\ MaxFreq \div 2 \in 0..(MaxFreq - 1)
          BY <1>1, <1>5, <4>1, FreqAssumption
        <5>2. QED BY <2>2, <4>1, <5>1
      <4>2. CASE l # c
        <5>1. counted[l] \in 0..(MaxFreq - 1) /\ counted[l] \div 2 \in 0..(MaxFreq - 1)
          BY <1>2, <1>6, <4>2, FreqAssumption
        <5>2. QED BY <5>1
      <4>3. QED BY <4>1, <4>2
    <3>2. QED BY <1>7, <2>2, <3>1 DEF DecayFreqs
  <2>3. QED BY <2>1, <2>2
<1>10. TypeOK'
  BY <1>5, <1>8, <1>9 DEF TypeOK
<1>11. Partitioned'
  <2>1. freeEntries' = Line \ Lines(list')
    BY <1>1, <1>5, <1>8
  <2>2. DOMAIN list' = 1..Len(list')
    BY <1>5
  <2>3. QED BY <1>5, <2>1, <2>2 DEF Partitioned, Simple
<1>12. MapSound' /\ NoGhost'
  BY <1>5, <1>8 DEF MapSound, NoGhost
<1>13. Sorted'
  <2>1. SUFFICES ASSUME Policy = 2 PROVE SortedBy(list', freq')
    <3>1. DOMAIN list' = 1..Len(list')
      BY <1>5
    <3>2. QED BY <3>1 DEF Sorted, SortedBy
  <2>2. SortedBy(rest, freq)
    BY <2>1, <1>1, <1>2, SortedList, DeleteSorted DEF rest
  <2>3. SortedBy(list', counted)
    <3>1. c \notin Lines(rest) /\ freq[c] <= counted[c] /\ counted[c] <= freq[c] + 1
      BY <1>1, <1>2, <1>3, <1>6
    <3>2. QED BY <1>1, <1>2, <1>3, <1>4, <1>6, <2>1, <2>2, <3>1, PlaceSorted
  <2>4. QED BY <1>5, <1>6, <1>7, <2>3, DecaySorted
<1>14. QED BY <1>10, <1>11, <1>12, <1>13

\* The common end of both insertions.
LEMMA FillInv ==
    ASSUME TypeOK, NEW t \in Tag, NEW o \in Offset, NEW c \in Line,
           NEW rest \in Seq(Line), Simple(rest), c \notin Lines(rest),
           NEW map \in [Tag -> Line \cup {NULL}],
           \A u \in Tag : map[u] # NULL => map[u] \in Lines(rest) /\ addr[map[u]] = u,
           Disciplined => map[t] = NULL /\ \A l \in Lines(rest) : map[addr[l]] = l,
           Policy = 2 => SortedBy(rest, freq),
           Fill(t, o, c, rest, map),
           freeEntries' = Line \ (Lines(rest) \cup {c})
    PROVE  Inv'
<1>1. freq \in [Line -> Nat] /\ \A l \in Line : freq[l] <= MaxFreq - 1
  BY FreqType
<1>2. /\ addr_map' = [map EXCEPT ![t] = c]
      /\ addr' = [addr EXCEPT ![c] = t]
      /\ offset' = [offset EXCEPT ![c] = o]
      /\ freq' = [freq EXCEPT ![c] = 0]
      /\ list' = Place(rest, c, freq')
  BY DEF Fill
<1>3. addr \in [Line -> Tag] /\ offset \in [Line -> Offset]
  BY DEF TypeOK
<1>4. /\ freq' \in [Line -> Nat] /\ freq'[c] = 0
      /\ \A l \in Line : l # c => freq'[l] = freq[l]
      /\ freq' \in [Line -> 0..(MaxFreq - 1)]
  <2>1. freq \in [Line -> 0..(MaxFreq - 1)] /\ 0 \in 0..(MaxFreq - 1)
    BY FreqAssumption DEF TypeOK
  <2>2. QED BY <1>1, <1>2, <2>1
<1>5. list' \in Seq(Line) /\ Simple(list') /\ Lines(list') = Lines(rest) \cup {c}
  <2>1. /\ Place(rest, c, freq') \in Seq(Line) /\ Simple(Place(rest, c, freq'))
        /\ Lines(Place(rest, c, freq')) = Lines(rest) \cup {c}
    BY <1>4, PlaceProperties
  <2>2. QED BY <1>2, <2>1
<1>6. Lines(rest) \subseteq Line
  BY LinesOfList
<1>7. TypeOK'
  BY <1>2, <1>3, <1>4, <1>5 DEF TypeOK
<1>8. DOMAIN list' = 1..Len(list')
  BY <1>5
<1>9. Partitioned'
  BY <1>5, <1>8 DEF Partitioned, Simple
<1>10. MapSound'
  <2>1. SUFFICES ASSUME NEW u \in Tag, addr_map'[u] # NULL
                 PROVE  addr_map'[u] \in Lines(list') /\ addr'[addr_map'[u]] = u
    BY DEF MapSound
  <2>2. CASE u = t
    BY <1>2, <1>3, <1>5, <2>2, ZenonT(60)
  <2>3. CASE u # t
    <3>1. addr_map'[u] = map[u] /\ map[u] \in Lines(rest) /\ addr[map[u]] = u
      BY <1>2, <2>1, <2>3
    <3>2. map[u] # c /\ map[u] \in Line
      BY <1>6, <3>1
    <3>3. QED BY <1>2, <1>3, <1>5, <3>1, <3>2, ZenonT(60)
  <2>4. QED BY <2>2, <2>3
<1>11. NoGhost'
  <2>1. SUFFICES ASSUME Disciplined, NEW l \in Lines(list')
                 PROVE  addr_map'[addr'[l]] = l
    BY DEF NoGhost
  <2>2. CASE l = c
    BY <1>2, <1>3, <2>2
  <2>3. CASE l # c
    <3>1. l \in Lines(rest) /\ l \in Line /\ map[addr[l]] = l /\ addr[l] \in Tag
      BY <1>3, <1>5, <1>6, <2>1, <2>3
    <3>2. addr[l] # t
      BY <2>1, <3>1, LineAssumption
    <3>3. QED BY <1>2, <1>3, <2>3, <3>1, <3>2
  <2>4. QED BY <2>2, <2>3
<1>12. Sorted'
  <2>1. SUFFICES ASSUME Policy = 2 PROVE SortedBy(list', freq')
    BY <1>8 DEF Sorted, SortedBy
  <2>2. SortedBy(rest, freq')
    <3>1. ASSUME NEW i \in 1..Len(rest) PROVE freq'[rest[i]] = freq[rest[i]]
      <4>1. rest[i] \in Lines(rest)
        BY LinesOfList
      <4>2. QED BY <1>4, <1>6, <4>1
    <3>2. SortedBy(rest, freq)
      BY <2>1
    <3>3. QED BY <3>1, <3>2 DEF SortedBy
  <2>3. SortedBy(Place(rest, c, freq'), freq')
    <3>1. freq'[c] <= freq'[c] /\ freq'[c] <= freq'[c] + 1
      BY <1>4
    <3> DEFINE f == freq'
    <3>2. f \in [Line -> Nat] /\ SortedBy(rest, f) /\ f[c] <= f[c] /\ f[c] <= f[c] + 1
      BY <1>4, <2>2, <3>1
    <3> HIDE DEF f
    <3>3. SortedBy(Place(rest, c, f), f)
      BY <2>1, <3>2, PlaceSorted
    <3>4. QED BY <3>3 DEF f
  <2>4. QED BY <1>2, <2>3
<1>13. QED BY <1>7, <1>9, <1>10, <1>11, <1>12 DEF Inv

\* insert with a free line keeps the invariant.
LEMMA InsertFreeInv ==
    ASSUME Inv, NEW t \in Tag, NEW o \in Offset, InsertFree(t, o)
    PROVE  Inv'
<1> USE DEF Inv
<1>1. PICK c \in freeEntries : /\ Fill(t, o, c, list, addr_map)
                               /\ freeEntries' = freeEntries \ {c}
  BY DEF InsertFree
<1>2. /\ list \in Seq(Line) /\ Simple(list) /\ freeEntries = Line \ Lines(list)
      /\ Policy = 2 => SortedBy(list, freq)
  BY PartitionedList, SortedList DEF TypeOK
<1>3. /\ addr_map \in [Tag -> Line \cup {NULL}]
      /\ \A u \in Tag : addr_map[u] # NULL =>
            addr_map[u] \in Lines(list) /\ addr[addr_map[u]] = u
      /\ Disciplined => addr_map[t] = NULL /\ \A l \in Lines(list) : addr_map[addr[l]] = l
  BY DEF InsertFree, TypeOK, MapSound, NoGhost
<1>4. c \in Line /\ c \notin Lines(list) /\ freeEntries' = Line \ (Lines(list) \cup {c})
  BY <1>1, <1>2
<1>5. QED BY <1>1, <1>2, <1>3, <1>4, FillInv

\* In a set without free lines the list is not empty, so insert finds a
\* victim before tail.
LEMMA VictimExists ==
    ASSUME Inv, freeEntries = {}
    PROVE  Len(list) \in 1..Len(list) /\ list[Len(list)] \in Lines(list)
<1>1. list \in Seq(Line) /\ Lines(list) = Line
  BY PartitionedList, LinesOfList DEF Inv, TypeOK
<1>2. Lines(list) = {list[i] : i \in 1..Len(list)} /\ Len(list) \in Nat
  BY <1>1, LinesOfList
<1>3. Len(list) # 0
  BY <1>1, <1>2, LineAssumption
<1>4. QED BY <1>2, <1>3

\* insert that recycles the line before tail keeps the invariant.
LEMMA InsertEvictInv ==
    ASSUME Inv, NEW t \in Tag, NEW o \in Offset, InsertEvict(t, o)
    PROVE  Inv'
<1> DEFINE c == list[Len(list)]
           rest == DeleteNode(list, c)
           map == [addr_map EXCEPT ![addr[c]] = NULL]
<1> USE DEF Inv
<1>1. /\ Fill(t, o, c, rest, map) /\ freeEntries = {} /\ freeEntries' = {}
  BY DEF InsertEvict
<1>2. /\ list \in Seq(Line) /\ Simple(list) /\ freeEntries = Line \ Lines(list)
      /\ Policy = 2 => SortedBy(list, freq)
  BY PartitionedList, SortedList DEF TypeOK
<1>3. c \in Lines(list) /\ c \in Line
  BY <1>1, <1>2, VictimExists, LinesOfList
<1> HIDE DEF c
<1>4. rest \in Seq(Line) /\ Simple(rest) /\ Lines(rest) = Lines(list) \ {c}
  BY <1>2, <1>3, DeleteProperties
<1>5. Policy = 2 => SortedBy(rest, freq)
  BY <1>2, <1>3, FreqType, DeleteSorted
<1> HIDE DEF rest
<1>6. /\ addr_map \in [Tag -> Line \cup {NULL}] /\ addr \in [Line -> Tag]
      /\ \A u \in Tag : addr_map[u] # NULL =>
            addr_map[u] \in Lines(list) /\ addr[addr_map[u]] = u
      /\ Disciplined => addr_map[t] = NULL /\ \A l \in Lines(list) : addr_map[addr[l]] = l
  BY DEF InsertEvict, TypeOK, MapSound, NoGhost
<1>7. map \in [Tag -> Line \cup {NULL}] /\ addr[c] \in Tag /\ map[addr[c]] = NULL
      /\ \A u \in Tag : u # addr[c] => map[u] = addr_map[u]
  BY <1>3, <1>6
<1> HIDE DEF map
<1>8. ASSUME NEW u \in Tag, map[u] # NULL
      PROVE  map[u] \in Lines(rest) /\ addr[map[u]] = u
  <2>1. u # addr[c] /\ map[u] = addr_map[u]
    BY <1>7, <1>8
  <2>2. addr_map[u] \in Lines(list) /\ addr[addr_map[u]] = u
    BY <1>6, <1>8, <2>1
  <2>3. addr_map[u] # c
    BY <2>1, <2>2
  <2>4. QED BY <1>4, <2>1, <2>2, <2>3
<1>9. ASSUME Disciplined
      PROVE  map[t] = NULL /\ \A l \in Lines(rest) : map[addr[l]] = l
  <2>1. map[t] = NULL
    BY <1>6, <1>7, <1>9
  <2>2. ASSUME NEW l \in Lines(rest) PROVE map[addr[l]] = l
    <3>1. l \in Lines(list) /\ l # c /\ l \in Line /\ addr[l] \in Tag
      BY <1>2, <1>4, <1>6, LinesOfList
    <3>2. addr_map[addr[l]] = l /\ addr_map[addr[c]] = c
      BY <1>3, <1>6, <1>9, <3>1
    <3>3. QED BY <1>7, <3>1, <3>2
  <2>3. QED BY <2>1, <2>2
<1>10. freeEntries' = Line \ (Lines(rest) \cup {c})
  BY <1>1, <1>2, <1>3, <1>4
<1>11. TypeOK /\ c \notin Lines(rest)
  BY <1>4
<1>12. QED BY <1>1, <1>3, <1>4, <1>5, <1>7, <1>8, <1>9, <1>10, <1>11, FillInv

\* evict keeps the invariant.
LEMMA EvictInv ==
    ASSUME Inv, NEW t \in Tag, Evict(t)
    PROVE  Inv'
<1> DEFINE c == addr_map[t]
           rest == DeleteNode(list, c)
<1> USE DEF Inv
<1>1. /\ c \in Lines(list) /\ c \in Line /\ addr[c] = t
      /\ list \in Seq(Line) /\ Simple(list) /\ freeEntries = Line \ Lines(list)
      /\ Policy = 2 => SortedBy(list, freq)
  BY PartitionedList, SortedList, LinesOfList DEF Evict, MapSound, TypeOK
<1>2. /\ addr_map' = [addr_map EXCEPT ![t] = NULL] /\ list' = rest
      /\ freeEntries' = freeEntries \cup {c} /\ UNCHANGED <<addr, offset, freq>>
  BY <1>1 DEF Evict
<1> HIDE DEF c
<1>3. rest \in Seq(Line) /\ Simple(rest) /\ Lines(rest) = Lines(list) \ {c}
  BY <1>1, DeleteProperties
<1>4. Policy = 2 => SortedBy(rest, freq)
  BY <1>1, FreqType, DeleteSorted
<1> HIDE DEF rest
<1>5. TypeOK'
  BY <1>1, <1>2, <1>3 DEF TypeOK
<1>6. DOMAIN list' = 1..Len(list')
  BY <1>2, <1>3
<1>7. Partitioned'
  BY <1>1, <1>2, <1>3, <1>6 DEF Partitioned, Simple
<1>8. addr_map \in [Tag -> Line \cup {NULL}] /\ addr \in [Line -> Tag]
  BY DEF TypeOK
<1>9. MapSound'
  <2>1. SUFFICES ASSUME NEW u \in Tag, addr_map'[u] # NULL
                 PROVE  addr_map'[u] \in Lines(list') /\ addr'[addr_map'[u]] = u
    BY DEF MapSound
  <2>2. u # t /\ addr_map'[u] = addr_map[u]
    BY <1>2, <1>8, <2>1
  <2>3. addr_map[u] \in Lines(list) /\ addr[addr_map[u]] = u
    BY <2>1, <2>2 DEF MapSound
  <2>4. QED BY <1>1, <1>2, <1>3, <2>2, <2>3
<1>10. NoGhost'
  <2>1. SUFFICES ASSUME Disciplined, NEW l \in Lines(list')
                 PROVE  addr_map'[addr'[l]] = l
    BY DEF NoGhost
  <2>2. l \in Lines(list) /\ l # c /\ l \in Line
    BY <1>1, <1>2, <1>3, <2>1, LinesOfList
  <2>3. addr_map[addr[l]] = l /\ addr_map[t] = c /\ addr[l] \in Tag
    BY <1>1, <1>8, <2>1, <2>2 DEF NoGhost, c
  <2>4. QED BY <1>2, <1>8, <2>2, <2>3
<1>11. Sorted'
  BY <1>2, <1>4, <1>6 DEF Sorted, SortedBy
<1>12. QED BY <1>5, <1>7, <1>9, <1>10, <1>11

\* flush keeps the invariant.
LEMMA FlushInv ==
    ASSUME Inv, Flush
    PROVE  Inv'
<1> USE DEF Inv
<1>1. /\ list \in Seq(Line) /\ freeEntries = Line \ Lines(list)
      /\ Lines(list) \subseteq Line
  BY PartitionedList, LinesOfList DEF TypeOK
<1>2. list' = <<>> /\ DOMAIN list' = {} /\ Lines(list') = {} /\ freeEntries' = Line
  BY <1>1 DEF Flush, Lines
<1>3. TypeOK'
  BY <1>1 DEF Flush, TypeOK
<1>4. Partitioned' /\ NoGhost' /\ Sorted'
  BY <1>2 DEF Partitioned, NoGhost, Sorted
<1>5. MapSound'
  <2>1. ASSUME NEW u \in Tag PROVE addr_map'[u] = NULL
    <3>1. CASE addr_map[u] = NULL
      BY <3>1 DEF Flush
    <3>2. CASE addr_map[u] # NULL
      <4>1. addr_map[u] \in Lines(list) /\ addr[addr_map[u]] = u
        BY <3>2 DEF MapSound
      <4>2. QED BY <4>1 DEF Flush
    <3>3. QED BY <3>1, <3>2
  <2>2. QED BY <2>1 DEF MapSound
<1>6. QED BY <1>3, <1>4, <1>5

\* Every call keeps the invariant.
LEMMA NextInv ==
    ASSUME Inv, [Next]_vars
    PROVE  Inv'
<1>1. CASE UNCHANGED vars
  BY <1>1 DEF vars, Inv, TypeOK, Partitioned, MapSound, NoGhost, Sorted, Lines
<1>2. CASE Next
  BY <1>2, AccessInv, InsertFreeInv, InsertEvictInv, EvictInv, FlushInv DEF Next
<1>3. QED BY <1>1, <1>2

\* Every conjunct holds in every reachable state.
THEOREM Invariance == Spec => []Inv
<1>1. Init => Inv
  BY InitInv
<1>2. Inv /\ [Next]_vars => Inv'
  BY NextInv
<1>3. QED BY <1>1, <1>2, PTL DEF Spec

\* The fields keep their types, and no frequency reaches MAX_FREQ at rest.
THEOREM TypeCorrect == Spec => []TypeOK
<1>1. Inv => TypeOK
  BY DEF Inv
<1>2. QED BY <1>1, Invariance, PTL

\* Lines are neither lost nor linked twice, for every caller and policy: the
\* assertions of insert, evict and deleteNode never fail.
THEOREM LinesPartitioned == Spec => []Partitioned
<1>1. Inv => Partitioned
  BY DEF Inv
<1>2. QED BY <1>1, Invariance, PTL

\* A hit is always on a linked line that holds the tag asked for.
THEOREM MapIsSound == Spec => []MapSound
<1>1. Inv => MapSound
  BY DEF Inv
<1>2. QED BY <1>1, Invariance, PTL

\* The PCC, the L2 TLB and the 2MB L1 TLB never hold a tag twice.
THEOREM NoGhosts == Spec => []NoGhost
<1>1. Inv => NoGhost
  BY DEF Inv
<1>2. QED BY <1>1, Invariance, PTL

\* The PCC list is ordered by frequency at all times.
THEOREM PccSorted == Spec => []Sorted
<1>1. Inv => Sorted
  BY DEF Inv
<1>2. QED BY <1>1, Invariance, PTL

\* What an insertion into a full set does to the tag map.
LEMMA InsertEvictDrops ==
    ASSUME Inv, NEW t \in Tag, NEW o \in Offset, InsertEvict(t, o),
           NEW u \in Tag, addr_map[u] # NULL, addr_map'[u] = NULL
    PROVE  u = addr[list[Len(list)]]
<1> DEFINE c == list[Len(list)]
<1>1. c \in Line
  BY VictimExists, LinesOfList DEF InsertEvict, Inv, TypeOK
<1>2. addr_map \in [Tag -> Line \cup {NULL}] /\ addr \in [Line -> Tag]
  BY DEF Inv, TypeOK
<1>3. addr_map' = [[addr_map EXCEPT ![addr[c]] = NULL] EXCEPT ![t] = c]
  BY DEF InsertEvict, Fill
<1> HIDE DEF c
<1>4. u # t
  BY <1>1, <1>2, <1>3, LineAssumption
<1>5. u = addr[c]
  BY <1>1, <1>2, <1>3, <1>4
<1>6. QED BY <1>5 DEF c

\* The PCC gives up a least used tag: the victim is the last line, its tag
\* leads to it, and the list is sorted.
THEOREM LeastUsedVictim == Spec => VictimIsLeastUsed
<1> DEFINE A == \A t, u \in Tag, o \in Offset :
                   /\ Policy = 2 /\ Disciplined
                   /\ InsertEvict(t, o)
                   /\ addr_map[u] # NULL /\ addr_map'[u] = NULL
                   => \A v \in Tag : addr_map[v] # NULL =>
                         freq[addr_map[u]] <= freq[addr_map[v]]
<1>1. ASSUME Inv PROVE A
  <2>1. SUFFICES ASSUME NEW t \in Tag, NEW u \in Tag, NEW o \in Offset,
                        Policy = 2, Disciplined, InsertEvict(t, o),
                        addr_map[u] # NULL, addr_map'[u] = NULL,
                        NEW v \in Tag, addr_map[v] # NULL
                 PROVE  freq[addr_map[u]] <= freq[addr_map[v]]
    OBVIOUS
  <2> DEFINE n == Len(list)
  <2>2. u = addr[list[n]]
    BY <1>1, <2>1, InsertEvictDrops
  <2>3. n \in 1..n /\ list[n] \in Lines(list) /\ list \in Seq(Line)
    BY <1>1, <2>1, VictimExists DEF InsertEvict, Inv, TypeOK
  <2>4. addr_map[u] = list[n]
    BY <1>1, <2>1, <2>2, <2>3 DEF Inv, NoGhost
  <2>5. addr_map[v] \in Lines(list)
    BY <1>1, <2>1 DEF Inv, MapSound
  <2>6. PICK i \in 1..n : addr_map[v] = list[i]
    BY <2>3, <2>5, LinesOfList
  <2>7. freq \in [Line -> Nat] /\ list[n] \in Line
    BY <1>1, <2>3, FreqType, LinesOfList DEF Inv
  <2>8. SortedBy(list, freq)
    BY <1>1, <2>1, SortedList DEF Inv
  <2> HIDE DEF n
  <2>9. CASE i = n
    BY <2>4, <2>6, <2>7, <2>9
  <2>10. CASE i # n
    <3>1. i < n
      BY <2>3, <2>6, <2>10
    <3>2. freq[list[i]] >= freq[list[n]]
      BY <2>3, <2>6, <2>8, <3>1 DEF SortedBy, n
    <3>3. list[i] \in Line
      BY <2>3, <2>6 DEF n
    <3>4. QED BY <2>4, <2>6, <2>7, <3>2, <3>3
  <2>11. QED BY <2>9, <2>10
<1>2. Inv /\ [Next]_vars => [A]_vars
  BY <1>1
<1> HIDE DEF A
<1>3. Spec => [][A]_vars
  BY <1>2, Invariance, PTL DEF Spec
<1>4. QED BY <1>3 DEF VictimIsLeastUsed, A
-----------------------------------------------------------------------------
(***************************************************************************)
(* The promotion candidate cache implements the frequency table of Lfu,    *)
(* for every size, MAX_FREQ and set of tags.                               *)
(***************************************************************************)
\* The facts about a ghost-free LFU set that every step below needs.
LEMMA PccFacts ==
    ASSUME Inv, Policy = 2, Disciplined
    PROVE  /\ list \in Seq(Line) /\ Simple(list)
           /\ freeEntries = Line \ Lines(list) /\ Lines(list) \subseteq Line
           /\ addr_map \in [Tag -> Line \cup {NULL}] /\ addr \in [Line -> Tag]
           /\ freq \in [Line -> Nat] /\ NULL \notin Line
           /\ \A t \in Resident : /\ addr_map[t] \in Lines(list)
                                  /\ addr_map[t] \in Line /\ addr[addr_map[t]] = t
                                  /\ Count[t] = freq[addr_map[t]]
           /\ \A l \in Lines(list) : addr[l] \in Resident /\ addr_map[addr[l]] = l
           /\ \A t \in Tag : t \notin Resident => addr_map[t] = NULL /\ Count[t] = 0
           /\ Count \in [Tag -> Nat]
<1>1. /\ list \in Seq(Line) /\ Simple(list)
      /\ freeEntries = Line \ Lines(list) /\ Lines(list) \subseteq Line
  BY PartitionedList, LinesOfList DEF Inv, TypeOK
<1>2. /\ addr_map \in [Tag -> Line \cup {NULL}] /\ addr \in [Line -> Tag]
      /\ freq \in [Line -> Nat] /\ NULL \notin Line
  BY FreqType, LineAssumption DEF Inv, TypeOK
<1>3. \A t \in Resident : /\ addr_map[t] \in Lines(list)
                          /\ addr_map[t] \in Line /\ addr[addr_map[t]] = t
                          /\ Count[t] = freq[addr_map[t]]
  BY <1>1 DEF Inv, MapSound, Resident, Count
<1>4. \A l \in Lines(list) : addr[l] \in Resident /\ addr_map[addr[l]] = l
  <2>1. ASSUME NEW l \in Lines(list) PROVE addr[l] \in Tag /\ addr_map[addr[l]] = l
    BY <1>1, <1>2 DEF Inv, NoGhost
  <2>2. QED BY <1>1, <1>2, <2>1 DEF Resident
<1>5. \A t \in Tag : t \notin Resident => addr_map[t] = NULL /\ Count[t] = 0
  BY DEF Resident, Count
<1>6. Count \in [Tag -> Nat]
  BY <1>2 DEF Count
<1>7. QED BY <1>1, <1>2, <1>3, <1>4, <1>5, <1>6

\* Tags and occupied lines correspond one to one, so the table is full
\* exactly when no line is free.
LEMMA FullIffNoFreeLine ==
    ASSUME Inv, Policy = 2, Disciplined
    PROVE  /\ Cardinality(Resident) \in Nat
           /\ freeEntries # {} => Cardinality(Resident) < Cardinality(Line)
           /\ freeEntries = {} => Cardinality(Resident) = Cardinality(Line)
<1> DEFINE m == [t \in Resident |-> addr_map[t]]
<1>1. m \in Injection(Resident, Line)
  BY PccFacts DEF Injection, IsInjective
<1>2. /\ IsFiniteSet(Resident) /\ Cardinality(Resident) <= Cardinality(Line)
      /\ Cardinality(Resident) = Cardinality(Line) <=> m \in Surjection(Resident, Line)
  BY <1>1, FS_Injection, LineAssumption
<1>3. Cardinality(Resident) \in Nat /\ Cardinality(Line) \in Nat
  BY <1>2, FS_CardinalityType, LineAssumption
<1>4. ASSUME freeEntries # {} PROVE m \notin Surjection(Resident, Line)
  <2>1. PICK l \in Line : l \notin Lines(list)
    BY <1>4, PccFacts
  <2>2. ~\E t \in Resident : m[t] = l
    BY <2>1, PccFacts
  <2>3. QED BY <2>2 DEF Surjection
<1>5. ASSUME freeEntries = {} PROVE m \in Surjection(Resident, Line)
  <2>1. ASSUME NEW l \in Line PROVE \E t \in Resident : m[t] = l
    <3>1. l \in Lines(list)
      BY <1>5, PccFacts
    <3>2. addr[l] \in Resident /\ m[addr[l]] = l
      BY <3>1, PccFacts
    <3>3. QED BY <3>2
  <2>2. QED BY <1>1, <2>1 DEF Surjection, Injection
<1> HIDE DEF m
<1>6. QED BY <1>2, <1>3, <1>4, <1>5

\* Lfu reads Cardinality through its own instance of FiniteSets.
LEMMA SameCardinality == Table!Cardinality(Resident) = Cardinality(Resident)
BY DEF Table!Cardinality, Cardinality

\* The constructor makes an empty table.
LEMMA InitTable == Init => Table!LfuInit
BY DEF Init, Table!LfuInit, Resident, Count

\* A hit.
LEMMA AccessIsHit ==
    ASSUME Inv, Policy = 2, Disciplined, NEW t \in Tag, NEW o \in Offset, Access(t, o)
    PROVE  Table!Hit(t)
<1> DEFINE c == addr_map[t]
           counted == [freq EXCEPT ![c] = @ + 1]
<1>1. /\ t \in Resident /\ c \in Lines(list) /\ c \in Line /\ Count[t] = freq[c]
  BY PccFacts DEF Access, Resident
<1>2. /\ addr_map' = addr_map
      /\ list' = Place(DeleteNode(list, c), c, freq)
      /\ freq' = IF counted[c] = MaxFreq THEN DecayFreqs(list', counted) ELSE counted
  BY DEF Access
<1>3. Resident' = Resident
  BY <1>2 DEF Resident
<1>4. Lines(list') = Lines(list)
  <2>1. /\ DeleteNode(list, c) \in Seq(Line) /\ Simple(DeleteNode(list, c))
        /\ Lines(DeleteNode(list, c)) = Lines(list) \ {c}
    BY <1>1, PccFacts, DeleteProperties
  <2> DEFINE rest == DeleteNode(list, c)
  <2>2. c \notin Lines(rest)
    BY <2>1
  <2> HIDE DEF rest, c
  <2>3. rest \in Seq(Line) /\ Simple(rest) /\ freq \in [Line -> Nat]
    BY <2>1, PccFacts DEF rest
  <2>4. Lines(Place(rest, c, freq)) = Lines(rest) \cup {c}
    BY <1>1, <2>2, <2>3, PlaceProperties
  <2>5. QED BY <1>1, <1>2, <2>1, <2>4 DEF rest
<1>5. counted[c] = Count[t] + 1 /\ \A l \in Line : l # c => counted[l] = freq[l]
  BY <1>1, PccFacts
<1>6. Count' = [u \in Tag |-> IF u \in Resident THEN freq'[addr_map[u]] ELSE 0]
  BY <1>2 DEF Count, Resident
<1>7. \A u \in Resident : u # t => addr_map[u] # c
  BY <1>1, PccFacts
<1>8. CASE counted[c] = MaxFreq
  <2>1. ASSUME NEW u \in Tag
        PROVE  (IF u \in Resident THEN freq'[addr_map[u]] ELSE 0)
                 = (IF u = t THEN MaxFreq \div 2 ELSE Count[u] \div 2)
    <3>1. CASE u \notin Resident
      BY <1>1, <3>1, PccFacts
    <3>2. CASE u \in Resident
      <4>1. addr_map[u] \in Lines(list') /\ addr_map[u] \in Line
        BY <1>4, <3>2, PccFacts
      <4>2. freq'[addr_map[u]] = counted[addr_map[u]] \div 2
        BY <1>2, <1>8, <4>1 DEF DecayFreqs
      <4>3. counted[addr_map[u]] = IF u = t THEN MaxFreq ELSE Count[u]
        BY <1>5, <1>7, <1>8, <3>2, <4>1, PccFacts
      <4>4. QED BY <3>2, <4>2, <4>3
    <3>3. QED BY <3>1, <3>2
  <2>2. Count' = [u \in Tag |-> IF u = t THEN MaxFreq \div 2 ELSE Count[u] \div 2]
    BY <1>6, <2>1
  <2>3. QED BY <1>1, <1>3, <1>5, <1>8, <2>2 DEF Table!Hit
<1>9. CASE counted[c] # MaxFreq
  <2>1. ASSUME NEW u \in Tag
        PROVE  (IF u \in Resident THEN freq'[addr_map[u]] ELSE 0)
                 = (IF u = t THEN Count[t] + 1 ELSE Count[u])
    <3>1. CASE u \notin Resident
      BY <1>1, <3>1, PccFacts
    <3>2. CASE u \in Resident
      BY <1>2, <1>5, <1>7, <1>9, <3>2, PccFacts
    <3>3. QED BY <3>1, <3>2
  <2>2. Count' = [u \in Tag |-> IF u = t THEN Count[t] + 1 ELSE Count[u]]
    BY <1>6, <2>1
  <2>3. Count' = [Count EXCEPT ![t] = Count[t] + 1]
    BY <2>2, PccFacts
  <2>4. QED BY <1>1, <1>3, <1>5, <1>9, <2>3 DEF Table!Hit
<1>10. QED BY <1>8, <1>9

\* A miss while a line is free.
LEMMA InsertFreeIsAdmit ==
    ASSUME Inv, Policy = 2, Disciplined, NEW t \in Tag, NEW o \in Offset, InsertFree(t, o)
    PROVE  Table!Admit(t)
<1>1. PICK c \in freeEntries : Fill(t, o, c, list, addr_map)
  BY DEF InsertFree
<1>2. addr_map[t] = NULL /\ t \notin Resident
  BY DEF InsertFree, Resident
<1>3. /\ c \in Line /\ c \notin Lines(list)
      /\ addr_map' = [addr_map EXCEPT ![t] = c] /\ freq' = [freq EXCEPT ![c] = 0]
  BY <1>1, PccFacts DEF Fill
<1>4. Cardinality(Resident) < Cardinality(Line)
  BY <1>1, FullIffNoFreeLine
<1>5. addr_map'[t] = c /\ \A u \in Tag : u # t => addr_map'[u] = addr_map[u]
  BY <1>3, PccFacts
<1>6. Resident' = Resident \cup {t}
  BY <1>2, <1>3, <1>5, PccFacts DEF Resident
<1>7. Count' = Count
  <2>1. ASSUME NEW u \in Tag
        PROVE  (IF addr_map'[u] = NULL THEN 0 ELSE freq'[addr_map'[u]]) = Count[u]
    <3>1. CASE u = t
      BY <1>2, <1>3, <1>5, <3>1, PccFacts
    <3>2. CASE u # t /\ u \in Resident
      <4>1. addr_map'[u] = addr_map[u] /\ addr_map[u] # c /\ addr_map[u] # NULL
        BY <1>3, <1>5, <3>2, PccFacts
      <4>2. QED BY <1>3, <3>2, <4>1, PccFacts
    <3>3. CASE u # t /\ u \notin Resident
      BY <1>5, <3>3, PccFacts
    <3>4. QED BY <3>1, <3>2, <3>3
  <2>2. Count' = [u \in Tag |-> Count[u]]
    BY <2>1 DEF Count
  <2>3. Count = [u \in Tag |-> Count[u]]
    <3>1. Count \in [Tag -> Nat]
      BY PccFacts
    <3>2. QED BY <3>1
  <2>4. QED BY <2>2, <2>3
<1>8. QED BY <1>2, <1>4, <1>6, <1>7, SameCardinality DEF Table!Admit

\* A miss in a full set.
LEMMA InsertEvictIsDisplace ==
    ASSUME Inv, Policy = 2, Disciplined, NEW t \in Tag, NEW o \in Offset, InsertEvict(t, o)
    PROVE  \E v \in Tag : Table!Displace(t, v)
<1> DEFINE c == list[Len(list)]
           v == addr[c]
<1>1. c \in Lines(list) /\ c \in Line /\ Len(list) \in 1..Len(list)
  BY PccFacts, VictimExists DEF InsertEvict
<1>2. v \in Resident /\ addr_map[v] = c /\ Count[v] = freq[c] /\ v \in Tag
  BY <1>1, PccFacts
<1>3. /\ addr_map' = [[addr_map EXCEPT ![v] = NULL] EXCEPT ![t] = c]
      /\ freq' = [freq EXCEPT ![c] = 0]
      /\ freeEntries = {} /\ addr_map[t] = NULL
  BY DEF InsertEvict, Fill
<1>4. ASSUME NEW u \in Resident PROVE Count[v] <= Count[u]
  <2>0. addr_map[u] \in Lines(list) /\ list \in Seq(Line)
    BY PccFacts
  <2>1. PICK i \in 1..Len(list) : addr_map[u] = list[i]
    BY <2>0, LinesOfList DEF Lines
  <2>2. SortedBy(list, freq)
    BY SortedList DEF Inv
  <2>3. Count[u] = freq[list[i]] /\ list[i] \in Line
    BY <2>1, PccFacts
  <2>4. CASE i = Len(list)
    BY <1>1, <1>2, <2>3, <2>4, PccFacts
  <2>5. CASE i # Len(list)
    <3>1. i < Len(list)
      BY <1>1, <2>5
    <3>2. freq[list[i]] >= freq[c]
      BY <1>1, <2>2, <3>1 DEF SortedBy
    <3>3. QED BY <1>1, <1>2, <2>3, <3>2, PccFacts
  <2>6. QED BY <2>4, <2>5
<1> HIDE DEF c, v
<1>5. t \notin Resident /\ t # v
  BY <1>2, <1>3 DEF Resident
<1>6. Cardinality(Resident) = Cardinality(Line)
  BY <1>3, FullIffNoFreeLine
<1>7. /\ addr_map'[t] = c /\ addr_map'[v] = NULL
      /\ \A u \in Tag : u # t /\ u # v => addr_map'[u] = addr_map[u]
  BY <1>2, <1>3, <1>5, PccFacts
<1>8. Resident' = (Resident \ {v}) \cup {t}
  BY <1>1, <1>2, <1>5, <1>7, PccFacts DEF Resident
<1>9. Count' = [Count EXCEPT ![v] = 0]
  <2>1. ASSUME NEW u \in Tag
        PROVE  (IF addr_map'[u] = NULL THEN 0 ELSE freq'[addr_map'[u]])
                  = (IF u = v THEN 0 ELSE Count[u])
    <3>1. CASE u = t
      BY <1>1, <1>3, <1>5, <1>7, <3>1, PccFacts
    <3>2. CASE u = v
      BY <1>7, <3>2
    <3>3. CASE u # t /\ u # v /\ u \in Resident
      <4>1. addr_map'[u] = addr_map[u] /\ addr_map[u] # c /\ addr_map[u] # NULL
        BY <1>2, <1>7, <3>3, PccFacts
      <4>2. QED BY <1>3, <3>3, <4>1, PccFacts
    <3>4. CASE u # t /\ u # v /\ u \notin Resident
      BY <1>7, <3>4, PccFacts
    <3>5. QED BY <3>1, <3>2, <3>3, <3>4
  <2>2. Count' = [u \in Tag |-> IF u = v THEN 0 ELSE Count[u]]
    BY <2>1 DEF Count
  <2>3. QED BY <1>2, <2>2, PccFacts
<1>10. Table!Displace(t, v)
  <2>1. t \in Tag \ Resident
    BY <1>5
  <2>2. \A u \in Resident : Count[v] <= Count[u]
    BY <1>4
  <2>3. QED BY <1>2, <1>6, <1>8, <1>9, <2>1, <2>2, SameCardinality DEF Table!Displace
<1>11. QED BY <1>2, <1>10

\* evict.
LEMMA EvictIsRemove ==
    ASSUME Inv, Policy = 2, Disciplined, NEW t \in Tag, Evict(t)
    PROVE  Table!Remove(t)
<1>1. t \in Resident
  BY DEF Evict, Resident
<1>2. addr_map' = [addr_map EXCEPT ![t] = NULL] /\ freq' = freq
  BY <1>1, PccFacts DEF Evict
<1>3. Resident' = Resident \ {t}
  BY <1>2, PccFacts DEF Resident
<1>4. Count' = [Count EXCEPT ![t] = 0]
  <2>1. Count' = [u \in Tag |-> IF u = t THEN 0 ELSE Count[u]]
    BY <1>2, PccFacts DEF Count
  <2>2. QED BY <2>1, PccFacts
<1>5. QED BY <1>1, <1>3, <1>4 DEF Table!Remove

\* flush.
LEMMA FlushIsClear ==
    ASSUME Inv, Policy = 2, Disciplined, Flush
    PROVE  Table!Clear
<1>1. ASSUME NEW u \in Tag PROVE addr_map'[u] = NULL
  <2>1. CASE u \in Resident
    <3>1. addr_map[u] \in Lines(list) /\ addr[addr_map[u]] = u
      BY <2>1, PccFacts
    <3>2. QED BY <3>1 DEF Flush
  <2>2. CASE u \notin Resident
    BY <2>2, PccFacts DEF Flush
  <2>3. QED BY <2>1, <2>2
<1>2. Resident' = {} /\ Count' = [t \in Tag |-> 0]
  BY <1>1 DEF Resident, Count
<1>3. QED BY <1>2 DEF Table!Clear

\* Every call of the linked-list implementation is a step of the table.
LEMMA StepRefines ==
    ASSUME Inv, Policy = 2, Disciplined, [Next]_vars
    PROVE  [Table!LfuNext]_(Table!lfuVars)
<1>1. CASE UNCHANGED vars
  BY <1>1 DEF vars, Table!lfuVars, Resident, Count
<1>2. CASE Next
  BY <1>2, AccessIsHit, InsertFreeIsAdmit, InsertEvictIsDisplace, EvictIsRemove,
     FlushIsClear DEF Next, Table!LfuNext
<1>3. QED BY <1>1, <1>2

\* The promotion candidate cache, as the simulator calls it, implements the
\* least-frequently-used table.
THEOREM PccImplementsLfu ==
    ASSUME Policy = 2, Disciplined
    PROVE  Spec => ImplementsLfu
<1>1. Init => Table!LfuInit
  BY InitTable
<1>2. Inv /\ [Next]_vars => [Table!LfuNext]_(Table!lfuVars)
  BY StepRefines
<1>3. QED BY <1>1, <1>2, Invariance, PTL DEF Spec, ImplementsLfu, Table!LfuSpec
-----------------------------------------------------------------------------
(***************************************************************************)
(* The list of an LRU set is its order of recency, for every               *)
(* associativity and every caller, the ones that insert a tag twice        *)
(* included.                                                               *)
(***************************************************************************)
\* RecencyOrder for a list s, a tag map m, line tags a and a history w.
Recent(s, m, a, w) ==
    \A i, j \in 1..Len(s) :
        i < j /\ m[a[s[i]]] = s[i] /\ m[a[s[j]]] = s[j] => a[s[i]] \in w[a[s[j]]]

\* The type of the history, and the inductive invariant with it.
NewerOK == newer \in [Tag -> SUBSET Tag]

LruInv == Inv /\ NewerOK /\ RecencyOrder

\* RecencyOrder, with the list as a sequence.
LEMMA RecencyList ==
    ASSUME TypeOK
    PROVE  RecencyOrder <=> (Policy = 0 => Recent(list, addr_map, addr, newer))
<1>1. DOMAIN list = 1..Len(list)
  BY DEF TypeOK
<1>2. QED BY <1>1 DEF RecencyOrder, Recent, Live

\* Unlinking a line leaves the others in order.
LEMMA RecentDelete ==
    ASSUME NEW s \in Seq(Line), Simple(s), NEW c \in Lines(s),
           NEW m, NEW a, NEW w, Recent(s, m, a, w)
    PROVE  Recent(DeleteNode(s, c), m, a, w)
<1> DEFINE r == DeleteNode(s, c)
           n == Len(s)
<1>0. n \in Nat
  OBVIOUS
<1>1. Len(r) = n - 1
  BY DeleteProperties
<1>2. PICK p \in 1..n : \A j \in 1..(n - 1) : r[j] = IF j < p THEN s[j] ELSE s[j + 1]
  BY DeleteProperties
<1> HIDE DEF r
<1>3. SUFFICES ASSUME NEW i \in 1..(n - 1), NEW j \in 1..(n - 1), i < j,
                      m[a[r[i]]] = r[i], m[a[r[j]]] = r[j]
               PROVE  a[r[i]] \in w[a[r[j]]]
  BY <1>1 DEF Recent, r
<1> DEFINE x == IF i < p THEN i ELSE i + 1
           y == IF j < p THEN j ELSE j + 1
<1>4. x \in 1..n /\ y \in 1..n /\ x < y
  BY <1>0, <1>3
<1>5. r[i] = s[x] /\ r[j] = s[y]
  BY <1>2
<1> HIDE DEF x, y
<1>6. QED BY <1>3, <1>4, <1>5 DEF Recent

\* A touched line moves, or comes, to the front; the lines behind it that
\* are still found were found before and their tags are not the one touched.
LEMMA TouchOrder ==
    ASSUME NewerOK, NEW t \in Tag, Touched(t),
           NEW rest \in Seq(Line), NEW c \in Line,
           Recent(rest, addr_map, addr, newer),
           list' = InsertAt(rest, 1, c), addr'[c] = t,
           \A l \in Lines(rest) :
              addr_map'[addr'[l]] = l => /\ addr'[l] = addr[l] /\ addr[l] \in Tag
                                         /\ addr_map[addr[l]] = l /\ addr[l] # t
    PROVE  Recent(list, addr_map, addr, newer)' /\ NewerOK'
<1> DEFINE n == Len(rest)
<1>0. n \in Nat /\ 1 \in 1..(n + 1)
  OBVIOUS
<1>1. /\ Len(list') = n + 1 /\ list'[1] = c
      /\ \A j \in 2..(n + 1) : list'[j] = rest[j - 1]
  <2>1. /\ Len(InsertAt(rest, 1, c)) = n + 1
        /\ \A j \in 1..(n + 1) :
              InsertAt(rest, 1, c)[j] =
                 IF j < 1 THEN rest[j] ELSE IF j = 1 THEN c ELSE rest[j - 1]
    BY <1>0, InsertAtProperties
  <2>2. QED BY <1>0, <2>1
<1>2. NewerOK' /\ \A u \in Tag : u # t => newer'[u] = newer[u] \cup {t}
  BY DEF NewerOK, Touched
<1>3. ASSUME NEW i \in 1..n PROVE rest[i] \in Lines(rest)
  BY LinesOfList
<1>4. SUFFICES ASSUME NEW i \in 1..(n + 1), NEW j \in 1..(n + 1), i < j,
                      addr_map'[addr'[list'[i]]] = list'[i],
                      addr_map'[addr'[list'[j]]] = list'[j]
               PROVE  addr'[list'[i]] \in newer'[addr'[list'[j]]]
  BY <1>1, <1>2 DEF Recent
<1>5. j - 1 \in 1..n /\ list'[j] = rest[j - 1] /\ rest[j - 1] \in Lines(rest)
  BY <1>0, <1>1, <1>3, <1>4
<1> DEFINE u == addr[rest[j - 1]]
<1>6. /\ addr'[list'[j]] = u /\ u \in Tag /\ u # t
      /\ addr_map[u] = rest[j - 1]
  BY <1>4, <1>5
<1>7. CASE i = 1
  BY <1>1, <1>2, <1>6, <1>7
<1>8. CASE i # 1
  <2>1. i - 1 \in 1..n /\ i - 1 < j - 1 /\ list'[i] = rest[i - 1]
        /\ rest[i - 1] \in Lines(rest)
    BY <1>0, <1>1, <1>3, <1>4, <1>8, SMTT(30)
  <2>2. addr'[list'[i]] = addr[rest[i - 1]] /\ addr_map[addr[rest[i - 1]]] = rest[i - 1]
    BY <1>4, <2>1
  <2>3. addr[rest[i - 1]] \in newer[u]
    BY <1>5, <1>6, <2>1, <2>2 DEF Recent
  <2>4. QED BY <1>2, <1>6, <2>2, <2>3
<1>9. QED BY <1>7, <1>8

\* The facts about the set that the steps below need.
LEMMA LruFacts ==
    ASSUME LruInv, Policy = 0
    PROVE  /\ list \in Seq(Line) /\ Simple(list)
           /\ freeEntries = Line \ Lines(list) /\ Lines(list) \subseteq Line
           /\ addr_map \in [Tag -> Line \cup {NULL}] /\ addr \in [Line -> Tag]
           /\ \A t \in Tag : addr_map[t] # NULL =>
                 addr_map[t] \in Lines(list) /\ addr[addr_map[t]] = t
           /\ Recent(list, addr_map, addr, newer) /\ NewerOK
BY PartitionedList, LinesOfList, RecencyList DEF LruInv, Inv, TypeOK, MapSound

\* access.
LEMMA AccessOrder ==
    ASSUME LruInv, Policy = 0, NEW t \in Tag, NEW o \in Offset, Access(t, o), Touched(t)
    PROVE  Recent(list, addr_map, addr, newer)' /\ NewerOK'
<1> DEFINE c == addr_map[t]
           rest == DeleteNode(list, c)
<1>1. c \in Lines(list) /\ c \in Line /\ addr[c] = t
  BY LruFacts DEF Access
<1>2. /\ list' = InsertAt(rest, 1, c)
      /\ addr' = addr /\ addr_map' = addr_map
  BY DEF Access, Place
<1>3. rest \in Seq(Line) /\ Lines(rest) = Lines(list) \ {c}
  BY <1>1, LruFacts, DeleteProperties
<1>4. Recent(rest, addr_map, addr, newer)
  BY <1>1, LruFacts, RecentDelete
<1>5. \A l \in Lines(rest) :
         addr_map'[addr'[l]] = l => /\ addr'[l] = addr[l] /\ addr[l] \in Tag
                                    /\ addr_map[addr[l]] = l /\ addr[l] # t
  BY <1>2, <1>3, LruFacts
<1>6. addr'[c] = t /\ NewerOK
  BY <1>1, <1>2, LruFacts
<1> HIDE DEF c, rest
<1>7. QED BY <1>1, <1>2, <1>3, <1>4, <1>5, <1>6, TouchOrder

\* The common end of insert.
LEMMA FillOrder ==
    ASSUME LruInv, Policy = 0, NEW t \in Tag, NEW o \in Offset, Touched(t),
           NEW rest \in Seq(Line), NEW c \in Line, c \notin Lines(rest),
           Recent(rest, addr_map, addr, newer),
           NEW map \in [Tag -> Line \cup {NULL}],
           \A u \in Tag : map[u] = addr_map[u] \/ map[u] = NULL,
           Fill(t, o, c, rest, map)
    PROVE  Recent(list, addr_map, addr, newer)' /\ NewerOK'
<1>1. /\ list' = InsertAt(rest, 1, c)
      /\ addr' = [addr EXCEPT ![c] = t] /\ addr_map' = [map EXCEPT ![t] = c]
  BY DEF Fill, Place
<1>2. addr'[c] = t /\ NewerOK
  BY <1>1, LruFacts
<1>3. ASSUME NEW l \in Lines(rest), addr_map'[addr'[l]] = l
      PROVE  /\ addr'[l] = addr[l] /\ addr[l] \in Tag
             /\ addr_map[addr[l]] = l /\ addr[l] # t
  <2>1. l # c /\ l \in Line
    BY LinesOfList
  <2>2. addr'[l] = addr[l] /\ addr[l] \in Tag
    BY <1>1, <2>1, LruFacts
  <2>3. addr[l] # t
    BY <1>1, <1>3, <2>1, <2>2
  <2>4. map[addr[l]] = l
    BY <1>1, <1>3, <2>2, <2>3
  <2>5. QED BY <2>1, <2>2, <2>3, <2>4, LineAssumption
<1>4. \A l \in Lines(rest) :
         addr_map'[addr'[l]] = l => /\ addr'[l] = addr[l] /\ addr[l] \in Tag
                                    /\ addr_map[addr[l]] = l /\ addr[l] # t
  BY <1>3
<1>5. NewerOK /\ addr'[c] = t /\ list' = InsertAt(rest, 1, c)
  BY <1>1, <1>2
<1>6. QED BY <1>4, <1>5, TouchOrder, Zenon

\* insert while a line is free.
LEMMA InsertFreeOrder ==
    ASSUME LruInv, Policy = 0, NEW t \in Tag, NEW o \in Offset, InsertFree(t, o), Touched(t)
    PROVE  Recent(list, addr_map, addr, newer)' /\ NewerOK'
<1>1. PICK c \in freeEntries : Fill(t, o, c, list, addr_map)
  BY DEF InsertFree
<1>2. c \in Line /\ c \notin Lines(list)
  BY LruFacts
<1>3. QED BY <1>1, <1>2, LruFacts, FillOrder

\* insert into a full set.
LEMMA InsertEvictOrder ==
    ASSUME LruInv, Policy = 0, NEW t \in Tag, NEW o \in Offset, InsertEvict(t, o), Touched(t)
    PROVE  Recent(list, addr_map, addr, newer)' /\ NewerOK'
<1> DEFINE c == list[Len(list)]
           rest == DeleteNode(list, c)
           map == [addr_map EXCEPT ![addr[c]] = NULL]
<1>1. c \in Lines(list) /\ c \in Line
  BY LruFacts, VictimExists DEF InsertEvict, LruInv
<1>2. rest \in Seq(Line) /\ c \notin Lines(rest)
  BY <1>1, LruFacts, DeleteProperties
<1>3. Recent(rest, addr_map, addr, newer)
  BY <1>1, LruFacts, RecentDelete
<1>4. /\ map \in [Tag -> Line \cup {NULL}]
      /\ \A u \in Tag : map[u] = addr_map[u] \/ map[u] = NULL
  BY <1>1, LruFacts
<1>5. Fill(t, o, c, rest, map)
  BY DEF InsertEvict
<1> HIDE DEF c, rest, map
<1>6. QED BY <1>1, <1>2, <1>3, <1>4, <1>5, FillOrder

\* evict.
LEMMA EvictOrder ==
    ASSUME LruInv, Policy = 0, NEW t \in Tag, Evict(t), UNCHANGED newer
    PROVE  Recent(list, addr_map, addr, newer)'
<1> DEFINE c == addr_map[t]
           rest == DeleteNode(list, c)
<1>1. c \in Lines(list) /\ c \in Line /\ addr[c] = t
  BY LruFacts DEF Evict
<1>2. /\ list' = rest /\ addr' = addr /\ newer' = newer
      /\ addr_map' = [addr_map EXCEPT ![t] = NULL]
  BY <1>1 DEF Evict
<1>3. rest \in Seq(Line) /\ Recent(rest, addr_map, addr, newer)
  BY <1>1, LruFacts, RecentDelete, DeleteProperties
<1> HIDE DEF rest, c
<1>4. ASSUME NEW i \in 1..Len(rest), addr_map'[addr[rest[i]]] = rest[i]
      PROVE  addr_map[addr[rest[i]]] = rest[i]
  <2>1. rest[i] \in Line /\ addr[rest[i]] \in Tag
    BY <1>3, LruFacts
  <2>2. QED BY <1>2, <1>4, <2>1, LruFacts, LineAssumption
<1>5. QED BY <1>2, <1>3, <1>4 DEF Recent

\* flush.
LEMMA FlushOrder ==
    ASSUME Flush
    PROVE  Recent(list, addr_map, addr, newer)'
<1>1. Len(list') = 0
  BY DEF Flush
<1>2. QED BY <1>1 DEF Recent

\* Every step keeps the order.
LEMMA LruNextInv ==
    ASSUME LruInv, [LruNext]_lruVars
    PROVE  LruInv'
<1>1. Inv'
  <2>1. [Next]_vars
    BY DEF LruNext, lruVars, Next, vars
  <2>2. QED BY <2>1, NextInv DEF LruInv
<1>2. NewerOK'
  BY DEF LruInv, NewerOK, LruNext, Touched, lruVars
<1>3. ASSUME Policy = 0 => Recent(list, addr_map, addr, newer)' PROVE LruInv'
  <2>1. DOMAIN list' = 1..Len(list')
    BY <1>1 DEF Inv, TypeOK
  <2>2. RecencyOrder'
    BY <1>3, <2>1 DEF RecencyOrder, Recent, Live
  <2>3. QED BY <1>1, <1>2, <2>2 DEF LruInv
<1>4. CASE Policy # 0
  BY <1>4, <1>3
<1>5. CASE Policy = 0
  <2>1. CASE UNCHANGED lruVars
    <3>1. Recent(list, addr_map, addr, newer)'
      BY <1>5, <2>1, LruFacts DEF lruVars, vars, Recent
    <3>2. QED BY <1>3, <3>1
  <2>2. CASE LruNext
    <3>1. Recent(list, addr_map, addr, newer)'
      BY <1>5, <2>2, AccessOrder, InsertFreeOrder, InsertEvictOrder, EvictOrder,
         FlushOrder DEF LruNext
    <3>2. QED BY <1>3, <3>1
  <2>3. QED BY <2>1, <2>2
<1>6. QED BY <1>4, <1>5

\* The invariant holds in every state of an LRU set with its history.
THEOREM LruInvariance == LruSpec => []LruInv
<1>1. LruInit => LruInv
  <2> SUFFICES ASSUME LruInit PROVE LruInv
    OBVIOUS
  <2>1. Inv /\ NewerOK
    BY InitInv DEF LruInit, NewerOK
  <2>2. DOMAIN list = {}
    BY DEF LruInit, Init
  <2>3. QED BY <2>1, <2>2 DEF LruInv, RecencyOrder
<1>2. LruInv /\ [LruNext]_lruVars => LruInv'
  BY LruNextInv
<1>3. QED BY <1>1, <1>2, PTL DEF LruSpec

\* The list of an LRU set is ordered by recency.
THEOREM RecencyOrdered == LruSpec => []RecencyOrder
<1>1. LruInv => RecencyOrder
  BY DEF LruInv
<1>2. QED BY <1>1, LruInvariance, PTL

\* A full LRU set whose last line is not a ghost gives up the tag whose last
\* touch is the oldest.
THEOREM LeastRecentVictim == LruSpec => VictimIsLeastRecent
<1> DEFINE Oldest ==
      \A t, u \in Tag, o \in Offset :
           /\ Policy = 0
           /\ InsertEvict(t, o) /\ Live(list[Len(list)])
           /\ addr_map[u] # NULL /\ addr_map'[u] = NULL
           => \A v \in Tag \ {u} : addr_map[v] # NULL => v \in newer[u]
<1>1. LruInv /\ [LruNext]_lruVars => [Oldest]_lruVars
  <2>1. SUFFICES ASSUME LruInv, Policy = 0,
                        NEW t \in Tag, NEW u \in Tag, NEW o \in Offset,
                        InsertEvict(t, o), Live(list[Len(list)]),
                        addr_map[u] # NULL, addr_map'[u] = NULL,
                        NEW v \in Tag \ {u}, addr_map[v] # NULL
                 PROVE  v \in newer[u]
    OBVIOUS
  <2>2. u = addr[list[Len(list)]] /\ Len(list) \in 1..Len(list)
    BY <2>1, InsertEvictDrops, VictimExists DEF LruInv, InsertEvict
  <2>3. addr_map[v] \in Lines(list) /\ addr[addr_map[v]] = v /\ list \in Seq(Line)
    BY <2>1, LruFacts
  <2>4. PICK i \in 1..Len(list) : addr_map[v] = list[i]
    BY <2>3, LinesOfList
  <2>5. addr[list[i]] = v /\ addr_map[addr[list[i]]] = list[i]
    BY <2>3, <2>4
  <2>6. i < Len(list)
    BY <2>2, <2>5
  <2>7. Recent(list, addr_map, addr, newer)
    BY <2>1, LruFacts
  <2>8. QED BY <2>1, <2>2, <2>5, <2>6, <2>7 DEF Recent, Live
<1>2. QED BY <1>1, LruInvariance, PTL DEF LruSpec, VictimIsLeastRecent
-----------------------------------------------------------------------------
(***************************************************************************)
(* The set as a value.  The lines of the list, read through their fields   *)
(* and the tag map, change as the operators of LineSet say.                *)
(***************************************************************************)
Entry == [tag : Tag, freq : Nat, offset : Offset, live : BOOLEAN]

\* What a line looks like with the fields a, f and o and the tag map m; and a
\* list whose lines look like g.
View(a, f, o, m) ==
    [l \in Line |-> [tag |-> a[l], freq |-> IF Policy = 2 THEN f[l] ELSE 0,
                     offset |-> o[l], live |-> m[a[l]] = l]]
Seen(s, g) == [i \in DOMAIN s |-> g[s[i]]]

\* LineSet reads the operators on sequences through its own instance.
LEMMA SameOperators ==
    /\ \A s, i, e : LS!InsertAt(s, i, e) = InsertAt(s, i, e)
    /\ \A s, i : LS!RemoveAt(s, i) = RemoveAt(s, i)
    /\ \A s : LS!Front(s) = Front(s) /\ LS!Last(s) = Last(s)
    /\ \A T : LS!Min(T) = Min(T)
BY DEF LS!InsertAt, InsertAt, LS!RemoveAt, RemoveAt, LS!Front, Front, LS!Last, Last, LS!Min, Min

\* The fields of a line, in its view.
Fields(g, a, f, o, m) ==
    \A l \in Line : /\ g[l].tag = a[l] /\ g[l].freq = (IF Policy = 2 THEN f[l] ELSE 0)
                    /\ g[l].offset = o[l] /\ (g[l].live <=> m[a[l]] = l)

\* A view has them all.
LEMMA ViewFields ==
    ASSUME NEW a \in [Line -> Tag], NEW f \in [Line -> Nat], NEW o \in [Line -> Offset], NEW m,
           NEW g, g = View(a, f, o, m)
    PROVE  g \in [Line -> Entry] /\ Fields(g, a, f, o, m)
BY DEF View, Entry, Fields

\* A list has as many views as lines.
LEMMA SeenList ==
    ASSUME NEW s \in Seq(Line), NEW g \in [Line -> Entry]
    PROVE  /\ Seen(s, g) \in Seq(Entry) /\ Len(Seen(s, g)) = Len(s) /\ Len(s) \in Nat
           /\ DOMAIN Seen(s, g) = 1..Len(s)
           /\ \A i \in 1..Len(s) : s[i] \in Line /\ Seen(s, g)[i] = g[s[i]]
<1>1. DOMAIN s = 1..Len(s) /\ Len(s) \in Nat /\ \A i \in 1..Len(s) : s[i] \in Line
  OBVIOUS
<1>2. Seen(s, g) \in [1..Len(s) -> Entry]
  BY <1>1 DEF Seen
<1>3. Seen(s, g) \in Seq(Entry) /\ Len(Seen(s, g)) = Len(s)
  BY <1>1, <1>2, FunctionIsList
<1>4. QED BY <1>1, <1>2, <1>3 DEF Seen

\* Lists whose lines look alike are seen alike.
LEMMA SeenAlike ==
    ASSUME NEW s \in Seq(Line), NEW g, NEW h, \A l \in Lines(s) : g[l] = h[l]
    PROVE  Seen(s, g) = Seen(s, h)
BY DEF Seen, Lines

\* Unlinking commutes with the view ...
LEMMA SeenUnlinked ==
    ASSUME NEW s \in Seq(Line), NEW g \in [Line -> Entry], NEW i \in 1..Len(s)
    PROVE  RemoveAt(Seen(s, g), i) = Seen(RemoveAt(s, i), g)
<1>1. PICK r : r = RemoveAt(s, i)
  OBVIOUS
<1>2. r \in Seq(Line) /\ Len(r) = Len(s) - 1 /\ \A j \in 1..(Len(s) - 1) : r[j] = IF j < i THEN s[j] ELSE s[j + 1]
  BY <1>1, RemoveAtProperties
<1>3. PICK v : v = Seen(s, g)
  OBVIOUS
<1>4. v \in Seq(Entry) /\ Len(v) = Len(s) /\ Len(s) \in Nat /\ \A j \in 1..Len(s) : v[j] = g[s[j]]
  BY <1>3, SeenList
<1>5. PICK x : x = RemoveAt(v, i)
  OBVIOUS
<1>6. x \in Seq(Entry) /\ Len(x) = Len(v) - 1 /\ \A j \in 1..(Len(v) - 1) : x[j] = IF j < i THEN v[j] ELSE v[j + 1]
  <2>1. v \in Seq(Entry) /\ i \in 1..Len(v)
    BY <1>4
  <2>2. x \in Seq(Entry) /\ Unlinked(x, v, i)
    BY <1>5, <2>1, RemoveAtUnlinks
  <2>3. QED BY <2>2 DEF Unlinked
<1>7. PICK y : y = Seen(r, g)
  OBVIOUS
<1>8. y \in Seq(Entry) /\ Len(y) = Len(r) /\ \A j \in 1..Len(r) : y[j] = g[r[j]]
  BY <1>2, <1>7, SeenList
<1>9. ASSUME NEW j \in 1..Len(x) PROVE x[j] = y[j]
  <2>1. j \in 1..(Len(s) - 1) /\ j \in 1..Len(s) /\ j + 1 \in 1..Len(s)
    BY <1>4, <1>6
  <2>2. CASE j < i
    <3>1. x[j] = v[j] /\ r[j] = s[j]
      BY <1>2, <1>4, <1>6, <2>1, <2>2
    <3>2. QED BY <1>2, <1>4, <1>8, <2>1, <3>1
  <2>3. CASE ~(j < i)
    <3>1. x[j] = v[j + 1] /\ r[j] = s[j + 1]
      BY <1>2, <1>4, <1>6, <2>1, <2>3
    <3>2. QED BY <1>2, <1>4, <1>8, <2>1, <3>1
  <2>4. QED BY <2>2, <2>3
<1>10. x = y
  BY <1>2, <1>4, <1>6, <1>8, <1>9, SeqEqual
<1>11. QED BY <1>1, <1>3, <1>5, <1>7, <1>10

\* ... and so does linking.
LEMMA SeenLinked ==
    ASSUME NEW s \in Seq(Line), NEW g \in [Line -> Entry], NEW i \in 1..(Len(s) + 1), NEW c \in Line
    PROVE  InsertAt(Seen(s, g), i, g[c]) = Seen(InsertAt(s, i, c), g)
<1>1. PICK r : r = InsertAt(s, i, c)
  OBVIOUS
<1>2. /\ r \in Seq(Line) /\ Len(r) = Len(s) + 1
      /\ \A j \in 1..(Len(s) + 1) : r[j] = IF j < i THEN s[j] ELSE IF j = i THEN c ELSE s[j - 1]
  <2>1. r \in Seq(Line) /\ Linked(r, s, i, c)
    BY <1>1, InsertAtLinks
  <2>2. QED BY <2>1 DEF Linked
<1>3. PICK v : v = Seen(s, g)
  OBVIOUS
<1>4. v \in Seq(Entry) /\ Len(v) = Len(s) /\ Len(s) \in Nat /\ \A j \in 1..Len(s) : v[j] = g[s[j]]
  BY <1>3, SeenList
<1>5. PICK e \in Entry : e = g[c]
  OBVIOUS
<1>6. PICK x : x = InsertAt(v, i, e)
  OBVIOUS
<1>7. /\ x \in Seq(Entry) /\ Len(x) = Len(v) + 1
      /\ \A j \in 1..(Len(v) + 1) : x[j] = IF j < i THEN v[j] ELSE IF j = i THEN e ELSE v[j - 1]
  <2>1. v \in Seq(Entry) /\ i \in 1..(Len(v) + 1)
    BY <1>4
  <2>2. x \in Seq(Entry) /\ Linked(x, v, i, e)
    BY <1>6, <2>1, InsertAtLinks
  <2>3. QED BY <2>2 DEF Linked
<1>8. PICK y : y = Seen(r, g)
  OBVIOUS
<1>9. y \in Seq(Entry) /\ Len(y) = Len(r) /\ \A j \in 1..Len(r) : y[j] = g[r[j]]
  BY <1>2, <1>8, SeenList
<1>10. ASSUME NEW j \in 1..Len(x) PROVE x[j] = y[j]
  <2>1. j \in 1..(Len(s) + 1) /\ j \in 1..Len(r) /\ j \in 1..(Len(v) + 1)
    BY <1>2, <1>4, <1>7
  <2>2. CASE j < i
    <3>1. j \in 1..Len(s)
      BY <1>4, <2>1, <2>2
    <3>2. x[j] = v[j] /\ r[j] = s[j]
      BY <1>2, <1>7, <2>1, <2>2
    <3>3. QED BY <1>4, <1>9, <2>1, <3>1, <3>2
  <2>3. CASE j = i
    BY <1>2, <1>5, <1>7, <1>9, <2>1, <2>3
  <2>4. CASE j > i
    <3>1. j - 1 \in 1..Len(s) /\ ~(j < i) /\ j # i
      BY <1>4, <2>1, <2>4
    <3>2. x[j] = v[j - 1] /\ r[j] = s[j - 1]
      BY <1>2, <1>7, <2>1, <3>1
    <3>3. QED BY <1>4, <1>9, <2>1, <3>1, <3>2
  <2>5. QED BY <1>4, <2>1, <2>2, <2>3, <2>4
<1>11. x = y
  BY <1>2, <1>4, <1>7, <1>9, <1>10, SeqEqual
<1>12. QED BY <1>1, <1>3, <1>5, <1>6, <1>8, <1>11

\* g is a view of lines with these fields.
IsView(g, a, f, o, m) ==
    /\ a \in [Line -> Tag] /\ f \in [Line -> Nat] /\ o \in [Line -> Offset]
    /\ g = View(a, f, o, m)

\* PlaceLine of LineSet and Place agree on the list s, line c and view g.
Agree(s, c, f, g) == LS!PlaceLine(Policy, Seen(s, g), g[c]) = Seen(Place(s, c, f), g)

\* Both walk to the same position.
LEMMA SeenPlaced ==
    ASSUME NEW g, NEW a, NEW f, NEW o, NEW m, IsView(g, a, f, o, m), NEW s \in Seq(Line), NEW c \in Line
    PROVE  Agree(s, c, f, g)
<1>0. g \in [Line -> Entry] /\ Fields(g, a, f, o, m) /\ f \in [Line -> Nat]
  BY ViewFields DEF IsView
<1>1. g \in [Line -> Entry] /\ \A l \in Line : g[l].freq = (IF Policy = 2 THEN f[l] ELSE 0)
  BY <1>0 DEF Fields
<1>2. PICK v : v = Seen(s, g)
  OBVIOUS
<1>3. /\ Len(v) = Len(s) /\ Len(s) \in Nat
      /\ \A i \in 1..Len(s) : s[i] \in Line /\ v[i] = g[s[i]]
  BY <1>1, <1>2, SeenList
<1>4. PICK p : p = IF Policy = 0 THEN 1 ELSE LfuPosition(s, c, f)
  OBVIOUS
<1>5. p \in 1..(Len(s) + 1)
  BY <1>0, <1>3, <1>4, LfuPositionProperties
<1>6. Policy # 0 =>
         {i \in 1..(Len(v) + 1) : i = Len(v) + 1 \/ ~(g[c].freq < v[i].freq)}
           = {i \in 1..(Len(s) + 1) : i = Len(s) + 1 \/ ~(f[c] < f[s[i]])}
  <2>1. SUFFICES ASSUME Policy # 0
        PROVE  {i \in 1..(Len(v) + 1) : i = Len(v) + 1 \/ ~(g[c].freq < v[i].freq)}
                 = {i \in 1..(Len(s) + 1) : i = Len(s) + 1 \/ ~(f[c] < f[s[i]])}
    OBVIOUS
  <2>2. Policy = 2
    BY <2>1, PolicyAssumption
  <2>3. g[c].freq = f[c]
    BY <1>1, <2>2
  <2>4. ASSUME NEW i \in 1..(Len(s) + 1), i # Len(s) + 1 PROVE v[i].freq = f[s[i]]
    <3>1. i \in 1..Len(s)
      BY <1>3, <2>4
    <3>2. QED BY <1>1, <1>3, <2>2, <3>1
  <2>5. QED BY <1>3, <2>3, <2>4
<1>7. LS!PlaceLine(Policy, v, g[c]) = InsertAt(v, p, g[c])
  <2>1. CASE Policy = 0
    BY <1>4, <2>1, SameOperators DEF LS!PlaceLine
  <2>2. CASE Policy # 0
    BY <1>4, <1>6, <2>2, SameOperators DEF LS!PlaceLine, LfuPosition
  <2>3. QED BY <2>1, <2>2
<1>8. Place(s, c, f) = InsertAt(s, p, c)
  BY <1>4 DEF Place
<1>9. InsertAt(v, p, g[c]) = Seen(InsertAt(s, p, c), g)
  BY <1>1, <1>2, <1>5, SeenLinked
<1>10. QED BY <1>2, <1>7, <1>8, <1>9 DEF Agree

\* LineSet finds tag t at position i of v.
FoundAt(v, t, i) == LS!Holds(v, t) /\ LS!Find(v, t) = i

\* access finds a tag at the position of the line that the map leads to.
LEMMA SeenFound ==
    ASSUME NEW g, NEW a, NEW f, NEW o, NEW m, IsView(g, a, f, o, m), NEW s \in Seq(Line), Simple(s),
           NEW t, NEW i \in 1..Len(s), a[s[i]] = t, m[t] = s[i]
    PROVE  FoundAt(Seen(s, g), t, i)
<1>0. g \in [Line -> Entry] /\ Fields(g, a, f, o, m)
  BY ViewFields DEF IsView
<1>1. g \in [Line -> Entry] /\ \A l \in Line : g[l].tag = a[l] /\ (g[l].live <=> m[a[l]] = l)
  BY <1>0 DEF Fields
<1>2. PICK v : v = Seen(s, g)
  OBVIOUS
<1>3. /\ DOMAIN v = 1..Len(s)
      /\ \A j \in 1..Len(s) : s[j] \in Line /\ v[j] = g[s[j]]
  BY <1>1, <1>2, SeenList
<1>4. v[i].live /\ v[i].tag = t
  BY <1>1, <1>3
<1>5. ASSUME NEW j \in 1..Len(s), v[j].live, v[j].tag = t PROVE j = i
  <2>1. a[s[j]] = t /\ m[t] = s[j]
    BY <1>1, <1>3, <1>5
  <2>2. QED BY <2>1 DEF Simple
<1>6. LS!Holds(v, t)
  BY <1>3, <1>4 DEF LS!Holds
<1>7. LS!Find(v, t) = i
  BY <1>3, <1>4, <1>5 DEF LS!Find
<1>8. QED BY <1>2, <1>6, <1>7 DEF FoundAt

\* Overwriting a field of a line.
LEMMA RecordChanges ==
    /\ \A a, f, o, m, v : [[tag |-> a, freq |-> f, offset |-> o, live |-> m] EXCEPT !.offset = v]
                            = [tag |-> a, freq |-> f, offset |-> v, live |-> m]
    /\ \A a, f, o, m, v : [[tag |-> a, freq |-> f, offset |-> o, live |-> m] EXCEPT !.freq = v]
                            = [tag |-> a, freq |-> v, offset |-> o, live |-> m]
OBVIOUS

\* An entry that is no longer live.
LEMMA NoLongerLive ==
    ASSUME NEW g \in Entry, NEW h \in Entry,
           h.tag = g.tag, h.freq = g.freq, h.offset = g.offset, ~h.live
    PROVE  h = [g EXCEPT !.live = FALSE]
BY DEF Entry

\* The abstract state is the view of the list.
LEMMA AsLinesSeen ==
    /\ AsLines = Seen(list, View(addr, freq, offset, addr_map))
       \/ ~(list \in Seq(Line))
    /\ AsLines' = Seen(list', View(addr', freq', offset', addr_map'))
       \/ ~(list' \in Seq(Line))
<1>1. ASSUME NEW s \in Seq(Line), NEW a, NEW f, NEW o, NEW m
      PROVE  [i \in DOMAIN s |-> LET l == s[i] IN
                 [tag |-> a[l], freq |-> IF Policy = 2 THEN f[l] ELSE 0, offset |-> o[l], live |-> m[a[l]] = l]]
               = Seen(s, View(a, f, o, m))
  <2>1. \A i \in DOMAIN s : s[i] \in Line
    OBVIOUS
  <2>2. QED BY <2>1 DEF Seen, View
<1>2. QED BY <1>1 DEF AsLines

\* What the invariant says of the state before a call.
LEMMA SetFacts ==
    ASSUME Inv
    PROVE  /\ list \in Seq(Line) /\ Simple(list) /\ freeEntries = Line \ Lines(list)
           /\ addr \in [Line -> Tag] /\ freq \in [Line -> Nat] /\ offset \in [Line -> Offset]
           /\ addr_map \in [Tag -> Line \cup {NULL}]
           /\ \A t \in Tag : addr_map[t] # NULL => addr_map[t] \in Lines(list) /\ addr[addr_map[t]] = t
BY PartitionedList, FreqType DEF Inv, TypeOK, MapSound

\* The set is full exactly when no line is free.
LEMMA FullList ==
    ASSUME Inv
    PROVE  Len(list) = Cardinality(Line) <=> freeEntries = {}
<1>1. list \in Seq(Line) /\ Simple(list) /\ freeEntries = Line \ Lines(list)
  BY SetFacts
<1>2. PICK n \in Nat : n = Len(list)
  BY <1>1
<1>3. list \in [1..n -> Line] /\ Lines(list) = {list[i] : i \in 1..n}
  BY <1>1, <1>2, LinesOfList
<1>4. list \in Injection(1..n, Line)
  BY <1>1, <1>2, <1>3 DEF Injection, IsInjective, Simple
<1>5. IsFiniteSet(1..n) /\ Cardinality(1..n) = n
  <2>1. Cardinality(1..n) = IF 1 > n THEN 0 ELSE n - 1 + 1
    BY FS_Interval
  <2>2. QED BY <2>1, FS_Interval
<1>6. Cardinality(1..n) = Cardinality(Line) <=> list \in Surjection(1..n, Line)
  BY <1>4, FS_Injection, LineAssumption
<1>7. list \in Surjection(1..n, Line) <=> Lines(list) = Line
  BY <1>3 DEF Surjection
<1>8. Lines(list) = Line <=> freeEntries = {}
  BY <1>1, <1>3
<1>9. QED BY <1>2, <1>5, <1>6, <1>7, <1>8

\* access of LineSet, on the view of a set that finds the tag.
LEMMA AccessSeen ==
    ASSUME Inv, NEW t \in Tag, NEW o \in Offset, Access(t, o)
    PROVE  AsLines' = LS!AccessSet(Policy, MaxFreq, AsLines, t, o)
<1>1. PICK c : c = addr_map[t]
  OBVIOUS
<1>2. PICK s, a, f, w, m : s = list /\ a = addr /\ f = freq /\ w = offset /\ m = addr_map
  OBVIOUS
<1>3. PICK r, f2, w2 : r = list' /\ f2 = freq' /\ w2 = offset'
  OBVIOUS
<1>4. /\ s \in Seq(Line) /\ Simple(s) /\ a \in [Line -> Tag] /\ f \in [Line -> Nat] /\ w \in [Line -> Offset]
      /\ c \in Lines(s) /\ c \in Line /\ a[c] = t /\ m[t] = c
  BY <1>1, <1>2, SetFacts, LinesOfList DEF Access
<1>5. PICK k : k = [f EXCEPT ![c] = @ + 1]
  OBVIOUS
<1>6. /\ r = Place(DeleteNode(s, c), c, f) /\ w2 = [w EXCEPT ![c] = o]
      /\ f2 = IF k[c] = MaxFreq THEN DecayFreqs(r, k) ELSE k
      /\ addr' = a /\ addr_map' = m
  BY <1>1, <1>2, <1>3, <1>5 DEF Access
<1>7. PICK i \in 1..Len(s) : i = Position(s, c) /\ s[i] = c
  BY <1>4, LinesOfList DEF Position
<1>8. PICK d : d = RemoveAt(s, i) /\ d = DeleteNode(s, c)
  BY <1>7 DEF DeleteNode
<1>9. d \in Seq(Line) /\ Simple(d) /\ Lines(d) = Lines(s) \ {c}
  BY <1>4, <1>8, DeleteProperties
<1>10. /\ r = Place(d, c, f) /\ r \in Seq(Line) /\ Simple(r) /\ Lines(r) = Lines(s)
  <2>1. c \notin Lines(d)
    BY <1>9
  <2>2. Place(d, c, f) \in Seq(Line) /\ Simple(Place(d, c, f)) /\ Lines(Place(d, c, f)) = Lines(d) \cup {c}
    BY <1>4, <1>9, <2>1, PlaceProperties
  <2>3. QED BY <1>4, <1>6, <1>8, <1>9, <2>2
<1>11. PICK g, h, x, y : g = View(a, f, w, m) /\ h = View(a, f, w2, m) /\ x = View(a, k, w2, m) /\ y = View(a, f2, w2, m)
  OBVIOUS
<1>12. w2 \in [Line -> Offset] /\ k \in [Line -> Nat] /\ k[c] = f[c] + 1 /\ \A l \in Line : l # c => k[l] = f[l] /\ w2[l] = w[l]
  BY <1>4, <1>5, <1>6
<1>13. f2 \in [Line -> Nat]
  <2>1. \A l \in Line : k[l] \div 2 \in Nat
    BY <1>12
  <2>2. QED BY <1>6, <1>12, <2>1 DEF DecayFreqs
<1>14. /\ g \in [Line -> Entry] /\ h \in [Line -> Entry] /\ x \in [Line -> Entry] /\ y \in [Line -> Entry]
       /\ Fields(g, a, f, w, m) /\ Fields(h, a, f, w2, m) /\ Fields(x, a, k, w2, m) /\ Fields(y, a, f2, w2, m)
  BY <1>4, <1>11, <1>12, <1>13, ViewFields
<1>15. AsLines = Seen(s, g) /\ AsLines' = Seen(r, y)
  BY <1>2, <1>3, <1>4, <1>6, <1>10, <1>11, AsLinesSeen
<1>16. LS!Holds(Seen(s, g), t) /\ LS!Find(Seen(s, g), t) = i
  <2>1. a[s[i]] = t /\ m[t] = s[i]
    BY <1>4, <1>7
  <2>2. IsView(g, a, f, w, m)
    BY <1>4, <1>11 DEF IsView
  <2>3. FoundAt(Seen(s, g), t, i)
    BY <1>4, <2>1, <2>2, SeenFound
  <2>4. QED BY <2>3 DEF FoundAt
<1>17. [Seen(s, g)[i] EXCEPT !.offset = o] = h[c]
  <2>1. Seen(s, g)[i] = g[c]
    BY <1>4, <1>7, <1>14, SeenList
  <2>2. w2[c] = o
    BY <1>4, <1>6
  <2>3. [g[c] EXCEPT !.offset = o] = h[c]
    <3>1. g[c] = [tag |-> a[c], freq |-> IF Policy = 2 THEN f[c] ELSE 0, offset |-> w[c], live |-> m[a[c]] = c]
      BY <1>4, <1>11 DEF View
    <3>2. h[c] = [tag |-> a[c], freq |-> IF Policy = 2 THEN f[c] ELSE 0, offset |-> w2[c], live |-> m[a[c]] = c]
      BY <1>4, <1>11 DEF View
    <3>3. QED BY <2>2, <3>1, <3>2, RecordChanges
  <2>4. QED BY <2>1, <2>3
<1>18. LS!RemoveAt(Seen(s, g), i) = Seen(d, h)
  <2>1. RemoveAt(Seen(s, g), i) = Seen(d, g)
    BY <1>4, <1>8, <1>14, SeenUnlinked
  <2>2. ASSUME NEW l \in Lines(d) PROVE g[l] = h[l]
    <3>1. l \in Line /\ l # c
      BY <1>4, <1>9, LinesOfList
    <3>2. QED BY <1>11, <1>12, <3>1 DEF View
  <2>3. Seen(d, g) = Seen(d, h)
    BY <1>9, <2>2, SeenAlike
  <2>4. QED BY <2>1, <2>3, SameOperators
<1>19. LS!PlaceLine(Policy, Seen(d, h), h[c]) = Seen(r, h)
  <2>1. IsView(h, a, f, w2, m)
    BY <1>4, <1>11, <1>12 DEF IsView
  <2>2. Agree(d, c, f, h)
    BY <1>4, <1>9, <2>1, SeenPlaced
  <2>3. QED BY <1>10, <2>2 DEF Agree
<1>20. PICK n \in 1..Len(r) : r[n] = c
  <2>1. c \in Lines(r)
    BY <1>4, <1>10
  <2>2. Lines(r) = {r[i2] : i2 \in 1..Len(r)}
    BY <1>10, LinesOfList
  <2>3. QED BY <2>1, <2>2
<1>21. LS!Find(Seen(r, h), t) = n
  <2>1. a[r[n]] = t /\ m[t] = r[n]
    BY <1>4, <1>20
  <2>2. IsView(h, a, f, w2, m)
    BY <1>4, <1>11, <1>12 DEF IsView
  <2>3. FoundAt(Seen(r, h), t, n)
    BY <1>10, <2>1, <2>2, SeenFound
  <2>4. QED BY <2>3 DEF FoundAt
<1>22. [Seen(r, h) EXCEPT ![n].freq = IF Policy = 2 THEN @ + 1 ELSE 0] = Seen(r, x)
  <2>1. /\ DOMAIN Seen(r, h) = 1..Len(r) /\ DOMAIN Seen(r, x) = 1..Len(r)
        /\ Seen(r, h) \in Seq(Entry) /\ Seen(r, x) \in Seq(Entry)
        /\ \A j \in 1..Len(r) : r[j] \in Line /\ Seen(r, h)[j] = h[r[j]] /\ Seen(r, x)[j] = x[r[j]]
    BY <1>10, <1>14, SeenList
  <2>2. [h[c] EXCEPT !.freq = IF Policy = 2 THEN @ + 1 ELSE 0] = x[c]
    <3>1. h[c] = [tag |-> a[c], freq |-> IF Policy = 2 THEN f[c] ELSE 0, offset |-> w2[c], live |-> m[a[c]] = c]
      BY <1>4, <1>11 DEF View
    <3>2. x[c] = [tag |-> a[c], freq |-> IF Policy = 2 THEN k[c] ELSE 0, offset |-> w2[c], live |-> m[a[c]] = c]
      BY <1>4, <1>11 DEF View
    <3>3. (IF Policy = 2 THEN h[c].freq + 1 ELSE 0) = IF Policy = 2 THEN k[c] ELSE 0
      BY <1>4, <1>12, <1>14 DEF Fields
    <3>4. [h[c] EXCEPT !.freq = IF Policy = 2 THEN h[c].freq + 1 ELSE 0] = x[c]
      BY <3>1, <3>2, <3>3, RecordChanges
    <3>5. QED BY <3>4
  <2>3. ASSUME NEW j \in 1..Len(r), j # n PROVE h[r[j]] = x[r[j]]
    <3>1. r[j] \in Line /\ r[j] # c
      BY <1>10, <1>20, <2>1, <2>3 DEF Simple
    <3>2. QED BY <1>11, <1>12, <3>1 DEF View
  <2>4. PICK u, z : u = Seen(r, h) /\ z = Seen(r, x)
    OBVIOUS
  <2>5. u = [j \in 1..Len(r) |-> u[j]] /\ z = [j \in 1..Len(r) |-> z[j]]
    BY <2>1, <2>4
  <2>6. [u[n] EXCEPT !.freq = IF Policy = 2 THEN @ + 1 ELSE 0] = z[n] /\ \A j \in 1..Len(r) : j # n => u[j] = z[j]
    BY <1>20, <2>1, <2>2, <2>3, <2>4
  <2>7. [u EXCEPT ![n] = [u[n] EXCEPT !.freq = IF Policy = 2 THEN @ + 1 ELSE 0]] = z
    BY <2>5, <2>6
  <2>8. QED BY <2>4, <2>7
<1>23. Seen(r, x)[n].freq = (IF Policy = 2 THEN k[c] ELSE 0)
  <2>1. Seen(r, x)[n] = x[c]
    BY <1>10, <1>14, <1>20, SeenList
  <2>2. QED BY <1>4, <1>14, <2>1 DEF Fields
<1>24. Seen(r, y) = IF Policy = 2 /\ k[c] = MaxFreq THEN LS!Decay(Seen(r, x)) ELSE Seen(r, x)
  <2>1. CASE Policy # 2
    <3>1. \A l \in Lines(r) : y[l] = x[l]
      BY <1>10, <1>11, <2>1, LinesOfList DEF View
    <3>2. QED BY <1>10, <2>1, <3>1, SeenAlike
  <2>2. CASE Policy = 2 /\ k[c] # MaxFreq
    BY <1>6, <1>11, <2>2
  <2>3. CASE Policy = 2 /\ k[c] = MaxFreq
    <3>1. /\ DOMAIN Seen(r, x) = 1..Len(r) /\ DOMAIN Seen(r, y) = 1..Len(r)
          /\ Seen(r, y) \in Seq(Entry)
          /\ \A j \in 1..Len(r) : r[j] \in Line /\ Seen(r, x)[j] = x[r[j]] /\ Seen(r, y)[j] = y[r[j]]
      BY <1>10, <1>14, SeenList
    <3>2. ASSUME NEW j \in 1..Len(r) PROVE y[r[j]] = [x[r[j]] EXCEPT !.freq = @ \div 2]
      <4>1. r[j] \in Line /\ r[j] \in Lines(r)
        BY <1>10, <3>1, LinesOfList
      <4>2. f2[r[j]] = k[r[j]] \div 2
        BY <1>6, <2>3, <4>1 DEF DecayFreqs
      <4>3. /\ x[r[j]] = [tag |-> a[r[j]], freq |-> k[r[j]], offset |-> w2[r[j]], live |-> m[a[r[j]]] = r[j]]
            /\ y[r[j]] = [tag |-> a[r[j]], freq |-> f2[r[j]], offset |-> w2[r[j]], live |-> m[a[r[j]]] = r[j]]
        BY <1>11, <2>3, <4>1 DEF View
      <4>4. QED BY <4>2, <4>3
    <3>3. Seen(r, y) = [j \in 1..Len(r) |-> y[r[j]]]
      BY <3>1
    <3>4. LS!Decay(Seen(r, x)) = [j \in 1..Len(r) |-> [x[r[j]] EXCEPT !.freq = @ \div 2]]
      BY <3>1 DEF LS!Decay
    <3>5. QED BY <2>3, <3>2, <3>3, <3>4
  <2>4. QED BY <2>1, <2>2, <2>3
<1>25. LS!AccessSet(Policy, MaxFreq, Seen(s, g), t, o)
         = IF Policy = 2 /\ Seen(r, x)[n].freq = MaxFreq THEN LS!Decay(Seen(r, x)) ELSE Seen(r, x)
  BY <1>16, <1>17, <1>18, <1>19, <1>21, <1>22 DEF LS!AccessSet
<1>26. QED BY <1>15, <1>23, <1>24, <1>25

\* h is g, but the lines of s that hold t are no longer live.
Forgets(s, g, h, a, t) ==
    \A l \in Lines(s) : h[l] = IF a[l] = t THEN [g[l] EXCEPT !.live = FALSE] ELSE g[l]

\* Forgetting a tag.
LEMMA SeenUnmapped ==
    ASSUME NEW g, NEW a, NEW f, NEW o, NEW m, IsView(g, a, f, o, m), NEW s \in Seq(Line), NEW t, NEW h,
           Forgets(s, g, h, a, t)
    PROVE  LS!Unmap(Seen(s, g), t) = Seen(s, h)
<1>0. g \in [Line -> Entry] /\ Fields(g, a, f, o, m)
  BY ViewFields DEF IsView
<1>1. g \in [Line -> Entry] /\ \A l \in Line : g[l].tag = a[l]
  BY <1>0 DEF Fields
<1>2. PICK v : v = Seen(s, g)
  OBVIOUS
<1>3. DOMAIN v = 1..Len(s) /\ \A i \in 1..Len(s) : s[i] \in Line /\ v[i] = g[s[i]]
  BY <1>1, <1>2, SeenList
<1>4. DOMAIN s = 1..Len(s) /\ \A i \in 1..Len(s) : s[i] \in Lines(s)
  BY DEF Lines
<1>5. ASSUME NEW i \in 1..Len(s)
      PROVE  (IF v[i].tag = t THEN [v[i] EXCEPT !.live = FALSE] ELSE v[i]) = h[s[i]]
  BY <1>1, <1>3, <1>4 DEF Forgets
<1>6. LS!Unmap(v, t) = [i \in 1..Len(s) |-> h[s[i]]]
  BY <1>3, <1>5 DEF LS!Unmap
<1>7. Seen(s, h) = [i \in 1..Len(s) |-> h[s[i]]]
  BY <1>4 DEF Seen
<1>8. QED BY <1>2, <1>6, <1>7

\* g views the lines with their fields and the tag map m; and the new lines are
\* v after the end of insert in LineSet.
Current(g, m) == IsView(g, addr, freq, offset, m) /\ m \in [Tag -> Line \cup {NULL}]
Filled(v, t, o) ==
    AsLines' = LS!PlaceLine(Policy, LS!Unmap(v, t), [tag |-> t, freq |-> 0, offset |-> o, live |-> TRUE])

\* The end of both insertions, with the tag map that they hand over.
LEMMA FillSeen ==
    ASSUME NEW g, NEW m, Current(g, m), list' \in Seq(Line),
           NEW t \in Tag, NEW o \in Offset, NEW c \in Line, NEW s \in Seq(Line), c \notin Lines(s),
           Fill(t, o, c, s, m)
    PROVE  Filled(Seen(s, g), t, o)
<1>0. PICK a, f, w : a = addr /\ f = freq /\ w = offset /\ IsView(g, a, f, w, m)
  BY DEF Current
<1>1. PICK a2, f2, w2, m2, r : a2 = addr' /\ f2 = freq' /\ w2 = offset' /\ m2 = addr_map' /\ r = list'
  OBVIOUS
<1>2. /\ a2 = [a EXCEPT ![c] = t] /\ f2 = [f EXCEPT ![c] = 0] /\ w2 = [w EXCEPT ![c] = o]
      /\ m2 = [m EXCEPT ![t] = c] /\ r = Place(s, c, f2)
  BY <1>0, <1>1 DEF Fill
<1>3. /\ a \in [Line -> Tag] /\ f \in [Line -> Nat] /\ w \in [Line -> Offset] /\ g = View(a, f, w, m)
      /\ m \in [Tag -> Line \cup {NULL}]
  BY <1>0 DEF IsView, Current
<1>4. PICK h : h = View(a2, f2, w2, m2)
  OBVIOUS
<1>5. IsView(h, a2, f2, w2, m2)
  BY <1>2, <1>3, <1>4 DEF IsView
<1>6. AsLines' = Seen(r, h)
  BY <1>1, <1>4, AsLinesSeen
<1>7. Agree(s, c, f2, h)
  BY <1>5, SeenPlaced
<1>8. h[c] = [tag |-> t, freq |-> 0, offset |-> o, live |-> TRUE]
  <2>1. a2[c] = t /\ f2[c] = 0 /\ w2[c] = o /\ m2[t] = c
    BY <1>2, <1>3
  <2>2. (m2[a2[c]] = c) = TRUE
    BY <2>1
  <2>3. QED BY <1>4, <2>1, <2>2 DEF View
<1>9. ASSUME NEW l \in Lines(s) PROVE h[l] = IF a[l] = t THEN [g[l] EXCEPT !.live = FALSE] ELSE g[l]
  <2>1. l \in Line /\ l # c
    BY LinesOfList
  <2>2. a2[l] = a[l] /\ f2[l] = f[l] /\ w2[l] = w[l] /\ a[l] \in Tag
    BY <1>2, <1>3, <2>1
  <2>3. PICK q : q = IF Policy = 2 THEN f[l] ELSE 0
    OBVIOUS
  <2>4. g[l] = [tag |-> a[l], freq |-> q, offset |-> w[l], live |-> m[a[l]] = l]
    BY <1>3, <2>1, <2>3 DEF View
  <2>5. h[l] = [tag |-> a[l], freq |-> q, offset |-> w[l], live |-> m2[a[l]] = l]
    BY <1>4, <2>1, <2>2, <2>3 DEF View
  <2>6. CASE a[l] = t
    <3>1. m2[a[l]] = c
      BY <1>2, <1>3, <2>2, <2>6
    <3>2. (m2[a[l]] = l) = FALSE
      BY <2>1, <3>1
    <3>3. g \in [Line -> Entry] /\ Fields(g, a, f, w, m)
      BY <1>0, ViewFields DEF IsView
    <3>4. h \in [Line -> Entry] /\ Fields(h, a2, f2, w2, m2)
      BY <1>5, ViewFields DEF IsView
    <3>5. g[l] \in Entry /\ h[l] \in Entry
      BY <2>1, <3>3, <3>4
    <3>6. h[l].tag = g[l].tag /\ h[l].freq = g[l].freq /\ h[l].offset = g[l].offset /\ ~h[l].live
      BY <2>1, <2>2, <3>2, <3>3, <3>4 DEF Fields
    <3>7. QED BY <2>6, <3>5, <3>6, NoLongerLive
  <2>7. CASE a[l] # t
    <3>1. m2[a[l]] = m[a[l]]
      BY <1>2, <2>2, <2>7
    <3>2. QED BY <2>4, <2>5, <2>7, <3>1
  <2>8. QED BY <2>6, <2>7
<1>10. LS!Unmap(Seen(s, g), t) = Seen(s, h)
  <2>1. Forgets(s, g, h, a, t)
    BY <1>9 DEF Forgets
  <2>2. QED BY <1>0, <2>1, SeenUnmapped
<1>11. QED BY <1>2, <1>6, <1>7, <1>8, <1>10 DEF Agree, Filled

\* insert with a free line.
LEMMA InsertFreeSeen ==
    ASSUME Inv, Inv', NEW t \in Tag, NEW o \in Offset, InsertFree(t, o)
    PROVE  AsLines' = LS!InsertSet(Policy, Cardinality(Line), AsLines, t, o)
<1>1. PICK c \in freeEntries : Fill(t, o, c, list, addr_map)
  BY DEF InsertFree
<1>2. PICK s, a, f, w, m : s = list /\ a = addr /\ f = freq /\ w = offset /\ m = addr_map
  OBVIOUS
<1>3. /\ s \in Seq(Line) /\ a \in [Line -> Tag] /\ f \in [Line -> Nat] /\ w \in [Line -> Offset]
      /\ m \in [Tag -> Line \cup {NULL}] /\ c \in Line /\ c \notin Lines(s)
  BY <1>1, <1>2, SetFacts
<1>4. PICK g : g = View(a, f, w, m)
  OBVIOUS
<1>5. IsView(g, a, f, w, m)
  BY <1>3, <1>4 DEF IsView
<1>6. AsLines = Seen(s, g)
  BY <1>2, <1>3, <1>4, AsLinesSeen
<1>7. Len(Seen(s, g)) # Cardinality(Line)
  <2>1. Len(Seen(s, g)) = Len(s)
    BY <1>3, <1>4, ViewFields, SeenList
  <2>2. QED BY <1>1, <1>2, <2>1, FullList
<1>8. list' \in Seq(Line) /\ Fill(t, o, c, s, m)
  BY <1>1, <1>2 DEF Inv, TypeOK
<1>9. Current(g, m)
  BY <1>2, <1>3, <1>5 DEF Current
<1>10. Filled(Seen(s, g), t, o)
  BY <1>3, <1>8, <1>9, FillSeen
<1>11. QED BY <1>6, <1>7, <1>10 DEF LS!InsertSet, Filled

\* Taking the last element off a list.
LEMMA FrontUnlinks ==
    ASSUME NEW S, NEW v \in Seq(S), Len(v) \in 1..Len(v)
    PROVE  Front(v) = RemoveAt(v, Len(v))
<1>1. PICK n \in Nat : n = Len(v) /\ n >= 1
  OBVIOUS
<1>2. PICK x : x = RemoveAt(v, n)
  OBVIOUS
<1>3. x \in Seq(S) /\ Len(x) = n - 1 /\ \A j \in 1..(n - 1) : x[j] = IF j < n THEN v[j] ELSE v[j + 1]
  BY <1>1, <1>2, RemoveAtProperties
<1>4. PICK y : y = SubSeq(v, 1, n - 1)
  OBVIOUS
<1>5. y \in Seq(S) /\ Len(y) = n - 1 /\ \A j \in 1..(n - 1) : y[j] = v[j]
  BY <1>1, <1>4
<1>6. \A j \in 1..Len(x) : x[j] = y[j]
  BY <1>1, <1>3, <1>5
<1>7. x = y
  BY <1>3, <1>5, <1>6, SeqEqual
<1>8. QED BY <1>1, <1>2, <1>4, <1>7 DEF Front

\* insert that recycles the line before tail.
LEMMA InsertEvictSeen ==
    ASSUME Inv, Inv', NEW t \in Tag, NEW o \in Offset, InsertEvict(t, o)
    PROVE  AsLines' = LS!InsertSet(Policy, Cardinality(Line), AsLines, t, o)
<1>1. PICK s, a, f, w, m : s = list /\ a = addr /\ f = freq /\ w = offset /\ m = addr_map
  OBVIOUS
<1>2. PICK n : n = Len(s)
  OBVIOUS
<1>3. PICK c : c = s[n]
  OBVIOUS
<1>4. PICK k : k = [m EXCEPT ![a[c]] = NULL]
  OBVIOUS
<1>5. Fill(t, o, c, DeleteNode(s, c), k) /\ freeEntries = {}
  BY <1>1, <1>2, <1>3, <1>4 DEF InsertEvict
<1>6. /\ s \in Seq(Line) /\ Simple(s) /\ a \in [Line -> Tag] /\ f \in [Line -> Nat] /\ w \in [Line -> Offset]
      /\ m \in [Tag -> Line \cup {NULL}] /\ n \in 1..Len(s) /\ c \in Lines(s) /\ c \in Line
  BY <1>1, <1>2, <1>3, <1>5, SetFacts, VictimExists, LinesOfList
<1>7. PICK d : d = DeleteNode(s, c) /\ d = RemoveAt(s, n)
  <2>1. Position(s, c) = n
    BY <1>3, <1>6, LinesOfList DEF Position, Simple
  <2>2. QED BY <2>1 DEF DeleteNode
<1>8. d \in Seq(Line) /\ Lines(d) = Lines(s) \ {c}
  <2>1. DeleteNode(s, c) \in Seq(Line) /\ Lines(DeleteNode(s, c)) = Lines(s) \ {c}
    BY <1>6, DeleteProperties
  <2>2. QED BY <1>7, <2>1
<1>9. PICK g, h : g = View(a, f, w, m) /\ h = View(a, f, w, k)
  OBVIOUS
<1>10. IsView(g, a, f, w, m) /\ IsView(h, a, f, w, k) /\ k \in [Tag -> Line \cup {NULL}]
  BY <1>4, <1>6, <1>9 DEF IsView
<1>11. g \in [Line -> Entry] /\ g[c].tag = a[c]
  <2>1. g \in [Line -> Entry] /\ Fields(g, a, f, w, m)
    BY <1>6, <1>9, ViewFields
  <2>2. QED BY <1>6, <2>1 DEF Fields
<1>12. AsLines = Seen(s, g)
  BY <1>1, <1>6, <1>9, AsLinesSeen
<1>13. PICK v : v = Seen(s, g)
  OBVIOUS
<1>14. v \in Seq(Entry) /\ Len(v) = n /\ v[n] = g[c]
  BY <1>2, <1>3, <1>6, <1>11, <1>13, SeenList
<1>15. Len(v) = Cardinality(Line)
  BY <1>1, <1>2, <1>5, <1>14, FullList
<1>16. LS!Front(v) = Seen(d, g) /\ LS!Last(v).tag = a[c]
  <2>1. Front(v) = RemoveAt(v, n)
    BY <1>2, <1>6, <1>14, FrontUnlinks
  <2>2. RemoveAt(v, n) = Seen(d, g)
    BY <1>6, <1>7, <1>11, <1>13, SeenUnlinked
  <2>3. Last(v) = g[c]
    BY <1>14 DEF Last
  <2>4. QED BY <1>11, <2>1, <2>2, <2>3, SameOperators
<1>17. ASSUME NEW l \in Lines(d) PROVE h[l] = IF a[l] = a[c] THEN [g[l] EXCEPT !.live = FALSE] ELSE g[l]
  <2>1. l \in Line /\ l # c /\ a[l] \in Tag /\ a[c] \in Tag
    BY <1>6, <1>8, LinesOfList
  <2>2. PICK q : q = IF Policy = 2 THEN f[l] ELSE 0
    OBVIOUS
  <2>3. g[l] = [tag |-> a[l], freq |-> q, offset |-> w[l], live |-> m[a[l]] = l]
    BY <1>9, <2>1, <2>2 DEF View
  <2>4. h[l] = [tag |-> a[l], freq |-> q, offset |-> w[l], live |-> k[a[l]] = l]
    BY <1>9, <2>1, <2>2 DEF View
  <2>5. CASE a[l] = a[c]
    <3>1. k[a[l]] = NULL
      BY <1>4, <1>6, <2>1, <2>5
    <3>2. (k[a[l]] = l) = FALSE
      BY <2>1, <3>1, LineAssumption
    <3>3. g \in [Line -> Entry] /\ Fields(g, a, f, w, m)
      BY <1>10, ViewFields DEF IsView
    <3>4. h \in [Line -> Entry] /\ Fields(h, a, f, w, k)
      BY <1>10, ViewFields DEF IsView
    <3>5. g[l] \in Entry /\ h[l] \in Entry
      BY <2>1, <3>3, <3>4
    <3>6. h[l].tag = g[l].tag /\ h[l].freq = g[l].freq /\ h[l].offset = g[l].offset /\ ~h[l].live
      BY <2>1, <3>2, <3>3, <3>4 DEF Fields
    <3>7. QED BY <2>5, <3>5, <3>6, NoLongerLive
  <2>6. CASE a[l] # a[c]
    <3>1. k[a[l]] = m[a[l]]
      BY <1>4, <1>6, <2>1, <2>6
    <3>2. QED BY <2>3, <2>4, <2>6, <3>1
  <2>7. QED BY <2>5, <2>6
<1>18. LS!Unmap(Seen(d, g), a[c]) = Seen(d, h)
  <2>1. Forgets(d, g, h, a, a[c])
    BY <1>17 DEF Forgets
  <2>2. QED BY <1>8, <1>10, <2>1, SeenUnmapped
<1>19. c \notin Lines(d) /\ Fill(t, o, c, d, k) /\ list' \in Seq(Line)
  BY <1>5, <1>7, <1>8 DEF Inv, TypeOK
<1>20. Filled(Seen(d, h), t, o)
  <2>1. Current(h, k)
    BY <1>1, <1>10 DEF Current
  <2>2. QED BY <1>6, <1>8, <1>19, <2>1, FillSeen
<1>21. QED BY <1>12, <1>13, <1>15, <1>16, <1>18, <1>20 DEF LS!InsertSet, Filled

\* evict of a tag that is found: the other lines with that tag were ghosts.
LEMMA EvictSeen ==
    ASSUME Inv, Inv', NEW t \in Tag, Evict(t)
    PROVE  LS!Holds(AsLines, t) /\ AsLines' = LS!EvictSet(AsLines, t)
<1>1. PICK s, a, f, w, m : s = list /\ a = addr /\ f = freq /\ w = offset /\ m = addr_map
  OBVIOUS
<1>2. PICK c : c = m[t]
  OBVIOUS
<1>3. /\ s \in Seq(Line) /\ Simple(s) /\ a \in [Line -> Tag] /\ f \in [Line -> Nat] /\ w \in [Line -> Offset]
      /\ m \in [Tag -> Line \cup {NULL}] /\ c \in Lines(s) /\ c \in Line /\ a[c] = t
  BY <1>1, <1>2, SetFacts, LinesOfList DEF Evict
<1>4. PICK k : k = [m EXCEPT ![t] = NULL]
  OBVIOUS
<1>5. addr_map' = k /\ list' = DeleteNode(s, c) /\ addr' = a /\ offset' = w /\ freq' = f
  BY <1>1, <1>2, <1>3, <1>4 DEF Evict
<1>6. PICK i \in 1..Len(s) : i = Position(s, c) /\ s[i] = c
  BY <1>3, LinesOfList DEF Position
<1>7. PICK d : d = RemoveAt(s, i) /\ d = DeleteNode(s, c)
  BY <1>6 DEF DeleteNode
<1>8. d \in Seq(Line) /\ Lines(d) = Lines(s) \ {c}
  BY <1>3, <1>7, DeleteProperties
<1>9. PICK g, h : g = View(a, f, w, m) /\ h = View(a, f, w, k)
  OBVIOUS
<1>10. IsView(g, a, f, w, m) /\ g \in [Line -> Entry]
  BY <1>3, <1>9, ViewFields DEF IsView
<1>11. AsLines = Seen(s, g) /\ AsLines' = Seen(d, h)
  BY <1>1, <1>3, <1>5, <1>7, <1>8, <1>9, AsLinesSeen
<1>12. FoundAt(Seen(s, g), t, i)
  <2>1. a[s[i]] = t /\ m[t] = s[i]
    BY <1>2, <1>3, <1>6
  <2>2. QED BY <1>3, <1>10, <2>1, SeenFound
<1>13. RemoveAt(Seen(s, g), i) = Seen(d, g)
  BY <1>3, <1>7, <1>10, SeenUnlinked
<1>14. ASSUME NEW l \in Lines(d) PROVE g[l] = h[l]
  <2>1. l \in Line /\ l # c /\ a[l] \in Tag
    BY <1>3, <1>8, LinesOfList
  <2>2. m[a[l]] = l <=> k[a[l]] = l
    <3>1. CASE a[l] = t
      BY <1>2, <1>3, <1>4, <2>1, <3>1, LineAssumption
    <3>2. CASE a[l] # t
      BY <1>3, <1>4, <2>1, <3>2
    <3>3. QED BY <3>1, <3>2
  <2>3. (m[a[l]] = l) = (k[a[l]] = l)
    BY <2>2
  <2>4. QED BY <1>9, <2>1, <2>3 DEF View
<1>15. Seen(d, g) = Seen(d, h)
  BY <1>8, <1>14, SeenAlike
<1>16. QED BY <1>11, <1>12, <1>13, <1>15, SameOperators DEF FoundAt, LS!EvictSet

\* Every call, as a change of the lines.
Call ==
    \/ \E t \in Tag, o \in Offset :
          \/ AsLines' = LS!AccessSet(Policy, MaxFreq, AsLines, t, o)
          \/ AsLines' = LS!InsertSet(Policy, Cardinality(Line), AsLines, t, o)
    \/ \E t \in Tag : LS!Holds(AsLines, t) /\ AsLines' = LS!EvictSet(AsLines, t)
    \/ AsLines' = <<>>

\* Every step is one of them, or changes no line.
LEMMA StepSeen ==
    ASSUME Inv, Inv', [Next]_vars
    PROVE  [Call]_AsLines
<1>1. ASSUME NEW t \in Tag, NEW o \in Offset, Access(t, o) PROVE Call
  BY <1>1, AccessSeen DEF Call
<1>2. ASSUME NEW t \in Tag, NEW o \in Offset, InsertFree(t, o) PROVE Call
  BY <1>2, InsertFreeSeen DEF Call
<1>3. ASSUME NEW t \in Tag, NEW o \in Offset, InsertEvict(t, o) PROVE Call
  BY <1>3, InsertEvictSeen DEF Call
<1>4. ASSUME NEW t \in Tag, Evict(t) PROVE Call
  BY <1>4, EvictSeen DEF Call
<1>5. ASSUME Flush PROVE Call
  <2>1. list' = <<>>
    BY <1>5 DEF Flush
  <2>2. AsLines' = <<>>
    BY <2>1 DEF AsLines
  <2>3. QED BY <2>2 DEF Call
<1>6. CASE UNCHANGED vars
  <2>1. AsLines' = AsLines
    BY <1>6 DEF vars, AsLines
  <2>2. QED BY <2>1
<1>7. QED BY <1>1, <1>2, <1>3, <1>4, <1>5, <1>6 DEF Next

\* The linked list, the free stack and the tag map of class CacheSet behave, call
\* by call and for both policies and every caller, like the sequence of lines
\* that LineSet computes with, on which the models of the simulators are built.
THEOREM CacheSetIsLineSet == Spec => ImplementsLineSet
<1>1. Init => AsLines = <<>>
  BY DEF Init, AsLines
<1>2. Inv /\ Inv' /\ [Next]_vars => [Call]_AsLines
  BY StepSeen
<1>3. QED BY <1>1, <1>2, Invariance, PTL DEF Spec, ImplementsLineSet, Call
=============================================================================
