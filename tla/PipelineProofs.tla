--------------------------- MODULE PipelineProofs ---------------------------
(***************************************************************************)
(* From the log to the promotions, for every log, limit and behaviour of   *)
(* the launched processes.                                                 *)
(***************************************************************************)
EXTENDS Pipeline, ListLemmas, FiniteSetTheorems

-----------------------------------------------------------------------------
(***************************************************************************)
(* Maps from times to vectors of ranges.                                   *)
(***************************************************************************)
Line == [time : Nat \ {0}, addr : Nat]
RangeType == [start : Nat, num : Nat \ {0}]
IsMap(d) ==
    /\ DOMAIN d \subseteq Nat \ {0}
    /\ d = [k \in DOMAIN d |-> d[k]]
    /\ \A k \in DOMAIN d : d[k] \in Seq(RangeType) /\ Len(d[k]) \in Nat \ {0}

\* Page x is in a range of time k.
Has(d, k, x) == k \in DOMAIN d /\ \E j \in 1..Len(d[k]) : x \in Pages(d[k][j])

\* No range shares a page with r, or with another one.
Misses(d, r) == \A k \in DOMAIN d : \A j \in 1..Len(d[k]) : Pages(d[k][j]) \cap Pages(r) = {}
Apart(d) ==
    \A k, l \in DOMAIN d : \A i \in 1..Len(d[k]), j \in 1..Len(d[l]) :
        k # l \/ i # j => Pages(d[k][i]) \cap Pages(d[l][j]) = {}

\* e is d with r pushed behind the vector v of time t.
Pushed(e, d, t, r, v) ==
    /\ DOMAIN e = DOMAIN d \cup {t}
    /\ e[t] = Append(v, r) /\ v \in Seq(RangeType)
    /\ \A l \in DOMAIN d : l # t => e[l] = d[l]
    /\ t \in DOMAIN d => v = d[t]
    /\ t \notin DOMAIN d => v = <<>>

\* The vectors after push_back.
LEMMA PushVectors ==
    ASSUME NEW d, IsMap(d), NEW t \in Nat \ {0}, NEW r \in RangeType
    PROVE  Pushed(Push(d, t, r), d, t, r, At(d, t))
BY DEF Push, At, IsMap, Pushed

\* A vector with one more range.
LEMMA AppendVector ==
    ASSUME NEW S, NEW s \in Seq(S), NEW e \in S
    PROVE  /\ Append(s, e) \in Seq(S) /\ Len(Append(s, e)) = Len(s) + 1 /\ Len(s) \in Nat
           /\ Append(s, e)[Len(s) + 1] = e
           /\ \A i \in 1..Len(s) : Append(s, e)[i] = s[i]
OBVIOUS

\* push_back keeps the map a map.
LEMMA PushIsMap ==
    ASSUME NEW d, IsMap(d), NEW t \in Nat \ {0}, NEW r \in RangeType
    PROVE  IsMap(Push(d, t, r))
<1>1. PICK e, v : e = Push(d, t, r) /\ v = At(d, t)
  OBVIOUS
<1>2. /\ DOMAIN e = DOMAIN d \cup {t} /\ e[t] = Append(v, r) /\ v \in Seq(RangeType)
      /\ \A l \in DOMAIN d : l # t => e[l] = d[l]
  <2>1. Pushed(e, d, t, r, v)
    BY <1>1, PushVectors
  <2>2. QED BY <2>1 DEF Pushed
<1>3. DOMAIN d \subseteq Nat \ {0} /\ \A k \in DOMAIN d : d[k] \in Seq(RangeType) /\ Len(d[k]) \in Nat \ {0}
  BY DEF IsMap
<1>4. e[t] \in Seq(RangeType) /\ Len(e[t]) \in Nat \ {0}
  <2>1. Append(v, r) \in Seq(RangeType) /\ Len(Append(v, r)) = Len(v) + 1 /\ Len(v) \in Nat
    BY <1>2, AppendVector
  <2>2. QED BY <1>2, <2>1
<1>5. \A k \in DOMAIN e : e[k] \in Seq(RangeType) /\ Len(e[k]) \in Nat \ {0}
  BY <1>2, <1>3, <1>4
<1>6. e = [k \in DOMAIN e |-> e[k]]
  BY <1>1 DEF Push
<1>7. DOMAIN e \subseteq Nat \ {0}
  BY <1>2, <1>3
<1>8. QED BY <1>1, <1>5, <1>6, <1>7 DEF IsMap

\* The pages of the map after push_back: those before, and those of the range.
LEMMA PushHas ==
    ASSUME NEW d, IsMap(d), NEW t \in Nat \ {0}, NEW r \in RangeType, NEW k, NEW x
    PROVE  Has(Push(d, t, r), k, x) <=> Has(d, k, x) \/ (k = t /\ x \in Pages(r))
<1>1. PICK e, v : e = Push(d, t, r) /\ v = At(d, t)
  OBVIOUS
<1>2. /\ DOMAIN e = DOMAIN d \cup {t} /\ e[t] = Append(v, r) /\ v \in Seq(RangeType)
      /\ \A l \in DOMAIN d : l # t => e[l] = d[l]
      /\ t \in DOMAIN d => v = d[t]
      /\ t \notin DOMAIN d => v = <<>>
  <2>1. Pushed(e, d, t, r, v)
    BY <1>1, PushVectors
  <2>2. QED BY <2>1 DEF Pushed
<1>3. CASE k # t
  <2>1. Has(e, k, x) <=> Has(d, k, x)
    BY <1>2, <1>3 DEF Has
  <2>2. QED BY <1>1, <1>3, <2>1
<1>4. CASE k = t
  <2>1. PICK w : w = e[t]
    OBVIOUS
  <2>2. Len(w) = Len(v) + 1 /\ Len(v) \in Nat /\ w[Len(v) + 1] = r /\ \A i \in 1..Len(v) : w[i] = v[i]
    BY <1>2, <2>1, AppendVector
  <2>3. Has(e, k, x) <=> \E j \in 1..Len(w) : x \in Pages(w[j])
    BY <1>2, <1>4, <2>1 DEF Has
  <2>4. Has(d, k, x) <=> \E j \in 1..Len(v) : x \in Pages(v[j])
    <3>1. CASE t \in DOMAIN d
      BY <1>2, <1>4, <3>1 DEF Has
    <3>2. CASE t \notin DOMAIN d
      <4>1. Len(v) = 0
        BY <1>2, <3>2
      <4>2. QED BY <1>4, <3>2, <4>1 DEF Has
    <3>3. QED BY <3>1, <3>2
  <2>5. ASSUME NEW j \in 1..Len(w), x \in Pages(w[j])
        PROVE  (\E i \in 1..Len(v) : x \in Pages(v[i])) \/ x \in Pages(r)
    <3>1. CASE j = Len(v) + 1
      BY <2>2, <2>5, <3>1
    <3>2. CASE j # Len(v) + 1
      <4>1. j \in 1..Len(v)
        BY <2>2, <3>2
      <4>2. QED BY <2>2, <2>5, <4>1
    <3>3. QED BY <3>1, <3>2
  <2>6. ASSUME NEW j \in 1..Len(v), x \in Pages(v[j]) PROVE \E i \in 1..Len(w) : x \in Pages(w[i])
    <3>1. j \in 1..Len(w)
      BY <2>2
    <3>2. QED BY <2>2, <2>6, <3>1
  <2>7. ASSUME x \in Pages(r) PROVE \E i \in 1..Len(w) : x \in Pages(w[i])
    <3>1. Len(v) + 1 \in 1..Len(w)
      BY <2>2
    <3>2. QED BY <2>2, <2>7, <3>1
  <2>8. QED BY <1>1, <1>4, <2>3, <2>4, <2>5, <2>6, <2>7
<1>5. QED BY <1>3, <1>4

\* A range without pages in the map keeps its ranges apart.
LEMMA PushApart ==
    ASSUME NEW d, IsMap(d), NEW t \in Nat \ {0}, NEW r \in RangeType, Apart(d), Misses(d, r)
    PROVE  Apart(Push(d, t, r))
<1>1. PICK e, v : e = Push(d, t, r) /\ v = At(d, t)
  OBVIOUS
<1>2. /\ DOMAIN e = DOMAIN d \cup {t} /\ e[t] = Append(v, r) /\ v \in Seq(RangeType)
      /\ \A l \in DOMAIN d : l # t => e[l] = d[l]
      /\ t \in DOMAIN d => v = d[t]
      /\ t \notin DOMAIN d => v = <<>>
  <2>1. Pushed(e, d, t, r, v)
    BY <1>1, PushVectors
  <2>2. QED BY <2>1 DEF Pushed
<1>3. PICK n \in Nat : n = Len(v)
  BY <1>2
<1>4. Len(e[t]) = n + 1 /\ e[t][n + 1] = r /\ \A i \in 1..n : e[t][i] = v[i]
  BY <1>2, <1>3, AppendVector
\* A range of e is the new one or one of d.
<1>5. ASSUME NEW k \in DOMAIN e, NEW i \in 1..Len(e[k]), ~(k = t /\ i = n + 1)
      PROVE  k \in DOMAIN d /\ i \in 1..Len(d[k]) /\ e[k][i] = d[k][i]
  <2>1. CASE k # t
    BY <1>2, <1>5, <2>1
  <2>2. CASE k = t
    <3>1. i \in 1..n
      BY <1>3, <1>4, <1>5, <2>2
    <3>2. t \in DOMAIN d
      <4>1. n # 0
        BY <3>1
      <4>2. QED BY <1>2, <1>3, <4>1
    <3>3. QED BY <1>2, <1>3, <1>4, <2>2, <3>1, <3>2
  <2>3. QED BY <2>1, <2>2
<1>6. ASSUME NEW k \in DOMAIN e, NEW l \in DOMAIN e, NEW i \in 1..Len(e[k]), NEW j \in 1..Len(e[l]), k # l \/ i # j
      PROVE  Pages(e[k][i]) \cap Pages(e[l][j]) = {}
  <2>1. CASE k = t /\ i = n + 1
    <3>1. ~(l = t /\ j = n + 1)
      BY <1>6, <2>1
    <3>2. l \in DOMAIN d /\ j \in 1..Len(d[l]) /\ e[l][j] = d[l][j]
      BY <1>5, <3>1
    <3>3. e[k][i] = r
      BY <1>4, <2>1
    <3>4. Pages(d[l][j]) \cap Pages(r) = {}
      BY <3>2 DEF Misses
    <3>5. QED BY <3>2, <3>3, <3>4
  <2>2. CASE l = t /\ j = n + 1
    <3>1. ~(k = t /\ i = n + 1)
      BY <1>6, <2>2
    <3>2. k \in DOMAIN d /\ i \in 1..Len(d[k]) /\ e[k][i] = d[k][i]
      BY <1>5, <3>1
    <3>3. e[l][j] = r
      BY <1>4, <2>2
    <3>4. Pages(d[k][i]) \cap Pages(r) = {}
      BY <3>2 DEF Misses
    <3>5. QED BY <3>2, <3>3, <3>4
  <2>3. CASE ~(k = t /\ i = n + 1) /\ ~(l = t /\ j = n + 1)
    <3>1. k \in DOMAIN d /\ i \in 1..Len(d[k]) /\ e[k][i] = d[k][i]
      BY <1>5, <2>3
    <3>2. l \in DOMAIN d /\ j \in 1..Len(d[l]) /\ e[l][j] = d[l][j]
      BY <1>5, <2>3
    <3>3. Pages(d[k][i]) \cap Pages(d[l][j]) = {}
      BY <1>6, <3>1, <3>2 DEF Apart
    <3>4. QED BY <3>1, <3>2, <3>3
  <2>4. QED BY <2>1, <2>2, <2>3
<1>7. QED BY <1>1, <1>6 DEF Apart
-----------------------------------------------------------------------------
(***************************************************************************)
(* read_promotions_over_time.                                              *)
(***************************************************************************)
\* The variables of the loop: num_offsets regions up to offset are collected.
ReadState(a) ==
    /\ IsMap(a.data)
    /\ a.time \in Nat /\ a.offset \in Nat /\ a.start \in Nat /\ a.num \in Nat
    /\ a.num > 0 => a.time # 0 /\ a.start + a.num - 1 = a.offset

\* Page x of time k was read: it is in the map or in the range being collected.
Holds(a, k, x) == Has(a.data, k, x) \/ (a.num > 0 /\ k = a.time /\ x \in Pages(RangeOf(a)))

\* The ranges, that one included, share no page.
Split(a) == Apart(a.data) /\ (a.num > 0 => Misses(a.data, RangeOf(a)))

\* The pages of the range being collected.
LEMMA PagesOfRange ==
    ASSUME NEW a, a.start \in Nat, a.num \in Nat
    PROVE  /\ Pages(RangeOf(a)) = a.start..(a.start + a.num - 1)
           /\ a.num > 0 => RangeOf(a) \in RangeType
BY DEF Pages, RangeOf, RangeType

\* Ranges and pages: two that share no page, and one more.
LEMMA MissesPages ==
    ASSUME NEW d, NEW r, \A k, x : Has(d, k, x) => x \notin Pages(r)
    PROVE  Misses(d, r)
<1>1. SUFFICES ASSUME NEW k \in DOMAIN d, NEW j \in 1..Len(d[k]) PROVE Pages(d[k][j]) \cap Pages(r) = {}
  BY DEF Misses
<1>2. ASSUME NEW x \in Pages(d[k][j]) PROVE x \notin Pages(r)
  <2>1. Has(d, k, x)
    BY <1>1, <1>2 DEF Has
  <2>2. QED BY <2>1
<1>3. QED BY <1>2

\* A page of the map is in no range that it misses.
LEMMA MissesHas ==
    ASSUME NEW d, NEW r, Misses(d, r), NEW k, NEW x, Has(d, k, x)
    PROVE  x \notin Pages(r)
BY DEF Misses, Has

\* One line adds its page to what was read, as part of a range or as a new one.
LEMMA ReadLineStep ==
    ASSUME NEW a, ReadState(a), NEW line \in Line, NEW b, b = ReadLine(a, line)
    PROVE  /\ ReadState(b) /\ b.num > 0
           /\ \A k, x : Holds(b, k, x) <=> Holds(a, k, x) \/ (k = line.time /\ x = line.addr)
           /\ Split(a) /\ (\A k : ~Holds(a, k, line.addr)) => Split(b)
<1>1. line.time \in Nat \ {0} /\ line.addr \in Nat
  BY DEF Line
<1>2. /\ IsMap(a.data) /\ a.time \in Nat /\ a.offset \in Nat /\ a.start \in Nat /\ a.num \in Nat
      /\ a.num > 0 => a.time # 0 /\ a.start + a.num - 1 = a.offset
  BY DEF ReadState
<1>3. b.time = line.time /\ b.offset = line.addr
  BY DEF ReadLine
<1>4. CASE a.num = 0
  <2>1. b.data = a.data /\ b.start = line.addr /\ b.num = 1
    BY <1>2, <1>4 DEF ReadLine
  <2>2. ReadState(b) /\ b.num > 0
    BY <1>1, <1>2, <1>3, <2>1 DEF ReadState
  <2>3. Pages(RangeOf(b)) = {line.addr}
    <3>1. Pages(RangeOf(b)) = b.start..(b.start + b.num - 1)
      BY <1>1, <2>1, PagesOfRange
    <3>2. QED BY <1>1, <2>1, <3>1
  <2>4. ASSUME NEW k, NEW x PROVE Holds(b, k, x) <=> Holds(a, k, x) \/ (k = line.time /\ x = line.addr)
    BY <1>3, <1>4, <2>1, <2>2, <2>3 DEF Holds
  <2>5. ASSUME Split(a), \A k : ~Holds(a, k, line.addr) PROVE Split(b)
    <3>1. \A k, x : Has(b.data, k, x) => x \notin Pages(RangeOf(b))
      BY <2>1, <2>3, <2>5 DEF Holds
    <3>2. Misses(b.data, RangeOf(b))
      BY <3>1, MissesPages
    <3>3. QED BY <2>1, <2>5, <3>2 DEF Split
  <2>6. QED BY <2>2, <2>4, <2>5
<1>5. CASE a.num > 0 /\ a.time = line.time /\ line.addr = a.offset + 1
  <2>1. b.data = a.data /\ b.start = a.start /\ b.num = a.num + 1
    BY <1>2, <1>5 DEF ReadLine
  <2>2. ReadState(b) /\ b.num > 0
    BY <1>1, <1>2, <1>3, <1>5, <2>1 DEF ReadState
  <2>3. \A x : x \in Pages(RangeOf(b)) <=> x \in Pages(RangeOf(a)) \/ x = line.addr
    <3>1. Pages(RangeOf(b)) = b.start..(b.start + b.num - 1)
      BY <1>2, <2>1, PagesOfRange
    <3>2. Pages(RangeOf(a)) = a.start..(a.start + a.num - 1)
      BY <1>2, PagesOfRange
    <3>3. PICK p \in Nat, n \in Nat : p = a.start /\ n = a.num
      BY <1>2
    <3>4. /\ Pages(RangeOf(b)) = p..(p + n) /\ Pages(RangeOf(a)) = p..(p + n - 1)
          /\ line.addr = p + n
      <4>1. b.start + b.num - 1 = p + n
        BY <2>1, <3>3
      <4>2. a.start + a.num - 1 = p + n - 1 /\ line.addr = p + n
        BY <1>2, <1>5, <3>3
      <4>3. b.start = p /\ a.start = p
        BY <2>1, <3>3
      <4>4. QED BY <3>1, <3>2, <4>1, <4>2, <4>3
    <3>5. \A x : x \in p..(p + n) <=> x \in p..(p + n - 1) \/ x = p + n
      OBVIOUS
    <3>6. QED BY <3>4, <3>5
  <2>4. ASSUME NEW k, NEW x PROVE Holds(b, k, x) <=> Holds(a, k, x) \/ (k = line.time /\ x = line.addr)
    BY <1>3, <1>5, <2>1, <2>2, <2>3 DEF Holds
  <2>5. ASSUME Split(a), \A k : ~Holds(a, k, line.addr) PROVE Split(b)
    <3>1. ASSUME NEW k, NEW x, Has(b.data, k, x) PROVE x \notin Pages(RangeOf(b))
      <4>1. Has(a.data, k, x)
        BY <2>1, <3>1
      <4>2. x # line.addr
        BY <2>5, <4>1 DEF Holds
      <4>3. x \notin Pages(RangeOf(a))
        BY <1>5, <2>5, <4>1, MissesHas DEF Split
      <4>4. QED BY <2>3, <4>2, <4>3
    <3>2. Misses(b.data, RangeOf(b))
      BY <3>1, MissesPages
    <3>3. QED BY <2>1, <2>5, <3>2 DEF Split
  <2>6. QED BY <2>2, <2>4, <2>5
<1>6. CASE a.num > 0 /\ ~(a.time = line.time /\ line.addr = a.offset + 1)
  <2>1. b.data = Push(a.data, a.time, RangeOf(a)) /\ b.start = line.addr /\ b.num = 1
    BY <1>2, <1>6 DEF ReadLine
  <2>2. RangeOf(a) \in RangeType /\ a.time \in Nat \ {0}
    BY <1>2, <1>6, PagesOfRange
  <2>3. ReadState(b) /\ b.num > 0
    <3>1. IsMap(b.data)
      BY <1>2, <2>1, <2>2, PushIsMap
    <3>2. QED BY <1>1, <1>3, <2>1, <3>1 DEF ReadState
  <2>4. Pages(RangeOf(b)) = {line.addr}
    <3>1. Pages(RangeOf(b)) = b.start..(b.start + b.num - 1)
      BY <1>1, <2>1, PagesOfRange
    <3>2. QED BY <1>1, <2>1, <3>1
  <2>5. ASSUME NEW k, NEW x PROVE Has(b.data, k, x) <=> Holds(a, k, x)
    <3>1. Has(Push(a.data, a.time, RangeOf(a)), k, x) <=> Has(a.data, k, x) \/ (k = a.time /\ x \in Pages(RangeOf(a)))
      BY <1>2, <2>2, PushHas
    <3>2. QED BY <1>6, <2>1, <3>1 DEF Holds
  <2>6. ASSUME NEW k, NEW x PROVE Holds(b, k, x) <=> Holds(a, k, x) \/ (k = line.time /\ x = line.addr)
    BY <1>3, <2>3, <2>4, <2>5 DEF Holds
  <2>7. ASSUME Split(a), \A k : ~Holds(a, k, line.addr) PROVE Split(b)
    <3>1. Apart(b.data)
      <4>1. Apart(a.data) /\ Misses(a.data, RangeOf(a))
        BY <1>6, <2>7 DEF Split
      <4>2. QED BY <1>2, <2>1, <2>2, <4>1, PushApart
    <3>2. \A k, x : Has(b.data, k, x) => x \notin Pages(RangeOf(b))
      BY <2>4, <2>5, <2>7
    <3>3. Misses(b.data, RangeOf(b))
      BY <3>2, MissesPages
    <3>4. QED BY <3>1, <3>3 DEF Split
  <2>8. QED BY <2>3, <2>6, <2>7
<1>7. QED BY <1>2, <1>4, <1>5, <1>6

\* R holds the variables before the loop and after each of its passes.
Reads(R, file) ==
    R = [n \in 0..Len(file) |-> IF n = 0 THEN Unread ELSE ReadLine(R[n - 1], file[n])]

\* The map that is read: what the last pass leaves, with the last range pushed.
LEMMA ReadEquation ==
    ASSUME NEW file, Len(file) \in Nat
    PROVE  \E R : /\ Reads(R, file)
                  /\ read_promotions_over_time(file) =
                        LET a == R[Len(file)]
                        IN  IF file = <<>> THEN a.data ELSE Push(a.data, a.time, RangeOf(a))
<1> DEFINE N == Len(file)
           Body(f, n) == IF n = 0 THEN Unread ELSE ReadLine(f[n - 1], file[n])
           Upto(j) == \E f : f = [n \in 0..j |-> Body(f, n)]
           T == {j \in 0..N : Upto(j)}
<1>0. N \in Nat
  OBVIOUS
<1>1. 0 \in T
  <2> DEFINE g == [n \in 0..0 |-> Unread]
  <2>1. g = [n \in 0..0 |-> Body(g, n)]
    OBVIOUS
  <2> HIDE DEF g, Body
  <2>2. Upto(0)
    BY <2>1
  <2>3. QED BY <1>0, <2>2
<1>2. ASSUME NEW j \in 0..N, j # N, j \in T PROVE j + 1 \in T
  <2> HIDE DEF Body, N
  <2>1. PICK f : f = [n \in 0..j |-> Body(f, n)]
    BY <1>2
  <2> DEFINE g == [n \in 0..(j + 1) |-> IF n = j + 1 THEN Body(f, j + 1) ELSE f[n]]
  <2>2. \A n \in 0..j : g[n] = f[n] /\ f[n] = Body(f, n)
    BY <2>1
  <2>3. g[j + 1] = Body(f, j + 1) /\ DOMAIN g = 0..(j + 1)
    OBVIOUS
  <2> HIDE DEF g
  <2>4. ASSUME NEW n \in 0..(j + 1) PROVE g[n] = Body(g, n)
    <3>1. n # 0 => g[n - 1] = f[n - 1]
      BY <2>2
    <3>2. Body(f, n) = Body(g, n)
      BY <3>1 DEF Body
    <3>3. n = j + 1 \/ n \in 0..j
      OBVIOUS
    <3>4. QED BY <2>2, <2>3, <3>2, <3>3
  <2>5. g = [n \in 0..(j + 1) |-> IF n = j + 1 THEN Body(f, j + 1) ELSE f[n]]
    BY DEF g
  <2>6. g = [n \in 0..(j + 1) |-> Body(g, n)]
    BY <2>4, <2>5
  <2>7. j + 1 \in 0..N
    BY <1>0, <1>2
  <2>8. QED BY <2>6, <2>7
<1>3. Upto(N)
  <2> HIDE DEF N
  <2>1. \A j \in 0..N : j # N /\ j \in T => j + 1 \in T
    BY <1>2
  <2>2. \A j \in 0..N : j \in T
    <3> HIDE DEF T
    <3>1. QED BY <1>0, <1>1, <2>1, UpToInduction
  <2>3. N \in T
    <3> HIDE DEF T
    <3>1. QED BY <1>0, <2>2
  <2> HIDE DEF Upto
  <2>4. QED BY <2>3
<1> DEFINE R == CHOOSE f : f = [n \in 0..N |-> Body(f, n)]
<1>4. R = [n \in 0..N |-> Body(R, n)]
  BY <1>3
<1>5. read_promotions_over_time(file) = IF file = <<>> THEN R[N].data ELSE Push(R[N].data, R[N].time, RangeOf(R[N]))
  BY DEF read_promotions_over_time
<1>6. Reads(R, file)
  BY <1>4 DEF Reads
<1>7. QED BY <1>5, <1>6

\* Line i of a file is page x of time k.
LineOf(file, i, k, x) == file[i].time = k /\ file[i].addr = x

\* After n lines: exactly their pages were read, in ranges that are apart if no
\* region has two lines.
ReadSoFar(a, file, n) ==
    /\ ReadState(a)
    /\ n > 0 => a.num > 0
    /\ \A k, x : Holds(a, k, x) <=> \E i \in 1..n : LineOf(file, i, k, x)
    /\ (\A i, j \in 1..Len(file) : file[i].addr = file[j].addr => i = j) => Split(a)

\* The loop.
LEMMA ReadLoop ==
    ASSUME NEW file \in Seq(Line), NEW R, Reads(R, file)
    PROVE  ReadSoFar(R[Len(file)], file, Len(file))
<1> DEFINE T == {n \in 0..Len(file) : ReadSoFar(R[n], file, n)}
<1>1. PICK N \in Nat : N = Len(file)
  OBVIOUS
<1>2. /\ R[0] = Unread
      /\ \A n \in 1..N : R[n] = ReadLine(R[n - 1], file[n])
  BY <1>1 DEF Reads
<1>3. 0 \in T
  <2>1. Unread.data = [k \in {} |-> <<>>] /\ Unread.time = 0 /\ Unread.offset = 0 /\ Unread.start = 0 /\ Unread.num = 0
    BY DEF Unread, None
  <2>2. DOMAIN Unread.data = {}
    BY <2>1
  <2>3. IsMap(Unread.data)
    BY <2>1, <2>2 DEF IsMap
  <2>4. ReadState(Unread)
    BY <2>1, <2>3 DEF ReadState
  <2>5. \A k, x : ~Holds(Unread, k, x)
    BY <2>1, <2>2 DEF Holds, Has
  <2>6. Split(Unread)
    BY <2>1, <2>2 DEF Split, Apart
  <2>7. ReadSoFar(Unread, file, 0)
    BY <2>4, <2>5, <2>6 DEF ReadSoFar
  <2>8. QED BY <1>1, <1>2, <2>7
<1>4. ASSUME NEW n \in 0..N, n # N, n \in T PROVE n + 1 \in T
  <2>1. PICK a, b, line : a = R[n] /\ b = R[n + 1] /\ line = file[n + 1]
    OBVIOUS
  <2>2. n + 1 \in 1..N /\ n + 1 \in 0..Len(file) /\ (n + 1) - 1 = n /\ n \in Nat
    BY <1>1, <1>4
  <2>3. b = ReadLine(a, line) /\ line \in Line
    BY <1>1, <1>2, <2>1, <2>2
  <2>4. ReadSoFar(a, file, n)
    BY <1>4, <2>1
  <2>5. ReadState(a) /\ \A k, x : Holds(a, k, x) <=> \E i \in 1..n : LineOf(file, i, k, x)
    BY <2>4 DEF ReadSoFar
  <2>6. /\ ReadState(b) /\ b.num > 0
        /\ \A k, x : Holds(b, k, x) <=> Holds(a, k, x) \/ (k = line.time /\ x = line.addr)
        /\ Split(a) /\ (\A k : ~Holds(a, k, line.addr)) => Split(b)
    BY <2>3, <2>5, ReadLineStep
  <2>7. ASSUME NEW k, NEW x PROVE Holds(b, k, x) <=> \E i \in 1..(n + 1) : LineOf(file, i, k, x)
    <3>1. (k = line.time /\ x = line.addr) <=> LineOf(file, n + 1, k, x)
      BY <2>1 DEF LineOf
    <3>2. \A i : i \in 1..(n + 1) <=> i \in 1..n \/ i = n + 1
      BY <2>2
    <3>3. QED BY <2>5, <2>6, <3>1, <3>2
  <2>8. ASSUME \A i, j \in 1..Len(file) : file[i].addr = file[j].addr => i = j PROVE Split(b)
    <3>1. Split(a)
      BY <2>4, <2>8 DEF ReadSoFar
    <3>2. ASSUME NEW k, Holds(a, k, line.addr) PROVE FALSE
      <4>1. PICK i \in 1..n : file[i].addr = file[n + 1].addr
        BY <2>1, <2>5, <3>2 DEF LineOf
      <4>2. i \in 1..Len(file) /\ n + 1 \in 1..Len(file) /\ i # n + 1
        BY <1>1, <2>2
      <4>3. QED BY <2>8, <4>1, <4>2
    <3>3. QED BY <2>6, <3>1, <3>2
  <2>9. ReadSoFar(b, file, n + 1)
    BY <2>6, <2>7, <2>8 DEF ReadSoFar
  <2>10. QED BY <2>1, <2>2, <2>9
<1>5. \A n \in 0..N : n \in T
  <2>1. \A n \in 0..N : n # N /\ n \in T => n + 1 \in T
    BY <1>4
  <2> HIDE DEF T
  <2>2. QED BY <1>3, <2>1, UpToInduction
<1>6. N \in T
  <2>1. N \in 0..N
    OBVIOUS
  <2> HIDE DEF T
  <2>2. QED BY <1>5, <2>1
<1>7. QED BY <1>1, <1>6

\* The map read from a file: at every time the pages of its lines, in ranges
\* that are apart if no region has two lines.
IsRead(d, file) ==
    /\ IsMap(d)
    /\ \A k, x : Has(d, k, x) <=> \E i \in 1..Len(file) : LineOf(file, i, k, x)
    /\ (\A i, j \in 1..Len(file) : file[i].addr = file[j].addr => i = j) => Apart(d)

\* Nothing is lost or added where lines are joined into ranges.
LEMMA ReadFile ==
    ASSUME NEW file \in Seq(Line)
    PROVE  IsRead(read_promotions_over_time(file), file)
<1>1. PICK d, N : d = read_promotions_over_time(file) /\ N = Len(file)
  OBVIOUS
<1>2. N \in Nat
  BY <1>1
<1>3. PICK R : Reads(R, file) /\ d = LET a == R[N] IN IF file = <<>> THEN a.data ELSE Push(a.data, a.time, RangeOf(a))
  BY <1>1, <1>2, ReadEquation
<1>4. PICK a : a = R[N]
  OBVIOUS
<1>5. ReadSoFar(a, file, N)
  BY <1>1, <1>3, <1>4, ReadLoop
<1>6. /\ ReadState(a)
      /\ N > 0 => a.num > 0
      /\ \A k, x : Holds(a, k, x) <=> \E i \in 1..N : LineOf(file, i, k, x)
      /\ (\A i, j \in 1..Len(file) : file[i].addr = file[j].addr => i = j) => Split(a)
  BY <1>5 DEF ReadSoFar
<1>7. IsMap(a.data) /\ a.start \in Nat /\ a.num \in Nat /\ (a.num > 0 => a.time \in Nat \ {0})
  BY <1>6 DEF ReadState
<1>8. CASE file = <<>>
  <2>1. N = 0 /\ d = a.data
    BY <1>1, <1>3, <1>4, <1>8
  <2>2. \A k, x : ~Holds(a, k, x)
    BY <1>6, <2>1
  <2>3. \A k, x : ~Has(d, k, x)
    BY <2>1, <2>2 DEF Holds
  <2>4. IsMap(d) /\ (Split(a) => Apart(d))
    BY <1>7, <2>1 DEF Split
  <2>5. \A k, x : Has(d, k, x) <=> \E i \in 1..Len(file) : LineOf(file, i, k, x)
    BY <1>1, <2>1, <2>3
  <2>6. IsRead(d, file)
    BY <1>6, <2>4, <2>5 DEF IsRead
  <2>7. QED BY <1>1, <2>6
<1>9. CASE file # <<>>
  <2>1. N > 0 /\ a.num > 0
    BY <1>1, <1>2, <1>6, <1>9
  <2>2. d = Push(a.data, a.time, RangeOf(a))
    BY <1>3, <1>4, <1>9
  <2>3. RangeOf(a) \in RangeType /\ a.time \in Nat \ {0}
    BY <1>7, <2>1, PagesOfRange
  <2>4. IsMap(d)
    BY <1>7, <2>2, <2>3, PushIsMap
  <2>5. ASSUME NEW k, NEW x PROVE Has(d, k, x) <=> \E i \in 1..Len(file) : LineOf(file, i, k, x)
    <3>1. Has(Push(a.data, a.time, RangeOf(a)), k, x) <=> Has(a.data, k, x) \/ (k = a.time /\ x \in Pages(RangeOf(a)))
      BY <1>7, <2>3, PushHas
    <3>2. Has(d, k, x) <=> Holds(a, k, x)
      BY <2>1, <2>2, <3>1 DEF Holds
    <3>3. QED BY <1>1, <1>6, <3>2
  <2>6. ASSUME Split(a) PROVE Apart(d)
    <3>1. Apart(a.data) /\ Misses(a.data, RangeOf(a))
      BY <2>1, <2>6 DEF Split
    <3>2. QED BY <1>7, <2>2, <2>3, <3>1, PushApart
  <2>7. IsRead(d, file)
    BY <1>6, <2>4, <2>5, <2>6 DEF IsRead
  <2>8. QED BY <1>1, <2>7
<1>10. QED BY <1>8, <1>9
-----------------------------------------------------------------------------
(***************************************************************************)
(* The iterators, and the ranges gathered on the way.                      *)
(***************************************************************************)
\* it points to the next key.
LEMMA NextKey ==
    ASSUME NEW d, IsMap(d), NEW now \in Nat, NEW it, it = FirstAfter(d, now)
    PROVE  /\ it \in Nat
           /\ it = None => \A k \in DOMAIN d : k <= now
           /\ it # None => it \in DOMAIN d /\ it > now /\ \A k \in DOMAIN d : k > now => it <= k
<1> DEFINE later == {k \in DOMAIN d : k > now}
<1>1. later \in SUBSET Nat /\ \A k \in DOMAIN d : k \in Nat \ {0}
  BY DEF IsMap
<1>2. it = IF later = {} THEN None ELSE Min(later)
  BY DEF FirstAfter
<1>3. CASE later = {}
  BY <1>1, <1>2, <1>3 DEF None
<1>4. CASE later # {}
  <2>1. Min(later) \in later /\ \A k \in later : Min(later) <= k
    <3> HIDE DEF later
    <3>1. QED BY <1>1, <1>4, NatMin
  <2>2. QED BY <1>1, <1>2, <1>4, <2>1 DEF None
<1>5. QED BY <1>3, <1>4

\* The times before an iterator.
Passed(d, it) == {k \in DOMAIN d : it = None \/ k < it}

\* None at the start ...
LEMMA PassedFirst ==
    ASSUME NEW d, IsMap(d) PROVE Passed(d, FirstAfter(d, None)) = {}
<1>1. PICK it : it = FirstAfter(d, None)
  OBVIOUS
<1>2. /\ it = None => \A k \in DOMAIN d : k <= None
      /\ it # None => \A k \in DOMAIN d : k > None => it <= k
      /\ it \in Nat
  <2>1. None \in Nat
    BY DEF None
  <2>2. QED BY <1>1, <2>1, NextKey
<1>3. \A k \in DOMAIN d : k \in Nat /\ k > None
  BY DEF IsMap, None
<1>4. ASSUME NEW k \in DOMAIN d PROVE ~(it = None \/ k < it)
  BY <1>2, <1>3 DEF None
<1>5. QED BY <1>1, <1>4 DEF Passed

\* ... and one more with each step of it.
LEMMA PassedNext ==
    ASSUME NEW d, IsMap(d), NEW p \in DOMAIN d
    PROVE  Passed(d, FirstAfter(d, p)) = Passed(d, p) \cup {p} /\ p \notin Passed(d, p)
<1>1. PICK it : it = FirstAfter(d, p)
  OBVIOUS
<1>2. p \in Nat \ {0} /\ \A k \in DOMAIN d : k \in Nat
  BY DEF IsMap
<1>3. /\ it = None => \A k \in DOMAIN d : k <= p
      /\ it # None => it > p /\ \A k \in DOMAIN d : k > p => it <= k
      /\ it \in Nat
  BY <1>1, <1>2, NextKey
<1>4. ASSUME NEW k \in DOMAIN d PROVE it = None \/ k < it <=> (p = None \/ k < p) \/ k = p
  BY <1>2, <1>3 DEF None
<1>5. Passed(d, it) = Passed(d, p) \cup {p}
  BY <1>4 DEF Passed
<1>6. p \notin Passed(d, p)
  BY <1>2 DEF Passed, None
<1>7. QED BY <1>1, <1>5, <1>6

\* r holds the ranges of the times in S, all of them and no other.
Gathered(r, d, S) ==
    /\ r \in Seq(RangeType)
    /\ \A i \in 1..Len(r) : \E k \in S : \E j \in 1..Len(d[k]) : r[i] = d[k][j]
    /\ \A k \in S : \A j \in 1..Len(d[k]) : \E i \in 1..Len(r) : r[i] = d[k][j]
Disjoint(r) == \A i, j \in DOMAIN r : i # j => Pages(r[i]) \cap Pages(r[j]) = {}

\* The pages that were gathered.
LEMMA GatheredPages ==
    ASSUME NEW d, NEW S, S \subseteq DOMAIN d, NEW r, Gathered(r, d, S), NEW x
    PROVE  x \in PagesOf(r) <=> \E k \in S : Has(d, k, x)
<1>1. DOMAIN r = 1..Len(r)
  BY DEF Gathered
<1>2. x \in PagesOf(r) <=> \E i \in 1..Len(r) : x \in Pages(r[i])
  BY <1>1 DEF PagesOf
<1>3. ASSUME NEW i \in 1..Len(r), x \in Pages(r[i]) PROVE \E k \in S : Has(d, k, x)
  <2>1. PICK k \in S : \E j \in 1..Len(d[k]) : r[i] = d[k][j]
    BY DEF Gathered
  <2>2. Has(d, k, x)
    BY <1>3, <2>1 DEF Has
  <2>3. QED BY <2>2
<1>4. ASSUME NEW k \in S, Has(d, k, x) PROVE \E i \in 1..Len(r) : x \in Pages(r[i])
  <2>1. PICK j \in 1..Len(d[k]) : x \in Pages(d[k][j])
    BY <1>4 DEF Has
  <2>2. PICK i \in 1..Len(r) : r[i] = d[k][j]
    BY DEF Gathered
  <2>3. QED BY <2>1, <2>2
<1>5. QED BY <1>2, <1>3, <1>4

\* The ranges of one more time.
LEMMA GatherMore ==
    ASSUME NEW d, IsMap(d), NEW S, S \subseteq DOMAIN d, NEW r, Gathered(r, d, S),
           NEW p \in DOMAIN d, NEW q, q = r \o At(d, p)
    PROVE  /\ Gathered(q, d, S \cup {p})
           /\ p \notin S /\ Apart(d) /\ Disjoint(r) => Disjoint(q)
<1>1. PICK v : v = d[p]
  OBVIOUS
<1>2. v \in Seq(RangeType) /\ r \in Seq(RangeType) /\ At(d, p) = v
  BY <1>1 DEF IsMap, Gathered, At
<1>3. PICK m \in Nat, n \in Nat : m = Len(r) /\ n = Len(v)
  BY <1>2
<1>4. /\ q \in Seq(RangeType) /\ Len(q) = m + n /\ DOMAIN q = 1..(m + n) /\ DOMAIN r = 1..m
      /\ \A i \in 1..m : q[i] = r[i]
      /\ \A j \in 1..n : q[m + j] = v[j]
  <2>1. q = r \o v
    BY <1>2
  <2>2. QED BY <1>2, <1>3, <2>1
<1>5. ASSUME NEW i \in 1..(m + n)
      PROVE  i \in 1..m \/ (i - m \in 1..n /\ i = m + (i - m))
  OBVIOUS
<1>6. ASSUME NEW i \in 1..Len(q) PROVE \E k \in S \cup {p} : \E j \in 1..Len(d[k]) : q[i] = d[k][j]
  <2>0. i \in 1..(m + n)
    BY <1>4
  <2>1. CASE i \in 1..m
    <3>1. i \in 1..Len(r)
      BY <1>3, <2>1
    <3>2. PICK k \in S : \E j \in 1..Len(d[k]) : r[i] = d[k][j]
      BY <3>1 DEF Gathered
    <3>3. QED BY <1>4, <2>1, <3>2
  <2>2. CASE i - m \in 1..n /\ i = m + (i - m)
    <3>1. q[i] = v[i - m]
      BY <1>4, <2>2
    <3>2. i - m \in 1..Len(d[p]) /\ q[i] = d[p][i - m]
      BY <1>1, <1>3, <2>2, <3>1
    <3>3. QED BY <3>2
  <2>3. QED BY <1>5, <2>0, <2>1, <2>2
<1>7. ASSUME NEW k \in S \cup {p}, NEW j \in 1..Len(d[k]) PROVE \E i \in 1..Len(q) : q[i] = d[k][j]
  <2>1. CASE k \in S
    <3>1. PICK i \in 1..Len(r) : r[i] = d[k][j]
      BY <2>1 DEF Gathered
    <3>2. i \in 1..m /\ i \in 1..Len(q)
      BY <1>3, <1>4, <3>1
    <3>3. QED BY <1>4, <3>1, <3>2
  <2>2. CASE k = p
    <3>1. j \in 1..n /\ m + j \in 1..Len(q)
      BY <1>1, <1>3, <1>4, <2>2
    <3>2. q[m + j] = d[k][j]
      BY <1>1, <1>4, <2>2, <3>1
    <3>3. QED BY <3>1, <3>2
  <2>3. QED BY <2>1, <2>2
<1>8. Gathered(q, d, S \cup {p})
  BY <1>4, <1>6, <1>7 DEF Gathered
<1>9. ASSUME p \notin S, Apart(d), Disjoint(r) PROVE Disjoint(q)
  \* A range from before, and one of this time.
  <2>1. ASSUME NEW i \in 1..m, NEW j \in 1..n PROVE Pages(r[i]) \cap Pages(v[j]) = {}
    <3>1. i \in 1..Len(r)
      BY <1>3
    <3>2. PICK k \in S : \E l \in 1..Len(d[k]) : r[i] = d[k][l]
      BY <3>1 DEF Gathered
    <3>3. PICK l \in 1..Len(d[k]) : r[i] = d[k][l]
      BY <3>2
    <3>4. k \in DOMAIN d /\ k # p /\ j \in 1..Len(d[p])
      BY <1>1, <1>3, <1>9, <3>2
    <3>5. Pages(d[k][l]) \cap Pages(d[p][j]) = {}
      BY <1>9, <3>3, <3>4 DEF Apart
    <3>6. QED BY <1>1, <3>3, <3>5
  <2>2. ASSUME NEW i \in 1..n, NEW j \in 1..n, i # j PROVE Pages(v[i]) \cap Pages(v[j]) = {}
    <3>1. i \in 1..Len(d[p]) /\ j \in 1..Len(d[p])
      BY <1>1, <1>3
    <3>2. QED BY <1>1, <1>9, <2>2, <3>1 DEF Apart
  <2>3. ASSUME NEW i \in 1..(m + n), NEW j \in 1..(m + n), i # j PROVE Pages(q[i]) \cap Pages(q[j]) = {}
    <3>1. CASE i \in 1..m /\ j \in 1..m
      <4>1. Pages(r[i]) \cap Pages(r[j]) = {}
        BY <1>4, <1>9, <2>3, <3>1 DEF Disjoint
      <4>2. QED BY <1>4, <3>1, <4>1
    <3>2. CASE i \in 1..m /\ j \notin 1..m
      <4>1. j - m \in 1..n /\ j = m + (j - m)
        BY <1>5, <3>2
      <4>2. q[i] = r[i] /\ q[j] = v[j - m]
        BY <1>4, <3>2, <4>1
      <4>3. QED BY <2>1, <3>2, <4>1, <4>2
    <3>3. CASE i \notin 1..m /\ j \in 1..m
      <4>1. i - m \in 1..n /\ i = m + (i - m)
        BY <1>5, <3>3
      <4>2. q[j] = r[j] /\ q[i] = v[i - m]
        BY <1>4, <3>3, <4>1
      <4>3. Pages(r[j]) \cap Pages(v[i - m]) = {}
        BY <2>1, <3>3, <4>1
      <4>4. QED BY <4>2, <4>3
    <3>4. CASE i \notin 1..m /\ j \notin 1..m
      <4>1. i - m \in 1..n /\ i = m + (i - m) /\ j - m \in 1..n /\ j = m + (j - m)
        BY <1>5, <3>4
      <4>2. q[j] = v[j - m] /\ q[i] = v[i - m] /\ i - m # j - m
        BY <1>4, <2>3, <4>1
      <4>3. QED BY <2>2, <4>1, <4>2
    <3>5. QED BY <3>1, <3>2, <3>3, <3>4
  <2>4. QED BY <1>4, <2>3 DEF Disjoint
<1>10. QED BY <1>8, <1>9
-----------------------------------------------------------------------------
(***************************************************************************)
(* The lines written for one time.                                         *)
(***************************************************************************)
\* Every number up to the size of a set is the rank of one of its members.
LEMMA Ranks ==
    ASSUME NEW S \in SUBSET Nat, IsFiniteSet(S), NEW n, n = Cardinality(S)
    PROVE  /\ n \in Nat
           /\ \A k \in 1..n : Kth(S, k) \in S
           /\ \A k, l \in 1..n : Kth(S, k) = Kth(S, l) => k = l
           /\ \A a \in S : \E k \in 1..n : Kth(S, k) = a
<1> DEFINE Less(a) == {b \in S : b < a}
           f == [a \in S |-> Cardinality(Less(a)) + 1]
<1>1. n \in Nat
  BY FS_CardinalityType
<1>2. ASSUME NEW a \in S PROVE IsFiniteSet(Less(a)) /\ Cardinality(Less(a)) \in Nat
  <2>1. IsFiniteSet(Less(a))
    BY FS_Subset
  <2>2. QED BY <2>1, FS_CardinalityType
<1>3. ASSUME NEW a \in S, NEW c \in S, a < c PROVE Cardinality(Less(a)) < Cardinality(Less(c))
  <2>1. Less(a) \subseteq Less(c)
    <3>1. SUFFICES ASSUME NEW b \in S, b < a PROVE b < c
      OBVIOUS
    <3>2. a \in Nat /\ b \in Nat /\ c \in Nat
      OBVIOUS
    <3>3. QED BY <1>3, <3>1, <3>2
  <2>2. Less(a) # Less(c)
    BY <1>3
  <2>3. QED
    <3> HIDE DEF Less
    <3>1. Cardinality(Less(a)) <= Cardinality(Less(c)) /\ (Cardinality(Less(a)) = Cardinality(Less(c)) => Less(a) = Less(c))
      BY <1>2, <2>1, FS_Subset
    <3>2. QED BY <1>2, <2>2, <3>1
<1>4. ASSUME NEW a \in S PROVE f[a] \in 1..n
  <2>1. Less(a) \subseteq S /\ Less(a) # S
    OBVIOUS
  <2>2. Cardinality(Less(a)) <= n /\ Cardinality(Less(a)) # n
    <3> HIDE DEF Less
    <3>1. QED BY <2>1, FS_Subset
  <2>3. QED BY <1>1, <1>2, <2>2
<1>5. f \in Injection(S, 1..n)
  <2>1. f \in [S -> 1..n]
    BY <1>4
  <2>2. ASSUME NEW a \in S, NEW c \in S, f[a] = f[c] PROVE a = c
    <3>1. Cardinality(Less(a)) = Cardinality(Less(c))
      <4> HIDE DEF Less
      <4>1. QED BY <1>2, <2>2
    <3>2. ~(a < c) /\ ~(c < a)
      <4> HIDE DEF Less
      <4>1. QED BY <1>2, <1>3, <3>1
    <3>3. QED BY <3>2
  <2> HIDE DEF f
  <2>3. QED BY <2>1, <2>2 DEF Injection, IsInjective
<1>6. IsFiniteSet(1..n) /\ Cardinality(1..n) = n
  <2>1. 1 \in Int /\ n \in Int
    BY <1>1
  <2>2. IsFiniteSet(1..n) /\ Cardinality(1..n) = IF 1 > n THEN 0 ELSE n - 1 + 1
    BY <2>1, FS_Interval, Zenon
  <2>3. QED BY <1>1, <2>2
<1>7. f \in Surjection(S, 1..n)
  <2> HIDE DEF f
  <2>1. QED BY <1>5, <1>6, FS_Injection
<1>8. ASSUME NEW k \in 1..n PROVE Kth(S, k) \in S /\ f[Kth(S, k)] = k
  <2>1. PICK a \in S : f[a] = k
    <3> HIDE DEF f
    <3>1. QED BY <1>7 DEF Surjection
  <2>2. Cardinality(Less(a)) = k - 1
    <3> HIDE DEF Less
    <3>1. QED BY <1>2, <2>1
  <2>3. Kth(S, k) \in S /\ Cardinality(Less(Kth(S, k))) = k - 1
    BY <2>2 DEF Kth
  <2>4. QED
    <3> HIDE DEF Less
    <3>1. QED BY <2>3
<1>9. \A k, l \in 1..n : Kth(S, k) = Kth(S, l) => k = l
  <2> HIDE DEF f
  <2>1. QED BY <1>8
<1>10. ASSUME NEW a \in S PROVE \E k \in 1..n : Kth(S, k) = a
  <2> HIDE DEF f
  <2>1. f[a] \in 1..n
    BY <1>4
  <2>2. Kth(S, f[a]) \in S /\ f[Kth(S, f[a])] = f[a]
    BY <1>8, <2>1
  <2>3. Kth(S, f[a]) = a
    BY <1>5, <2>2 DEF Injection, IsInjective
  <2>4. QED BY <2>1, <2>3
<1>11. QED
  <2> HIDE DEF f
  <2>1. QED BY <1>1, <1>8, <1>9, <1>10

\* One line for each region.
IsLines(s, now, S) ==
    /\ s \in Seq(Line)
    /\ \A i \in 1..Len(s) : s[i].time = now /\ s[i].addr \in S
    /\ \A i, j \in 1..Len(s) : s[i].addr = s[j].addr => i = j
    /\ \A a \in S : \E i \in 1..Len(s) : s[i].addr = a

\* to_promote.sort() and the loop that prints it.
LEMMA LinesWritten ==
    ASSUME NEW S \in SUBSET Nat, IsFiniteSet(S), NEW now \in Nat \ {0}
    PROVE  IsLines(Lines(now, S), now, S)
<1>1. PICK n : n = Cardinality(S)
  OBVIOUS
<1>2. /\ n \in Nat
      /\ \A k \in 1..n : Kth(S, k) \in S
      /\ \A k, l \in 1..n : Kth(S, k) = Kth(S, l) => k = l
      /\ \A a \in S : \E k \in 1..n : Kth(S, k) = a
  BY <1>1, Ranks
<1>3. PICK s : s = Lines(now, S)
  OBVIOUS
<1>4. s = [k \in 1..n |-> [time |-> now, addr |-> Kth(S, k)]]
  BY <1>1, <1>3 DEF Lines
<1>5. \A k \in 1..n : s[k] = [time |-> now, addr |-> Kth(S, k)] /\ s[k] \in Line
  BY <1>2, <1>4 DEF Line
<1>6. s \in [1..n -> Line]
  BY <1>4, <1>5
<1>7. s \in Seq(Line) /\ Len(s) = n
  BY <1>2, <1>6, FunctionIsList
<1>8. IsLines(s, now, S)
  BY <1>2, <1>5, <1>7 DEF IsLines
<1>9. QED BY <1>3, <1>8
-----------------------------------------------------------------------------
(***************************************************************************)
(* The loop of write_promotions.                                           *)
(***************************************************************************)
\* A log of n threads, and its entries.
IsLog(l, n) ==
    /\ n \in Nat \ {0} /\ DOMAIN l[1] = 1..n /\ Len(l) \in Nat \ {0} /\ DOMAIN l = 1..Len(l)
    /\ \A k \in 1..Len(l) : l[k] \in [1..n -> Seq(Candidate)]
InLog(l, k, t, i) == k \in 1..Len(l) /\ t \in DOMAIN l[1] /\ i \in 1..Len(l[k][t])

\* cs is what is left of the lists of time k0, and the entries taken so far.
Position(l, k0, cs) ==
    /\ k0 \in 1..Len(l)
    /\ cs \in [DOMAIN l[1] -> Seq(Candidate)]
    /\ \A t \in DOMAIN l[1] :
          /\ Len(cs[t]) <= Len(l[k0][t])
          /\ \A j \in 1..Len(cs[t]) : cs[t][j] = l[k0][t][Len(l[k0][t]) - Len(cs[t]) + j]
Took(l, k0, cs, k, t, i) == k < k0 \/ (k = k0 /\ i <= Len(l[k0][t]) - Len(cs[t]))

\* unique_candidates has the regions taken so far.
Uniq(l, k0, cs, u) ==
    \A a : a \in u <=> \E k, t, i : InLog(l, k, t, i) /\ Took(l, k0, cs, k, t, i) /\ l[k][t][i].addr = a

\* Those that are not waiting in to_promote have a line, one each.
Written(u, p, f) ==
    /\ u \in SUBSET Nat /\ p \in SUBSET u /\ IsFiniteSet(p)
    /\ f \in Seq(Line)
    /\ \A i, j \in 1..Len(f) : f[i].addr = f[j].addr => i = j
    /\ \A a : a \in u \ p <=> \E i \in 1..Len(f) : f[i].addr = a

\* The lines are in time: none is ahead of the loop, and a region that the loop
\* has left behind has its line by then.
Timely(l, k0, f, fin) ==
    /\ \A i \in 1..Len(f) : f[i].time <= k0 /\ (~fin => f[i].time < k0)
    /\ \A k, t, i : InLog(l, k, t, i) /\ k < k0 =>
          \E j \in 1..Len(f) : f[j].addr = l[k][t][i].addr /\ f[j].time <= k

\* What the assumption on the logs says.
LEMMA LogFacts ==
    ASSUME NEW l \in Logs PROVE \E n : IsLog(l, n)
<1>1. PICK n : n = Cardinality(DOMAIN l[1])
  OBVIOUS
<1>2. l # <<>> /\ n \in Nat \ {0} /\ l \in Seq([1..n -> Seq(Candidate)])
  BY <1>1, LogsAssumption
<1>3. Len(l) \in Nat \ {0} /\ DOMAIN l = 1..Len(l)
  BY <1>2
<1>4. \A k \in 1..Len(l) : l[k] \in [1..n -> Seq(Candidate)]
  BY <1>2
<1>5. 1 \in 1..Len(l)
  BY <1>3
<1>6. DOMAIN l[1] = 1..n
  BY <1>4, <1>5
<1>7. QED BY <1>2, <1>3, <1>4, <1>6 DEF IsLog

\* A list without its head.
LEMMA TailList ==
    ASSUME NEW S, NEW v \in Seq(S), v # <<>>
    PROVE  /\ Tail(v) \in Seq(S) /\ Len(v) \in Nat \ {0} /\ Len(Tail(v)) = Len(v) - 1
           /\ Head(v) = v[1] /\ v[1] \in S
           /\ \A j \in 1..(Len(v) - 1) : Tail(v)[j] = v[j + 1]
OBVIOUS

\* From cs to cs2 the thread t0 gives up one candidate, with the region a.
TakesOnly(l, k0, cs, cs2, t0, i0, a) ==
    /\ InLog(l, k0, t0, i0) /\ l[k0][t0][i0].addr = a /\ ~Took(l, k0, cs, k0, t0, i0)
    /\ \A k, t, i : InLog(l, k, t, i) =>
          (Took(l, k0, cs2, k, t, i) <=> Took(l, k0, cs, k, t, i) \/ (k = k0 /\ t = t0 /\ i = i0))

\* A thread gives up its first candidate.
LEMMA TakeOne ==
    ASSUME NEW l, NEW n, IsLog(l, n), NEW k0, NEW cs, Position(l, k0, cs), NEW u, Uniq(l, k0, cs, u),
           NEW t0 \in 1..n, cs[t0] # <<>>, NEW a, a = Head(cs[t0]).addr,
           NEW cs2, cs2 = [cs EXCEPT ![t0] = Tail(@)]
    PROVE  /\ a \in Nat /\ Position(l, k0, cs2) /\ Uniq(l, k0, cs2, u \cup {a})
           /\ \E i0 : TakesOnly(l, k0, cs, cs2, t0, i0, a)
<1>1. /\ n \in Nat \ {0} /\ DOMAIN l[1] = 1..n /\ Len(l) \in Nat \ {0} /\ k0 \in 1..Len(l)
      /\ \A t \in 1..n : l[k0][t] \in Seq(Candidate)
  BY DEF IsLog, Position
<1>2. /\ cs \in [1..n -> Seq(Candidate)]
      /\ \A t \in 1..n : /\ Len(cs[t]) <= Len(l[k0][t])
                         /\ \A j \in 1..Len(cs[t]) : cs[t][j] = l[k0][t][Len(l[k0][t]) - Len(cs[t]) + j]
  BY <1>1 DEF Position
<1>3. PICK v, w : v = cs[t0] /\ w = Tail(v)
  OBVIOUS
<1>4. /\ v \in Seq(Candidate) /\ w \in Seq(Candidate) /\ Len(v) \in Nat \ {0} /\ Len(w) = Len(v) - 1
      /\ a = v[1].addr /\ v[1] \in Candidate
      /\ \A j \in 1..(Len(v) - 1) : w[j] = v[j + 1]
  <2>1. v \in Seq(Candidate) /\ v # <<>> /\ a = Head(v).addr
    BY <1>2, <1>3
  <2>2. QED BY <1>3, <2>1, TailList
<1>41. PICK p \in Nat \ {0} : p = Len(v)
  BY <1>4
<1>42. PICK m \in Nat : m = Len(l[k0][t0])
  <2>1. l[k0][t0] \in Seq(Candidate)
    BY <1>1
  <2>2. QED BY <2>1
<1>5. /\ p > 0 /\ p <= m /\ Len(w) = p - 1 /\ \A j \in 1..(p - 1) : w[j] = v[j + 1]
      /\ \A j \in 1..p : v[j] = l[k0][t0][m - p + j]
  <2>1. p <= m /\ \A j \in 1..p : v[j] = l[k0][t0][m - p + j]
    BY <1>2, <1>3, <1>41, <1>42
  <2>2. QED BY <1>4, <1>41, <2>1
<1>6. cs2 \in [1..n -> Seq(Candidate)] /\ cs2[t0] = w /\ \A t \in 1..n : t # t0 => cs2[t] = cs[t]
  BY <1>2, <1>3, <1>4
<1>7. a = l[k0][t0][m - p + 1].addr /\ a \in Nat
  <2>1. a = v[1].addr /\ v[1] \in Candidate /\ v[1] = l[k0][t0][m - p + 1]
    <3>1. 1 \in 1..p /\ m - p + 1 = m - p + 1
      OBVIOUS
    <3>2. QED BY <1>4, <1>5, <3>1
  <2>2. QED BY <2>1 DEF Candidate
<1>8. Position(l, k0, cs2)
  <2>1. ASSUME NEW t \in 1..n
        PROVE  /\ Len(cs2[t]) <= Len(l[k0][t])
               /\ \A j \in 1..Len(cs2[t]) : cs2[t][j] = l[k0][t][Len(l[k0][t]) - Len(cs2[t]) + j]
    <3>1. CASE t # t0
      BY <1>2, <1>6, <3>1
    <3>2. CASE t = t0
      <4>1. p - 1 <= m
        BY <1>5
      <4>2. ASSUME NEW j \in 1..(p - 1) PROVE w[j] = l[k0][t0][m - (p - 1) + j]
        <5>1. j + 1 \in 1..p /\ m - (p - 1) + j = m - p + (j + 1)
          OBVIOUS
        <5>2. QED BY <1>5, <5>1
      <4>3. QED BY <1>42, <1>5, <1>6, <3>2, <4>1, <4>2
    <3>3. QED BY <3>1, <3>2
  <2>2. QED BY <1>1, <1>6, <2>1 DEF Position
<1>9. ASSUME NEW k, NEW t, NEW i, InLog(l, k, t, i)
      PROVE  Took(l, k0, cs2, k, t, i) <=> Took(l, k0, cs, k, t, i) \/ (k = k0 /\ t = t0 /\ i = m - p + 1)
  <2>1. k \in 1..Len(l) /\ t \in 1..n /\ i \in 1..Len(l[k][t])
    BY <1>1, <1>9 DEF InLog
  <2>2. CASE ~(k = k0 /\ t = t0)
    BY <1>6, <2>1, <2>2 DEF Took
  <2>3. CASE k = k0 /\ t = t0
    <3>1. Took(l, k0, cs2, k, t, i) <=> i <= m - (p - 1)
      <4>1. ~(k0 < k0) /\ Len(cs2[t0]) = p - 1 /\ Len(l[k0][t0]) = m
        BY <1>1, <1>42, <1>5, <1>6
      <4>2. Took(l, k0, cs2, k, t, i) <=> k0 < k0 \/ (k0 = k0 /\ i <= Len(l[k0][t0]) - Len(cs2[t0]))
        BY <2>3 DEF Took
      <4>3. QED BY <4>1, <4>2
    <3>2. Took(l, k0, cs, k, t, i) <=> i <= m - p
      <4>1. ~(k0 < k0) /\ Len(cs[t0]) = p /\ Len(l[k0][t0]) = m
        BY <1>1, <1>3, <1>41, <1>42
      <4>2. Took(l, k0, cs, k, t, i) <=> k0 < k0 \/ (k0 = k0 /\ i <= Len(l[k0][t0]) - Len(cs[t0]))
        BY <2>3 DEF Took
      <4>3. QED BY <4>1, <4>2
    <3>3. i \in Nat
      BY <1>42, <2>1, <2>3
    <3>4. QED BY <1>5, <2>3, <3>1, <3>2, <3>3
  <2>4. QED BY <2>2, <2>3
<1>10. InLog(l, k0, t0, m - p + 1)
  <2>1. m - p + 1 \in 1..m
    BY <1>5
  <2>2. QED BY <1>1, <1>42, <2>1 DEF InLog
<1>11. ASSUME NEW b PROVE b \in u \cup {a} <=> \E k, t, i : InLog(l, k, t, i) /\ Took(l, k0, cs2, k, t, i) /\ l[k][t][i].addr = b
  <2>1. b \in u <=> \E k, t, i : InLog(l, k, t, i) /\ Took(l, k0, cs, k, t, i) /\ l[k][t][i].addr = b
    BY DEF Uniq
  <2>2. ASSUME NEW k, NEW t, NEW i, InLog(l, k, t, i), Took(l, k0, cs2, k, t, i), l[k][t][i].addr = b
        PROVE  b \in u \cup {a}
    <3>1. CASE Took(l, k0, cs, k, t, i)
      BY <2>1, <2>2, <3>1
    <3>2. CASE k = k0 /\ t = t0 /\ i = m - p + 1
      BY <1>7, <2>2, <3>2
    <3>3. QED BY <1>9, <2>2, <3>1, <3>2
  <2>3. ASSUME b \in u PROVE \E k, t, i : InLog(l, k, t, i) /\ Took(l, k0, cs2, k, t, i) /\ l[k][t][i].addr = b
    <3>1. PICK k, t, i : InLog(l, k, t, i) /\ Took(l, k0, cs, k, t, i) /\ l[k][t][i].addr = b
      BY <2>1, <2>3
    <3>2. Took(l, k0, cs2, k, t, i)
      BY <1>9, <3>1
    <3>3. QED BY <3>1, <3>2
  <2>4. ASSUME b = a PROVE \E k, t, i : InLog(l, k, t, i) /\ Took(l, k0, cs2, k, t, i) /\ l[k][t][i].addr = b
    <3>1. Took(l, k0, cs2, k0, t0, m - p + 1)
      BY <1>9, <1>10
    <3>2. QED BY <1>7, <1>10, <2>4, <3>1
  <2>5. QED BY <2>2, <2>3, <2>4
<1>12. TakesOnly(l, k0, cs, cs2, t0, m - p + 1, a)
  <2>1. ~Took(l, k0, cs, k0, t0, m - p + 1)
    <3>1. ~(k0 < k0) /\ ~(m - p + 1 <= m - p)
      BY <1>1
    <3>2. Len(cs[t0]) = p
      BY <1>3, <1>41
    <3>3. QED BY <1>42, <3>1, <3>2 DEF Took
  <2>2. QED BY <1>7, <1>9, <1>10, <2>1 DEF TakesOnly
<1>13. QED BY <1>7, <1>8, <1>11, <1>12 DEF Uniq

\* promote(addr) keeps a region that is new.
LEMMA WrittenPromote ==
    ASSUME NEW u, NEW p, NEW f, Written(u, p, f), NEW a \in Nat
    PROVE  Written(u \cup {a}, p \cup ({a} \ u), f)
<1>1. IsFiniteSet(p \cup ({a} \ u))
  <2>1. IsFiniteSet(p) /\ p \in SUBSET u
    BY DEF Written
  <2>2. IsFiniteSet(p \cup {a})
    BY <2>1, FS_AddElement
  <2>3. p \cup ({a} \ u) \in SUBSET (p \cup {a})
    OBVIOUS
  <2>4. QED BY <2>2, <2>3, FS_Subset
<1>2. u \cup {a} \in SUBSET Nat /\ p \cup ({a} \ u) \in SUBSET (u \cup {a})
  BY DEF Written
<1>3. (u \cup {a}) \ (p \cup ({a} \ u)) = u \ p
  BY DEF Written
<1>4. QED BY <1>1, <1>2, <1>3 DEF Written

\* The lines of one list behind those of another.
LEMMA CatLines ==
    ASSUME NEW f \in Seq(Line), NEW s \in Seq(Line), NEW g, g = f \o s
    PROVE  /\ g \in Seq(Line) /\ Len(f) \in Nat /\ Len(s) \in Nat /\ Len(g) = Len(f) + Len(s)
           /\ \A i \in 1..Len(f) : g[i] = f[i] /\ i \in 1..Len(g)
           /\ \A i \in 1..Len(s) : g[Len(f) + i] = s[i] /\ Len(f) + i \in 1..Len(g)
           /\ \A i \in 1..Len(g) : i \in 1..Len(f) \/ (i - Len(f) \in 1..Len(s) /\ g[i] = s[i - Len(f)])
<1>1. PICK m \in Nat, n \in Nat : m = Len(f) /\ n = Len(s)
  OBVIOUS
<1>2. /\ g \in Seq(Line) /\ Len(g) = m + n
      /\ \A i \in 1..m : g[i] = f[i]
      /\ \A i \in 1..n : g[m + i] = s[i]
  BY <1>1
<1>3. \A i \in 1..(m + n) : i \in 1..m \/ (i - m \in 1..n /\ i = m + (i - m))
  OBVIOUS
<1>4. \A i \in 1..Len(g) : i \in 1..m \/ (i - m \in 1..n /\ g[i] = s[i - m])
  BY <1>2, <1>3
<1>5. (\A i \in 1..m : i \in 1..Len(g)) /\ (\A i \in 1..n : m + i \in 1..Len(g))
  BY <1>2
<1>6. QED BY <1>1, <1>2, <1>4, <1>5

\* The lines of to_promote are written.
LEMMA WrittenLines ==
    ASSUME NEW u, NEW p, NEW f, Written(u, p, f), NEW now \in Nat \ {0}, NEW s, IsLines(s, now, p)
    PROVE  Written(u, {}, f \o s)
<1>1. /\ u \in SUBSET Nat /\ p \in SUBSET u /\ f \in Seq(Line)
      /\ \A i, j \in 1..Len(f) : f[i].addr = f[j].addr => i = j
      /\ \A a : a \in u \ p <=> \E i \in 1..Len(f) : f[i].addr = a
  BY DEF Written
<1>2. /\ s \in Seq(Line)
      /\ \A i \in 1..Len(s) : s[i].addr \in p
      /\ \A i, j \in 1..Len(s) : s[i].addr = s[j].addr => i = j
      /\ \A a \in p : \E i \in 1..Len(s) : s[i].addr = a
  BY DEF IsLines
<1>3. PICK g : g = f \o s
  OBVIOUS
<1>4. PICK m \in Nat, n \in Nat : m = Len(f) /\ n = Len(s)
  BY <1>1, <1>2
<1>5. /\ g \in Seq(Line) /\ Len(g) = m + n
      /\ \A i \in 1..m : g[i] = f[i] /\ i \in 1..Len(g)
      /\ \A i \in 1..n : g[m + i] = s[i] /\ m + i \in 1..Len(g)
      /\ \A i \in 1..Len(g) : i \in 1..m \/ (i - m \in 1..n /\ g[i] = s[i - m])
  BY <1>1, <1>2, <1>3, <1>4, CatLines
<1>6. ASSUME NEW i \in 1..Len(g), NEW j \in 1..Len(g), g[i].addr = g[j].addr PROVE i = j
  <2>1. CASE i \in 1..m /\ j \in 1..m
    BY <1>1, <1>4, <1>5, <1>6, <2>1
  <2>2. CASE i \in 1..m /\ j - m \in 1..n /\ g[j] = s[j - m]
    <3>1. g[i].addr \in u \ p
      BY <1>1, <1>4, <1>5, <2>2
    <3>2. g[j].addr \in p
      BY <1>2, <1>4, <2>2
    <3>3. QED BY <1>6, <3>1, <3>2
  <2>3. CASE j \in 1..m /\ i - m \in 1..n /\ g[i] = s[i - m]
    <3>1. g[j].addr \in u \ p
      BY <1>1, <1>4, <1>5, <2>3
    <3>2. g[i].addr \in p
      BY <1>2, <1>4, <2>3
    <3>3. QED BY <1>6, <3>1, <3>2
  <2>4. CASE i - m \in 1..n /\ g[i] = s[i - m] /\ j - m \in 1..n /\ g[j] = s[j - m]
    <3>1. i - m = j - m
      BY <1>2, <1>4, <1>6, <2>4
    <3>2. QED BY <1>5, <3>1
  <2>5. QED BY <1>5, <2>1, <2>2, <2>3, <2>4
<1>7. ASSUME NEW a PROVE a \in u <=> \E i \in 1..Len(g) : g[i].addr = a
  <2>1. ASSUME a \in u PROVE \E i \in 1..Len(g) : g[i].addr = a
    <3>1. CASE a \in p
      <4>1. PICK i \in 1..n : s[i].addr = a
        BY <1>2, <1>4, <3>1
      <4>2. m + i \in 1..Len(g) /\ g[m + i].addr = a
        BY <1>5, <4>1
      <4>3. QED BY <4>2
    <3>2. CASE a \notin p
      <4>1. PICK i \in 1..m : f[i].addr = a
        BY <1>1, <1>4, <2>1, <3>2
      <4>2. i \in 1..Len(g) /\ g[i].addr = a
        BY <1>5, <4>1
      <4>3. QED BY <4>2
    <3>3. QED BY <3>1, <3>2
  <2>2. ASSUME NEW i \in 1..Len(g), g[i].addr = a PROVE a \in u
    <3>1. CASE i \in 1..m
      <4>1. a \in u \ p
        BY <1>1, <1>4, <1>5, <2>2, <3>1
      <4>2. QED BY <4>1
    <3>2. CASE i - m \in 1..n /\ g[i] = s[i - m]
      BY <1>1, <1>2, <1>4, <2>2, <3>2
    <3>3. QED BY <1>5, <3>1, <3>2
  <2>3. QED BY <2>1, <2>2
<1>8. IsFiniteSet({})
  BY FS_EmptySet
<1>9. Written(u, {}, g)
  BY <1>1, <1>5, <1>6, <1>7, <1>8 DEF Written
<1>10. QED BY <1>3, <1>9

\* A time that is used up: all its entries were taken.
LEMMA TookAll ==
    ASSUME NEW l, NEW n, IsLog(l, n), NEW k0, NEW cs, Position(l, k0, cs),
           \A t \in 1..n : cs[t] = <<>>, NEW k, NEW t, NEW i, InLog(l, k, t, i)
    PROVE  Took(l, k0, cs, k, t, i) <=> k <= k0
<1>1. k0 \in Nat /\ k \in Nat /\ t \in 1..n /\ i \in 1..Len(l[k][t]) /\ Len(l[k][t]) \in Nat
  BY DEF IsLog, Position, InLog
<1>2. Len(cs[t]) = 0
  BY <1>1
<1>3. CASE k = k0
  BY <1>1, <1>2, <1>3 DEF Took
<1>4. CASE k # k0
  BY <1>1, <1>4 DEF Took
<1>5. QED BY <1>3, <1>4

\* The start of a time: nothing of it is taken.
LEMMA TookNone ==
    ASSUME NEW l, NEW n, IsLog(l, n), NEW k0 \in 1..Len(l)
    PROVE  /\ Position(l, k0, l[k0])
           /\ \A k, t, i : InLog(l, k, t, i) => (Took(l, k0, l[k0], k, t, i) <=> k < k0)
<1>1. /\ DOMAIN l[1] = 1..n /\ Len(l) \in Nat \ {0} /\ DOMAIN l[k0] = 1..n
      /\ \A t \in 1..n : l[k0][t] \in Seq(Candidate)
  BY DEF IsLog
<1>2. \A t \in 1..n : Len(l[k0][t]) \in Nat
  BY <1>1
<1>3. l[k0] \in [1..n -> Seq(Candidate)]
  BY DEF IsLog
<1>4. \A t \in 1..n : \A j \in 1..Len(l[k0][t]) : Len(l[k0][t]) - Len(l[k0][t]) + j = j
  BY <1>2
<1>5. Position(l, k0, l[k0])
  BY <1>1, <1>2, <1>3, <1>4 DEF Position
<1>6. ASSUME NEW k, NEW t, NEW i, InLog(l, k, t, i) PROVE Took(l, k0, l[k0], k, t, i) <=> k < k0
  <2>1. t \in 1..n /\ i \in 1..Len(l[k][t])
    BY <1>1, <1>6 DEF InLog
  <2>2. CASE k # k0
    BY <2>2 DEF Took
  <2>3. CASE k = k0
    <3>1. PICK m \in Nat : m = Len(l[k0][t])
      BY <1>2, <2>1
    <3>2. i \in 1..m /\ ~(i <= m - m)
      BY <2>1, <2>3, <3>1
    <3>3. QED BY <2>3, <3>1, <3>2 DEF Took
  <2>4. QED BY <2>2, <2>3
<1>7. QED BY <1>5, <1>6

\* The invariant of the selection.
CInv ==
    /\ \E n : IsLog(log, n) /\ turn \in 1..n
    /\ Position(log, time, candidates)
    /\ Uniq(log, time, candidates, unique_candidates)
    /\ Written(unique_candidates, to_promote, promotion_file)
    /\ Timely(log, time, promotion_file, finished)

\* Initially.
LEMMA CInvInit == CInit => CInv
<1>1. SUFFICES ASSUME CInit PROVE CInv
  OBVIOUS
<1>2. /\ log \in Logs /\ time = 1 /\ candidates = log[1] /\ turn = 1
      /\ unique_candidates = {} /\ to_promote = {} /\ promotion_file = <<>> /\ finished = FALSE
  BY <1>1 DEF CInit
<1>3. PICK n : IsLog(log, n)
  BY <1>2, LogFacts
<1>4. n \in Nat \ {0} /\ 1 \in 1..Len(log) /\ 1 \in 1..n
  BY <1>3 DEF IsLog
<1>5. /\ Position(log, time, candidates)
      /\ \A k, t, i : InLog(log, k, t, i) => (Took(log, time, candidates, k, t, i) <=> k < 1)
  BY <1>2, <1>3, <1>4, TookNone
<1>6. ASSUME NEW k, NEW t, NEW i, InLog(log, k, t, i) PROVE ~(k < 1)
  BY <1>3, <1>6 DEF InLog, IsLog
<1>7. Uniq(log, time, candidates, unique_candidates)
  BY <1>2, <1>5, <1>6 DEF Uniq
<1>8. IsFiniteSet({})
  BY FS_EmptySet
<1>9. Written(unique_candidates, to_promote, promotion_file)
  <2>1. promotion_file \in Seq(Line) /\ Len(promotion_file) = 0
    BY <1>2
  <2>2. \A i : i \notin 1..Len(promotion_file)
    BY <2>1
  <2>3. QED BY <1>2, <1>8, <2>1, <2>2 DEF Written
<1>10. Timely(log, time, promotion_file, finished)
  <2>1. \A i : i \notin 1..Len(promotion_file)
    BY <1>2
  <2>2. QED BY <1>2, <1>6, <2>1 DEF Timely
<1>11. QED BY <1>2, <1>3, <1>4, <1>5, <1>7, <1>9, <1>10 DEF CInv

\* A turn.
LEMMA CInvTakeTurn == ASSUME CInv, TakeTurn PROVE CInv'
<1>1. PICK n : IsLog(log, n) /\ turn \in 1..n
  BY DEF CInv
<1>2. n \in Nat \ {0} /\ Tid = 1..n
  BY <1>1 DEF IsLog, Tid
<1>3. /\ Position(log, time, candidates)
      /\ Uniq(log, time, candidates, unique_candidates)
      /\ Written(unique_candidates, to_promote, promotion_file)
      /\ Timely(log, time, promotion_file, finished)
  BY DEF CInv
<1>4. log' = log /\ time' = time /\ promotion_file' = promotion_file /\ finished' = finished /\ turn' = TurnAfter(turn)
  BY DEF TakeTurn, input
<1>5. IsLog(log', n) /\ turn' \in 1..n
  <2>1. Cardinality(1..n) = n
    <3>1. 1 \in Int /\ n \in Int
      BY <1>2
    <3>2. Cardinality(1..n) = IF 1 > n THEN 0 ELSE n - 1 + 1
      BY <3>1, FS_Interval, Zenon
    <3>3. QED BY <1>2, <3>2
  <2>2. turn' = (turn % n) + 1
    BY <1>2, <1>4, <2>1 DEF TurnAfter
  <2>3. turn % n \in 0..(n - 1)
    BY <1>1, <1>2
  <2>4. QED BY <1>1, <1>2, <1>4, <2>2, <2>3
<1>6. Timely(log', time', promotion_file', finished')
  BY <1>3, <1>4
<1>7. CASE candidates[turn] = <<>>
  <2>1. candidates' = candidates /\ unique_candidates' = unique_candidates /\ to_promote' = to_promote
    BY <1>7 DEF TakeTurn
  <2>2. /\ Position(log', time', candidates')
        /\ Uniq(log', time', candidates', unique_candidates')
        /\ Written(unique_candidates', to_promote', promotion_file')
    BY <1>3, <1>4, <2>1
  <2>3. QED BY <1>5, <1>6, <2>2 DEF CInv
<1>8. CASE candidates[turn] # <<>>
  <2>1. PICK a : a = Head(candidates[turn]).addr
    OBVIOUS
  <2>2. /\ candidates' = [candidates EXCEPT ![turn] = Tail(@)]
        /\ unique_candidates' = unique_candidates \cup {a}
        /\ to_promote' = to_promote \cup ({a} \ unique_candidates)
    BY <1>8, <2>1 DEF TakeTurn
  <2>3. PICK cs2 : cs2 = candidates'
    OBVIOUS
  <2>4. a \in Nat /\ Position(log, time, cs2) /\ Uniq(log, time, cs2, unique_candidates \cup {a})
    BY <1>1, <1>3, <1>8, <2>1, <2>2, <2>3, TakeOne
  <2>5. Written(unique_candidates \cup {a}, to_promote \cup ({a} \ unique_candidates), promotion_file)
    BY <1>3, <2>4, WrittenPromote
  <2>6. /\ Position(log', time', candidates')
        /\ Uniq(log', time', candidates', unique_candidates')
        /\ Written(unique_candidates', to_promote', promotion_file')
    BY <1>4, <2>2, <2>3, <2>4, <2>5
  <2>7. QED BY <1>5, <1>6, <2>6 DEF CInv
<1>9. QED BY <1>7, <1>8

\* The lines of a time are in time.
LEMMA TimelyLines ==
    ASSUME NEW l, NEW n, IsLog(l, n), NEW k0 \in 1..Len(l), NEW f \in Seq(Line), Timely(l, k0, f, FALSE),
           NEW s, NEW p, IsLines(s, k0, p), NEW g, g = f \o s
    PROVE  Timely(l, k0, g, TRUE)
<1>1. /\ \A i \in 1..Len(f) : f[i].time < k0
      /\ \A k, t, i : InLog(l, k, t, i) /\ k < k0 =>
             \E j \in 1..Len(f) : f[j].addr = l[k][t][i].addr /\ f[j].time <= k
  BY DEF Timely
<1>2. s \in Seq(Line) /\ \A i \in 1..Len(s) : s[i].time = k0
  BY DEF IsLines
<1>3. PICK m : m = Len(f)
  OBVIOUS
<1>4. /\ \A i \in 1..m : g[i] = f[i] /\ i \in 1..Len(g)
      /\ \A i \in 1..Len(g) : i \in 1..m \/ (i - m \in 1..Len(s) /\ g[i] = s[i - m])
  BY <1>2, <1>3, CatLines
<1>5. k0 \in Nat /\ \A i \in 1..m : f[i].time \in Nat
  <2>1. \A i \in 1..m : f[i] \in Line
    BY <1>3
  <2>2. QED BY <2>1 DEF Line, IsLog
<1>6. ASSUME NEW i \in 1..Len(g) PROVE g[i].time <= k0
  <2>1. CASE i \in 1..m
    BY <1>1, <1>3, <1>4, <1>5, <2>1
  <2>2. CASE i - m \in 1..Len(s) /\ g[i] = s[i - m]
    BY <1>2, <1>5, <2>2
  <2>3. QED BY <1>4, <2>1, <2>2
<1>7. ASSUME NEW k, NEW t, NEW i, InLog(l, k, t, i), k < k0
      PROVE  \E j \in 1..Len(g) : g[j].addr = l[k][t][i].addr /\ g[j].time <= k
  <2>1. PICK j \in 1..m : f[j].addr = l[k][t][i].addr /\ f[j].time <= k
    BY <1>1, <1>3, <1>7
  <2>2. QED BY <1>4, <2>1
<1>8. QED BY <1>6, <1>7 DEF Timely

\* The end of a time.
LEMMA CInvEndTime == ASSUME CInv, EndTime PROVE CInv'
<1>1. PICK n : IsLog(log, n) /\ turn \in 1..n
  BY DEF CInv
<1>2. n \in Nat \ {0} /\ DOMAIN log[1] = 1..n /\ Tid = 1..n /\ Len(log) \in Nat \ {0}
  BY <1>1 DEF IsLog, Tid
<1>3. /\ Position(log, time, candidates)
      /\ Uniq(log, time, candidates, unique_candidates)
      /\ Written(unique_candidates, to_promote, promotion_file)
      /\ Timely(log, time, promotion_file, finished)
  BY DEF CInv
<1>4. time \in 1..Len(log) /\ time \in Nat \ {0}
  BY <1>2, <1>3 DEF Position
<1>5. PICK s, g : s = Lines(time, to_promote) /\ g = promotion_file'
  OBVIOUS
<1>6. /\ finished = FALSE /\ log' = log /\ g = promotion_file \o s /\ to_promote' = {} /\ turn' = 1
      /\ unique_candidates' = unique_candidates
  <2>1. finished \in BOOLEAN \/ ~finished
    BY DEF EndTime
  <2>2. ~finished
    BY DEF EndTime
  <2>3. QED BY <1>5, <2>2 DEF EndTime, input
<1>7. IsLines(s, time, to_promote)
  <2>1. to_promote \in SUBSET Nat /\ IsFiniteSet(to_promote)
    BY <1>3 DEF Written
  <2>2. QED BY <1>4, <1>5, <2>1, LinesWritten
<1>8. Written(unique_candidates', to_promote', promotion_file')
  <2>1. Written(unique_candidates, {}, promotion_file \o s)
    BY <1>3, <1>4, <1>7, WrittenLines
  <2>2. QED BY <1>5, <1>6, <2>1
<1>9. Timely(log, time, g, TRUE) /\ g \in Seq(Line)
  <2>1. promotion_file \in Seq(Line)
    BY <1>3 DEF Written
  <2>2. g \in Seq(Line)
    BY <1>5, <1>8 DEF Written
  <2>3. Timely(log, time, promotion_file, FALSE)
    BY <1>3, <1>6
  <2>4. QED BY <1>1, <1>4, <1>6, <1>7, <2>1, <2>2, <2>3, TimelyLines
<1>10. IsLog(log', n) /\ turn' \in 1..n
  BY <1>1, <1>2, <1>6
<1>11. CASE finished'
  <2>1. time' = time /\ candidates' = candidates
    BY <1>11 DEF EndTime
  <2>2. Timely(log', time', promotion_file', finished')
    <3>1. log' = log /\ time' = time /\ promotion_file' = g
      BY <1>5, <1>6, <2>1
    <3>2. Timely(log', time', promotion_file', TRUE)
      BY <1>9, <3>1
    <3>3. QED BY <1>11, <3>2 DEF Timely
  <2>3. Position(log', time', candidates') /\ Uniq(log', time', candidates', unique_candidates')
    BY <1>3, <1>6, <2>1
  <2>4. QED BY <1>8, <1>10, <2>2, <2>3 DEF CInv
<1>12. CASE ~finished'
  <2>1. time' = time + 1 /\ candidates' = log[time + 1] /\ time # Len(log) /\ \A t \in 1..n : candidates[t] = <<>>
    BY <1>2, <1>12 DEF EndTime, Exhausted
  <2>2. time + 1 \in 1..Len(log)
    BY <1>2, <1>4, <2>1
  <2>3. PICK k1 : k1 = time + 1
    OBVIOUS
  <2>4. /\ Position(log, k1, log[k1])
        /\ \A k, t, i : InLog(log, k, t, i) => (Took(log, k1, log[k1], k, t, i) <=> k < k1)
    BY <1>1, <2>2, <2>3, TookNone
  <2>5. ASSUME NEW k, NEW t, NEW i, InLog(log, k, t, i)
        PROVE  (Took(log, time, candidates, k, t, i) <=> k <= time) /\ (k < k1 <=> k <= time)
    <3>1. Took(log, time, candidates, k, t, i) <=> k <= time
      BY <1>1, <1>3, <2>1, <2>5, TookAll
    <3>2. k \in Nat
      BY <1>2, <2>5 DEF InLog
    <3>3. QED BY <1>4, <2>3, <3>1, <3>2
  <2>6. Uniq(log, k1, log[k1], unique_candidates)
    BY <1>3, <2>4, <2>5 DEF Uniq
  <2>7. Timely(log, k1, g, FALSE)
    <3>1. ASSUME NEW i \in 1..Len(g) PROVE g[i].time <= k1 /\ g[i].time < k1
      <4>1. g[i].time <= time /\ g[i] \in Line
        BY <1>9 DEF Timely
      <4>2. QED BY <1>4, <2>3, <4>1 DEF Line
    <3>2. ASSUME NEW k, NEW t, NEW i, InLog(log, k, t, i), k < k1
          PROVE  \E j \in 1..Len(g) : g[j].addr = log[k][t][i].addr /\ g[j].time <= k
      <4>1. CASE k < time
        BY <1>9, <3>2, <4>1 DEF Timely
      <4>2. CASE k = time
        <5>1. log[k][t][i].addr \in unique_candidates
          BY <1>3, <2>5, <3>2, <4>2 DEF Uniq
        <5>2. PICK j \in 1..Len(g) : g[j].addr = log[k][t][i].addr
          <6>1. \A a : a \in unique_candidates \ {} <=> \E j \in 1..Len(g) : g[j].addr = a
            BY <1>5, <1>6, <1>8 DEF Written
          <6>2. QED BY <5>1, <6>1
        <5>3. g[j].time <= k
          BY <1>9, <4>2 DEF Timely
        <5>4. QED BY <5>2, <5>3
      <4>3. k \in Nat
        BY <1>2, <3>2 DEF InLog
      <4>4. QED BY <1>4, <2>3, <3>2, <4>1, <4>2, <4>3
    <3>3. QED BY <3>1, <3>2 DEF Timely
  <2>8. /\ Position(log', time', candidates') /\ Uniq(log', time', candidates', unique_candidates')
        /\ Timely(log', time', promotion_file', finished')
    <3>1. log' = log /\ time' = k1 /\ candidates' = log[k1] /\ promotion_file' = g /\ unique_candidates' = unique_candidates
      BY <1>5, <1>6, <2>1, <2>3
    <3>2. Timely(log', time', promotion_file', FALSE)
      BY <2>7, <3>1
    <3>3. QED BY <1>12, <2>4, <2>6, <3>1, <3>2 DEF Timely
  <2>9. QED BY <1>8, <1>10, <2>8 DEF CInv
<1>13. QED BY <1>11, <1>12
-----------------------------------------------------------------------------
(***************************************************************************)
(* The promoter.                                                           *)
(***************************************************************************)
\* An iterator of a map, and the ranges of the times it has passed.
Iterates(it, d, r) == it \in DOMAIN d \cup {None} /\ Gathered(r, d, Passed(d, it))

\* The promoter between its start and its end.
PInv ==
    /\ child \in [Child -> {"waiting", "running", "ended"}]
    /\ ~launched => promoting = <<>> /\ demoting = <<>>
    /\ launched =>
          /\ finished
          /\ IsRead(promotions, promotion_file)
          /\ Iterates(promotion_it, promotions, promoting) /\ Disjoint(promoting)
          /\ promotion_it = None => child["promoter"] = "ended" \/ DOMAIN promotions = {}

\* At the start.
LEMMA IterateFirst ==
    ASSUME NEW d, IsMap(d), NEW it, it = FirstAfter(d, None), NEW r, r = <<>>
    PROVE  Iterates(it, d, r) /\ Disjoint(r) /\ Passed(d, it) = {} /\ (it = None => DOMAIN d = {})
<1>1. Passed(d, it) = {}
  BY PassedFirst
<1>2. None \in Nat
  BY DEF None
<1>3. it = None \/ it \in DOMAIN d
  BY <1>2, NextKey
<1>4. it = None => DOMAIN d = {}
  BY <1>1 DEF Passed
<1>5. r \in Seq(RangeType) /\ Len(r) = 0 /\ DOMAIN r = {}
  OBVIOUS
<1>6. Gathered(r, d, {})
  BY <1>5 DEF Gathered
<1>7. QED BY <1>1, <1>3, <1>4, <1>5, <1>6 DEF Iterates, Disjoint

\* A step: the ranges of this time, and the next one.
LEMMA IterateNext ==
    ASSUME NEW d, IsMap(d), NEW p \in DOMAIN d, NEW r, Iterates(p, d, r),
           NEW it, it = FirstAfter(d, p), NEW q, q = r \o At(d, p)
    PROVE  /\ Iterates(it, d, q) /\ Passed(d, it) = Passed(d, p) \cup {p} /\ p \notin Passed(d, p)
           /\ Apart(d) /\ Disjoint(r) => Disjoint(q)
<1>1. Passed(d, it) = Passed(d, p) \cup {p} /\ p \notin Passed(d, p)
  BY PassedNext
<1>2. p \in Nat
  BY DEF IsMap
<1>3. it = None \/ it \in DOMAIN d
  BY <1>2, NextKey
<1>4. Passed(d, p) \subseteq DOMAIN d
  BY DEF Passed
<1>5. Gathered(r, d, Passed(d, p))
  BY DEF Iterates
<1>6. /\ Gathered(q, d, Passed(d, p) \cup {p})
      /\ p \notin Passed(d, p) /\ Apart(d) /\ Disjoint(r) => Disjoint(q)
  BY <1>4, <1>5, GatherMore
<1>7. QED BY <1>1, <1>3, <1>6 DEF Iterates

\* At the end of an empty map.
LEMMA IterateEmpty ==
    ASSUME NEW d, IsMap(d), DOMAIN d = {}, NEW r, Iterates(None, d, r)
    PROVE  FirstAfter(d, None) = None /\ r \o At(d, None) = r
<1>1. At(d, None) = <<>>
  BY DEF At
<1>2. r \in Seq(RangeType)
  BY DEF Iterates, Gathered
<1>3. FirstAfter(d, None) = None
  BY DEF FirstAfter
<1>4. QED BY <1>1, <1>2, <1>3

\* The launch.
LEMMA PInvStart == ASSUME CInv, PInv, Start PROVE PInv'
<1>1. PICK d, f : d = promotions' /\ f = promotion_file
  OBVIOUS
<1>2. /\ finished /\ ~launched /\ launched' /\ d = read_promotions_over_time(f) /\ promotion_it' = FirstAfter(d, None)
      /\ promoting' = promoting /\ child' = child /\ UNCHANGED cvars
  BY <1>1 DEF Start, Launch
<1>3. finished' /\ promotion_file' = f /\ promoting' = <<>>
  BY <1>1, <1>2 DEF cvars, PInv
<1>4. IsRead(d, f) /\ IsMap(d)
  <2>1. f \in Seq(Line)
    BY <1>1 DEF CInv, Written
  <2>2. IsRead(d, f)
    BY <1>2, <2>1, ReadFile
  <2>3. QED BY <2>2 DEF IsRead
<1>5. PICK it, r : it = promotion_it' /\ r = promoting'
  OBVIOUS
<1>6. Iterates(it, d, r) /\ Disjoint(r) /\ (it = None => DOMAIN d = {})
  BY <1>2, <1>3, <1>4, <1>5, IterateFirst
<1>7. child' \in [Child -> {"waiting", "running", "ended"}]
  BY <1>2 DEF PInv
<1>8. /\ IsRead(promotions', promotion_file')
      /\ Iterates(promotion_it', promotions', promoting') /\ Disjoint(promoting')
      /\ promotion_it' = None => DOMAIN promotions' = {}
  BY <1>1, <1>3, <1>4, <1>5, <1>6
<1>9. QED BY <1>2, <1>3, <1>7, <1>8 DEF PInv

\* The file was written before: the ranges read from it are apart.
LEMMA PromotionsApart ==
    ASSUME CInv, PInv, launched PROVE IsMap(promotions) /\ Apart(promotions)
<1>1. \A i, j \in 1..Len(promotion_file) : promotion_file[i].addr = promotion_file[j].addr => i = j
  BY DEF CInv, Written
<1>2. IsRead(promotions, promotion_file)
  BY DEF PInv
<1>3. QED BY <1>1, <1>2 DEF IsRead

\* The promotions of one time.
LEMMA PInvPromoteTime == ASSUME CInv, PInv, launched, PromoteTime, UNCHANGED <<cvars, launched>> PROVE PInv'
<1>1. PICK d, p, r : d = promotions /\ p = promotion_it /\ r = promoting
  OBVIOUS
<1>2. /\ child["promoter"] = "running" /\ promotions' = d /\ promoting' = r \o At(d, p)
      /\ promotion_it' = FirstAfter(d, p)
      /\ child' = [child EXCEPT !["promoter"] = IF promotion_it' = None THEN "ended" ELSE @]
      /\ launched' = launched /\ finished' = finished /\ promotion_file' = promotion_file
  BY <1>1 DEF PromoteTime, cvars
<1>3. IsMap(d) /\ Apart(d)
  BY <1>1, PromotionsApart
<1>4. /\ finished /\ IsRead(d, promotion_file) /\ Iterates(p, d, r) /\ Disjoint(r)
      /\ p = None => child["promoter"] = "ended" \/ DOMAIN d = {}
      /\ child \in [Child -> {"waiting", "running", "ended"}]
  BY <1>1 DEF PInv
<1>5. PICK it, q : it = promotion_it' /\ q = promoting'
  OBVIOUS
<1>6. Iterates(it, d, q) /\ Disjoint(q)
  <2>1. CASE p = None
    <3>1. DOMAIN d = {}
      BY <1>2, <1>4, <2>1
    <3>2. it = p /\ q = r
      BY <1>2, <1>3, <1>4, <1>5, <2>1, <3>1, IterateEmpty
    <3>3. QED BY <1>4, <3>2
  <2>2. CASE p # None
    <3>1. p \in DOMAIN d
      BY <1>4, <2>2 DEF Iterates
    <3>2. QED BY <1>2, <1>3, <1>4, <1>5, <3>1, IterateNext
  <2>3. QED BY <2>1, <2>2
<1>7. /\ child' \in [Child -> {"waiting", "running", "ended"}]
      /\ it = None => child'["promoter"] = "ended"
  BY <1>2, <1>4, <1>5 DEF Child
<1>8. /\ IsRead(promotions', promotion_file')
      /\ Iterates(promotion_it', promotions', promoting') /\ Disjoint(promoting')
  BY <1>2, <1>4, <1>5, <1>6
<1>9. QED BY <1>2, <1>4, <1>5, <1>7, <1>8 DEF PInv

\* Every other step of a launched process leaves the promoter as it is, or lets
\* it start or end.
LEMMA OtherSteps ==
    ASSUME PInv, NEW c \in Child,
           AppStep \/ Crash \/ Poll(c) \/ WatcherEnds(c) \/ PromoterEnds
    PROVE  /\ UNCHANGED promoterVars
           /\ child' \in [Child -> {"waiting", "running", "ended"}]
           /\ child["promoter"] = "ended" => child'["promoter"] = "ended"
<1>1. child \in [Child -> {"waiting", "running", "ended"}] /\ "perf" \in Child /\ "promoter" \in Child
  BY DEF PInv, Child
<1>2. CASE SetupApp
  BY <1>1, <1>2 DEF SetupApp
<1>3. CASE CleanupApp
  BY <1>1, <1>3 DEF CleanupApp
<1>4. CASE ExitApp
  BY <1>1, <1>4 DEF ExitApp
<1>5. CASE Crash
  BY <1>1, <1>5 DEF Crash
<1>6. CASE Poll(c)
  BY <1>1, <1>6 DEF Poll
<1>7. CASE WatcherEnds(c)
  BY <1>1, <1>7 DEF WatcherEnds
<1>8. CASE PromoterEnds
  BY <1>1, <1>8 DEF PromoterEnds
<1>9. QED BY <1>2, <1>3, <1>4, <1>5, <1>6, <1>7, <1>8 DEF AppStep

\* What they keep.
LEMMA PInvOther ==
    ASSUME PInv, launched, UNCHANGED <<promoterVars, cvars, launched>>,
           child' \in [Child -> {"waiting", "running", "ended"}],
           child["promoter"] = "ended" => child'["promoter"] = "ended"
    PROVE  PInv'
<1>1. /\ promotions' = promotions /\ promotion_it' = promotion_it /\ promoting' = promoting
      /\ promotion_file' = promotion_file /\ finished' = finished /\ launched' = launched
  BY DEF promoterVars, cvars
<1>2. /\ IsRead(promotions', promotion_file')
      /\ Iterates(promotion_it', promotions', promoting') /\ Disjoint(promoting')
  BY <1>1 DEF PInv
<1>3. /\ finished' /\ launched'
      /\ promotion_it' = None => child'["promoter"] = "ended" \/ DOMAIN promotions' = {}
  BY <1>1 DEF PInv
<1>4. QED BY <1>2, <1>3 DEF PInv

\* The actions of a launched system, sorted by what they do to the promoter.
LEMMA NextCases ==
    ASSUME PInv, Next
    PROVE  \/ Select \/ Start
           \/ launched /\ PromoteTime /\ UNCHANGED <<cvars, launched>>
           \/ /\ launched /\ UNCHANGED <<promoterVars, cvars, launched>>
              /\ child' \in [Child -> {"waiting", "running", "ended"}]
              /\ child["promoter"] = "ended" => child'["promoter"] = "ended"
<1>1. "promoter" \in Child
  BY DEF Child
<1>2. CASE Run(AppStep) \/ Run(Crash)
  <2>1. launched /\ (AppStep \/ Crash) /\ UNCHANGED <<cvars, launched>>
    BY <1>2 DEF Run
  <2>2. QED BY <1>1, <2>1, OtherSteps
<1>3. ASSUME NEW c \in Child, Run(ChildStep(c))
      PROVE  \/ launched /\ PromoteTime /\ UNCHANGED <<cvars, launched>>
             \/ /\ launched /\ UNCHANGED <<promoterVars, cvars, launched>>
                /\ child' \in [Child -> {"waiting", "running", "ended"}]
                /\ child["promoter"] = "ended" => child'["promoter"] = "ended"
  <2>1. launched /\ ChildStep(c) /\ UNCHANGED <<cvars, launched>>
    BY <1>3 DEF Run
  <2>2. CASE PromoteTime
    BY <2>1, <2>2
  <2>3. CASE Poll(c) \/ WatcherEnds(c) \/ PromoterEnds
    BY <2>1, <2>3, OtherSteps
  <2>4. QED BY <2>1, <2>2, <2>3 DEF ChildStep
<1>4. QED BY <1>2, <1>3 DEF Next

\* The scripts have ended before the launch.
LEMMA PInvSelect == ASSUME PInv, Select PROVE PInv' /\ ~launched
<1>1. ~finished /\ UNCHANGED <<pvars, launched>>
  BY DEF Select, CNext, TakeTurn, EndTime
<1>2. ~launched
  BY <1>1 DEF PInv
<1>3. child' = child /\ promoting' = promoting /\ demoting' = demoting /\ launched' = launched
  BY <1>1 DEF pvars, promoterVars
<1>4. QED BY <1>2, <1>3 DEF PInv

\* It is about the variables of the selection only.
LEMMA CInvUnchanged == ASSUME CInv, UNCHANGED cvars PROVE CInv'
<1>1. /\ log' = log /\ time' = time /\ candidates' = candidates /\ turn' = turn
      /\ unique_candidates' = unique_candidates /\ to_promote' = to_promote
      /\ promotion_file' = promotion_file /\ finished' = finished
  BY DEF cvars
<1>2. PICK n : IsLog(log, n) /\ turn \in 1..n
  BY DEF CInv
<1>3. IsLog(log', n) /\ turn' \in 1..n
  BY <1>1, <1>2
<1>4. /\ Position(log, time, candidates)
      /\ Uniq(log, time, candidates, unique_candidates)
      /\ Written(unique_candidates, to_promote, promotion_file)
      /\ Timely(log, time, promotion_file, finished)
  BY DEF CInv
<1>5. /\ Position(log', time', candidates')
      /\ Uniq(log', time', candidates', unique_candidates')
      /\ Written(unique_candidates', to_promote', promotion_file')
      /\ Timely(log', time', promotion_file', finished')
  BY <1>1, <1>4
<1>6. QED BY <1>3, <1>5 DEF CInv

\* The invariant of the selection, in every step.
LEMMA CInvStep == ASSUME CInv, PInv, Next PROVE CInv'
<1>1. CASE Select
  BY <1>1, CInvTakeTurn, CInvEndTime DEF Select, CNext
<1>2. CASE UNCHANGED cvars
  BY <1>2, CInvUnchanged
<1>3. QED BY <1>1, <1>2, NextCases DEF Start

\* And that of the promoter.
LEMMA PInvStep == ASSUME CInv, PInv, Next PROVE PInv'
BY NextCases, PInvSelect, PInvStart, PInvPromoteTime, PInvOther

\* A stuttering step.
LEMMA InvStutter == ASSUME CInv, PInv, UNCHANGED vars PROVE CInv' /\ PInv'
<1>1. UNCHANGED <<cvars, promoterVars, child, launched>>
  BY DEF vars, pvars
<1>2. CInv'
  BY <1>1, CInvUnchanged
<1>3. CASE launched
  <2>1. /\ child' \in [Child -> {"waiting", "running", "ended"}]
        /\ child["promoter"] = "ended" => child'["promoter"] = "ended"
    BY <1>1 DEF PInv
  <2>2. QED BY <1>1, <1>2, <1>3, <2>1, PInvOther
<1>4. CASE ~launched
  BY <1>1, <1>2, <1>4 DEF PInv, promoterVars
<1>5. QED BY <1>3, <1>4

\* Both hold throughout.
THEOREM PipelineInvariant == Spec => [](CInv /\ PInv)
<1>1. Init => CInv /\ PInv
  <2>1. SUFFICES ASSUME Init PROVE CInv /\ PInv
    OBVIOUS
  <2>2. CInv
    BY <2>1, CInvInit DEF Init
  <2>3. PInv
    BY <2>1 DEF Init, PInit, PInv, Child
  <2>4. QED BY <2>2, <2>3
<1>2. CInv /\ PInv /\ [Next]_vars => (CInv /\ PInv)'
  BY CInvStep, PInvStep, InvStutter
<1>3. QED BY <1>1, <1>2, PTL DEF Spec

\* A region was promoted iff it has a line for a time gone by.
LEMMA PromotedPages ==
    ASSUME CInv, PInv, launched, NEW x
    PROVE  x \in PagesOf(promoting) <=>
              \E i \in 1..Len(promotion_file) : promotion_file[i].addr = x /\ Handled(promotion_file[i].time)
<1>1. PICK d, f, S : d = promotions /\ f = promotion_file /\ S = Passed(d, promotion_it)
  OBVIOUS
<1>2. Gathered(promoting, d, S) /\ \A k, y : Has(d, k, y) <=> \E i \in 1..Len(f) : LineOf(f, i, k, y)
  BY <1>1 DEF PInv, Iterates, IsRead
<1>3. \A k : k \in S <=> k \in DOMAIN d /\ Handled(k)
  BY <1>1 DEF Passed, Handled
<1>4. x \in PagesOf(promoting) <=> \E k \in S : Has(d, k, x)
  BY <1>2, <1>3, GatheredPages
<1>5. ASSUME NEW k \in S, Has(d, k, x) PROVE \E i \in 1..Len(f) : f[i].addr = x /\ Handled(f[i].time)
  <2>1. PICK i \in 1..Len(f) : LineOf(f, i, k, x)
    BY <1>2, <1>5
  <2>2. QED BY <1>3, <2>1 DEF LineOf
<1>6. ASSUME NEW i \in 1..Len(f), f[i].addr = x, Handled(f[i].time) PROVE \E k \in S : Has(d, k, x)
  <2>1. LineOf(f, i, f[i].time, x)
    BY <1>6 DEF LineOf
  <2>2. Has(d, f[i].time, x)
    BY <1>2, <2>1
  <2>3. f[i].time \in S
    BY <1>3, <1>6, <2>2 DEF Has
  <2>4. QED BY <2>2, <2>3
<1>7. QED BY <1>1, <1>4, <1>5, <1>6

\* At whatever point the application ends, the ranges given to madvise for the
\* times gone by hold each region selected for them exactly once, and no other
\* (write_promotions of get_promotions_mt.py, read_promotions_over_time and the
\* loop of launch_promoter together).
THEOREM PipelinePromotes == Spec => []PromotedAsSelected
<1>1. ASSUME CInv, PInv PROVE PromotedAsSelected
  <2>1. SUFFICES ASSUME launched
                 PROVE  /\ PagesOf(promoting) = {line.addr : line \in {line \in Range(promotion_file) : Handled(line.time)}}
                        /\ \A i, j \in DOMAIN promoting : i # j => Pages(promoting[i]) \cap Pages(promoting[j]) = {}
    BY DEF PromotedAsSelected
  <2>2. \A i, j \in DOMAIN promoting : i # j => Pages(promoting[i]) \cap Pages(promoting[j]) = {}
    BY <1>1, <2>1 DEF PInv, Disjoint
  <2>3. DOMAIN promotion_file = 1..Len(promotion_file)
    BY <1>1 DEF CInv, Written
  <2>4. ASSUME NEW x
        PROVE  x \in PagesOf(promoting) <=> x \in {line.addr : line \in {line \in Range(promotion_file) : Handled(line.time)}}
    <3>1. x \in PagesOf(promoting) <=>
             \E i \in 1..Len(promotion_file) : promotion_file[i].addr = x /\ Handled(promotion_file[i].time)
      BY <1>1, <2>1, PromotedPages
    <3>2. QED BY <2>3, <3>1 DEF Range
  <2>5. QED BY <2>2, <2>4
<1>2. QED BY <1>1, PipelineInvariant, PTL
-----------------------------------------------------------------------------
(***************************************************************************)
(* The file of get_demotions.py.                                           *)
(***************************************************************************)
\* F has the lists of the first times, one behind the other.
Flattens(F, seqs) ==
    F = [i \in 1..Len(seqs) |-> IF i = 1 THEN seqs[i] ELSE F[i - 1] \o seqs[i]]

\* FlattenSeq is the last of them.
LEMMA FlattenEquation ==
    ASSUME NEW seqs, Len(seqs) \in Nat \ {0}
    PROVE  \E F : Flattens(F, seqs) /\ FlattenSeq(seqs) = F[Len(seqs)]
<1> DEFINE N == Len(seqs)
           Body(f, i) == IF i = 1 THEN seqs[i] ELSE f[i - 1] \o seqs[i]
           Upto(j) == \E f : f = [i \in 1..j |-> Body(f, i)]
           T == {j \in 0..N : Upto(j)}
<1>0. N \in Nat
  OBVIOUS
<1>1. 0 \in T
  <2> DEFINE g == [i \in 1..0 |-> seqs]
  <2>1. g = [i \in 1..0 |-> Body(g, i)]
    <3> HIDE DEF Body
    <3>1. \A i : i \notin 1..0
      OBVIOUS
    <3>2. QED BY <3>1
  <2> HIDE DEF g, Body
  <2>2. Upto(0)
    BY <2>1
  <2> HIDE DEF Upto, N
  <2>3. QED BY <1>0, <2>2
<1>2. ASSUME NEW j \in 0..N, j # N, j \in T PROVE j + 1 \in T
  <2> HIDE DEF Body, N
  <2>1. PICK f : f = [i \in 1..j |-> Body(f, i)]
    BY <1>2
  <2> DEFINE g == [i \in 1..(j + 1) |-> IF i = j + 1 THEN Body(f, j + 1) ELSE f[i]]
  <2>2. \A i \in 1..j : g[i] = f[i] /\ f[i] = Body(f, i)
    BY <2>1
  <2>3. g[j + 1] = Body(f, j + 1) /\ DOMAIN g = 1..(j + 1)
    OBVIOUS
  <2> HIDE DEF g
  <2>4. ASSUME NEW i \in 1..(j + 1) PROVE g[i] = Body(g, i)
    <3>1. i # 1 => g[i - 1] = f[i - 1]
      <4>1. i # 1 => i - 1 \in 1..j
        OBVIOUS
      <4>2. QED BY <2>2, <4>1
    <3>2. Body(f, i) = Body(g, i)
      BY <3>1 DEF Body
    <3>3. i = j + 1 \/ i \in 1..j
      OBVIOUS
    <3>4. QED BY <2>2, <2>3, <3>2, <3>3
  <2>5. g = [i \in 1..(j + 1) |-> IF i = j + 1 THEN Body(f, j + 1) ELSE f[i]]
    BY DEF g
  <2>6. g = [i \in 1..(j + 1) |-> Body(g, i)]
    BY <2>4, <2>5
  <2>7. j + 1 \in 0..N
    BY <1>0, <1>2
  <2>8. QED BY <2>6, <2>7
<1>3. Upto(N)
  <2> HIDE DEF N
  <2>1. \A j \in 0..N : j # N /\ j \in T => j + 1 \in T
    BY <1>2
  <2>2. \A j \in 0..N : j \in T
    <3> HIDE DEF T
    <3>1. QED BY <1>0, <1>1, <2>1, UpToInduction
  <2>3. N \in T
    <3> HIDE DEF T
    <3>1. QED BY <1>0, <2>2
  <2> HIDE DEF Upto
  <2>4. QED BY <2>3
<1> DEFINE F == CHOOSE f : f = [i \in 1..N |-> Body(f, i)]
<1>4. F = [i \in 1..N |-> Body(F, i)]
  BY <1>3
<1>5. FlattenSeq(seqs) = F[N]
  BY DEF FlattenSeq
<1>6. Flattens(F, seqs)
  BY <1>4 DEF Flattens
<1>7. QED BY <1>5, <1>6

\* Every line of the whole is a line of one of the lists.
LEMMA FlattenLines ==
    ASSUME NEW N \in Nat \ {0}, NEW seqs \in [1..N -> Seq(Line)], NEW g, g = FlattenSeq(seqs)
    PROVE  /\ g \in Seq(Line)
           /\ \A i \in 1..Len(g) : \E k \in 1..N : \E j \in 1..Len(seqs[k]) : g[i] = seqs[k][j]
<1>1. Len(seqs) = N
  BY FunctionIsList
<1>2. PICK F : Flattens(F, seqs) /\ g = F[N]
  BY <1>1, FlattenEquation
<1>3. /\ F[1] = seqs[1]
      /\ \A i \in 1..N : i # 1 => F[i] = F[i - 1] \o seqs[i]
  <2>1. F = [i \in 1..N |-> IF i = 1 THEN seqs[i] ELSE F[i - 1] \o seqs[i]]
    BY <1>1, <1>2 DEF Flattens
  <2>2. ASSUME NEW i \in 1..N PROVE F[i] = IF i = 1 THEN seqs[i] ELSE F[i - 1] \o seqs[i]
    BY <2>1, Zenon
  <2>3. 1 \in 1..N
    OBVIOUS
  <2>4. QED BY <2>2, <2>3
<1> DEFINE Good(s) == /\ s \in Seq(Line)
                      /\ \A i \in 1..Len(s) : \E k \in 1..N : \E j \in 1..Len(seqs[k]) : s[i] = seqs[k][j]
           T == {n \in 0..N : n = 0 \/ Good(F[n])}
<1>4. 0 \in T
  OBVIOUS
<1>5. ASSUME NEW n \in 0..N, n # N, n \in T PROVE n + 1 \in T
  <2>1. n + 1 \in 1..N /\ n + 1 \in 0..N /\ (n + 1) - 1 = n
    BY <1>5
  <2>2. CASE n = 0
    <3>1. F[n + 1] = seqs[n + 1]
      BY <1>3, <2>2
    <3>2. Good(F[n + 1])
      BY <2>1, <3>1
    <3>3. QED BY <2>1, <3>2
  <2>3. CASE n # 0
    <3>1. PICK f, s, h : f = F[n] /\ s = seqs[n + 1] /\ h = F[n + 1]
      OBVIOUS
    <3>2. Good(f) /\ s \in Seq(Line) /\ h = f \o s
      <4>1. n + 1 # 1
        BY <2>3
      <4>2. QED BY <1>3, <1>5, <2>1, <2>3, <3>1, <4>1
    <3>3. PICK m : m = Len(f)
      OBVIOUS
    <3>4. /\ h \in Seq(Line)
          /\ \A i \in 1..m : h[i] = f[i]
          /\ \A i \in 1..Len(h) : i \in 1..m \/ (i - m \in 1..Len(s) /\ h[i] = s[i - m])
      BY <3>2, <3>3, CatLines
    <3>5. ASSUME NEW i \in 1..Len(h) PROVE \E k \in 1..N : \E j \in 1..Len(seqs[k]) : h[i] = seqs[k][j]
      <4>1. CASE i \in 1..m
        BY <3>2, <3>3, <3>4, <4>1
      <4>2. CASE i - m \in 1..Len(s) /\ h[i] = s[i - m]
        BY <2>1, <3>1, <4>2
      <4>3. QED BY <3>4, <4>1, <4>2
    <3>6. Good(h)
      BY <3>4, <3>5
    <3>7. QED BY <2>1, <3>1, <3>6
  <2>4. QED BY <2>2, <2>3
<1>6. N \in T
  <2>1. \A n \in 0..N : n # N /\ n \in T => n + 1 \in T
    BY <1>5
  <2> HIDE DEF T
  <2>2. \A n \in 0..N : n \in T
    BY <1>4, <2>1, UpToInduction
  <2>3. QED BY <2>2
<1>7. Good(g)
  BY <1>2, <1>6
<1>8. QED BY <1>7

\* A region that is listed with hits has an entry of the log; those listed at
\* one time are finitely many.
LEMMA ListedEntries ==
    ASSUME NEW n, IsLog(log, n), NEW k \in 1..Len(log)
    PROVE  /\ DemotedAt(k) \in SUBSET Nat /\ IsFiniteSet(DemotedAt(k))
           /\ \A a : Listed(k, a) => \E i : InLog(log, k, 1, i) /\ log[k][1][i].addr = a
<1>1. n \in Nat \ {0} /\ DOMAIN log[1] = 1..n /\ log[k] \in [1..n -> Seq(Candidate)]
  BY DEF IsLog
<1>2. 1 \in 1..n
  BY <1>1
<1>3. PICK v : v = log[k][1]
  OBVIOUS
<1>4. v \in Seq(Candidate) /\ DOMAIN v = 1..Len(v) /\ Len(v) \in Nat
  BY <1>1, <1>2, <1>3
<1>5. ASSUME NEW a, Listed(k, a) PROVE \E i \in 1..Len(v) : v[i].addr = a
  BY <1>3, <1>4, <1>5 DEF Listed
<1>6. ASSUME NEW i \in 1..Len(v) PROVE InLog(log, k, 1, i)
  BY <1>1, <1>2, <1>3 DEF InLog
<1> DEFINE A == {v[i].addr : i \in 1..Len(v)}
           f == [i \in 1..Len(v) |-> v[i].addr]
<1>7. A \in SUBSET Nat
  <2>1. \A i \in 1..Len(v) : v[i] \in Candidate
    BY <1>4
  <2>2. QED BY <2>1 DEF Candidate
<1>8. IsFiniteSet(A)
  <2>1. f \in Surjection(1..Len(v), A)
    BY DEF Surjection
  <2>2. IsFiniteSet(1..Len(v))
    <3>1. 1 \in Int /\ Len(v) \in Int
      BY <1>4
    <3>2. QED BY <3>1, FS_Interval, Zenon
  <2> HIDE DEF f, A
  <2>3. QED BY <2>1, <2>2, FS_Surjection
<1>9. DemotedAt(k) \subseteq A
  BY <1>5 DEF DemotedAt
<1>10. DemotedAt(k) \in SUBSET Nat /\ IsFiniteSet(DemotedAt(k))
  <2> HIDE DEF A
  <2>1. QED BY <1>7, <1>8, <1>9, FS_Subset
<1>11. QED BY <1>3, <1>5, <1>6, <1>10

\* Every line of the file is a region that is demoted at this time.
LEMMA DemotionLines ==
    ASSUME NEW n, IsLog(log, n)
    PROVE  /\ demotion_file \in Seq(Line)
           /\ \A i \in 1..Len(demotion_file) :
                 /\ demotion_file[i].time \in 1..Len(log)
                 /\ demotion_file[i].addr \in DemotedAt(demotion_file[i].time)
<1>1. PICK N \in Nat \ {0} : N = Len(log) /\ DOMAIN log = 1..N
  BY DEF IsLog
<1> DEFINE seqs == [k \in 1..N |-> Lines(k, DemotedAt(k))]
<1>2. PICK g : g = demotion_file
  OBVIOUS
<1>3. CASE g = <<>>
  <2>1. g \in Seq(Line) /\ Len(g) = 0
    BY <1>3
  <2>2. \A i : i \notin 1..Len(g)
    BY <2>1
  <2>3. QED BY <1>2, <2>1, <2>2
<1>4. CASE g # <<>>
  <2>1. g = FlattenSeq(seqs)
    BY <1>1, <1>2, <1>4 DEF demotion_file
  <2>2. ASSUME NEW k \in 1..N PROVE IsLines(seqs[k], k, DemotedAt(k))
    <3>1. DemotedAt(k) \in SUBSET Nat /\ IsFiniteSet(DemotedAt(k)) /\ k \in Nat \ {0}
      BY <1>1, ListedEntries
    <3>2. IsLines(Lines(k, DemotedAt(k)), k, DemotedAt(k))
      BY <3>1, LinesWritten
    <3>3. QED BY <3>2
  <2>3. /\ \A k \in 1..N : seqs[k] \in Seq(Line)
        /\ \A k \in 1..N : \A j \in 1..Len(seqs[k]) : seqs[k][j].time = k /\ seqs[k][j].addr \in DemotedAt(k)
    <3> HIDE DEF seqs
    <3>1. QED BY <2>2 DEF IsLines
  <2>4. seqs \in [1..N -> Seq(Line)]
    BY <2>3
  <2> HIDE DEF seqs
  <2>5. /\ g \in Seq(Line)
        /\ \A i \in 1..Len(g) : \E k \in 1..N : \E j \in 1..Len(seqs[k]) : g[i] = seqs[k][j]
    BY <1>1, <2>1, <2>4, FlattenLines
  <2>6. \A i \in 1..Len(g) : g[i].time \in 1..N /\ g[i].addr \in DemotedAt(g[i].time)
    BY <2>3, <2>5
  <2>7. QED BY <1>1, <1>2, <2>5, <2>6
<1>5. QED BY <1>3, <1>4

\* A region that is demoted was listed before.
LEMMA DemotedListedBefore ==
    ASSUME NEW n, IsLog(log, n), NEW k \in 1..Len(log), NEW a \in DemotedAt(k)
    PROVE  \E j \in 1..Len(log) : \E i : j < k /\ InLog(log, j, 1, i) /\ log[j][1][i].addr = a
<1>1. Len(log) \in Nat
  BY DEF IsLog
<1> DEFINE J == {j \in 1..k : Listed(j, a)}
<1>2. Cardinality(J) = 2 /\ k \in J
  BY <1>1 DEF DemotedAt
<1>3. PICK j \in J : j # k
  <2>1. SUFFICES ASSUME \A j \in J : j = k PROVE FALSE
    OBVIOUS
  <2>2. J = {k}
    BY <1>2, <2>1
  <2>3. Cardinality({k}) = 1
    BY FS_Singleton
  <2> HIDE DEF J
  <2>4. QED BY <1>2, <2>2, <2>3
<1>4. j \in 1..Len(log) /\ j < k /\ Listed(j, a)
  BY <1>1, <1>3
<1>5. PICK i : InLog(log, j, 1, i) /\ log[j][1][i].addr = a
  BY <1>4, ListedEntries
<1>6. QED BY <1>4, <1>5
-----------------------------------------------------------------------------
(***************************************************************************)
(* The demotions.                                                          *)
(***************************************************************************)
\* The times of d up to the first one that is not a time of p.
Reachable(d, p) == {k \in DOMAIN d : {j \in DOMAIN d : j <= k} \subseteq DOMAIN p}

\* The demotion iterator has passed those of them that the other has passed.
Follows(dit, d, it, p) == \A k : k \in Passed(d, dit) <=> k \in Reachable(d, p) /\ k \in Passed(p, it)

DInv ==
    launched =>
        /\ IsRead(demotions, demotion_file)
        /\ Iterates(demotion_it, demotions, demoting)
        /\ Follows(demotion_it, demotions, promotion_it, promotions)

\* Both have come to the same time.
LEMMA FollowsDemoting ==
    ASSUME NEW d, IsMap(d), NEW p, IsMap(p), NEW k0 \in DOMAIN p, k0 \in DOMAIN d, Follows(k0, d, k0, p)
    PROVE  Follows(FirstAfter(d, k0), d, FirstAfter(p, k0), p)
<1>1. /\ Passed(d, FirstAfter(d, k0)) = Passed(d, k0) \cup {k0}
      /\ Passed(p, FirstAfter(p, k0)) = Passed(p, k0) \cup {k0}
  BY PassedNext
<1>2. \A k : k \in Passed(d, k0) <=> k \in Reachable(d, p) /\ k \in Passed(p, k0)
  BY DEF Follows
<1>3. k0 \in Reachable(d, p)
  <2>1. k0 \in Nat /\ \A j \in DOMAIN d : j \in Nat
    BY DEF IsMap
  <2>2. ASSUME NEW j \in DOMAIN d, j <= k0 PROVE j \in DOMAIN p
    <3>1. CASE j = k0
      BY <3>1
    <3>2. CASE j # k0
      <4>1. j < k0
        BY <2>1, <2>2, <3>2
      <4>2. j \in Passed(p, k0)
        BY <1>2, <4>1 DEF Passed
      <4>3. QED BY <4>2 DEF Passed
    <3>3. QED BY <3>1, <3>2
  <2>3. QED BY <2>2 DEF Reachable
<1>4. QED BY <1>1, <1>2, <1>3 DEF Follows

\* The promotions have come to a time at which the demotion iterator is not.
LEMMA FollowsWaiting ==
    ASSUME NEW d, IsMap(d), NEW p, IsMap(p), NEW k0 \in DOMAIN p,
           NEW dit \in DOMAIN d \cup {None}, dit # k0, Follows(dit, d, k0, p)
    PROVE  Follows(dit, d, FirstAfter(p, k0), p)
<1>1. Passed(p, FirstAfter(p, k0)) = Passed(p, k0) \cup {k0} /\ k0 \notin Passed(p, k0)
  BY PassedNext
<1>2. \A k : k \in Passed(d, dit) <=> k \in Reachable(d, p) /\ k \in Passed(p, k0)
  BY DEF Follows
<1>3. k0 \in Nat /\ k0 # None /\ \A j \in DOMAIN d : j \in Nat \ {0}
  BY DEF IsMap, None
\* Had it a demotion that is reachable, the iterator would wait at an earlier
\* time, which it would have passed.
<1>4. ASSUME k0 \in Reachable(d, p) PROVE FALSE
  <2>1. k0 \in DOMAIN d /\ \A j \in DOMAIN d : j <= k0 => j \in DOMAIN p
    BY <1>4 DEF Reachable
  <2>2. k0 \notin Passed(d, dit)
    BY <1>1, <1>2
  <2>3. dit # None /\ ~(k0 < dit)
    BY <2>1, <2>2 DEF Passed
  <2>4. dit \in DOMAIN d /\ dit \in Nat /\ dit < k0
    BY <1>3, <2>3
  <2>5. dit \in Passed(p, k0)
    <3>1. dit <= k0
      BY <1>3, <2>4
    <3>2. QED BY <2>1, <2>4, <3>1 DEF Passed
  <2>6. dit \in Reachable(d, p)
    <3>1. ASSUME NEW j \in DOMAIN d, j <= dit PROVE j \in DOMAIN p
      <4>1. j <= k0
        BY <1>3, <2>4, <3>1
      <4>2. QED BY <2>1, <4>1
    <3>2. QED BY <2>4, <3>1 DEF Reachable
  <2>7. dit \in Passed(d, dit)
    BY <1>2, <2>5, <2>6
  <2>8. QED BY <2>3, <2>4, <2>7 DEF Passed
<1>5. QED BY <1>1, <1>2, <1>4 DEF Follows

\* The file of the demotions depends on the log only.
LEMMA DemotionFileUnchanged == ASSUME UNCHANGED cvars PROVE demotion_file' = demotion_file
<1>1. log' = log
  BY DEF cvars
<1>2. QED BY <1>1 DEF demotion_file, DemotedAt, Addr, Listed, Tid

\* The launch.
LEMMA DInvStart == ASSUME CInv, PInv, Start PROVE DInv'
<1>1. PICK d, p, f : d = demotions' /\ p = promotions' /\ f = demotion_file
  OBVIOUS
<1>2. /\ d = read_promotions_over_time(f) /\ demotion_it' = FirstAfter(d, None)
      /\ p = read_promotions_over_time(promotion_file) /\ promotion_it' = FirstAfter(p, None)
      /\ demoting' = demoting /\ ~launched /\ UNCHANGED cvars
  BY <1>1 DEF Start, Launch
<1>3. demotion_file' = f
  BY <1>1, <1>2, DemotionFileUnchanged
<1>4. f \in Seq(Line) /\ promotion_file \in Seq(Line)
  <2>1. PICK n : IsLog(log, n)
    BY DEF CInv
  <2>2. f \in Seq(Line)
    BY <1>1, <2>1, DemotionLines
  <2>3. QED BY <2>2 DEF CInv, Written
<1>5. IsRead(d, f) /\ IsRead(p, promotion_file)
  BY <1>2, <1>4, ReadFile
<1>6. IsMap(d) /\ IsMap(p)
  BY <1>5 DEF IsRead
<1>7. PICK dit, it, r : dit = demotion_it' /\ it = promotion_it' /\ r = demoting'
  OBVIOUS
<1>8. r = <<>>
  BY <1>2, <1>7 DEF PInv
<1>9. Iterates(dit, d, r) /\ Passed(d, dit) = {}
  BY <1>2, <1>6, <1>7, <1>8, IterateFirst
<1>10. Passed(p, it) = {}
  BY <1>2, <1>6, <1>7, PassedFirst
<1>11. Follows(dit, d, it, p)
  BY <1>9, <1>10 DEF Follows
<1>12. /\ IsRead(demotions', demotion_file')
       /\ Iterates(demotion_it', demotions', demoting')
       /\ Follows(demotion_it', demotions', promotion_it', promotions')
  BY <1>1, <1>3, <1>5, <1>7, <1>9, <1>11
<1>13. QED BY <1>12 DEF DInv

\* The demotions of one time.
LEMMA DInvPromoteTime ==
    ASSUME CInv, PInv, DInv, launched, PromoteTime, UNCHANGED <<cvars, launched>> PROVE DInv'
<1>1. PICK d, p : d = demotions /\ p = promotions
  OBVIOUS
<1>2. PICK dit, it, r : dit = demotion_it /\ it = promotion_it /\ r = demoting
  OBVIOUS
<1>3. /\ IsRead(d, demotion_file) /\ Iterates(dit, d, r) /\ Follows(dit, d, it, p)
      /\ IsRead(p, promotion_file) /\ it \in DOMAIN p \cup {None}
      /\ it = None => child["promoter"] = "ended" \/ DOMAIN p = {}
  BY <1>1, <1>2 DEF DInv, PInv, Iterates
<1>4. IsMap(d) /\ IsMap(p) /\ dit \in DOMAIN d \cup {None}
  BY <1>3 DEF IsRead, Iterates
<1>5. demotion_file' = demotion_file
  BY DemotionFileUnchanged
<1>6. PICK dit2, it2, r2 : dit2 = demotion_it' /\ it2 = promotion_it' /\ r2 = demoting'
  OBVIOUS
<1>7. demotions' = d /\ promotions' = p /\ it2 = FirstAfter(p, it) /\ child["promoter"] = "running"
  BY <1>1, <1>2, <1>6 DEF PromoteTime
<1>8. Iterates(dit2, d, r2) /\ Follows(dit2, d, it2, p)
  <2>1. CASE it # None /\ dit = it
    <3>1. r2 = r \o At(d, dit) /\ dit2 = FirstAfter(d, dit)
      BY <1>1, <1>2, <1>6, <2>1 DEF PromoteTime
    <3>2. dit \in DOMAIN d /\ dit \in DOMAIN p
      BY <1>3, <1>4, <2>1
    <3>3. Iterates(dit2, d, r2)
      BY <1>3, <1>4, <3>1, <3>2, IterateNext
    <3>4. Follows(dit2, d, it2, p)
      BY <1>3, <1>4, <1>7, <2>1, <3>1, <3>2, FollowsDemoting
    <3>5. QED BY <3>3, <3>4
  <2>2. CASE ~(it # None /\ dit = it)
    <3>1. r2 = r /\ dit2 = dit
      BY <1>1, <1>2, <1>6, <2>2 DEF PromoteTime
    <3>2. CASE it = None
      <4>1. DOMAIN p = {}
        BY <1>3, <1>7, <3>2
      <4>2. Passed(p, it) = {} /\ Passed(p, it2) = {}
        BY <4>1 DEF Passed
      <4>3. Follows(dit, d, it2, p)
        BY <1>3, <4>2 DEF Follows
      <4>4. QED BY <1>3, <3>1, <4>3
    <3>3. CASE it # None
      <4>1. it \in DOMAIN p /\ dit # it
        BY <1>3, <2>2, <3>3
      <4>2. Follows(dit, d, it2, p)
        BY <1>3, <1>4, <1>7, <4>1, FollowsWaiting
      <4>3. QED BY <1>3, <3>1, <4>2
    <3>4. QED BY <3>2, <3>3
  <2>3. QED BY <2>1, <2>2
<1>9. /\ IsRead(demotions', demotion_file')
      /\ Iterates(demotion_it', demotions', demoting')
      /\ Follows(demotion_it', demotions', promotion_it', promotions')
  BY <1>1, <1>3, <1>5, <1>6, <1>7, <1>8
<1>10. QED BY <1>9 DEF DInv

\* The other steps.
LEMMA DInvOther ==
    ASSUME DInv, UNCHANGED <<promoterVars, cvars, launched>> PROVE DInv'
<1>1. SUFFICES ASSUME launched' PROVE DInv'
  BY DEF DInv
<1>2. demotion_file' = demotion_file
  BY DemotionFileUnchanged
<1>3. /\ demotions' = demotions /\ demotion_it' = demotion_it /\ demoting' = demoting
      /\ promotions' = promotions /\ promotion_it' = promotion_it /\ launched' = launched
  BY DEF promoterVars
<1>4. /\ IsRead(demotions, demotion_file)
      /\ Iterates(demotion_it, demotions, demoting)
      /\ Follows(demotion_it, demotions, promotion_it, promotions)
  BY <1>1, <1>3 DEF DInv
<1>5. /\ IsRead(demotions', demotion_file')
      /\ Iterates(demotion_it', demotions', demoting')
      /\ Follows(demotion_it', demotions', promotion_it', promotions')
  BY <1>2, <1>3, <1>4
<1>6. QED BY <1>5 DEF DInv

\* Every step.
LEMMA DInvStep == ASSUME CInv, PInv, DInv, [Next]_vars PROVE DInv'
<1>1. CASE Select
  <2>1. ~launched /\ launched' = launched
    BY <1>1, PInvSelect DEF Select
  <2>2. QED BY <2>1 DEF DInv
<1>2. CASE UNCHANGED vars
  BY <1>2, DInvOther DEF vars, pvars
<1>3. QED BY <1>1, <1>2, NextCases, DInvStart, DInvPromoteTime, DInvOther

\* A time that has promotions is not ahead of the loop that selected them.
LEMMA PromotionTimes ==
    ASSUME CInv, PInv, launched, NEW k \in DOMAIN promotions PROVE k <= time
<1>1. PICK d, f : d = promotions /\ f = promotion_file
  OBVIOUS
<1>2. IsMap(d) /\ \A j, x : Has(d, j, x) <=> \E i \in 1..Len(f) : LineOf(f, i, j, x)
  BY <1>1 DEF PInv, IsRead
<1>3. d[k] \in Seq(RangeType) /\ Len(d[k]) \in Nat \ {0}
  BY <1>1, <1>2 DEF IsMap
<1>4. 1 \in 1..Len(d[k]) /\ d[k][1] \in RangeType
  BY <1>3
<1>5. PICK x : x \in Pages(d[k][1])
  <2>1. d[k][1].start \in Nat /\ d[k][1].num \in Nat \ {0}
    BY <1>4 DEF RangeType
  <2>2. d[k][1].start \in Pages(d[k][1])
    BY <2>1 DEF Pages
  <2>3. QED BY <2>2
<1>6. Has(d, k, x)
  BY <1>1, <1>4, <1>5 DEF Has
<1>7. PICK i \in 1..Len(f) : LineOf(f, i, k, x)
  BY <1>2, <1>6
<1>8. QED BY <1>1, <1>7 DEF LineOf, CInv, Timely

\* A region with a demotion line of time k, reached and gone by, was promoted.
LEMMA DemotedWasPromoted ==
    ASSUME CInv, PInv, launched, NEW k, NEW x, k \in DOMAIN promotions, Handled(k),
           NEW i \in 1..Len(demotion_file), demotion_file[i].time = k, demotion_file[i].addr = x
    PROVE  x \in PagesOf(promoting)
<1>1. PICK n : IsLog(log, n)
  BY DEF CInv
<1>2. k \in 1..Len(log) /\ x \in DemotedAt(k) /\ Len(log) \in Nat
  BY <1>1, DemotionLines DEF IsLog
<1>3. PICK j \in 1..Len(log) : \E e : j < k /\ InLog(log, j, 1, e) /\ log[j][1][e].addr = x
  BY <1>1, <1>2, DemotedListedBefore
<1>4. PICK e : j < k /\ InLog(log, j, 1, e) /\ log[j][1][e].addr = x
  BY <1>3
<1>5. k <= time /\ time \in Nat
  <2>1. k <= time
    BY PromotionTimes
  <2>2. QED BY <1>2, <2>1 DEF CInv, Position
<1>6. j < time
  BY <1>2, <1>4, <1>5
<1>7. PICK f : f = promotion_file
  OBVIOUS
<1>8. PICK h \in 1..Len(f) : f[h].addr = x /\ f[h].time <= j
  BY <1>4, <1>6, <1>7 DEF CInv, Timely
<1>9. f[h].time \in Nat
  <2>1. f[h] \in Line
    BY <1>7, <1>8 DEF CInv, Written
  <2>2. QED BY <2>1 DEF Line
<1>10. Handled(f[h].time)
  <2>1. promotion_it = None \/ promotion_it \in DOMAIN promotions
    BY DEF PInv, Iterates
  <2>2. DOMAIN promotions \subseteq Nat
    BY PromotionsApart DEF IsMap
  <2>3. f[h].time < k
    BY <1>2, <1>4, <1>8, <1>9
  <2>4. k < promotion_it /\ promotion_it \in Nat => f[h].time < promotion_it
    BY <1>2, <1>9, <2>3
  <2>5. QED BY <2>1, <2>2, <2>4 DEF Handled
<1>11. QED BY <1>7, <1>8, <1>10, PromotedPages

\* A region was demoted iff it has a line for a time that was reached.
LEMMA DemotedPages ==
    ASSUME PInv, DInv, launched, NEW x
    PROVE  x \in PagesOf(demoting) <=>
              \E i \in 1..Len(demotion_file) :
                  /\ demotion_file[i].addr = x
                  /\ demotion_file[i].time \in Reachable(demotions, promotions) /\ Handled(demotion_file[i].time)
<1>1. PICK d, f, p, S : d = demotions /\ f = demotion_file /\ p = promotions /\ S = Passed(d, demotion_it)
  OBVIOUS
<1>2. /\ Gathered(demoting, d, S)
      /\ \A k, y : Has(d, k, y) <=> \E i \in 1..Len(f) : LineOf(f, i, k, y)
      /\ \A k : k \in S <=> k \in Reachable(d, p) /\ k \in Passed(p, promotion_it)
  BY <1>1 DEF DInv, Iterates, IsRead, Follows
<1>3. ASSUME NEW k PROVE k \in S <=> k \in Reachable(d, p) /\ Handled(k)
  <2>1. IsMap(d)
    BY <1>1 DEF DInv, IsRead
  <2>2. k \in Reachable(d, p) => k \in DOMAIN p
    BY <2>1 DEF Reachable, IsMap
  <2>3. QED BY <1>2, <2>2 DEF Passed, Handled
<1>4. S \subseteq DOMAIN d
  BY <1>1 DEF Passed
<1>5. x \in PagesOf(demoting) <=> \E k \in S : Has(d, k, x)
  BY <1>2, <1>4, GatheredPages
<1>6. ASSUME NEW k \in S, Has(d, k, x)
      PROVE  \E i \in 1..Len(f) : f[i].addr = x /\ f[i].time \in Reachable(d, p) /\ Handled(f[i].time)
  <2>1. PICK i \in 1..Len(f) : LineOf(f, i, k, x)
    BY <1>2, <1>6
  <2>2. f[i].addr = x /\ f[i].time = k
    BY <2>1 DEF LineOf
  <2>3. QED BY <1>3, <2>2
<1>7. ASSUME NEW i \in 1..Len(f), f[i].addr = x, f[i].time \in Reachable(d, p), Handled(f[i].time)
      PROVE  \E k \in S : Has(d, k, x)
  <2>1. LineOf(f, i, f[i].time, x)
    BY <1>7 DEF LineOf
  <2>2. Has(d, f[i].time, x)
    BY <1>2, <2>1
  <2>3. QED BY <1>3, <1>7, <2>2
<1>8. QED BY <1>1, <1>5, <1>6, <1>7

\* A region is demoted only after it was promoted, and exactly those are whose
\* second listing comes before the first time at which the promoter has a
\* demotion but no promotion (get_demotions.py and launch_promoter together).
THEOREM PipelineDemotes == Spec => []DemotionsAsDue
<1>1. Init => DInv
  BY DEF Init, DInv
<1>2. CInv /\ PInv /\ DInv /\ [Next]_vars => DInv'
  BY DInvStep
<1>3. ASSUME CInv, PInv, DInv PROVE DemotionsAsDue
  <2>1. SUFFICES ASSUME launched
                 PROVE  /\ PagesOf(demoting) \subseteq PagesOf(promoting)
                        /\ PagesOf(demoting) = {line.addr : line \in
                              {line \in Range(demotion_file) :
                                  line.time \in Reachable(demotions, promotions) /\ Handled(line.time)}}
    BY DEF DemotionsAsDue, Reachable
  <2>2. demotion_file \in Seq(Line)
    <3>1. PICK n : IsLog(log, n)
      BY <1>3 DEF CInv
    <3>2. QED BY <3>1, DemotionLines
  <2>3. PICK f, R : f = demotion_file /\ R = Reachable(demotions, promotions)
    OBVIOUS
  <2>4. DOMAIN f = 1..Len(f)
    BY <2>2, <2>3
  <2>5. \A x : x \in PagesOf(demoting) <=>
           \E i \in 1..Len(f) : f[i].addr = x /\ f[i].time \in R /\ Handled(f[i].time)
    BY <1>3, <2>1, <2>3, DemotedPages
  <2>6. ASSUME NEW x
        PROVE  x \in PagesOf(demoting) <=> x \in {line.addr : line \in {line \in Range(f) : line.time \in R /\ Handled(line.time)}}
    BY <2>4, <2>5 DEF Range
  <2>7. ASSUME NEW x \in PagesOf(demoting) PROVE x \in PagesOf(promoting)
    <3>1. PICK i \in 1..Len(f) : f[i].addr = x /\ f[i].time \in R /\ Handled(f[i].time)
      BY <2>5
    <3>2. f[i].time \in DOMAIN promotions
      <4>1. IsMap(demotions)
        BY <1>3, <2>1 DEF DInv, IsRead
      <4>2. QED BY <2>3, <3>1, <4>1 DEF Reachable, IsMap
    <3>3. QED BY <1>3, <2>1, <2>3, <3>1, <3>2, DemotedWasPromoted
  <2>8. QED BY <2>3, <2>6, <2>7
<1>4. QED BY <1>1, <1>2, <1>3, PipelineInvariant, PTL DEF Spec
-----------------------------------------------------------------------------
(***************************************************************************)
(* The selection against its reference.                                    *)
(***************************************************************************)
\* The candidates taken so far.
Taken(l, k0, cs) == {c \in Entries(l) : Took(l, k0, cs, c[1], c[3], c[2])}

\* The entries of the log.
LEMMA EntryOf ==
    ASSUME NEW l, NEW n, IsLog(l, n)
    PROVE  /\ \A k, t, i : InLog(l, k, t, i) => <<k, i, t>> \in Entries(l)
           /\ \A c \in Entries(l) : /\ c = <<c[1], c[2], c[3]>> /\ InLog(l, c[1], c[3], c[2])
                                    /\ c[1] \in Nat /\ c[2] \in Nat /\ c[3] \in Nat
<1>1. /\ n \in Nat \ {0} /\ DOMAIN l[1] = 1..n /\ Len(l) \in Nat \ {0} /\ DOMAIN l = 1..Len(l)
      /\ \A k \in 1..Len(l) : l[k] \in [1..n -> Seq(Candidate)]
  BY DEF IsLog
<1>2. ASSUME NEW k \in 1..Len(l), NEW t \in 1..n PROVE DOMAIN l[k][t] = 1..Len(l[k][t]) /\ Len(l[k][t]) \in Nat
  <2>1. l[k][t] \in Seq(Candidate)
    BY <1>1
  <2>2. QED BY <2>1
<1>3. ASSUME NEW k, NEW t, NEW i, InLog(l, k, t, i) PROVE <<k, i, t>> \in Entries(l)
  <2>1. k \in DOMAIN l /\ t \in DOMAIN l[1] /\ i \in DOMAIN l[k][t]
    BY <1>1, <1>2, <1>3 DEF InLog
  <2>2. PICK E : E = {<<k, j, t>> : j \in DOMAIN l[k][t]}
    OBVIOUS
  <2>3. <<k, i, t>> \in E
    BY <2>1, <2>2
  <2>4. E \in {{<<h, j, u>> : j \in DOMAIN l[h][u]} : h \in DOMAIN l, u \in DOMAIN l[1]}
    BY <2>1, <2>2
  <2>5. E \subseteq Entries(l)
    BY <2>4 DEF Entries
  <2>6. QED BY <2>3, <2>5
<1>4. ASSUME NEW c \in Entries(l)
      PROVE  c = <<c[1], c[2], c[3]>> /\ InLog(l, c[1], c[3], c[2]) /\ c[1] \in Nat /\ c[2] \in Nat /\ c[3] \in Nat
  <2>1. PICK k \in DOMAIN l, t \in DOMAIN l[1] : \E i \in DOMAIN l[k][t] : c = <<k, i, t>>
    BY DEF Entries
  <2>2. PICK i \in DOMAIN l[k][t] : c = <<k, i, t>>
    BY <2>1
  <2>3. c[1] = k /\ c[2] = i /\ c[3] = t
    BY <2>2
  <2>4. k \in 1..Len(l) /\ t \in 1..n /\ i \in 1..Len(l[k][t]) /\ Len(l[k][t]) \in Nat
    BY <1>1, <1>2, <2>1, <2>2
  <2>5. k \in Nat /\ t \in Nat /\ i \in Nat
    BY <1>1, <2>4
  <2>6. QED BY <1>1, <2>2, <2>3, <2>4, <2>5 DEF InLog
<1>5. QED BY <1>3, <1>4

\* They are finitely many.
LEMMA EntriesFinite ==
    ASSUME NEW l, NEW n, IsLog(l, n) PROVE IsFiniteSet(Entries(l))
<1>1. /\ n \in Nat \ {0} /\ DOMAIN l[1] = 1..n /\ Len(l) \in Nat \ {0} /\ DOMAIN l = 1..Len(l)
      /\ \A k \in 1..Len(l) : l[k] \in [1..n -> Seq(Candidate)]
  BY DEF IsLog
<1> DEFINE E(k, t) == {<<k, i, t>> : i \in DOMAIN l[k][t]}
           P == (1..Len(l)) \X (1..n)
           f == [p \in P |-> E(p[1], p[2])]
           S == {E(k, t) : k \in 1..Len(l), t \in 1..n}
<1>2. ASSUME NEW m \in Nat PROVE IsFiniteSet(1..m)
  <2>1. 1 \in Int /\ m \in Int
    OBVIOUS
  <2>2. QED BY <2>1, FS_Interval, Zenon
<1>3. IsFiniteSet(P)
  BY <1>1, <1>2, FS_Product
<1>4. f \in Surjection(P, S)
  <2> HIDE DEF E
  <2>1. f \in [P -> S]
    OBVIOUS
  <2>2. ASSUME NEW s \in S PROVE \E p \in P : f[p] = s
    <3>1. PICK k \in 1..Len(l), t \in 1..n : s = E(k, t)
      OBVIOUS
    <3>2. <<k, t>> \in P /\ f[<<k, t>>] = s
      BY <3>1
    <3>3. QED BY <3>2
  <2> HIDE DEF f, P, S
  <2>3. QED BY <2>1, <2>2 DEF Surjection
<1>5. IsFiniteSet(S)
  <2> HIDE DEF f, S, P
  <2>1. QED BY <1>3, <1>4, FS_Surjection
<1>6. ASSUME NEW s \in S PROVE IsFiniteSet(s)
  <2>1. PICK k \in 1..Len(l), t \in 1..n : s = E(k, t)
    OBVIOUS
  <2>2. PICK m \in Nat : DOMAIN l[k][t] = 1..m
    <3>1. l[k][t] \in Seq(Candidate)
      BY <1>1
    <3>2. QED BY <3>1
  <2> DEFINE g == [i \in 1..m |-> <<k, i, t>>]
  <2>3. g \in Surjection(1..m, s)
    <3>1. s = {<<k, i, t>> : i \in 1..m}
      BY <2>1, <2>2
    <3>2. g \in [1..m -> s]
      BY <3>1
    <3>3. \A x \in s : \E i \in 1..m : g[i] = x
      BY <3>1
    <3> HIDE DEF g
    <3>4. QED BY <3>2, <3>3 DEF Surjection
  <2> HIDE DEF g
  <2>4. QED BY <1>2, <2>3, FS_Surjection
<1>7. Entries(l) = UNION S
  BY <1>1 DEF Entries
<1>8. QED
  <2> HIDE DEF S
  <2>1. QED BY <1>5, <1>6, <1>7, FS_UNION

\* Before is a strict total order on triples of numbers.
LEMMA BeforeOrder ==
    ASSUME NEW l, NEW n, IsLog(l, n), NEW c \in Entries(l), NEW d \in Entries(l)
    PROVE  /\ ~Before(c, c) /\ ~(Before(c, d) /\ Before(d, c))
           /\ c = d \/ Before(c, d) \/ Before(d, c)
<1>1. /\ c = <<c[1], c[2], c[3]>> /\ d = <<d[1], d[2], d[3]>>
      /\ c[1] \in Nat /\ c[2] \in Nat /\ c[3] \in Nat /\ d[1] \in Nat /\ d[2] \in Nat /\ d[3] \in Nat
  BY EntryOf
<1>2. ~Before(c, c) /\ ~(Before(c, d) /\ Before(d, c))
  BY <1>1 DEF Before
<1>3. (c[1] = d[1] /\ c[2] = d[2] /\ c[3] = d[3]) \/ Before(c, d) \/ Before(d, c)
  BY <1>1 DEF Before
<1>4. QED BY <1>1, <1>2, <1>3

\* The first entry of a region.
LEMMA FirstEntry ==
    ASSUME NEW l, NEW n, IsLog(l, n), NEW c \in Entries(l)
    PROVE  \E f \in Firsts(l) : AddrOf(l, f) = AddrOf(l, c) /\ (f = c \/ Before(f, c))
<1> DEFINE A == {d \in Entries(l) : AddrOf(l, d) = AddrOf(l, c)}
           K == {d[1] : d \in A}
<1>1. \A d \in A : d = <<d[1], d[2], d[3]>> /\ d[1] \in Nat /\ d[2] \in Nat /\ d[3] \in Nat
  BY EntryOf
<1>2. c \in A
  OBVIOUS
<1> HIDE DEF A
<1>3. PICK k \in K : \A j \in K : k <= j
  <2>1. K \in SUBSET Nat /\ K # {}
    BY <1>1, <1>2
  <2> HIDE DEF K
  <2>2. QED BY <2>1, NatMin
<1> DEFINE I == {d[2] : d \in {d \in A : d[1] = k}}
<1>4. PICK i \in I : \A j \in I : i <= j
  <2>1. I \in SUBSET Nat /\ I # {}
    BY <1>1, <1>3
  <2> HIDE DEF I
  <2>2. QED BY <2>1, NatMin
<1> DEFINE T == {d[3] : d \in {d \in A : d[1] = k /\ d[2] = i}}
<1>5. PICK t \in T : \A j \in T : t <= j
  <2>1. T \in SUBSET Nat /\ T # {}
    BY <1>1, <1>4
  <2> HIDE DEF T
  <2>2. QED BY <2>1, NatMin
<1>6. PICK f \in A : f[1] = k /\ f[2] = i /\ f[3] = t
  BY <1>5
<1>7. ASSUME NEW d \in A PROVE f = d \/ Before(f, d)
  <2>0. /\ f[1] \in Nat /\ f[2] \in Nat /\ f[3] \in Nat /\ f = <<f[1], f[2], f[3]>>
        /\ d[1] \in Nat /\ d[2] \in Nat /\ d[3] \in Nat /\ d = <<d[1], d[2], d[3]>>
    BY <1>1, <1>6
  <2>1. f[1] <= d[1]
    BY <1>3, <1>6
  <2>2. d[1] = f[1] => f[2] <= d[2]
    BY <1>4, <1>6
  <2>3. d[1] = f[1] /\ d[2] = f[2] => f[3] <= d[3]
    BY <1>5, <1>6
  <2>4. Before(f, d) \/ (f[1] = d[1] /\ f[2] = d[2] /\ f[3] = d[3])
    BY <2>0, <2>1, <2>2, <2>3 DEF Before
  <2>5. QED BY <2>0, <2>4
<1>8. f \in Firsts(l)
  BY <1>6, <1>7 DEF A, Firsts
<1>9. QED BY <1>2, <1>6, <1>7, <1>8 DEF A

\* It is the only one.
LEMMA FirstUnique ==
    ASSUME NEW l, NEW n, IsLog(l, n), NEW f \in Firsts(l), NEW g \in Firsts(l), AddrOf(l, f) = AddrOf(l, g)
    PROVE  f = g
BY BeforeOrder DEF Firsts

\* The round robin: the threads before tn have had a turn more than the others,
\* and one that has fewer entries taken than turns has none left.
Turns(r, t, tn) == IF t < tn THEN r + 1 ELSE r
Round(l, k0, cs, tn) ==
    \E r \in Nat : \A t \in DOMAIN l[1] :
        /\ Len(l[k0][t]) - Len(cs[t]) <= Turns(r, t, tn)
        /\ Len(l[k0][t]) - Len(cs[t]) = Turns(r, t, tn) \/ cs[t] = <<>>

\* What was taken before is taken: the entries go in the order of the reference.
Closed(l, k0, cs) ==
    \A c, d \in Entries(l) : Before(c, d) /\ d \in Taken(l, k0, cs) => c \in Taken(l, k0, cs)

\* At the start of a time.
LEMMA RoundFirst ==
    ASSUME NEW l, NEW n, IsLog(l, n), NEW k0 \in 1..Len(l) PROVE Round(l, k0, l[k0], 1)
<1>1. ASSUME NEW t \in DOMAIN l[1]
      PROVE  ~(t < 1) /\ Len(l[k0][t]) - Len(l[k0][t]) = 0
  <2>1. t \in Nat \ {0} /\ l[k0][t] \in Seq(Candidate)
    BY DEF IsLog
  <2>2. Len(l[k0][t]) \in Nat
    BY <2>1
  <2>3. QED BY <2>1, <2>2
<1>2. QED BY <1>1 DEF Round, Turns

\* The remainder of a small number.
LEMMA SmallMod == ASSUME NEW n \in Nat \ {0}, NEW t \in 0..(n - 1) PROVE t % n = t
OBVIOUS

\* A turn.
LEMMA RoundStep ==
    ASSUME NEW l, NEW n, IsLog(l, n), NEW k0, NEW cs, Position(l, k0, cs), NEW t0 \in 1..n, Round(l, k0, cs, t0),
           NEW cs2, cs2 = IF cs[t0] = <<>> THEN cs ELSE [cs EXCEPT ![t0] = Tail(@)]
    PROVE  Round(l, k0, cs2, (t0 % n) + 1)
<1>1. /\ n \in Nat \ {0} /\ DOMAIN l[1] = 1..n /\ k0 \in 1..Len(l)
      /\ \A t \in 1..n : l[k0][t] \in Seq(Candidate)
      /\ cs \in [1..n -> Seq(Candidate)]
  BY DEF IsLog, Position
<1>2. PICK r \in Nat : \A t \in DOMAIN l[1] :
         /\ Len(l[k0][t]) - Len(cs[t]) <= Turns(r, t, t0)
         /\ Len(l[k0][t]) - Len(cs[t]) = Turns(r, t, t0) \/ cs[t] = <<>>
  BY DEF Round
<1>3. /\ \A t \in 1..n : t # t0 => cs2[t] = cs[t]
      /\ cs[t0] = <<>> => cs2[t0] = <<>>
      /\ cs[t0] # <<>> => Len(cs2[t0]) = Len(cs[t0]) - 1
  <2>1. CASE cs[t0] = <<>>
    BY <1>1, <2>1
  <2>2. CASE cs[t0] # <<>>
    <3>1. cs2[t0] = Tail(cs[t0]) /\ cs[t0] \in Seq(Candidate)
      BY <1>1, <2>2
    <3>2. Len(cs2[t0]) = Len(cs[t0]) - 1
      BY <2>2, <3>1, TailList
    <3>3. QED BY <1>1, <2>2, <3>2
  <2>3. QED BY <2>1, <2>2
<1>4. \A t \in 1..n : Len(l[k0][t]) \in Nat /\ Len(cs[t]) \in Nat
  BY <1>1
\* The threads up to t0 have had r + 1 turns.
<1>5. ASSUME NEW t \in 1..n
      PROVE  /\ Len(l[k0][t]) - Len(cs2[t]) <= Turns(r, t, t0 + 1)
             /\ Len(l[k0][t]) - Len(cs2[t]) = Turns(r, t, t0 + 1) \/ cs2[t] = <<>>
  <2>1. CASE t # t0
    <3>1. Turns(r, t, t0 + 1) = Turns(r, t, t0)
      BY <1>1, <2>1 DEF Turns
    <3>2. cs2[t] = cs[t] /\ t \in DOMAIN l[1]
      BY <1>1, <1>3, <2>1
    <3>3. QED BY <1>2, <3>1, <3>2
  <2>2. CASE t = t0
    <3>1. Turns(r, t, t0) = r /\ Turns(r, t, t0 + 1) = r + 1
      BY <1>1, <2>2 DEF Turns
    <3>2. PICK m \in Nat, p \in Nat : m = Len(l[k0][t0]) /\ p = Len(cs[t0])
      BY <1>4
    <3>3. CASE cs[t0] = <<>>
      <4>1. cs2[t0] = <<>> /\ Len(cs2[t0]) = p /\ m - p <= r
        BY <1>1, <1>2, <1>3, <2>2, <3>1, <3>2, <3>3
      <4>2. m - p <= r + 1
        BY <4>1
      <4>3. QED BY <2>2, <3>1, <3>2, <4>1, <4>2
    <3>4. CASE cs[t0] # <<>>
      <4>1. m - p = r /\ Len(cs2[t0]) = p - 1
        BY <1>1, <1>2, <1>3, <2>2, <3>1, <3>2, <3>4
      <4>2. m - (p - 1) = r + 1 /\ r + 1 <= r + 1
        BY <4>1
      <4>3. QED BY <2>2, <3>1, <3>2, <4>1, <4>2
    <3>5. QED BY <3>3, <3>4
  <2>3. QED BY <2>1, <2>2
<1>6. CASE t0 = n
  <2>1. (t0 % n) + 1 = 1
    BY <1>1, <1>6
  <2>2. \A t \in 1..n : Turns(r + 1, t, 1) = Turns(r, t, t0 + 1)
    BY <1>1, <1>6 DEF Turns
  <2>3. r + 1 \in Nat
    OBVIOUS
  <2>4. Round(l, k0, cs2, 1)
    BY <1>1, <1>5, <2>2, <2>3 DEF Round
  <2>5. QED BY <2>1, <2>4
<1>7. CASE t0 # n
  <2>1. (t0 % n) + 1 = t0 + 1
    <3>1. t0 \in 0..(n - 1)
      BY <1>1, <1>7
    <3>2. t0 % n = t0
      BY <1>1, <3>1, SmallMod
    <3>3. QED BY <3>2
  <2>2. Round(l, k0, cs2, t0 + 1)
    BY <1>1, <1>5 DEF Round
  <2>3. QED BY <2>1, <2>2
<1>8. QED BY <1>6, <1>7

\* Turns in a round robin are in the order of the reference.
LEMMA RoundClosed ==
    ASSUME NEW l, NEW n, IsLog(l, n), NEW k0, NEW cs, Position(l, k0, cs), NEW tn \in 1..n, Round(l, k0, cs, tn)
    PROVE  Closed(l, k0, cs)
<1>1. SUFFICES ASSUME NEW c \in Entries(l), NEW d \in Entries(l), Before(c, d), d \in Taken(l, k0, cs)
               PROVE  c \in Taken(l, k0, cs)
  BY DEF Closed
<1>2. PICK k, i, t : k = c[1] /\ i = c[2] /\ t = c[3]
  OBVIOUS
<1>3. PICK h, j, u : h = d[1] /\ j = d[2] /\ u = d[3]
  OBVIOUS
<1>4. /\ n \in Nat \ {0} /\ DOMAIN l[1] = 1..n /\ k0 \in 1..Len(l) /\ Len(l) \in Nat
      /\ \A v \in 1..n : l[k0][v] \in Seq(Candidate)
      /\ cs \in [1..n -> Seq(Candidate)]
  BY DEF IsLog, Position
<1>5. \A v \in 1..n : Len(l[k0][v]) \in Nat /\ Len(cs[v]) \in Nat
  BY <1>4
<1>6. /\ InLog(l, k, t, i) /\ k \in Nat /\ t \in 1..n /\ i \in Nat /\ i <= Len(l[k][t])
      /\ h \in Nat /\ u \in 1..n /\ j \in Nat
  <2>1. InLog(l, k, t, i) /\ k \in Nat /\ i \in Nat /\ InLog(l, h, u, j) /\ h \in Nat /\ j \in Nat
    BY <1>2, <1>3, EntryOf
  <2>2. QED
    <3>1. t \in 1..n /\ u \in 1..n /\ i \in 1..Len(l[k][t])
      BY <1>4, <2>1 DEF InLog
    <3>2. l[k] \in [1..n -> Seq(Candidate)]
      BY <2>1 DEF InLog, IsLog
    <3>3. Len(l[k][t]) \in Nat
      BY <3>1, <3>2
    <3>4. QED BY <2>1, <3>1, <3>3
<1>7. h < k0 \/ (h = k0 /\ j <= Len(l[k0][u]) - Len(cs[u]))
  BY <1>1, <1>3 DEF Taken, Took
<1>8. k < h \/ (k = h /\ i < j) \/ (k = h /\ i = j /\ t < u)
  BY <1>1, <1>2, <1>3 DEF Before
<1>9. CASE k < k0
  BY <1>1, <1>2, <1>9 DEF Taken, Took
<1>10. CASE ~(k < k0)
  <2>1. k = k0 /\ h = k0 /\ j <= Len(l[k0][u]) - Len(cs[u]) /\ (i < j \/ (i = j /\ t < u))
    BY <1>4, <1>6, <1>7, <1>8, <1>10
  <2>2. PICK r \in Nat : \A v \in DOMAIN l[1] :
           /\ Len(l[k0][v]) - Len(cs[v]) <= Turns(r, v, tn)
           /\ Len(l[k0][v]) - Len(cs[v]) = Turns(r, v, tn) \/ cs[v] = <<>>
    BY DEF Round
  <2>3. i <= Len(l[k0][t]) - Len(cs[t])
    <3>1. CASE cs[t] = <<>>
      <4>1. Len(cs[t]) = 0
        BY <3>1
      <4>2. QED BY <1>5, <1>6, <2>1, <4>1
    <3>2. CASE cs[t] # <<>>
      <4>1. Len(l[k0][t]) - Len(cs[t]) = Turns(r, t, tn)
        BY <1>4, <1>6, <2>2, <3>2
      <4>2. PICK x \in Int : x = Len(l[k0][u]) - Len(cs[u])
        <5>1. Len(l[k0][u]) \in Nat /\ Len(cs[u]) \in Nat
          BY <1>5, <1>6
        <5>2. Len(l[k0][u]) - Len(cs[u]) \in Int
          BY <5>1
        <5>3. QED BY <5>2
      <4>3. t \in Nat /\ u \in Nat /\ tn \in Nat /\ x <= Turns(r, u, tn) /\ j <= x
        BY <1>4, <1>6, <2>1, <2>2, <4>2
      <4>4. i <= Turns(r, t, tn)
        BY <1>6, <2>1, <4>3 DEF Turns
      <4>5. QED BY <4>1, <4>4
    <3>3. QED BY <3>1, <3>2
  <2>4. QED BY <1>1, <1>2, <2>1, <2>3 DEF Taken, Took
<1>11. QED BY <1>9, <1>10

\* unique_candidates: the regions of the first entries that were taken.
LEMMA UniqFirst ==
    ASSUME NEW l, NEW n, IsLog(l, n), NEW k0, NEW cs, Closed(l, k0, cs), NEW u, Uniq(l, k0, cs, u)
    PROVE  /\ \A a : a \in u <=> \E c \in Taken(l, k0, cs) : AddrOf(l, c) = a
           /\ \A a : a \in u <=> \E c \in Firsts(l) \cap Taken(l, k0, cs) : AddrOf(l, c) = a
<1>1. ASSUME NEW a \in u PROVE \E c \in Taken(l, k0, cs) : AddrOf(l, c) = a
  <2>1. PICK k, t, i : InLog(l, k, t, i) /\ Took(l, k0, cs, k, t, i) /\ l[k][t][i].addr = a
    BY DEF Uniq
  <2>2. PICK c : c = <<k, i, t>>
    OBVIOUS
  <2>3. c \in Entries(l) /\ c[1] = k /\ c[2] = i /\ c[3] = t
    BY <2>1, <2>2, EntryOf
  <2>4. c \in Taken(l, k0, cs) /\ AddrOf(l, c) = a
    BY <2>1, <2>3 DEF Taken, AddrOf
  <2>5. QED BY <2>4
<1>2. ASSUME NEW c \in Taken(l, k0, cs) PROVE AddrOf(l, c) \in u
  <2>1. c \in Entries(l) /\ Took(l, k0, cs, c[1], c[3], c[2])
    BY DEF Taken
  <2>2. InLog(l, c[1], c[3], c[2])
    BY <2>1, EntryOf
  <2>3. QED BY <2>1, <2>2 DEF Uniq, AddrOf
<1>3. ASSUME NEW a \in u PROVE \E c \in Firsts(l) \cap Taken(l, k0, cs) : AddrOf(l, c) = a
  <2>1. PICK c \in Taken(l, k0, cs) : AddrOf(l, c) = a
    BY <1>1
  <2>2. c \in Entries(l)
    BY DEF Taken
  <2>3. PICK f \in Firsts(l) : AddrOf(l, f) = AddrOf(l, c) /\ (f = c \/ Before(f, c))
    BY <2>2, FirstEntry
  <2>4. f \in Taken(l, k0, cs)
    BY <2>2, <2>3 DEF Closed, Firsts
  <2>5. QED BY <2>1, <2>3, <2>4
<1>4. QED BY <1>1, <1>2, <1>3

\* Their number.
LEMMA UniqCount ==
    ASSUME NEW l, NEW n, IsLog(l, n), NEW k0, NEW cs, Closed(l, k0, cs), NEW u, Uniq(l, k0, cs, u)
    PROVE  /\ IsFiniteSet(u) /\ IsFiniteSet(Firsts(l))
           /\ Cardinality(Firsts(l) \cap Taken(l, k0, cs)) = Cardinality(u)
<1> DEFINE G == Firsts(l) \cap Taken(l, k0, cs)
           f == [c \in G |-> AddrOf(l, c)]
<1>1. IsFiniteSet(Firsts(l)) /\ IsFiniteSet(G)
  <2>1. Firsts(l) \in SUBSET Entries(l) /\ G \in SUBSET Entries(l)
    BY DEF Firsts
  <2> HIDE DEF G
  <2>2. QED BY <2>1, EntriesFinite, FS_Subset
<1>2. \A a : a \in u <=> \E c \in G : AddrOf(l, c) = a
  BY UniqFirst
<1>3. f \in [G -> u]
  <2> HIDE DEF G
  <2>1. QED BY <1>2
<1>4. \A a \in u : \E c \in G : f[c] = a
  <2> HIDE DEF G
  <2>1. QED BY <1>2
<1>5. \A c, d \in G : f[c] = f[d] => c = d
  <2>1. ASSUME NEW c \in G, NEW d \in G, f[c] = f[d] PROVE c = d
    <3>1. AddrOf(l, c) = AddrOf(l, d) /\ c \in Firsts(l) /\ d \in Firsts(l)
      BY <2>1
    <3>2. QED BY <3>1, FirstUnique
  <2>2. QED BY <2>1
<1> HIDE DEF f
<1>6. f \in Surjection(G, u) /\ f \in Injection(G, u)
  BY <1>3, <1>4, <1>5 DEF Surjection, Injection, IsInjective
<1>7. IsFiniteSet(u) /\ Cardinality(u) = Cardinality(G)
  <2> HIDE DEF G
  <2>1. QED BY <1>1, <1>6, FS_Surjection
<1>8. QED BY <1>1, <1>7

\* The reference chooses them once the limit is reached, or all were taken.
LEMMA ChosenTaken ==
    ASSUME NEW l, NEW n, IsLog(l, n), NEW k0, NEW cs, Closed(l, k0, cs), NEW u, Uniq(l, k0, cs, u),
           NEW M \in Nat, Cardinality(u) <= M, Cardinality(u) = M \/ Entries(l) \subseteq Taken(l, k0, cs)
    PROVE  Chosen(l, M) = Firsts(l) \cap Taken(l, k0, cs)
<1> DEFINE G == Firsts(l) \cap Taken(l, k0, cs)
           P(c) == {d \in Firsts(l) : Before(d, c)}
<1>1. IsFiniteSet(Firsts(l)) /\ Cardinality(G) = Cardinality(u)
  BY UniqCount
<1>2. IsFiniteSet(G) /\ Cardinality(G) \in Nat
  <2>1. G \in SUBSET Firsts(l)
    OBVIOUS
  <2> HIDE DEF G
  <2>2. QED BY <1>1, <2>1, FS_Subset, FS_CardinalityType
<1>3. ASSUME NEW c \in Firsts(l) PROVE IsFiniteSet(P(c)) /\ Cardinality(P(c)) \in Nat
  <2>1. P(c) \in SUBSET Firsts(l)
    OBVIOUS
  <2> HIDE DEF P
  <2>2. QED BY <1>1, <2>1, FS_Subset, FS_CardinalityType
<1>4. Firsts(l) \subseteq Entries(l)
  BY DEF Firsts
<1>5. ASSUME NEW c \in G PROVE Cardinality(P(c)) < M
  <2>1. P(c) \in SUBSET (G \ {c})
    <3>1. SUFFICES ASSUME NEW d \in P(c) PROVE d \in G /\ d # c
      OBVIOUS
    <3>2. d \in Taken(l, k0, cs)
      BY <1>4 DEF Closed
    <3>3. d # c
      BY <1>4, BeforeOrder
    <3>4. QED BY <3>2, <3>3
  <2> HIDE DEF P, G
  <2>2. IsFiniteSet(G \ {c}) /\ Cardinality(G \ {c}) = Cardinality(G) - 1
    BY <1>2, FS_RemoveElement
  <2>3. Cardinality(P(c)) <= Cardinality(G \ {c})
    BY <2>1, <2>2, FS_Subset
  <2>4. Cardinality(P(c)) \in Nat
    BY <1>3 DEF G
  <2>5. QED BY <1>1, <1>2, <2>2, <2>3, <2>4
<1>6. ASSUME NEW c \in Firsts(l), c \notin Taken(l, k0, cs) PROVE ~(Cardinality(P(c)) < M)
  <2>1. Cardinality(G) = M
    BY <1>1, <1>4, <1>6
  <2>2. G \in SUBSET P(c)
    <3>1. SUFFICES ASSUME NEW d \in G PROVE Before(d, c)
      OBVIOUS
    <3>2. ~Before(c, d)
      BY <1>4, <1>6 DEF Closed
    <3>3. c # d
      BY <1>6
    <3>4. QED BY <1>4, <3>2, <3>3, BeforeOrder
  <2> HIDE DEF P, G
  <2>3. Cardinality(G) <= Cardinality(P(c))
    BY <1>3, <2>2, FS_Subset
  <2>4. QED BY <1>1, <1>2, <1>3, <2>1, <2>3
<1>7. Chosen(l, M) = {c \in Firsts(l) : Cardinality(P(c)) < M}
  BY DEF Chosen
<1> HIDE DEF P
<1>8. QED BY <1>5, <1>6, <1>7

\* The regions that come for the first time at time k, of those taken.
FirstAt(l, k0, cs, k) == {AddrOf(l, c) : c \in {c \in Firsts(l) : c \in Taken(l, k0, cs) /\ c[1] = k}}

\* A region is new iff its first entry is the one being taken.
LEMMA FirstTaken ==
    ASSUME NEW l, NEW n, IsLog(l, n), NEW k0, NEW cs, Closed(l, k0, cs), NEW u, Uniq(l, k0, cs, u),
           NEW cs2, Closed(l, k0, cs2), NEW t0, NEW i0, NEW a, TakesOnly(l, k0, cs, cs2, t0, i0, a)
    PROVE  /\ FirstAt(l, k0, cs2, k0) = FirstAt(l, k0, cs, k0) \cup ({a} \ u)
           /\ \A k : k # k0 => FirstAt(l, k0, cs2, k) = FirstAt(l, k0, cs, k)
<1>1. PICK e : e = <<k0, i0, t0>>
  OBVIOUS
<1>2. e \in Entries(l) /\ e[1] = k0 /\ e[2] = i0 /\ e[3] = t0 /\ AddrOf(l, e) = a
  BY <1>1, EntryOf DEF TakesOnly, AddrOf
<1>3. e \notin Taken(l, k0, cs)
  BY <1>2 DEF Taken, TakesOnly
<1>4. ASSUME NEW c \in Entries(l) PROVE c \in Taken(l, k0, cs2) <=> c \in Taken(l, k0, cs) \/ c = e
  <2>1. InLog(l, c[1], c[3], c[2]) /\ c = <<c[1], c[2], c[3]>>
    BY EntryOf
  <2>2. Took(l, k0, cs2, c[1], c[3], c[2]) <=>
           Took(l, k0, cs, c[1], c[3], c[2]) \/ (c[1] = k0 /\ c[3] = t0 /\ c[2] = i0)
    BY <2>1 DEF TakesOnly
  <2>3. c = e <=> (c[1] = k0 /\ c[3] = t0 /\ c[2] = i0)
    BY <1>1, <1>2, <2>1
  <2>4. QED BY <2>2, <2>3 DEF Taken
<1>5. e \in Firsts(l) <=> a \notin u
  <2>1. ASSUME e \in Firsts(l), a \in u PROVE FALSE
    <3>1. PICK d \in Taken(l, k0, cs) : AddrOf(l, d) = a
      BY <2>1, UniqFirst
    <3>2. d \in Entries(l) /\ d # e
      BY <1>3 DEF Taken
    <3>3. Before(e, d)
      BY <1>2, <2>1, <3>1, <3>2 DEF Firsts
    <3>4. QED BY <1>2, <1>3, <3>2, <3>3 DEF Closed
  <2>2. ASSUME a \notin u PROVE e \in Firsts(l)
    <3>1. PICK f \in Firsts(l) : AddrOf(l, f) = AddrOf(l, e) /\ (f = e \/ Before(f, e))
      BY <1>2, FirstEntry
    <3>2. f \in Entries(l)
      BY DEF Firsts
    <3>3. f \in Taken(l, k0, cs2)
      BY <1>2, <1>4, <3>1, <3>2 DEF Closed
    <3>4. f \notin Taken(l, k0, cs)
      BY <1>2, <2>2, <3>1, UniqFirst
    <3>5. QED BY <1>4, <3>2, <3>3, <3>4
  <2>3. QED BY <2>1, <2>2
<1>6. ASSUME NEW k, NEW b PROVE b \in FirstAt(l, k0, cs2, k) <=> b \in FirstAt(l, k0, cs, k) \/ (k = k0 /\ b = a /\ a \notin u)
  <2>1. \A c \in Firsts(l) : c \in Entries(l)
    BY DEF Firsts
  <2>2. b \in FirstAt(l, k0, cs2, k) <=> \E c \in Firsts(l) : c \in Taken(l, k0, cs2) /\ c[1] = k /\ AddrOf(l, c) = b
    BY DEF FirstAt
  <2>3. b \in FirstAt(l, k0, cs, k) <=> \E c \in Firsts(l) : c \in Taken(l, k0, cs) /\ c[1] = k /\ AddrOf(l, c) = b
    BY DEF FirstAt
  <2>4. QED BY <1>2, <1>4, <1>5, <2>1, <2>2, <2>3
<1>7. QED BY <1>6

\* The file f has the lines of the first m times, in their order.
Prefix(F, m) == IF m = 0 THEN <<>> ELSE F[m]
InOrder(l, k0, cs, f, m) ==
    \A seqs, F : /\ Len(seqs) = Len(l) /\ Flattens(F, seqs)
                 /\ \A k \in 1..m : seqs[k] = Lines(k, FirstAt(l, k0, cs, k))
                 => f = Prefix(F, m)

\* The limit, but at least one.
Most(limit) == IF limit = 0 THEN 1 ELSE limit

\* The invariant of the selection, as far as its order is concerned.
SInv ==
    /\ promotion_limit \in Nat
    /\ Closed(log, time, candidates)
    /\ Cardinality(unique_candidates) <= Most(promotion_limit)
    /\ ~finished => /\ Round(log, time, candidates, turn)
                    /\ to_promote = FirstAt(log, time, candidates, time)
                    /\ InOrder(log, time, candidates, promotion_file, time - 1)
    /\ finished => /\ InOrder(log, time, candidates, promotion_file, time)
                   /\ \/ Cardinality(unique_candidates) = Most(promotion_limit)
                      \/ Entries(log) \subseteq Taken(log, time, candidates)

\* Nothing of a time was taken at its start; the times before were used up.
LEMMA FirstAtStart ==
    ASSUME NEW l, NEW n, IsLog(l, n), NEW k0 \in 1..Len(l)
    PROVE  /\ FirstAt(l, k0, l[k0], k0) = {}
           /\ \A c \in Entries(l) : c \in Taken(l, k0, l[k0]) <=> c[1] < k0
<1>1. ASSUME NEW c \in Entries(l) PROVE c \in Taken(l, k0, l[k0]) <=> c[1] < k0
  <2>1. InLog(l, c[1], c[3], c[2])
    BY EntryOf
  <2>2. Took(l, k0, l[k0], c[1], c[3], c[2]) <=> c[1] < k0
    BY <2>1, TookNone
  <2>3. QED BY <2>2 DEF Taken
<1>2. ~(k0 < k0)
  BY DEF IsLog
<1>3. ASSUME NEW a \in FirstAt(l, k0, l[k0], k0) PROVE FALSE
  <2>1. PICK c \in Firsts(l) : c \in Taken(l, k0, l[k0]) /\ c[1] = k0
    BY DEF FirstAt
  <2>2. QED BY <1>1, <1>2, <2>1 DEF Firsts
<1>4. QED BY <1>1, <1>3

\* Initially.
LEMMA SInvInit == CInit => SInv
<1>1. SUFFICES ASSUME CInit PROVE SInv
  OBVIOUS
<1>2. /\ log \in Logs /\ promotion_limit \in Limits /\ time = 1 /\ candidates = log[1] /\ turn = 1
      /\ unique_candidates = {} /\ to_promote = {} /\ promotion_file = <<>> /\ finished = FALSE
  BY <1>1 DEF CInit
<1>3. promotion_limit \in Nat
  BY <1>2, LimitsAssumption
<1>4. PICK n : IsLog(log, n)
  BY <1>2, LogFacts
<1>5. n \in Nat \ {0} /\ 1 \in 1..Len(log) /\ 1 \in 1..n
  BY <1>4 DEF IsLog
<1>6. Round(log, time, candidates, turn) /\ Position(log, time, candidates)
  BY <1>2, <1>4, <1>5, RoundFirst, TookNone
<1>7. Closed(log, time, candidates)
  BY <1>2, <1>4, <1>5, <1>6, RoundClosed
<1>8. to_promote = FirstAt(log, time, candidates, time)
  BY <1>2, <1>4, <1>5, FirstAtStart
<1>9. InOrder(log, time, candidates, promotion_file, time - 1)
  BY <1>2 DEF InOrder, Prefix
<1>10. Cardinality(unique_candidates) <= Most(promotion_limit)
  <2>1. Cardinality({}) = 0
    BY FS_EmptySet
  <2>2. QED BY <1>2, <1>3, <2>1 DEF Most
<1>11. QED BY <1>2, <1>3, <1>6, <1>7, <1>8, <1>9, <1>10 DEF SInv

\* One more region while the limit is not reached.
LEMMA OneMore ==
    ASSUME NEW u, IsFiniteSet(u), NEW limit \in Nat, ~(u # {} /\ Cardinality(u) >= limit), NEW a
    PROVE  Cardinality(u \cup {a}) <= Most(limit)
<1>1. PICK m \in Nat : m = Cardinality(u)
  BY FS_CardinalityType
<1>2. Cardinality(u \cup {a}) = m \/ Cardinality(u \cup {a}) = m + 1
  BY <1>1, FS_AddElement
<1>3. u = {} => m = 0
  BY <1>1, FS_EmptySet
<1>4. m = 0 \/ m < limit
  BY <1>1, <1>3
<1>5. QED BY <1>2, <1>4 DEF Most

\* A turn.
LEMMA SInvTakeTurn == ASSUME CInv, SInv, TakeTurn PROVE SInv'
<1>1. PICK n : IsLog(log, n) /\ turn \in 1..n
  BY DEF CInv
<1>2. n \in Nat \ {0} /\ Tid = 1..n
  BY <1>1 DEF IsLog, Tid
<1>3. /\ Position(log, time, candidates) /\ Uniq(log, time, candidates, unique_candidates)
      /\ time \in Nat
  <2>1. Position(log, time, candidates) /\ Uniq(log, time, candidates, unique_candidates)
    BY DEF CInv
  <2>2. time \in 1..Len(log)
    BY <2>1 DEF Position
  <2>3. Len(log) \in Nat
    BY <1>1 DEF IsLog
  <2>4. QED BY <2>1, <2>2, <2>3
<1>4. /\ ~finished /\ ~done_promoting /\ log' = log /\ promotion_limit' = promotion_limit /\ time' = time
      /\ promotion_file' = promotion_file /\ finished' = finished /\ turn' = TurnAfter(turn)
  BY DEF TakeTurn, input
<1>5. /\ promotion_limit \in Nat /\ Closed(log, time, candidates)
      /\ Cardinality(unique_candidates) <= Most(promotion_limit)
      /\ Round(log, time, candidates, turn)
      /\ to_promote = FirstAt(log, time, candidates, time)
      /\ InOrder(log, time, candidates, promotion_file, time - 1)
  BY <1>4 DEF SInv
<1>6. PICK cs2 : cs2 = candidates'
  OBVIOUS
<1>7. cs2 = IF candidates[turn] = <<>> THEN candidates ELSE [candidates EXCEPT ![turn] = Tail(@)]
  BY <1>6 DEF TakeTurn
<1>8. turn' = (turn % n) + 1 /\ turn' \in 1..n
  <2>1. Cardinality(1..n) = n
    <3>1. 1 \in Int /\ n \in Int
      BY <1>2
    <3>2. Cardinality(1..n) = IF 1 > n THEN 0 ELSE n - 1 + 1
      BY <3>1, FS_Interval, Zenon
    <3>3. QED BY <1>2, <3>2
  <2>2. turn' = (turn % n) + 1
    BY <1>2, <1>4, <2>1 DEF TurnAfter
  <2>3. turn % n \in 0..(n - 1)
    BY <1>1, <1>2
  <2>4. QED BY <1>2, <2>2, <2>3
<1>9. Round(log, time, cs2, turn')
  <2>1. Round(log, time, cs2, (turn % n) + 1)
    BY <1>1, <1>3, <1>5, <1>7, RoundStep
  <2>2. QED BY <1>8, <2>1
<1>10. Position(log, time, cs2)
  <2>1. CInv'
    BY CInvTakeTurn
  <2>2. Position(log', time', candidates')
    BY <2>1 DEF CInv
  <2>3. QED BY <1>4, <1>6, <2>2
<1>11. Closed(log, time, cs2)
  <2>1. PICK t2 : t2 = turn'
    OBVIOUS
  <2>2. QED BY <1>1, <1>8, <1>9, <1>10, <2>1, RoundClosed
<1>12. /\ Cardinality(unique_candidates') <= Most(promotion_limit)
       /\ to_promote' = FirstAt(log, time, cs2, time)
       /\ \A k : k # time => FirstAt(log, time, cs2, k) = FirstAt(log, time, candidates, k)
  <2>1. CASE candidates[turn] = <<>>
    <3>1. unique_candidates' = unique_candidates /\ to_promote' = to_promote
      BY <2>1 DEF TakeTurn
    <3>2. cs2 = candidates
      BY <1>7, <2>1
    <3>3. QED BY <1>5, <3>1, <3>2
  <2>2. CASE candidates[turn] # <<>>
    <3>1. PICK a : a = Head(candidates[turn]).addr
      OBVIOUS
    <3>2. /\ unique_candidates' = unique_candidates \cup {a}
          /\ to_promote' = to_promote \cup ({a} \ unique_candidates)
      BY <2>2, <3>1 DEF TakeTurn
    <3>3. cs2 = [candidates EXCEPT ![turn] = Tail(@)]
      BY <1>7, <2>2
    <3>4. PICK i0 : TakesOnly(log, time, candidates, cs2, turn, i0, a)
      BY <1>1, <1>3, <2>2, <3>1, <3>3, TakeOne
    <3>5. /\ FirstAt(log, time, cs2, time) = FirstAt(log, time, candidates, time) \cup ({a} \ unique_candidates)
          /\ \A k : k # time => FirstAt(log, time, cs2, k) = FirstAt(log, time, candidates, k)
      BY <1>1, <1>3, <1>5, <1>11, <3>4, FirstTaken
    <3>6. IsFiniteSet(unique_candidates)
      BY <1>1, <1>3, <1>5, UniqCount
    <3>7. Cardinality(unique_candidates \cup {a}) <= Most(promotion_limit)
      BY <1>4, <1>5, <3>6, OneMore DEF done_promoting
    <3>8. QED BY <1>5, <3>2, <3>5, <3>7
  <2>3. QED BY <2>1, <2>2
<1>13. InOrder(log, time, cs2, promotion_file, time - 1)
  <2>1. \A k \in 1..(time - 1) : FirstAt(log, time, cs2, k) = FirstAt(log, time, candidates, k)
    <3>1. \A k \in 1..(time - 1) : k # time
      BY <1>3
    <3>2. QED BY <1>12, <3>1
  <2>2. QED BY <1>5, <2>1 DEF InOrder
<1>14. /\ promotion_limit' \in Nat /\ Closed(log', time', candidates')
       /\ Cardinality(unique_candidates') <= Most(promotion_limit')
       /\ Round(log', time', candidates', turn')
       /\ to_promote' = FirstAt(log', time', candidates', time')
       /\ InOrder(log', time', candidates', promotion_file', time' - 1)
  BY <1>4, <1>5, <1>6, <1>9, <1>11, <1>12, <1>13
<1>15. ~finished'
  BY <1>4
<1>16. QED BY <1>14, <1>15 DEF SInv

\* The lines of one more time behind those of the times before.
LEMMA InOrderNext ==
    ASSUME NEW l, NEW k0 \in Nat \ {0}, k0 <= Len(l), Len(l) \in Nat, NEW cs, NEW f, InOrder(l, k0, cs, f, k0 - 1),
           NEW s \in Seq(Line), s = Lines(k0, FirstAt(l, k0, cs, k0))
    PROVE  InOrder(l, k0, cs, f \o s, k0)
<1>1. SUFFICES ASSUME NEW seqs, NEW F, Len(seqs) = Len(l), Flattens(F, seqs),
                      \A k \in 1..k0 : seqs[k] = Lines(k, FirstAt(l, k0, cs, k))
               PROVE  f \o s = Prefix(F, k0)
  BY DEF InOrder
<1>2. \A k \in 1..(k0 - 1) : k \in 1..k0
  OBVIOUS
<1>3. f = Prefix(F, k0 - 1)
  BY <1>1, <1>2 DEF InOrder
<1>4. seqs[k0] = s
  BY <1>1
<1>5. F[k0] = IF k0 = 1 THEN seqs[k0] ELSE F[k0 - 1] \o seqs[k0]
  <2>1. k0 \in 1..Len(seqs)
    BY <1>1
  <2>2. F = [i \in 1..Len(seqs) |-> IF i = 1 THEN seqs[i] ELSE F[i - 1] \o seqs[i]]
    BY <1>1 DEF Flattens
  <2>3. QED BY <2>1, <2>2, Zenon
<1>6. CASE k0 = 1
  <2>1. f = <<>> /\ F[k0] = s
    BY <1>3, <1>4, <1>5, <1>6 DEF Prefix
  <2>2. <<>> \o s = s
    OBVIOUS
  <2>3. QED BY <1>6, <2>1, <2>2 DEF Prefix
<1>7. CASE k0 # 1
  <2>1. k0 - 1 # 0
    BY <1>7
  <2>2. f = F[k0 - 1] /\ F[k0] = F[k0 - 1] \o s
    BY <1>3, <1>4, <1>5, <1>7, <2>1 DEF Prefix
  <2>3. QED BY <2>2 DEF Prefix
<1>8. QED BY <1>6, <1>7

\* All entries of a time that is used up were taken.
LEMMA TakenAll ==
    ASSUME NEW l, NEW n, IsLog(l, n), NEW k0, NEW cs, Position(l, k0, cs), \A t \in 1..n : cs[t] = <<>>
    PROVE  \A c \in Entries(l) : c \in Taken(l, k0, cs) <=> c[1] <= k0
<1>1. ASSUME NEW c \in Entries(l) PROVE c \in Taken(l, k0, cs) <=> c[1] <= k0
  <2>1. InLog(l, c[1], c[3], c[2])
    BY EntryOf
  <2>2. Took(l, k0, cs, c[1], c[3], c[2]) <=> c[1] <= k0
    BY <2>1, TookAll
  <2>3. QED BY <2>2 DEF Taken
<1>2. QED BY <1>1

\* The limit is reached.
LEMMA LimitReached ==
    ASSUME NEW u, IsFiniteSet(u), NEW limit \in Nat, u # {}, Cardinality(u) >= limit, Cardinality(u) <= Most(limit)
    PROVE  Cardinality(u) = Most(limit)
<1>1. PICK m \in Nat : m = Cardinality(u)
  BY FS_CardinalityType
<1>2. m # 0
  BY <1>1, FS_EmptySet
<1>3. QED BY <1>1, <1>2 DEF Most

\* The end of a time.
LEMMA SInvEndTime == ASSUME CInv, SInv, EndTime PROVE SInv'
<1>1. PICK n : IsLog(log, n) /\ turn \in 1..n
  BY DEF CInv
<1>2. n \in Nat \ {0} /\ Tid = 1..n /\ Len(log) \in Nat \ {0}
  BY <1>1 DEF IsLog, Tid
<1>3. /\ Position(log, time, candidates) /\ Uniq(log, time, candidates, unique_candidates)
      /\ time \in 1..Len(log) /\ time \in Nat \ {0} /\ time <= Len(log)
  <2>1. Position(log, time, candidates) /\ Uniq(log, time, candidates, unique_candidates)
    BY DEF CInv
  <2>2. time \in 1..Len(log)
    BY <2>1 DEF Position
  <2>3. QED BY <1>2, <2>1, <2>2
<1>4. PICK s, g : s = Lines(time, to_promote) /\ g = promotion_file'
  OBVIOUS
<1>5. /\ ~finished /\ log' = log /\ promotion_limit' = promotion_limit /\ g = promotion_file \o s
      /\ to_promote' = {} /\ turn' = 1 /\ unique_candidates' = unique_candidates
      /\ finished' = (done_promoting \/ time = Len(log)) /\ (done_promoting \/ Exhausted)
  BY <1>4 DEF EndTime, input
<1>6. /\ promotion_limit \in Nat /\ Closed(log, time, candidates)
      /\ Cardinality(unique_candidates) <= Most(promotion_limit)
      /\ to_promote = FirstAt(log, time, candidates, time)
      /\ InOrder(log, time, candidates, promotion_file, time - 1)
  BY <1>5 DEF SInv
<1>7. s \in Seq(Line)
  <2>1. to_promote \in SUBSET Nat /\ IsFiniteSet(to_promote)
    BY DEF CInv, Written
  <2>2. IsLines(s, time, to_promote)
    BY <1>3, <1>4, <2>1, LinesWritten
  <2>3. QED BY <2>2 DEF IsLines
<1>8. InOrder(log, time, candidates, g, time)
  BY <1>2, <1>3, <1>4, <1>5, <1>6, <1>7, InOrderNext
<1>9. promotion_limit' \in Nat /\ Cardinality(unique_candidates') <= Most(promotion_limit')
  BY <1>5, <1>6
<1>10. CASE finished'
  <2>1. time' = time /\ candidates' = candidates
    BY <1>10 DEF EndTime
  <2>2. Cardinality(unique_candidates) = Most(promotion_limit) \/ Entries(log) \subseteq Taken(log, time, candidates)
    <3>1. CASE done_promoting
      <4>1. IsFiniteSet(unique_candidates)
        BY <1>1, <1>3, <1>6, UniqCount
      <4>2. QED BY <1>6, <3>1, <4>1, LimitReached DEF done_promoting
    <3>2. CASE ~done_promoting
      <4>1. time = Len(log) /\ \A t \in 1..n : candidates[t] = <<>>
        BY <1>2, <1>5, <1>10, <3>2 DEF Exhausted
      <4>2. ASSUME NEW c \in Entries(log) PROVE c[1] <= time
        <5>1. InLog(log, c[1], c[3], c[2])
          BY <1>1, EntryOf
        <5>2. QED BY <1>2, <4>1, <5>1 DEF InLog
      <4>3. QED BY <1>1, <1>3, <4>1, <4>2, TakenAll
    <3>3. QED BY <3>1, <3>2
  <2>3. /\ Closed(log', time', candidates') /\ InOrder(log', time', candidates', promotion_file', time')
        /\ \/ Cardinality(unique_candidates') = Most(promotion_limit')
           \/ Entries(log') \subseteq Taken(log', time', candidates')
    BY <1>4, <1>5, <1>6, <1>8, <2>1, <2>2
  <2>4. QED BY <1>9, <1>10, <2>3 DEF SInv
<1>11. CASE ~finished'
  <2>1. time' = time + 1 /\ candidates' = log[time + 1] /\ time # Len(log) /\ \A t \in 1..n : candidates[t] = <<>>
    BY <1>2, <1>5, <1>11 DEF EndTime, Exhausted
  <2>2. PICK k1 : k1 = time + 1
    OBVIOUS
  <2>3. k1 \in 1..Len(log) /\ k1 - 1 = time /\ 1 \in 1..n
    BY <1>2, <1>3, <2>1, <2>2
  <2>4. Round(log, k1, log[k1], 1) /\ Position(log, k1, log[k1])
    BY <1>1, <2>3, RoundFirst, TookNone
  <2>5. Closed(log, k1, log[k1])
    BY <1>1, <2>3, <2>4, RoundClosed
  <2>6. FirstAt(log, k1, log[k1], k1) = {} /\ \A c \in Entries(log) : c \in Taken(log, k1, log[k1]) <=> c[1] < k1
    BY <1>1, <2>3, FirstAtStart
  <2>7. Taken(log, k1, log[k1]) = Taken(log, time, candidates)
    <3>1. \A c \in Entries(log) : c \in Taken(log, time, candidates) <=> c[1] <= time
      BY <1>1, <1>3, <2>1, TakenAll
    <3>2. \A c \in Entries(log) : c[1] < k1 <=> c[1] <= time
      <4>1. \A c \in Entries(log) : c[1] \in Nat
        BY <1>1, EntryOf
      <4>2. QED BY <1>3, <2>2, <4>1
    <3>3. QED BY <2>6, <3>1, <3>2 DEF Taken
  <2>8. InOrder(log, k1, log[k1], g, k1 - 1)
    <3>1. \A k : FirstAt(log, k1, log[k1], k) = FirstAt(log, time, candidates, k)
      BY <2>7 DEF FirstAt
    <3>2. InOrder(log, k1, log[k1], g, time)
      BY <1>8, <3>1 DEF InOrder
    <3>3. QED BY <2>3, <3>2
  <2>9. log' = log /\ time' = k1 /\ candidates' = log[k1] /\ promotion_file' = g /\ turn' = 1 /\ to_promote' = {}
    BY <1>4, <1>5, <2>1, <2>2
  <2>10. /\ Closed(log', time', candidates') /\ Round(log', time', candidates', turn')
         /\ to_promote' = FirstAt(log', time', candidates', time')
         /\ InOrder(log', time', candidates', promotion_file', time' - 1)
    BY <2>4, <2>5, <2>6, <2>8, <2>9
  <2>11. QED BY <1>9, <1>11, <2>10 DEF SInv
<1>12. QED BY <1>10, <1>11

\* The steps of the launched processes, and stuttering.
LEMMA SInvUnchanged == ASSUME SInv, UNCHANGED cvars PROVE SInv'
<1>1. /\ log' = log /\ promotion_limit' = promotion_limit /\ time' = time /\ candidates' = candidates /\ turn' = turn
      /\ unique_candidates' = unique_candidates /\ to_promote' = to_promote
      /\ promotion_file' = promotion_file /\ finished' = finished
  BY DEF cvars
<1>2. /\ promotion_limit' \in Nat /\ Closed(log', time', candidates')
      /\ Cardinality(unique_candidates') <= Most(promotion_limit')
  BY <1>1 DEF SInv
<1>3. CASE finished
  <2>1. /\ InOrder(log', time', candidates', promotion_file', time')
        /\ \/ Cardinality(unique_candidates') = Most(promotion_limit')
           \/ Entries(log') \subseteq Taken(log', time', candidates')
    BY <1>1, <1>3 DEF SInv
  <2>2. QED BY <1>1, <1>2, <1>3, <2>1 DEF SInv
<1>4. CASE ~finished
  <2>1. /\ Round(log', time', candidates', turn')
        /\ to_promote' = FirstAt(log', time', candidates', time')
        /\ InOrder(log', time', candidates', promotion_file', time' - 1)
    BY <1>1, <1>4 DEF SInv
  <2>2. QED BY <1>1, <1>2, <1>4, <2>1 DEF SInv
<1>5. QED BY <1>3, <1>4

\* A time at which nothing is promoted has no lines.
LEMMA NoLines ==
    ASSUME NEW now \in Nat \ {0} PROVE Lines(now, {}) = <<>>
<1>1. PICK s : s = Lines(now, {})
  OBVIOUS
<1>2. IsLines(s, now, {})
  <2>1. {} \in SUBSET Nat /\ IsFiniteSet({})
    BY FS_EmptySet
  <2>2. QED BY <1>1, <2>1, LinesWritten
<1>3. s \in Seq(Line) /\ \A i \in 1..Len(s) : FALSE
  BY <1>2 DEF IsLines
<1>4. Len(s) = 0
  <2>1. Len(s) \in Nat
    BY <1>3
  <2>2. Len(s) # 0 => 1 \in 1..Len(s)
    BY <2>1
  <2>3. QED BY <1>3, <2>2
<1>5. QED BY <1>1, <1>3, <1>4

\* The times behind the last one handled add nothing.
LEMMA FlattenRest ==
    ASSUME NEW N \in Nat, NEW k0 \in 1..N, NEW seqs, Len(seqs) = N, NEW F, Flattens(F, seqs),
           NEW f \in Seq(Line), F[k0] = f, \A k \in (k0 + 1)..N : seqs[k] = <<>>
    PROVE  F[N] = f
<1>1. ASSUME NEW i \in 1..N, i # 1 PROVE F[i] = F[i - 1] \o seqs[i]
  <2>1. F = [j \in 1..Len(seqs) |-> IF j = 1 THEN seqs[j] ELSE F[j - 1] \o seqs[j]]
    BY DEF Flattens
  <2>2. QED BY <1>1, <2>1, Zenon
<1> DEFINE m == N - k0
           T == {j \in 0..m : F[k0 + j] = f}
<1>2. m \in Nat /\ k0 + m = N /\ k0 + 0 = k0
  OBVIOUS
<1>3. 0 \in T
  BY <1>2
<1>4. ASSUME NEW j \in 0..m, j # m, j \in T PROVE j + 1 \in T
  <2>1. /\ k0 + (j + 1) \in 1..N /\ k0 + (j + 1) # 1 /\ (k0 + (j + 1)) - 1 = k0 + j
        /\ k0 + (j + 1) \in (k0 + 1)..N /\ j + 1 \in 0..m
    BY <1>4
  <2>2. F[k0 + (j + 1)] = F[k0 + j] \o seqs[k0 + (j + 1)]
    BY <1>1, <2>1
  <2>3. F[k0 + j] = f /\ seqs[k0 + (j + 1)] = <<>>
    BY <1>4, <2>1
  <2>4. f \o <<>> = f
    OBVIOUS
  <2>5. QED BY <2>1, <2>2, <2>3, <2>4
<1>5. \A j \in 0..m : j # m /\ j \in T => j + 1 \in T
  BY <1>4
<1>6. \A j \in 0..m : j \in T
  <2> HIDE DEF T, m
  <2>1. QED BY <1>2, <1>3, <1>5, UpToInduction
<1>7. m \in T
  <2> HIDE DEF T, m
  <2>1. QED BY <1>2, <1>6
<1>8. QED BY <1>2, <1>7

\* The file is that of the reference.
LEMMA SelectedFile ==
    ASSUME CInv, SInv, finished
    PROVE  promotion_file = FlattenSeq([k \in DOMAIN log |->
              Lines(k, {AddrOf(log, c) : c \in {c \in Chosen(log, Most(promotion_limit)) : c[1] = k}})])
<1>1. PICK n : IsLog(log, n)
  BY DEF CInv
<1>2. PICK N \in Nat \ {0} : N = Len(log) /\ DOMAIN log = 1..N
  BY <1>1 DEF IsLog
<1>3. /\ Position(log, time, candidates) /\ Uniq(log, time, candidates, unique_candidates)
      /\ promotion_file \in Seq(Line)
  BY DEF CInv, Written
<1>4. time \in 1..N /\ time \in Nat /\ time # 0
  <2>1. time \in 1..N
    BY <1>2, <1>3 DEF Position
  <2>2. QED BY <1>2, <2>1
<1>5. /\ promotion_limit \in Nat /\ Closed(log, time, candidates)
      /\ Cardinality(unique_candidates) <= Most(promotion_limit)
      /\ InOrder(log, time, candidates, promotion_file, time)
      /\ \/ Cardinality(unique_candidates) = Most(promotion_limit)
         \/ Entries(log) \subseteq Taken(log, time, candidates)
  BY DEF SInv
<1>6. Chosen(log, Most(promotion_limit)) = Firsts(log) \cap Taken(log, time, candidates)
  <2>1. Most(promotion_limit) \in Nat
    BY <1>5 DEF Most
  <2>2. QED BY <1>1, <1>3, <1>5, <2>1, ChosenTaken
<1> DEFINE At1(k) == {AddrOf(log, c) : c \in {c \in Chosen(log, Most(promotion_limit)) : c[1] = k}}
           seqs == [k \in 1..N |-> Lines(k, At1(k))]
<1>7. \A k : At1(k) = FirstAt(log, time, candidates, k)
  BY <1>6 DEF FirstAt
<1>8. \A k \in 1..N : seqs[k] = Lines(k, FirstAt(log, time, candidates, k))
  <2> HIDE DEF At1
  <2>1. QED BY <1>7
<1>9. Len(seqs) = N
  <2>1. PICK S : S = {seqs[k] : k \in 1..N}
    OBVIOUS
  <2>2. seqs \in [1..N -> S]
    <3> HIDE DEF At1
    <3>1. QED BY <2>1
  <2> HIDE DEF seqs
  <2>3. QED BY <1>2, <2>2, FunctionIsList
<1>10. FlattenSeq([k \in DOMAIN log |-> Lines(k, At1(k))]) = FlattenSeq(seqs)
  BY <1>2
<1> HIDE DEF seqs, At1
<1>11. PICK F : Flattens(F, seqs) /\ FlattenSeq(seqs) = F[N]
  BY <1>2, <1>9, FlattenEquation
<1>12. promotion_file = F[time]
  <2>1. \A k \in 1..time : seqs[k] = Lines(k, FirstAt(log, time, candidates, k))
    BY <1>4, <1>8
  <2>2. promotion_file = Prefix(F, time)
    BY <1>2, <1>5, <1>9, <1>11, <2>1 DEF InOrder
  <2>3. QED BY <1>4, <2>2 DEF Prefix
<1>13. ASSUME NEW k \in (time + 1)..N PROVE seqs[k] = <<>>
  <2>1. k \in 1..N /\ k \in Nat \ {0} /\ k > time
    BY <1>4
  <2>2. ASSUME NEW c \in Entries(log), c[1] = k PROVE c \notin Taken(log, time, candidates)
    <3>1. ~(k < time) /\ k # time
      BY <1>4, <2>1
    <3>2. QED BY <2>2, <3>1 DEF Taken, Took
  <2>3. FirstAt(log, time, candidates, k) = {}
    BY <2>2 DEF FirstAt, Firsts
  <2>4. QED BY <1>8, <2>1, <2>3, NoLines
<1>14. F[N] = promotion_file
  BY <1>2, <1>3, <1>4, <1>9, <1>11, <1>12, <1>13, FlattenRest
<1>15. QED BY <1>10, <1>11, <1>14 DEF At1

\* The file has exactly the candidates that the reference chooses, at their
\* times and in its order, for every log and every limit (the round robin of
\* write_promotions in get_promotions_mt.py).
THEOREM PipelineSelects == Spec => []SelectionExact
<1>1. Init => SInv
  BY SInvInit DEF Init
<1>2. CInv /\ PInv /\ SInv /\ [Next]_vars => SInv'
  <2>1. SUFFICES ASSUME CInv, PInv, SInv, [Next]_vars PROVE SInv'
    OBVIOUS
  <2>2. CASE Select
    BY <2>1, <2>2, SInvTakeTurn, SInvEndTime DEF Select, CNext
  <2>3. CASE UNCHANGED cvars
    BY <2>1, <2>3, SInvUnchanged
  <2>4. CASE UNCHANGED vars
    BY <2>3, <2>4 DEF vars
  <2>5. CASE Next
    BY <2>1, <2>2, <2>3, <2>5, NextCases DEF Start
  <2>6. QED BY <2>1, <2>4, <2>5
<1>3. ASSUME CInv, SInv PROVE SelectionExact
  <2>1. finished => promotion_file = FlattenSeq([k \in DOMAIN log |->
              Lines(k, {AddrOf(log, c) : c \in {c \in Chosen(log, Most(promotion_limit)) : c[1] = k}})])
    BY <1>3, SelectedFile
  <2>2. QED BY <2>1 DEF SelectionExact, Most
<1>4. QED BY <1>1, <1>2, <1>3, PipelineInvariant, PTL DEF Spec
=============================================================================
