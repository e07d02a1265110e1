---------------------------- MODULE PccMtProofs -----------------------------
(***************************************************************************)
(* Proofs about the multi-threaded simulator, for every number of threads  *)
(* and pages, every geometry of the caches and every interleaving.         *)
(***************************************************************************)
EXTENDS PccMt, TlbProofs

\* What the constants of PccMt are.
LEMMA MtSizes ==
    /\ Written \in SUBSET Page
    /\ Wrap \in Nat \ {0} /\ MaxAccesses \in Nat \ {0}
BY MtAssumption

(***************************************************************************)
(* The inductive invariant behind the type invariant.  A thread inside a   *)
(* callback knows its page; the addresses it has still to summarize are    *)
(* pairwise different and in its PCC; there are some exactly while it is   *)
(* in the loop; and the PCC of every thread is sound.                      *)
(***************************************************************************)
CallSet == [pc : Point, page : Page \cup {None}, todo : Seq(Base), is_2m : BOOLEAN]

CallOK(c, s) ==
    /\ c \in CallSet
    /\ c.pc \in {"summary", "promote", "lookup", "walk", "pcc", "insert", "lose"} => c.page \in Page
    /\ c.todo # <<>> <=> c.pc \in {"summary", "promote"}
    /\ Len(c.todo) <= PccSize
    /\ \A i, j \in 1..Len(c.todo) : c.todo[i] = c.todo[j] => i = j
    /\ \A i \in 1..Len(c.todo) : Holds(s, c.todo[i])

MtInv ==
    /\ core \in [Thread -> MachineSet]
    /\ num_accesses \in [Thread -> 0..(Wrap - 1)]
    /\ pcc_promotions \in SUBSET Base
    /\ evicted \in Base \cup {None}
    /\ call \in [Thread -> CallSet]
    /\ \A t \in Thread : /\ Sound(core[t].pcc)
                         /\ CallOK(call[t], core[t].pcc)
                         /\ call[t].pc = "storing" => WriteAddr \in Page

(***************************************************************************)
(* The inductive invariant behind the other safety properties: what the    *)
(* TLBs and the PCC of a thread do not hold, P being the promoted regions  *)
(* and D those that the thread promoted itself; and that what the thread   *)
(* remembers of pcc_promotions may be out of date only for a region which  *)
(* another thread promoted.                                                *)
(***************************************************************************)
CoreGood(c, P, D) ==
    /\ \A b \in Region : CacheHit(c.l1_2m, b) \/ CacheHit(c.l2, b) => b \in P
    /\ \A p \in Page : BaseOf(p) \in D => ~CacheHit(c.l2, p)
    /\ \A b \in Region \cap D : ~Holds(c.pcc, b)

MemoryGood(c, P, D) ==
    c.pc \in {"walk", "insert"} =>
        IF c.is_2m THEN BaseOf(c.page) \in P ELSE BaseOf(c.page) \notin D

MtGood ==
    /\ shot \in [Thread -> SUBSET pcc_promotions]
    /\ \A t \in Thread : CoreGood(core[t], pcc_promotions, shot[t])
    /\ \A t \in Thread : MemoryGood(call[t], pcc_promotions, shot[t])

(***************************************************************************)
(* The machine a thread sees, and what it writes back.                     *)
(***************************************************************************)
LEMMA ViewFacts ==
    ASSUME MtInv, NEW t \in Thread
    PROVE  /\ View(t) \in MachineSet
           /\ View(t).l1_4k = core[t].l1_4k /\ View(t).l1_2m = core[t].l1_2m
           /\ View(t).l2 = core[t].l2 /\ View(t).pcc = core[t].pcc
           /\ View(t).reuse = core[t].reuse
           /\ View(t).promoted = pcc_promotions /\ View(t).evicted = evicted
           /\ Sound(View(t).pcc)
<1>1. core[t] \in MachineSet /\ Sound(core[t].pcc)
  BY DEF MtInv
<1>2. pcc_promotions \in SUBSET Base /\ evicted \in Base \cup {None}
  BY DEF MtInv
<1>3. /\ View(t) \in MachineSet
      /\ View(t).l1_4k = core[t].l1_4k /\ View(t).l1_2m = core[t].l1_2m
      /\ View(t).l2 = core[t].l2 /\ View(t).pcc = core[t].pcc
      /\ View(t).reuse = core[t].reuse
      /\ View(t).promoted = pcc_promotions /\ View(t).evicted = evicted
  BY <1>1, <1>2 DEF View, MachineSet
<1>4. QED BY <1>1, <1>3

\* The machine a thread takes it to be differs in whether its region is
\* promoted.
LEMMA RememberedFacts ==
    ASSUME MtInv, NEW t \in Thread, call[t].page \in Page
    PROVE  LET r == Remembered(t)
           IN  /\ r \in MachineSet
               /\ r.l1_4k = View(t).l1_4k /\ r.l1_2m = View(t).l1_2m /\ r.l2 = View(t).l2
               /\ r.pcc = View(t).pcc /\ r.reuse = View(t).reuse
               /\ BaseOf(call[t].page) \in r.promoted <=> call[t].is_2m
<1> DEFINE v == View(t)
           base == BaseOf(call[t].page)
           P == IF call[t].is_2m THEN v.promoted \cup {base} ELSE v.promoted \ {base}
           r == [v EXCEPT !.promoted = P]
<1>1. v \in MachineSet /\ base \in Base
  BY ViewFacts, Numbers
<1>2. Remembered(t) = r
  BY DEF Remembered
<1>3. call[t].is_2m \in BOOLEAN
  BY DEF MtInv, CallSet
<1> HIDE DEF v, base
<1>4. v.promoted \in SUBSET Base
  BY <1>1 DEF MachineSet
<1>5. P \in SUBSET Base /\ (base \in P <=> call[t].is_2m)
  BY <1>1, <1>3, <1>4
<1> HIDE DEF P
<1>6. /\ r \in MachineSet
      /\ r.l1_4k = v.l1_4k /\ r.l1_2m = v.l1_2m /\ r.l2 = v.l2
      /\ r.pcc = v.pcc /\ r.reuse = v.reuse /\ r.promoted = P
  BY <1>1, <1>5 DEF MachineSet
<1>7. QED BY <1>2, <1>5, <1>6 DEF v, base

\* Thread t has changed its core to the TLBs and the PCC of m and the promoted
\* regions to those of m.
Changed(t, m) ==
    /\ core' \in [Thread -> MachineSet]
    /\ \A u \in Thread : u # t => core'[u] = core[u]
    /\ core'[t].l1_2m = m.l1_2m /\ core'[t].l2 = m.l2 /\ core'[t].pcc = m.pcc
    /\ pcc_promotions' = m.promoted
    /\ m \in MachineSet
    /\ evicted' \in Base \cup {None}

\* A thread that writes back m changes its core, the promotions and the victim to
\* those of m.
LEMMA WritesChanged ==
    ASSUME MtInv, NEW t \in Thread, NEW m \in MachineSet, Writes(t, m)
    PROVE  Changed(t, m)
<1> DEFINE c == [m EXCEPT !.promoted = {}, !.evicted = None]
<1>1. /\ c \in MachineSet
      /\ c.l1_2m = m.l1_2m /\ c.l2 = m.l2 /\ c.pcc = m.pcc
      /\ m.evicted \in Base \cup {None}
  BY DEF MachineSet
<1>2. core' = [core EXCEPT ![t] = c] /\ pcc_promotions' = m.promoted /\ evicted' = m.evicted
  BY DEF Writes
<1> HIDE DEF c
<1>3. core \in [Thread -> MachineSet]
  BY DEF MtInv
<1>4. QED BY <1>1, <1>2, <1>3 DEF Changed

\* A thread that writes nothing leaves the machine it sees.
LEMMA UnchangedChanged ==
    ASSUME MtInv, NEW t \in Thread, UNCHANGED <<core, pcc_promotions, evicted>>
    PROVE  Changed(t, View(t))
BY ViewFacts DEF Changed, MtInv

\* What a step of thread t has to show.
LEMMA StepInv ==
    ASSUME MtInv, NEW t \in Thread, NEW m, Changed(t, m), Sound(m.pcc),
           NEW c, call' = [call EXCEPT ![t] = c], CallOK(c, m.pcc), c.pc # "storing",
           num_accesses' \in [Thread -> 0..(Wrap - 1)],
           WriteAddr' = WriteAddr
    PROVE  MtInv'
<1>1. c \in CallSet /\ call \in [Thread -> CallSet]
  BY DEF CallOK, MtInv
<1>2. call' \in [Thread -> CallSet]
  BY <1>1
<1>3. ASSUME NEW u \in Thread
      PROVE  /\ Sound(core'[u].pcc)
             /\ CallOK(call'[u], core'[u].pcc)
             /\ call'[u].pc = "storing" => WriteAddr' \in Page
  <2>1. CASE u = t
    <3>1. call'[u] = c /\ core'[u].pcc = m.pcc
      BY <1>1, <2>1 DEF Changed
    <3>2. QED BY <3>1
  <2>2. CASE u # t
    <3>1. call'[u] = call[u] /\ core'[u] = core[u]
      BY <1>1, <2>2 DEF Changed
    <3>2. QED BY <3>1 DEF MtInv
  <2>3. QED BY <2>1, <2>2
<1>4. /\ core' \in [Thread -> MachineSet]
      /\ pcc_promotions' \in SUBSET Base
      /\ evicted' \in Base \cup {None}
  BY DEF Changed, MachineSet
<1>5. QED BY <1>2, <1>3, <1>4 DEF MtInv

\* The calls that a callback leaves behind outside the loop of a summary.
LEMMA CallOutside ==
    /\ \A s : CallOK(Idle, s)
    /\ \A s, p : p \in Page => CallOK([Idle EXCEPT !.pc = "storing", !.page = p], s)
    /\ \A s, c : /\ c \in CallSet /\ c.todo = <<>> /\ c.pc \notin {"summary", "promote"}
                  /\ c.page \in Page
                  => CallOK(c, s)
<1>1. <<>> \in Seq(Base) /\ Len(<<>>) = 0 /\ PccSize \in Nat
  BY Sizes
<1>2. Idle = [pc |-> "idle", page |-> None, todo |-> <<>>, is_2m |-> FALSE]
  BY DEF Idle
<1>3. ASSUME NEW c \in CallSet, c.todo = <<>>, c.pc \notin {"summary", "promote"},
             c.pc # "idle" => c.page \in Page, NEW s
      PROVE  CallOK(c, s)
  BY <1>1, <1>3 DEF CallOK
<1>4. Idle \in CallSet /\ Idle.todo = <<>> /\ Idle.pc = "idle"
  BY <1>1, <1>2 DEF CallSet, Point
<1>5. ASSUME NEW p \in Page
      PROVE  LET c == [Idle EXCEPT !.pc = "storing", !.page = p]
             IN  c \in CallSet /\ c.todo = <<>> /\ c.pc = "storing" /\ c.page = p
  BY <1>1, <1>2 DEF CallSet, Point
<1>6. QED BY <1>3, <1>4, <1>5

\* The address at the head of the list, and the call that NextAddress leaves:
\* its list is in the PCC r if r lost at most the head.
Moved(c) == [c EXCEPT !.todo = Tail(@), !.pc = IF Len(c.todo) = 1 THEN "lookup" ELSE "summary"]

\* Taking the head off a summary's list keeps the call well formed.
LEMMA MovedCall ==
    ASSUME NEW c, NEW s, NEW r, CallOK(c, s), c.pc \in {"summary", "promote"},
           \A u : Holds(s, u) /\ u # Head(c.todo) => Holds(r, u)
    PROVE  /\ Head(c.todo) \in Base /\ Holds(s, Head(c.todo))
           /\ CallOK(Moved(c), r)
           /\ Moved(c).pc \in {"summary", "lookup"}
           /\ Range(c.todo) \ Range(Moved(c).todo) \subseteq {Head(c.todo)}
<1> DEFINE todo == c.todo
           tl == Tail(todo)
           d == Moved(c)
<1>1. c \in CallSet /\ todo \in Seq(Base) /\ todo # <<>> /\ c.page \in Page
  BY DEF CallOK, CallSet
<1>2. /\ Len(todo) \in Nat \ {0} /\ Len(todo) <= PccSize
      /\ \A i, j \in 1..Len(todo) : todo[i] = todo[j] => i = j
      /\ \A i \in 1..Len(todo) : Holds(s, todo[i])
  BY <1>1, EmptySeq DEF CallOK
<1>3. /\ Head(todo) \in Base /\ Head(todo) = todo[1]
      /\ tl \in Seq(Base) /\ Len(tl) = Len(todo) - 1
      /\ \A i \in 1..Len(tl) : tl[i] = todo[i + 1]
  BY <1>1, HeadTailProperties
<1>4. /\ d \in CallSet /\ d.todo = tl /\ d.page \in Page
      /\ d.pc = IF Len(todo) = 1 THEN "lookup" ELSE "summary"
  BY <1>1, <1>3 DEF Moved, CallSet, Point
<1> HIDE DEF todo, tl, d
<1>5. tl # <<>> <=> Len(todo) # 1
  <2>1. tl = <<>> => Len(tl) = 0
    OBVIOUS
  <2>2. tl # <<>> => Len(tl) # 0
    BY <1>3, EmptySeq
  <2>3. QED BY <1>2, <1>3, <2>1, <2>2
<1>6. PccSize \in Nat /\ Len(tl) \in Nat /\ Len(tl) <= PccSize
  BY <1>2, <1>3, Sizes
<1>7. \A i \in 1..Len(tl) : i + 1 \in 1..Len(todo) /\ i + 1 # 1
  BY <1>2, <1>3
<1>8. \A i, j \in 1..Len(tl) : tl[i] = tl[j] => i = j
  BY <1>2, <1>3, <1>7
<1>9. ASSUME NEW i \in 1..Len(tl) PROVE Holds(r, tl[i])
  <2>1. tl[i] = todo[i + 1] /\ Holds(s, todo[i + 1])
    BY <1>2, <1>3, <1>7
  <2>2. 1 \in 1..Len(todo)
    BY <1>2
  <2>3. todo[i + 1] # Head(todo)
    BY <1>2, <1>3, <1>7, <2>2
  <2>4. QED BY <2>1, <2>3 DEF todo
<1>10. CallOK(d, r)
  BY <1>4, <1>5, <1>6, <1>8, <1>9 DEF CallOK
<1>11. Range(todo) \ Range(tl) \subseteq {Head(todo)}
  <2>1. ASSUME NEW i \in 1..Len(todo), todo[i] # todo[1] PROVE todo[i] \in Range(tl)
    <3>1. i # 1
      BY <2>1
    <3>2. i - 1 \in 1..Len(tl) /\ tl[i - 1] = todo[i]
      BY <1>2, <1>3, <3>1
    <3>3. QED BY <1>3, <3>2 DEF Range
  <2>2. DOMAIN todo = 1..Len(todo)
    BY <1>1 DEF todo
  <2>3. QED BY <1>3, <2>1, <2>2 DEF Range
<1>12. Holds(s, Head(todo))
  BY <1>2, <1>3
<1>13. d.pc \in {"summary", "lookup"}
  BY <1>4
<1>14. QED BY <1>3, <1>4, <1>10, <1>11, <1>12, <1>13 DEF todo, d

\* Thread t goes to machine m and call c, and every address that leaves its
\* list is promoted; if c remembers pcc_promotions, it has just read it.
StepOf(t, m, c) ==
    /\ Changed(t, m) /\ Sound(m.pcc)
    /\ pcc_promotions \subseteq m.promoted
    /\ call' = [call EXCEPT ![t] = c]
    /\ CallOK(c, m.pcc) /\ c.pc # "storing"
    /\ Range(call[t].todo) \ Range(c.todo) \subseteq m.promoted
    /\ c.pc \in {"walk", "insert"} => c.is_2m = (BaseOf(c.page) \in pcc_promotions)

\* A call of thread t with nothing on its list.
LEMMA NothingListed ==
    ASSUME MtInv, NEW t \in Thread, call[t].pc \notin {"summary", "promote"}, NEW X, NEW Y
    PROVE  Range(call[t].todo) \ X \subseteq Y
<1>1. call[t].todo = <<>>
  BY DEF MtInv, CallOK
<1>2. QED BY <1>1 DEF Range

\* The TLB lookup: the start of a page walk, or an access that ends there.
LEMMA LookupStep ==
    ASSUME MtInv, NEW t \in Thread, NEW p \in Page,
           call[t].pc \notin {"summary", "promote"}, Lookup(t, p)
    PROVE  \E m, c : StepOf(t, m, c) /\ (m = View(t) \/ m = AccessPage(View(t), p))
<1> DEFINE v == View(t)
           a == AccessPage(v, p)
           x == BaseOf(p) \in pcc_promotions
           toWalk == [Idle EXCEPT !.pc = "walk", !.page = p, !.is_2m = x]
<1>1. \/ /\ call' = [call EXCEPT ![t] = toWalk]
         /\ UNCHANGED <<core, pcc_promotions, evicted>>
      \/ Writes(t, a) /\ call' = [call EXCEPT ![t] = Idle]
  BY DEF Lookup
<1>2. v \in MachineSet /\ Sound(v.pcc) /\ v.promoted = pcc_promotions
  BY ViewFacts
<1> HIDE DEF v
<1>3. a \in MachineSet /\ Sound(a.pcc) /\ a.promoted = v.promoted
  BY <1>2, AccessPageStep
<1>4. /\ toWalk \in CallSet /\ toWalk.todo = <<>> /\ toWalk.pc = "walk"
      /\ toWalk.page = p /\ toWalk.is_2m = x
  <2>1. x \in BOOLEAN /\ <<>> \in Seq(Base)
    OBVIOUS
  <2> HIDE DEF x
  <2>2. QED BY <2>1 DEF Idle, CallSet, Point
<1>5. /\ \A s : CallOK(Idle, s) /\ CallOK(toWalk, s)
      /\ Idle.pc = "idle"
  <2> HIDE DEF toWalk
  <2>1. QED BY <1>4, CallOutside DEF Idle
<1> HIDE DEF a, toWalk
<1>6. CASE /\ call' = [call EXCEPT ![t] = toWalk]
           /\ UNCHANGED <<core, pcc_promotions, evicted>>
  <2>1. Changed(t, v)
    BY <1>6, UnchangedChanged DEF v
  <2>2. toWalk.is_2m = (BaseOf(toWalk.page) \in pcc_promotions)
    BY <1>4
  <2> HIDE DEF x
  <2>3. StepOf(t, v, toWalk)
    BY <1>2, <1>4, <1>5, <1>6, <2>1, <2>2, NothingListed DEF StepOf
  <2>4. QED BY <2>3 DEF v
<1>7. CASE Writes(t, a) /\ call' = [call EXCEPT ![t] = Idle]
  <2>1. Changed(t, a)
    BY <1>3, <1>7, WritesChanged
  <2>2. StepOf(t, a, Idle)
    BY <1>2, <1>3, <1>5, <1>7, <2>1, NothingListed DEF StepOf
  <2>3. QED BY <2>2 DEF a, v
<1>8. QED BY <1>1, <1>6, <1>7

\* get_entries: the tags of a sound PCC, each of them once.
LEMMA EntriesCall ==
    ASSUME NEW s \in PccSet, Sound(s), NEW p \in Page,
           NEW entries, entries = [i \in DOMAIN s |-> s[i].tag], entries # <<>>
    PROVE  LET c == [Idle EXCEPT !.pc = "summary", !.page = p, !.todo = entries]
           IN  CallOK(c, s) /\ c.pc = "summary"
<1> DEFINE L == PccLine(0..(MaxFreq - 1))
           c == [Idle EXCEPT !.pc = "summary", !.page = p, !.todo = entries]
<1>1. s \in Seq(L) /\ Len(s) <= PccSize
  BY DEF PccSet
<1>2. \A x \in L : x.tag \in Base
  BY DEF PccLine, LineOf
<1> HIDE DEF L
<1>3. DOMAIN s = 1..Len(s) /\ Len(s) \in Nat /\ \A i \in 1..Len(s) : s[i].tag \in Base
  BY <1>1, <1>2
<1>4. entries \in [1..Len(s) -> Base] /\ \A i \in 1..Len(s) : entries[i] = s[i].tag
  BY <1>3
<1>5. entries \in Seq(Base) /\ Len(entries) = Len(s)
  BY <1>3, <1>4, FunctionIsList
<1>6. \A i, j \in 1..Len(s) : entries[i] = entries[j] => i = j
  BY <1>4 DEF Sound
<1>7. \A i \in 1..Len(s) : Holds(s, entries[i])
  BY <1>1, <1>4, SoundHolds
<1>8. c \in CallSet /\ c.pc = "summary" /\ c.page = p /\ c.todo = entries
  BY <1>5 DEF CallSet, Point, Idle
<1> HIDE DEF c
<1>9. CallOK(c, s)
  BY <1>1, <1>5, <1>6, <1>7, <1>8 DEF CallOK
<1>10. QED BY <1>8, <1>9 DEF c

\* The start of a callback: a summary lists the PCC, or the lookup follows.
LEMMA RecordMemStep ==
    ASSUME MtInv, NEW t \in Thread, NEW p \in Page,
           call[t].pc \in {"idle", "storing"}, RecordMem(t, p)
    PROVE  /\ num_accesses' \in [Thread -> 0..(Wrap - 1)]
           /\ \E m, c :
                 /\ StepOf(t, m, c)
                 /\ m = View(t) \/ m = AccessPage(View(t), p)
<1> DEFINE s == core[t].pcc
           n == Increment(num_accesses[t])
           entries == [i \in DOMAIN s |-> s[i].tag]
           listed == [Idle EXCEPT !.pc = "summary", !.page = p, !.todo = entries]
<1>1. s \in PccSet /\ Sound(s) /\ num_accesses \in [Thread -> 0..(Wrap - 1)]
  BY DEF MtInv, MachineSet
<1>2. n \in 0..(Wrap - 1)
  <2>1. num_accesses[t] \in Nat
    BY <1>1
  <2>2. QED BY <2>1, MtSizes DEF Increment
<1>3. /\ View(t) \in MachineSet /\ View(t).pcc = s /\ Sound(View(t).pcc)
      /\ View(t).promoted = pcc_promotions
  BY ViewFacts
<1>4. \A r : CallOK(Idle, r) /\ Idle.pc = "idle"
  BY CallOutside DEF Idle
<1>5. \A X, Y : Range(call[t].todo) \ X \subseteq Y
  BY NothingListed
<1>6. CASE ~isROI
  <2>1. call' = [call EXCEPT ![t] = Idle] /\ UNCHANGED <<core, pcc_promotions, evicted, num_accesses>>
    BY <1>6 DEF RecordMem
  <2>2. Changed(t, View(t))
    BY <2>1, UnchangedChanged
  <2>3. StepOf(t, View(t), Idle)
    BY <1>3, <1>4, <1>5, <2>1, <2>2 DEF StepOf
  <2>4. QED BY <1>1, <2>1, <2>3
<1>7. CASE isROI /\ SummaryDue(n) /\ entries # <<>>
  <2>1. /\ num_accesses' = [num_accesses EXCEPT ![t] = n]
        /\ call' = [call EXCEPT ![t] = listed]
        /\ UNCHANGED <<core, pcc_promotions, evicted>>
    BY <1>7 DEF RecordMem
  <2>2. Changed(t, View(t))
    BY <2>1, UnchangedChanged
  <2>3. CallOK(listed, s) /\ listed.pc = "summary"
    BY <1>1, <1>7, EntriesCall
  <2> HIDE DEF n, listed, s
  <2>4. StepOf(t, View(t), listed)
    BY <1>3, <1>5, <2>1, <2>2, <2>3 DEF StepOf
  <2>5. num_accesses' \in [Thread -> 0..(Wrap - 1)]
    BY <1>1, <1>2, <2>1
  <2>6. QED BY <2>4, <2>5
<1>8. CASE isROI /\ ~(SummaryDue(n) /\ entries # <<>>)
  <2>1. num_accesses' = [num_accesses EXCEPT ![t] = n] /\ Lookup(t, p)
    BY <1>8 DEF RecordMem
  <2>2. \E m, c : StepOf(t, m, c) /\ (m = View(t) \/ m = AccessPage(View(t), p))
    BY <2>1, LookupStep
  <2> HIDE DEF n
  <2>3. num_accesses' \in [Thread -> 0..(Wrap - 1)]
    BY <1>1, <1>2, <2>1
  <2>4. QED BY <2>2, <2>3
<1>9. QED BY <1>6, <1>7, <1>8

\* Reading the records of an address creates a missing one.
ReadRecords(t, base) == [View(t) EXCEPT !.reuse[base] = IF @ = "absent" THEN "cold" ELSE @]

\* Reading the records changes no cache, and marking the address only the
\* promotions.
LEMMA ReadFacts ==
    ASSUME MtInv, NEW t \in Thread, NEW base \in Base
    PROVE  LET r == ReadRecords(t, base)
               n == [r EXCEPT !.promoted = @ \cup {base}]
           IN  /\ r \in MachineSet /\ n \in MachineSet
               /\ r.l1_2m = View(t).l1_2m /\ r.l2 = View(t).l2 /\ r.pcc = View(t).pcc
               /\ n.l1_2m = View(t).l1_2m /\ n.l2 = View(t).l2 /\ n.pcc = View(t).pcc
               /\ r.promoted = pcc_promotions /\ n.promoted = pcc_promotions \cup {base}
<1> DEFINE v == View(t)
           x == IF v.reuse[base] = "absent" THEN "cold" ELSE v.reuse[base]
           r == [v EXCEPT !.reuse[base] = x]
           n == [r EXCEPT !.promoted = @ \cup {base}]
<1>1. v \in MachineSet /\ v.promoted = pcc_promotions
  BY ViewFacts
<1>2. ReadRecords(t, base) = r
  BY DEF ReadRecords
<1> HIDE DEF v
<1>3. x \in {"absent", "cold", "tracked"}
  BY <1>1 DEF MachineSet
<1> HIDE DEF x
<1>4. /\ r \in MachineSet
      /\ r.l1_2m = v.l1_2m /\ r.l2 = v.l2 /\ r.pcc = v.pcc /\ r.promoted = v.promoted
  BY <1>1, <1>3 DEF MachineSet
<1> HIDE DEF r
<1>5. /\ n \in MachineSet
      /\ n.l1_2m = r.l1_2m /\ n.l2 = r.l2 /\ n.pcc = r.pcc /\ n.promoted = r.promoted \cup {base}
  BY <1>4 DEF MachineSet
<1>6. QED BY <1>1, <1>2, <1>4, <1>5 DEF v

\* The head of the list of a thread in the loop.
LEMMA CurrentListed ==
    ASSUME MtInv, NEW t \in Thread, call[t].pc \in {"summary", "promote"}
    PROVE  /\ Current(t) \in Base /\ Holds(View(t).pcc, Current(t))
           /\ Current(t) = Head(call[t].todo)
<1>1. CallOK(call[t], core[t].pcc)
  BY DEF MtInv
<1>2. Head(call[t].todo) \in Base /\ Holds(core[t].pcc, Head(call[t].todo))
  BY <1>1, MovedCall
<1>3. QED BY <1>2, ViewFacts DEF Current

\* Going on to the next address takes the head off the list.
LEMMA NextAddressCall ==
    ASSUME MtInv, NEW t \in Thread, NextAddress(t)
    PROVE  call' = [call EXCEPT ![t] = Moved(call[t])]
<1>1. call \in [Thread -> CallSet]
  BY DEF MtInv
<1>2. QED BY <1>1 DEF NextAddress, Moved, CallSet

\* The search in pcc_promotions changes no cache; the address goes to Promote
\* or is marked.
LEMMA ExamineStep ==
    ASSUME MtInv, NEW t \in Thread, Examine(t)
    PROVE  \E m, c :
              /\ StepOf(t, m, c)
              /\ m.l1_2m = View(t).l1_2m /\ m.l2 = View(t).l2 /\ m.pcc = View(t).pcc
<1> DEFINE base == Current(t)
           r == ReadRecords(t, base)
           n == [r EXCEPT !.promoted = @ \cup {base}]
           d == [call[t] EXCEPT !.pc = "promote"]
<1>1. call[t].pc = "summary"
  BY DEF Examine, At
<1>2. \/ Writes(t, r) /\ call' = [call EXCEPT ![t].pc = "promote"]
      \/ Writes(t, n) /\ NextAddress(t)
  BY DEF Examine, ReadRecords
<1>3. base \in Base /\ base = Head(call[t].todo)
  BY <1>1, CurrentListed
<1>4. /\ r \in MachineSet /\ n \in MachineSet
      /\ r.l1_2m = View(t).l1_2m /\ r.l2 = View(t).l2 /\ r.pcc = View(t).pcc
      /\ n.l1_2m = View(t).l1_2m /\ n.l2 = View(t).l2 /\ n.pcc = View(t).pcc
      /\ r.promoted = pcc_promotions /\ n.promoted = pcc_promotions \cup {base}
  BY <1>3, ReadFacts
<1>5. /\ View(t).pcc = core[t].pcc /\ Sound(View(t).pcc)
      /\ CallOK(call[t], core[t].pcc) /\ call \in [Thread -> CallSet]
  BY ViewFacts DEF MtInv
<1> HIDE DEF r, n, base
<1>6. CASE Writes(t, r) /\ call' = [call EXCEPT ![t].pc = "promote"]
  <2>1. Changed(t, r)
    BY <1>4, <1>6, WritesChanged
  <2>2. /\ d \in CallSet /\ d.pc = "promote"
        /\ d.page = call[t].page /\ d.todo = call[t].todo
    BY <1>5 DEF CallSet, Point
  <2>3. call' = [call EXCEPT ![t] = d]
    BY <1>5, <1>6
  <2> HIDE DEF d
  <2>4. CallOK(d, r.pcc)
    BY <1>1, <1>4, <1>5, <2>2 DEF CallOK
  <2>5. Range(call[t].todo) \ Range(d.todo) \subseteq r.promoted
    BY <2>2
  <2>6. StepOf(t, r, d)
    BY <1>4, <1>5, <2>1, <2>2, <2>3, <2>4, <2>5 DEF StepOf
  <2>7. QED BY <1>4, <2>6
<1>7. CASE Writes(t, n) /\ NextAddress(t)
  <2>1. Changed(t, n)
    BY <1>4, <1>7, WritesChanged
  <2>2. call' = [call EXCEPT ![t] = Moved(call[t])]
    BY <1>7, NextAddressCall
  <2>3. /\ CallOK(Moved(call[t]), n.pcc) /\ Moved(call[t]).pc \in {"summary", "lookup"}
        /\ Range(call[t].todo) \ Range(Moved(call[t]).todo) \subseteq {base}
    BY <1>1, <1>3, <1>4, <1>5, MovedCall
  <2>4. StepOf(t, n, Moved(call[t]))
    BY <1>4, <1>5, <2>1, <2>2, <2>3 DEF StepOf
  <2>5. QED BY <1>4, <2>4
<1>8. QED BY <1>2, <1>6, <1>7

\* The machine after a promotion.
Promoted(t, base) == [PromoteRegion(View(t), base) EXCEPT !.pcc = EvictSet(@, base)]

\* A promotion removes the address, and nothing else, from the thread's PCC.
LEMMA PromotedFacts ==
    ASSUME MtInv, NEW t \in Thread, NEW base \in Base, Holds(View(t).pcc, base)
    PROVE  LET m == Promoted(t, base)
               n == PromoteRegion(View(t), base)
           IN  /\ m \in MachineSet /\ Sound(m.pcc)
               /\ \A u : Holds(m.pcc, u) <=> Holds(View(t).pcc, u) /\ u # base
               /\ m.promoted = pcc_promotions \cup {base}
               /\ m.l1_2m = n.l1_2m /\ m.l2 = n.l2 /\ m.promoted = n.promoted
<1> DEFINE n == PromoteRegion(View(t), base)
           s == EvictSet(n.pcc, base)
           m == [n EXCEPT !.pcc = s]
<1>1. View(t) \in MachineSet /\ View(t).promoted = pcc_promotions /\ Sound(View(t).pcc)
  BY ViewFacts
<1>2. n \in MachineSet /\ n.pcc = View(t).pcc /\ n.promoted = pcc_promotions \cup {base}
  BY <1>1, PromoteRegionStep
<1> HIDE DEF n
<1>3. n.pcc \in PccSet
  BY <1>2 DEF MachineSet
<1>4. s \in PccSet /\ Sound(s) /\ \A u : Holds(s, u) <=> Holds(View(t).pcc, u) /\ u # base
  BY <1>1, <1>2, <1>3, PccEvict
<1> HIDE DEF s
<1>5. m \in MachineSet /\ m.pcc = s /\ m.promoted = n.promoted /\ m.l1_2m = n.l1_2m /\ m.l2 = n.l2
  BY <1>2, <1>4 DEF MachineSet
<1>6. Promoted(t, base) = m
  BY DEF Promoted, n, s
<1> HIDE DEF m
<1>7. QED BY <1>2, <1>4, <1>5, <1>6 DEF n

\* Promote is a step to the machine after the promotion.
LEMMA PromoteStep ==
    ASSUME MtInv, NEW t \in Thread, Promote(t)
    PROVE  \E c : StepOf(t, Promoted(t, Current(t)), c) /\ c.pc \in {"summary", "lookup"}
<1> DEFINE base == Current(t)
           m == Promoted(t, base)
<1>1. call[t].pc = "promote" /\ Writes(t, m) /\ NextAddress(t)
  BY DEF Promote, At, Promoted
<1>2. base \in Base /\ base = Head(call[t].todo) /\ Holds(View(t).pcc, base)
  BY <1>1, CurrentListed
<1>3. /\ m \in MachineSet /\ Sound(m.pcc) /\ m.promoted = pcc_promotions \cup {base}
      /\ \A u : Holds(m.pcc, u) <=> Holds(View(t).pcc, u) /\ u # base
  BY <1>2, PromotedFacts
<1>4. View(t).pcc = core[t].pcc /\ CallOK(call[t], core[t].pcc)
  BY ViewFacts DEF MtInv
<1> HIDE DEF m, base
<1>5. Changed(t, m)
  BY <1>1, <1>3, WritesChanged
<1>6. call' = [call EXCEPT ![t] = Moved(call[t])]
  BY <1>1, NextAddressCall
<1>7. /\ CallOK(Moved(call[t]), m.pcc) /\ Moved(call[t]).pc \in {"summary", "lookup"}
      /\ Range(call[t].todo) \ Range(Moved(call[t]).todo) \subseteq {base}
  BY <1>1, <1>2, <1>3, <1>4, MovedCall
<1>8. StepOf(t, m, Moved(call[t]))
  BY <1>3, <1>5, <1>6, <1>7 DEF StepOf
<1>9. QED BY <1>7, <1>8 DEF m, base

\* A call that has a page and no list.
LEMMA CallInPcc ==
    ASSUME MtInv, NEW t \in Thread, call[t].pc \in {"lookup", "walk", "pcc", "insert", "lose"}
    PROVE  call[t].page \in Page /\ BaseOf(call[t].page) \in Region
<1>1. call[t].page \in Page
  BY DEF MtInv, CallOK
<1>2. QED BY <1>1, Numbers

\* The call c at point q, with x remembered.
Later(c, q, x) == [c EXCEPT !.pc = q, !.is_2m = x]

\* The call of thread t goes on to point q outside the loop of a summary.
LEMMA GoesOn ==
    ASSUME MtInv, NEW t \in Thread, call[t].pc \in {"walk", "pcc", "insert"},
           NEW q \in {"pcc", "insert", "lose"}, NEW x \in BOOLEAN
    PROVE  LET d == Later(call[t], q, x)
           IN  /\ [call EXCEPT ![t].pc = q, ![t].is_2m = x] = [call EXCEPT ![t] = d]
               /\ \A s : CallOK(d, s)
               /\ d.pc = q /\ d.is_2m = x /\ d.page = call[t].page
<1> DEFINE d == Later(call[t], q, x)
<1>1. call \in [Thread -> CallSet] /\ CallOK(call[t], core[t].pcc)
  BY DEF MtInv
<1>2. call[t].todo = <<>> /\ call[t].page \in Page
  BY <1>1 DEF CallOK
<1>3. /\ d \in CallSet /\ d.pc = q /\ d.is_2m = x
      /\ d.page = call[t].page /\ d.todo = call[t].todo
  BY <1>1 DEF CallSet, Point, Later
<1>4. [call EXCEPT ![t].pc = q, ![t].is_2m = x] = [call EXCEPT ![t] = d]
  BY <1>1 DEF Later
<1> HIDE DEF d
<1>5. \A s : CallOK(d, s)
  BY <1>2, <1>3, CallOutside
<1>6. QED BY <1>3, <1>4, <1>5 DEF d

\* What a walk leaves in the machine m: it has filled the TLBs with the page or
\* the region, by what the thread remembers.
Filled(t, m) ==
    LET p == call[t].page
    IN  /\ call[t].pc = "walk" /\ p \in Page
        /\ \E n : /\ IF call[t].is_2m THEN TlbStep(n, View(t), {BaseOf(p)}, {BaseOf(p)})
                     ELSE TlbStep(n, View(t), {}, {p})
                  /\ m.l1_2m = n.l1_2m /\ m.l2 = n.l2 /\ m.pcc = n.pcc
                  /\ m.promoted = n.promoted

\* The fill after a walk.
LEMMA FillTlbsStep ==
    ASSUME MtInv, NEW t \in Thread, FillTlbs(t)
    PROVE  \E m, c : StepOf(t, m, c) /\ Filled(t, m)
<1> DEFINE p == call[t].page
           base == BaseOf(p)
           v == View(t)
           r == Remembered(t)
           w == Walk(r, p)
           n == [w EXCEPT !.promoted = pcc_promotions]
           o == [n EXCEPT !.reuse[base] = "cold"]
<1>1. call[t].pc = "walk"
  BY DEF FillTlbs, At
<1>2. p \in Page /\ base \in Region /\ base \in Base
  BY <1>1, CallInPcc, Numbers
<1>3. \/ Writes(t, o) /\ call' = [call EXCEPT ![t] = Idle]
      \/ Writes(t, n) /\ call' = [call EXCEPT ![t].pc = "pcc", ![t].is_2m = FALSE]
  BY DEF FillTlbs
<1>4. v \in MachineSet /\ Sound(v.pcc) /\ v.promoted = pcc_promotions
  BY ViewFacts
<1>5. /\ r \in MachineSet /\ r.l1_2m = v.l1_2m /\ r.l2 = v.l2 /\ r.pcc = v.pcc
      /\ r.reuse = v.reuse /\ (base \in r.promoted <=> call[t].is_2m)
  BY <1>2, RememberedFacts
<1> HIDE DEF r, v
<1>6. IF call[t].is_2m THEN TlbStep(w, r, {base}, {base}) ELSE TlbStep(w, r, {}, {p})
  BY <1>2, <1>5, WalkStep
<1> HIDE DEF w
<1>7. w \in MachineSet /\ pcc_promotions \in SUBSET Base
  BY <1>6 DEF TlbStep, MtInv
<1>8. /\ n \in MachineSet /\ n.l1_2m = w.l1_2m /\ n.l2 = w.l2 /\ n.pcc = w.pcc
      /\ n.reuse = w.reuse /\ n.promoted = pcc_promotions
  BY <1>7 DEF MachineSet
<1> HIDE DEF n
<1>9. /\ o \in MachineSet /\ o.l1_2m = n.l1_2m /\ o.l2 = n.l2 /\ o.pcc = n.pcc
      /\ o.promoted = n.promoted
  BY <1>2, <1>8 DEF MachineSet
<1> HIDE DEF o
<1>10. IF call[t].is_2m THEN TlbStep(n, v, {base}, {base}) ELSE TlbStep(n, v, {}, {p})
  BY <1>4, <1>5, <1>6, <1>8 DEF TlbStep
<1>11. Filled(t, n) /\ Filled(t, o)
  BY <1>1, <1>2, <1>9, <1>10 DEF Filled, v
<1>12. n.pcc = v.pcc /\ o.pcc = v.pcc
  BY <1>9, <1>10 DEF TlbStep
<1>13. \A Y, Z : Range(call[t].todo) \ Y \subseteq Z
  BY <1>1, NothingListed
<1>14. CASE Writes(t, o) /\ call' = [call EXCEPT ![t] = Idle]
  <2>1. Changed(t, o)
    BY <1>9, <1>14, WritesChanged
  <2>2. CallOK(Idle, o.pcc) /\ Idle.pc = "idle"
    BY CallOutside DEF Idle
  <2>3. StepOf(t, o, Idle)
    BY <1>4, <1>8, <1>9, <1>12, <1>13, <1>14, <2>1, <2>2 DEF StepOf
  <2>4. QED BY <1>11, <2>3
<1>15. CASE Writes(t, n) /\ call' = [call EXCEPT ![t].pc = "pcc", ![t].is_2m = FALSE]
  <2>1. Changed(t, n)
    BY <1>8, <1>15, WritesChanged
  <2> DEFINE d == Later(call[t], "pcc", FALSE)
  <2>2. call' = [call EXCEPT ![t] = d] /\ CallOK(d, n.pcc) /\ d.pc = "pcc"
    BY <1>1, <1>15, GoesOn
  <2> HIDE DEF d
  <2>3. StepOf(t, n, d)
    BY <1>4, <1>8, <1>12, <1>13, <2>1, <2>2 DEF StepOf
  <2>4. QED BY <1>11, <2>3
<1>16. QED BY <1>3, <1>14, <1>15

\* A walk that reaches the PCC hits it and ends, or goes on to insert.
LEMMA AccessPccStep ==
    ASSUME MtInv, NEW t \in Thread, AccessPcc(t)
    PROVE  \E m, c : /\ StepOf(t, m, c)
                     /\ \/ m = View(t)
                        \/ PccStep(m, View(t), {PccTag(View(t), BaseOf(call[t].page))})
<1> DEFINE base == BaseOf(call[t].page)
           v == View(t)
           X == {PccTag(v, base)}
           n == TouchPcc(v, base)
           o == Record(n, base)
           x == base \in pcc_promotions
<1>1. call[t].pc = "pcc"
  BY DEF AccessPcc, At
<1>2. \/ Writes(t, o) /\ call' = [call EXCEPT ![t] = Idle]
      \/ /\ call' = [call EXCEPT ![t].pc = "insert", ![t].is_2m = x]
         /\ UNCHANGED <<core, pcc_promotions, evicted>>
  BY DEF AccessPcc
<1>3. v \in MachineSet /\ Sound(v.pcc) /\ v.promoted = pcc_promotions
  BY ViewFacts
<1>4. base \in Region
  BY <1>1, CallInPcc
<1>5. \A Y, Z : Range(call[t].todo) \ Y \subseteq Z
  BY <1>1, NothingListed
<1>6. CASE Writes(t, o) /\ call' = [call EXCEPT ![t] = Idle]
  <2> HIDE DEF v, base
  <2>1. PccStep(n, v, X)
    BY <1>3, <1>4, TouchPccStep
  <2> HIDE DEF n, X
  <2>2. n \in MachineSet /\ Sound(n.pcc) /\ n.promoted = pcc_promotions
    BY <1>3, <2>1 DEF PccStep
  <2>3. PccStep(o, n, {})
    BY <1>4, <2>2, RecordStep
  <2> HIDE DEF o
  <2>4. PccStep(o, v, X) /\ o \in MachineSet /\ Sound(o.pcc) /\ o.promoted = pcc_promotions
    BY <2>1, <2>2, <2>3 DEF PccStep, HoldsOnly
  <2>5. Changed(t, o)
    BY <1>6, <2>4, WritesChanged
  <2>6. CallOK(Idle, o.pcc) /\ Idle.pc = "idle"
    BY CallOutside DEF Idle
  <2>7. StepOf(t, o, Idle)
    BY <1>5, <1>6, <2>4, <2>5, <2>6 DEF StepOf
  <2>8. QED BY <2>4, <2>7 DEF X, v, base
<1>7. CASE /\ call' = [call EXCEPT ![t].pc = "insert", ![t].is_2m = x]
           /\ UNCHANGED <<core, pcc_promotions, evicted>>
  <2>1. Changed(t, v)
    BY <1>7, UnchangedChanged
  <2> DEFINE d == Later(call[t], "insert", x)
  <2>2. /\ call' = [call EXCEPT ![t] = d] /\ CallOK(d, v.pcc) /\ d.pc = "insert"
        /\ d.is_2m = x /\ d.page = call[t].page
    <3>1. x \in BOOLEAN
      OBVIOUS
    <3> HIDE DEF x, v
    <3>2. QED BY <1>1, <1>7, <3>1, GoesOn
  <2> HIDE DEF d
  <2>3. d.is_2m = (BaseOf(d.page) \in pcc_promotions)
    BY <2>2
  <2> HIDE DEF v, base, x
  <2>4. StepOf(t, v, d)
    BY <1>3, <1>5, <2>1, <2>2, <2>3 DEF StepOf
  <2>5. QED BY <2>4 DEF v
<1>8. QED BY <1>2, <1>6, <1>7

\* What an insertion leaves in the machine m: the region under the tag that
\* follows from what the thread remembers.
Inserted(t, m) ==
    /\ call[t].pc = "insert" /\ call[t].page \in Page
    /\ PccStep(m, View(t), {PccTag(Remembered(t), BaseOf(call[t].page))})

\* The insertion after a miss.
LEMMA InsertPccStep ==
    ASSUME MtInv, NEW t \in Thread, InsertPcc(t)
    PROVE  \E m, c : StepOf(t, m, c) /\ Inserted(t, m)
<1> DEFINE base == BaseOf(call[t].page)
           v == View(t)
           r == Remembered(t)
           X == {PccTag(r, base)}
           n == TouchPcc(r, base)
           o == [n EXCEPT !.promoted = pcc_promotions]
<1>1. /\ call[t].pc = "insert" /\ Writes(t, o)
      /\ call' = [call EXCEPT ![t].pc = "lose", ![t].is_2m = FALSE]
  BY DEF InsertPcc, At
<1>2. call[t].page \in Page /\ base \in Region
  BY <1>1, CallInPcc
<1>3. v \in MachineSet /\ Sound(v.pcc) /\ v.promoted = pcc_promotions
  BY ViewFacts
<1>4. /\ r \in MachineSet /\ r.l1_4k = v.l1_4k /\ r.l1_2m = v.l1_2m /\ r.l2 = v.l2
      /\ r.pcc = v.pcc
  BY <1>2, RememberedFacts
<1> HIDE DEF r, v, base
<1>5. PccStep(n, r, X)
  BY <1>2, <1>3, <1>4, TouchPccStep
<1> HIDE DEF n, X
<1>6. n \in MachineSet /\ pcc_promotions \in SUBSET Base
  BY <1>5 DEF PccStep, MtInv
<1>7. /\ o \in MachineSet /\ o.l1_4k = n.l1_4k /\ o.l1_2m = n.l1_2m /\ o.l2 = n.l2
      /\ o.pcc = n.pcc /\ o.promoted = pcc_promotions
  BY <1>6 DEF MachineSet
<1> HIDE DEF o
<1>8. PccStep(o, v, X) /\ Sound(o.pcc)
  BY <1>3, <1>4, <1>5, <1>7 DEF PccStep
<1>9. Inserted(t, o)
  BY <1>1, <1>2, <1>8 DEF Inserted, X, v, r, base
<1>10. Changed(t, o)
  BY <1>1, <1>7, WritesChanged
<1> DEFINE d == Later(call[t], "lose", FALSE)
<1>11. call' = [call EXCEPT ![t] = d] /\ CallOK(d, o.pcc) /\ d.pc = "lose"
  BY <1>1, GoesOn
<1> HIDE DEF d
<1>12. Range(call[t].todo) \ Range(d.todo) \subseteq o.promoted
  BY <1>1, NothingListed
<1>13. StepOf(t, o, d)
  BY <1>7, <1>8, <1>10, <1>11, <1>12 DEF StepOf
<1>14. QED BY <1>9, <1>13

\* Resetting the record of the victim, whoever set it, changes no cache.
LEMMA LoseVictimStep ==
    ASSUME MtInv, NEW t \in Thread, LoseVictim(t)
    PROVE  \E m, c : StepOf(t, m, c) /\ PccStep(m, View(t), {})
<1> DEFINE base == BaseOf(call[t].page)
           v == View(t)
           n == LoseEvicted(v)
           o == Record(n, base)
<1>1. call[t].pc = "lose" /\ Writes(t, o) /\ call' = [call EXCEPT ![t] = Idle]
  BY DEF LoseVictim, At
<1>2. v \in MachineSet /\ Sound(v.pcc) /\ v.promoted = pcc_promotions
  BY ViewFacts
<1>3. base \in Region
  BY <1>1, CallInPcc
<1> HIDE DEF v, base
<1>4. PccStep(n, v, {})
  BY <1>2, <1>3, RecordStep
<1> HIDE DEF n
<1>5. n \in MachineSet /\ Sound(n.pcc)
  BY <1>4 DEF PccStep
<1>6. PccStep(o, n, {})
  BY <1>3, <1>5, RecordStep
<1> HIDE DEF o
<1>7. PccStep(o, v, {}) /\ o \in MachineSet /\ Sound(o.pcc) /\ o.promoted = pcc_promotions
  BY <1>2, <1>4, <1>6 DEF PccStep, HoldsOnly
<1>8. Changed(t, o)
  BY <1>1, <1>7, WritesChanged
<1>9. CallOK(Idle, o.pcc) /\ Idle.pc = "idle"
  BY CallOutside DEF Idle
<1>10. Range(call[t].todo) \ Range(Idle.todo) \subseteq o.promoted
  BY <1>1, NothingListed
<1>11. StepOf(t, o, Idle)
  BY <1>1, <1>7, <1>8, <1>9, <1>10 DEF StepOf
<1>12. QED BY <1>7, <1>11 DEF v

-----------------------------------------------------------------------------
(***************************************************************************)
(* The steps of the specification.                                         *)
(***************************************************************************)
\* How a step of thread t in its own machine can change it.
MachineStep(t, m) ==
    \/ m = View(t)
    \/ \E p \in Page : m = AccessPage(View(t), p)
    \/ Filled(t, m) \/ Inserted(t, m)
    \/ m.l1_2m = View(t).l1_2m /\ m.l2 = View(t).l2 /\ m.pcc = View(t).pcc
    \/ \E base \in Region : PccStep(m, View(t), {PccTag(View(t), base)})
    \/ PccStep(m, View(t), {})

\* A step of thread t that leaves the history as it is, and a promotion.
PlainStep(t) ==
    /\ \E m, c : StepOf(t, m, c) /\ MachineStep(t, m)
    /\ num_accesses' \in [Thread -> 0..(Wrap - 1)]
    /\ WriteAddr' = WriteAddr /\ shot' = shot
PromotionStep(t) ==
    /\ call[t].pc = "promote"
    /\ \E c : StepOf(t, Promoted(t, Current(t)), c) /\ c.pc \in {"summary", "lookup"}
    /\ num_accesses' \in [Thread -> 0..(Wrap - 1)]
    /\ WriteAddr' = WriteAddr /\ shot' = [shot EXCEPT ![t] = @ \cup {Current(t)}]

\* Every other step changes no machine and no list.
QuietStep ==
    /\ UNCHANGED <<core, num_accesses, pcc_promotions, evicted, shot>>
    /\ \/ UNCHANGED <<call, WriteAddr>>
       \/ \E t \in Thread, p \in Page :
             /\ call[t].pc = "idle" /\ WriteAddr' = p
             /\ call' = [call EXCEPT ![t] = [Idle EXCEPT !.pc = "storing", !.page = p]]

\* Every step is one of three kinds.
LEMMA Steps ==
    ASSUME MtInv, [Next]_vars
    PROVE  QuietStep \/ \E t \in Thread : PlainStep(t) \/ PromotionStep(t)
<1>0. num_accesses \in [Thread -> 0..(Wrap - 1)]
  BY DEF MtInv
<1>1. ASSUME NEW t \in Thread, AfterStore(t) PROVE PlainStep(t)
  <2>1. call[t].pc = "storing" /\ RecordMem(t, WriteAddr) /\ UNCHANGED <<WriteAddr, shot>>
    BY <1>1 DEF AfterStore, At
  <2>2. WriteAddr \in Page
    BY <2>1 DEF MtInv
  <2>3. /\ num_accesses' \in [Thread -> 0..(Wrap - 1)]
        /\ \E m, c : StepOf(t, m, c) /\ MachineStep(t, m)
    BY <2>1, <2>2, RecordMemStep DEF MachineStep
  <2>4. QED BY <2>1, <2>3 DEF PlainStep
<1>2. ASSUME NEW t \in Thread, NEW p \in Page, Load(t, p) PROVE PlainStep(t)
  <2>1. call[t].pc = "idle" /\ RecordMem(t, p) /\ UNCHANGED <<WriteAddr, shot>>
    BY <1>2 DEF Load, At
  <2>2. /\ num_accesses' \in [Thread -> 0..(Wrap - 1)]
        /\ \E m, c : StepOf(t, m, c) /\ MachineStep(t, m)
    BY <2>1, RecordMemStep DEF MachineStep
  <2>3. QED BY <2>1, <2>2 DEF PlainStep
<1>3. ASSUME NEW t \in Thread, Examine(t) PROVE PlainStep(t)
  <2>1. UNCHANGED <<num_accesses, WriteAddr, shot>>
    BY <1>3 DEF Examine
  <2>2. \E m, c : StepOf(t, m, c) /\ MachineStep(t, m)
    BY <1>3, ExamineStep DEF MachineStep
  <2>3. QED BY <1>0, <2>1, <2>2 DEF PlainStep
<1>4. ASSUME NEW t \in Thread, Promote(t) PROVE PromotionStep(t)
  <2>1. /\ UNCHANGED <<num_accesses, WriteAddr>> /\ call[t].pc = "promote"
        /\ shot' = [shot EXCEPT ![t] = @ \cup {Current(t)}]
    BY <1>4 DEF Promote, At
  <2>2. \E c : StepOf(t, Promoted(t, Current(t)), c) /\ c.pc \in {"summary", "lookup"}
    BY <1>4, PromoteStep
  <2>3. QED BY <1>0, <2>1, <2>2 DEF PromotionStep
<1>5. ASSUME NEW t \in Thread, LookupAfterSummary(t) PROVE PlainStep(t)
  <2>1. /\ call[t].pc = "lookup" /\ Lookup(t, call[t].page)
        /\ UNCHANGED <<num_accesses, WriteAddr, shot>>
    BY <1>5 DEF LookupAfterSummary, At
  <2>2. call[t].page \in Page
    BY <2>1, CallInPcc
  <2>3. \E m, c : StepOf(t, m, c) /\ MachineStep(t, m)
    BY <2>1, <2>2, LookupStep DEF MachineStep
  <2>4. QED BY <1>0, <2>1, <2>3 DEF PlainStep
<1>6. ASSUME NEW t \in Thread, AccessPcc(t) PROVE PlainStep(t)
  <2>1. UNCHANGED <<num_accesses, WriteAddr, shot>> /\ call[t].pc = "pcc"
    BY <1>6 DEF AccessPcc, At
  <2>2. BaseOf(call[t].page) \in Region
    BY <2>1, CallInPcc
  <2>3. \E m, c : StepOf(t, m, c) /\ MachineStep(t, m)
    BY <1>6, <2>2, AccessPccStep DEF MachineStep
  <2>4. QED BY <1>0, <2>1, <2>3 DEF PlainStep
<1>7. ASSUME NEW t \in Thread, LoseVictim(t) PROVE PlainStep(t)
  <2>1. UNCHANGED <<num_accesses, WriteAddr, shot>>
    BY <1>7 DEF LoseVictim
  <2>2. \E m, c : StepOf(t, m, c) /\ MachineStep(t, m)
    BY <1>7, LoseVictimStep DEF MachineStep
  <2>3. QED BY <1>0, <2>1, <2>2 DEF PlainStep
<1>8. ASSUME NEW t \in Thread, NEW p \in Written, BeforeStore(t, p) PROVE QuietStep
  <2>1. p \in Page
    BY MtSizes
  <2>2. QED BY <1>8, <2>1 DEF BeforeStore, At, QuietStep
<1>9. ASSUME StartROI \/ StopROI \/ UNCHANGED vars PROVE QuietStep
  BY <1>9 DEF StartROI, StopROI, vars, QuietStep
<1>10. ASSUME NEW t \in Thread, FillTlbs(t) PROVE PlainStep(t)
  <2>1. UNCHANGED <<num_accesses, WriteAddr, shot>>
    BY <1>10 DEF FillTlbs
  <2>2. \E m, c : StepOf(t, m, c) /\ MachineStep(t, m)
    BY <1>10, FillTlbsStep DEF MachineStep
  <2>3. QED BY <1>0, <2>1, <2>2 DEF PlainStep
<1>11. ASSUME NEW t \in Thread, InsertPcc(t) PROVE PlainStep(t)
  <2>1. UNCHANGED <<num_accesses, WriteAddr, shot>>
    BY <1>11 DEF InsertPcc
  <2>2. \E m, c : StepOf(t, m, c) /\ MachineStep(t, m)
    BY <1>11, InsertPccStep DEF MachineStep
  <2>3. QED BY <1>0, <2>1, <2>2 DEF PlainStep
<1>12. QED
  BY <1>1, <1>2, <1>3, <1>4, <1>5, <1>6, <1>7, <1>8, <1>9, <1>10, <1>11 DEF Next, Step

\* The invariant holds at the start.
LEMMA InitInv == Init => MtInv
<1>1. SUFFICES ASSUME Init PROVE MtInv
  OBVIOUS
<1> DEFINE c == [l1_4k |-> EmptyTlb(L1Sets4K), l1_2m |-> EmptyTlb(L1Sets2M),
                 l2 |-> EmptyTlb(L2Sets), pcc |-> <<>>,
                 reuse |-> [b \in Base |-> "absent"], promoted |-> {}, evicted |-> None]
<1>2. c \in MachineSet /\ c.pcc = <<>>
  BY EmptyMachine
<1>3. Sound(<<>>) /\ CallOK(Idle, <<>>) /\ Idle.pc # "storing"
  <2>1. Sound(<<>>)
    BY DEF Sound
  <2>2. Idle.pc # "storing"
    BY DEF Idle
  <2>3. QED BY <2>1, <2>2, CallOutside
<1>4. Idle \in CallSet
  BY <1>3 DEF CallOK
<1>5. core = [t \in Thread |-> c]
  BY <1>1 DEF Init
<1> HIDE DEF c
<1>6. \A t \in Thread : core[t] = c /\ call[t] = Idle
  BY <1>1, <1>5 DEF Init
<1>7. /\ core \in [Thread -> MachineSet] /\ call \in [Thread -> CallSet]
      /\ num_accesses \in [Thread -> 0..(Wrap - 1)]
  <2>1. 0 \in 0..(Wrap - 1)
    BY MtSizes
  <2>2. call = [t \in Thread |-> Idle] /\ num_accesses = [t \in Thread |-> 0]
    BY <1>1 DEF Init
  <2>3. QED BY <1>2, <1>4, <1>5, <2>1, <2>2
<1>8. pcc_promotions = {} /\ evicted = None
  BY <1>1 DEF Init
<1>9. QED BY <1>2, <1>3, <1>6, <1>7, <1>8 DEF MtInv

\* Every step of every thread keeps it.
LEMMA NextInv == MtInv /\ [Next]_vars => MtInv'
<1>1. SUFFICES ASSUME MtInv, [Next]_vars PROVE MtInv'
  OBVIOUS
<1>2. ASSUME NEW t \in Thread, PlainStep(t) PROVE MtInv'
  <2>1. PICK m, c : StepOf(t, m, c)
    BY <1>2 DEF PlainStep
  <2>2. QED BY <1>1, <1>2, <2>1, StepInv DEF PlainStep, StepOf
<1>3. ASSUME NEW t \in Thread, PromotionStep(t) PROVE MtInv'
  <2>1. PICK m, c : StepOf(t, m, c)
    BY <1>3 DEF PromotionStep
  <2>2. QED BY <1>1, <1>3, <2>1, StepInv DEF PromotionStep, StepOf
<1>4. ASSUME QuietStep PROVE MtInv'
  <2>1. UNCHANGED <<core, num_accesses, pcc_promotions, evicted>>
    BY <1>4 DEF QuietStep
  <2>2. CASE UNCHANGED <<call, WriteAddr>>
    BY <1>1, <2>1, <2>2 DEF MtInv
  <2>3. ASSUME NEW t \in Thread, NEW p \in Page, WriteAddr' = p,
               call' = [call EXCEPT ![t] = [Idle EXCEPT !.pc = "storing", !.page = p]]
        PROVE  MtInv'
    <3> DEFINE d == [Idle EXCEPT !.pc = "storing", !.page = p]
    <3>1. \A s : CallOK(d, s)
      BY CallOutside
    <3>2. d \in CallSet
      BY <3>1 DEF CallOK
    <3> HIDE DEF d
    <3>3. call \in [Thread -> CallSet] /\ call' = [call EXCEPT ![t] = d]
      BY <1>1, <2>3 DEF MtInv, d
    <3>4. call' \in [Thread -> CallSet]
      BY <3>2, <3>3
    <3>5. ASSUME NEW u \in Thread
          PROVE  /\ Sound(core[u].pcc) /\ CallOK(call'[u], core[u].pcc)
                 /\ call'[u].pc = "storing" => WriteAddr' \in Page
      <4>1. call'[u] = d \/ call'[u] = call[u]
        BY <3>3
      <4>2. QED BY <1>1, <2>3, <3>1, <4>1 DEF MtInv
    <3>6. QED BY <1>1, <2>1, <3>4, <3>5 DEF MtInv
  <2>4. QED BY <1>4, <2>2, <2>3 DEF QuietStep
<1>5. QED BY <1>1, <1>2, <1>3, <1>4, Steps

\* MtInv holds in every state of the multi-threaded simulator: whatever the
\* other threads do, the list of a summary stays within its thread's PCC.
THEOREM MtInductive == Spec => []MtInv
<1>1. QED BY InitInv, NextInv, PTL DEF Spec

\* MtInv has the type invariant of PccMt for a consequence.
LEMMA InvTypes == MtInv => TypeOK
<1>1. SUFFICES ASSUME MtInv PROVE TypeOK
  OBVIOUS
<1>2. ASSUME NEW t \in Thread
      PROVE  /\ \A k \in 0..(L2Sets - 1) : LinesOK(core[t].l2[k], L2Assoc, Page \cup Region, {0}, {0})
             /\ LinesOK(core[t].pcc, PccSize, Base, 0..(PagesPerRegion - 1), 0..(MaxFreq - 1))
             /\ core[t].reuse \in [Base -> {"absent", "cold", "tracked"}]
             /\ call[t].pc \in Point /\ call[t].page \in Page \cup {None}
             /\ Len(call[t].todo) <= PccSize
             /\ num_accesses[t] \in 0..(Wrap - 1)
  <2>1. core[t] \in MachineSet /\ call[t] \in CallSet /\ CallOK(call[t], core[t].pcc)
    BY <1>1 DEF MtInv
  <2>2. /\ \A k \in 0..(L2Sets - 1) : LinesOK(core[t].l2[k], L2Assoc, Page \cup Region, {0}, {0})
        /\ LinesOK(core[t].pcc, PccSize, Base, 0..(PagesPerRegion - 1), 0..(MaxFreq - 1))
        /\ core[t].reuse \in [Base -> {"absent", "cold", "tracked"}]
    BY <2>1, MachineLines
  <2>3. /\ call[t].pc \in Point /\ call[t].page \in Page \cup {None}
        /\ Len(call[t].todo) <= PccSize
    BY <2>1 DEF CallSet, CallOK
  <2>4. num_accesses[t] \in 0..(Wrap - 1)
    BY <1>1 DEF MtInv
  <2>5. QED BY <2>2, <2>3, <2>4
<1>3. pcc_promotions \subseteq Base /\ evicted \in Base \cup {None}
  BY <1>1 DEF MtInv
<1>4. QED BY <1>2, <1>3 DEF TypeOK

\* The caches of every thread stay within their sizes, their lines within
\* their ranges, the callback points, the pages and the lists too, and the
\* access counts within an unsigned int (huge_page_reuse_mt.h).
THEOREM MtTypes == Spec => []TypeOK
<1>1. QED BY MtInductive, InvTypes, PTL

\* MtInv keeps the lists of the summaries inside the PCCs.
LEMMA InvListed == MtInv => SummaryListInPcc
<1>1. SUFFICES ASSUME MtInv, NEW t \in Thread
               PROVE  /\ IsInjective(call[t].todo)
                      /\ \A i \in DOMAIN call[t].todo : Holds(core[t].pcc, call[t].todo[i])
  BY DEF SummaryListInPcc
<1>2. CallOK(call[t], core[t].pcc) /\ call[t].todo \in Seq(Base)
  BY <1>1 DEF MtInv, CallSet
<1>3. DOMAIN call[t].todo = 1..Len(call[t].todo)
  BY <1>2
<1>4. QED BY <1>2, <1>3 DEF CallOK, IsInjective

\* In every interleaving, the addresses that a thread has still to summarize
\* are in its PCC, each once: the getFreq and evict calls of
\* summarize_promotions find their line.
THEOREM MtListInPcc == Spec => []SummaryListInPcc
<1>1. QED BY MtInductive, InvListed, PTL

\* A step of any thread takes only promoted addresses off a list.
LEMMA NextMarks ==
    MtInv /\ [Next]_vars =>
        \A t \in Thread : Range(call[t].todo) \ Range(call'[t].todo) \subseteq pcc_promotions'
<1>1. SUFFICES ASSUME MtInv, [Next]_vars, NEW u \in Thread
               PROVE  Range(call[u].todo) \ Range(call'[u].todo) \subseteq pcc_promotions'
  OBVIOUS
<1>2. call \in [Thread -> CallSet]
  BY <1>1 DEF MtInv
<1>3. ASSUME NEW t \in Thread, NEW m, NEW c, StepOf(t, m, c)
      PROVE  Range(call[u].todo) \ Range(call'[u].todo) \subseteq pcc_promotions'
  <2>1. /\ call' = [call EXCEPT ![t] = c] /\ pcc_promotions' = m.promoted
        /\ Range(call[t].todo) \ Range(c.todo) \subseteq m.promoted
    BY <1>3 DEF StepOf, Changed
  <2>2. CASE u = t
    <3>1. call'[u] = c
      BY <1>2, <2>1, <2>2
    <3>2. QED BY <2>1, <2>2, <3>1
  <2>3. CASE u # t
    <3>1. call'[u] = call[u]
      BY <1>2, <2>1, <2>3
    <3>2. QED BY <3>1
  <2>4. QED BY <2>2, <2>3
<1>4. ASSUME QuietStep
      PROVE  Range(call[u].todo) \ Range(call'[u].todo) \subseteq pcc_promotions'
  <2>1. CASE call' = call
    BY <2>1
  <2>2. ASSUME NEW t \in Thread, NEW d, call[t].pc = "idle", call' = [call EXCEPT ![t] = d]
        PROVE  Range(call[u].todo) \ Range(call'[u].todo) \subseteq pcc_promotions'
    <3>1. \A X, Y : Range(call[t].todo) \ X \subseteq Y
      BY <1>1, <2>2, NothingListed
    <3>2. u = t \/ call'[u] = call[u]
      BY <1>2, <2>2
    <3>3. QED BY <3>1, <3>2
  <2>3. QED BY <1>4, <2>1, <2>2 DEF QuietStep
<1>5. QED BY <1>1, <1>3, <1>4, Steps DEF PlainStep, PromotionStep

\* Whatever other threads do between a thread's test of pcc_promotions and
\* its update, an address leaves the list of a summary only when it is marked
\* as promoted.
THEOREM MtMarksAll == Spec => SummaryMarksAll
<1>1. Spec => []MtInv
  BY MtInductive
<1>2. MtInv /\ [Next]_vars =>
        [\A t \in Thread : Range(call[t].todo) \ Range(call'[t].todo) \subseteq pcc_promotions']_vars
  BY NextMarks
<1>3. QED BY <1>1, <1>2, PTL DEF Spec, SummaryMarksAll

-----------------------------------------------------------------------------
(***************************************************************************)
(* What the TLBs and the PCC of a thread do not hold.                      *)
(***************************************************************************)
\* CoreGood in the terms of the machine that the thread sees.
LEMMA CoreIsGood ==
    ASSUME NEW m, NEW D
    PROVE  CoreGood(m, m.promoted, D) <=> TlbGood(m, D) /\ PccFresh(m, D)
BY DEF CoreGood, TlbGood, PccFresh

\* A step of thread t that leaves its machine good leaves all of them good:
\* the promoted regions only grow.
LEMMA StepKeepsGood ==
    ASSUME MtGood, NEW t \in Thread, NEW m, Changed(t, m), pcc_promotions \subseteq m.promoted,
           NEW D \in SUBSET m.promoted, CoreGood(m, m.promoted, D),
           shot' = [shot EXCEPT ![t] = D],
           call \in [Thread -> CallSet],
           NEW c, call' = [call EXCEPT ![t] = c], MemoryGood(c, m.promoted, D)
    PROVE  MtGood'
<1>1. shot \in [Thread -> SUBSET pcc_promotions] /\ pcc_promotions' = m.promoted
  BY DEF MtGood, Changed
<1>2. shot' \in [Thread -> SUBSET pcc_promotions']
  BY <1>1
<1>3. ASSUME NEW u \in Thread PROVE CoreGood(core'[u], pcc_promotions', shot'[u])
  <2>1. CASE u = t
    <3>1. shot'[u] = D
      BY <1>1, <2>1
    <3>2. core'[u].l1_2m = m.l1_2m /\ core'[u].l2 = m.l2 /\ core'[u].pcc = m.pcc
      BY <2>1 DEF Changed
    <3>3. QED BY <1>1, <3>1, <3>2 DEF CoreGood
  <2>2. CASE u # t
    <3>1. core'[u] = core[u] /\ shot'[u] = shot[u]
      BY <1>1, <2>2 DEF Changed
    <3>2. CoreGood(core[u], pcc_promotions, shot[u])
      BY DEF MtGood
    <3>3. QED BY <1>1, <3>1, <3>2 DEF CoreGood
  <2>3. QED BY <2>1, <2>2
<1>4. ASSUME NEW u \in Thread PROVE MemoryGood(call'[u], pcc_promotions', shot'[u])
  <2>1. CASE u = t
    <3>1. shot'[u] = D /\ call'[u] = c
      BY <1>1, <2>1
    <3>2. QED BY <1>1, <3>1
  <2>2. CASE u # t
    <3>1. call'[u] = call[u] /\ shot'[u] = shot[u]
      BY <1>1, <2>2
    <3>2. MemoryGood(call[u], pcc_promotions, shot[u])
      BY DEF MtGood
    <3>3. QED BY <1>1, <3>1, <3>2 DEF MemoryGood
  <2>3. QED BY <2>1, <2>2
<1>5. QED BY <1>2, <1>3, <1>4 DEF MtGood

\* The machine that a thread sees is good for the regions it promoted.
LEMMA ViewGood ==
    ASSUME MtInv, MtGood, NEW t \in Thread
    PROVE  TlbGood(View(t), shot[t]) /\ PccFresh(View(t), shot[t])
           /\ shot[t] \in SUBSET View(t).promoted
<1>1. /\ View(t).l1_2m = core[t].l1_2m /\ View(t).l2 = core[t].l2 /\ View(t).pcc = core[t].pcc
      /\ View(t).promoted = pcc_promotions
  BY ViewFacts
<1>2. CoreGood(core[t], pcc_promotions, shot[t]) /\ shot[t] \in SUBSET pcc_promotions
  BY DEF MtGood
<1>3. QED BY <1>1, <1>2 DEF CoreGood, TlbGood, PccFresh

\* Each way a step changes a machine keeps it good.
LEMMA MachineStepGood ==
    ASSUME MtInv, MtGood, NEW t \in Thread, NEW m, MachineStep(t, m),
           pcc_promotions \subseteq m.promoted
    PROVE  CoreGood(m, m.promoted, shot[t])
<1> DEFINE v == View(t)
           D == shot[t]
<1>1. v \in MachineSet /\ Sound(v.pcc) /\ v.promoted = pcc_promotions
  BY ViewFacts
<1>2. TlbGood(v, D) /\ PccFresh(v, D) /\ D \in SUBSET v.promoted
  BY ViewGood
<1>3. \/ m = v
      \/ \E p \in Page : m = AccessPage(v, p)
      \/ Filled(t, m) \/ Inserted(t, m)
      \/ m.l1_2m = v.l1_2m /\ m.l2 = v.l2 /\ m.pcc = v.pcc
      \/ \E base \in Region : PccStep(m, v, {PccTag(v, base)})
      \/ PccStep(m, v, {})
  BY DEF MachineStep
<1> HIDE DEF v, D
<1>4. CASE m.l1_2m = v.l1_2m /\ m.l2 = v.l2 /\ m.pcc = v.pcc
  <2>1. TlbGood(m, D) /\ PccFresh(m, D)
    BY <1>1, <1>2, <1>4 DEF TlbGood, PccFresh
  <2>2. QED BY <2>1, CoreIsGood DEF D
<1>5. CASE m = v
  BY <1>4, <1>5
<1>6. ASSUME NEW p \in Page, m = AccessPage(v, p)
      PROVE  TlbGood(m, D) /\ PccFresh(m, D)
  BY <1>1, <1>2, <1>6, AccessPageGood
<1>7. ASSUME NEW X, PccStep(m, v, X) PROVE TlbGood(m, D)
  BY <1>2, <1>7 DEF PccStep, TlbGood
<1>8. ASSUME NEW base \in Region, PccStep(m, v, {PccTag(v, base)})
      PROVE  TlbGood(m, D) /\ PccFresh(m, D)
  <2>1. HoldsOnly(m.pcc, v.pcc, {PccTag(v, base)})
    BY <1>8 DEF PccStep
  <2>2. PccFresh(m, D)
    BY <1>2, <2>1, PccStaysFresh
  <2>3. QED BY <1>7, <1>8, <2>2
<1>9. ASSUME PccStep(m, v, {}) PROVE TlbGood(m, D) /\ PccFresh(m, D)
  <2>1. PccFresh(m, D)
    BY <1>2, <1>9 DEF PccStep, PccFresh, HoldsOnly
  <2>2. QED BY <1>7, <1>9, <2>1
<1>10. /\ MemoryGood(call[t], v.promoted, D)
       /\ call[t].is_2m \in BOOLEAN
  BY <1>1 DEF MtGood, MtInv, CallSet, D
<1>11. ASSUME Filled(t, m) PROVE TlbGood(m, D) /\ PccFresh(m, D)
  <2> DEFINE p == call[t].page
             base == BaseOf(p)
  <2>1. /\ call[t].pc = "walk" /\ p \in Page /\ base \in Region
        /\ \E n : /\ IF call[t].is_2m THEN TlbStep(n, v, {base}, {base}) ELSE TlbStep(n, v, {}, {p})
                  /\ m.l1_2m = n.l1_2m /\ m.l2 = n.l2 /\ m.pcc = n.pcc
                  /\ m.promoted = n.promoted
    BY <1>11, Numbers DEF Filled, v
  <2> HIDE DEF p
  <2>2. PICK n : /\ IF call[t].is_2m THEN TlbStep(n, v, {base}, {base}) ELSE TlbStep(n, v, {}, {p})
                 /\ m.l1_2m = n.l1_2m /\ m.l2 = n.l2 /\ m.pcc = n.pcc
                 /\ m.promoted = n.promoted
    BY <2>1
  <2>3. TlbGood(n, D)
    <3>1. CASE call[t].is_2m
      <4>1. base \in v.promoted /\ TlbStep(n, v, {base}, {base})
        BY <1>10, <2>1, <2>2, <3>1 DEF MemoryGood, p
      <4>2. QED BY <1>2, <2>1, <4>1, StepGood
    <3>2. CASE ~call[t].is_2m
      <4>1. base \notin D /\ TlbStep(n, v, {}, {p})
        BY <1>10, <2>1, <2>2, <3>2 DEF MemoryGood, p
      <4>2. QED BY <1>2, <2>1, <4>1, StepGood
    <3>3. QED BY <1>10, <3>1, <3>2
  <2>4. n.pcc = v.pcc
    BY <1>10, <2>2 DEF TlbStep
  <2>5. QED BY <1>2, <2>2, <2>3, <2>4 DEF TlbGood, PccFresh
<1>12. ASSUME Inserted(t, m) PROVE TlbGood(m, D) /\ PccFresh(m, D)
  <2> DEFINE base == BaseOf(call[t].page)
             tag == PccTag(Remembered(t), base)
  <2>1. /\ call[t].pc = "insert" /\ call[t].page \in Page /\ base \in Region
        /\ PccStep(m, v, {tag})
    BY <1>12, Numbers DEF Inserted, v
  <2>2. base \in Remembered(t).promoted <=> call[t].is_2m
    BY <2>1, RememberedFacts
  <2>3. tag \in Region => tag \notin D
    <3>1. CASE call[t].is_2m
      BY <2>1, <2>2, <3>1, LayoutAssumption DEF PccTag
    <3>2. CASE ~call[t].is_2m
      <4>1. base \notin D
        BY <1>10, <2>1, <3>2 DEF MemoryGood
      <4>2. tag = base
        BY <2>2, <3>2 DEF PccTag
      <4>3. QED BY <4>1, <4>2
    <3>3. QED BY <1>10, <3>1, <3>2
  <2> HIDE DEF tag, base
  <2>4. PccFresh(m, D)
    BY <1>2, <2>1, <2>3 DEF PccStep, PccFresh, HoldsOnly
  <2>5. QED BY <1>7, <2>1, <2>4
<1>13. QED BY <1>3, <1>4, <1>5, <1>6, <1>8, <1>9, <1>11, <1>12, CoreIsGood DEF D

\* At the start the caches are empty and nothing is promoted.
LEMMA InitGood == Init => MtGood
<1>1. SUFFICES ASSUME Init PROVE MtGood
  OBVIOUS
<1>2. \A t \in Thread : /\ core[t].l1_2m = EmptyTlb(L1Sets2M) /\ core[t].l2 = EmptyTlb(L2Sets)
                        /\ core[t].pcc = <<>> /\ shot[t] = {}
  BY <1>1 DEF Init
<1>3. shot \in [Thread -> SUBSET pcc_promotions]
  BY <1>1 DEF Init
<1>4. \A b \in Region : ~CacheHit(EmptyTlb(L1Sets2M), b) /\ ~CacheHit(EmptyTlb(L2Sets), b)
  BY Sizes, Numbers, EmptyMisses
<1>5. \A t \in Thread : CoreGood(core[t], pcc_promotions, shot[t])
  BY <1>2, <1>4 DEF CoreGood
<1>6. \A t \in Thread : MemoryGood(call[t], pcc_promotions, shot[t])
  BY <1>1 DEF Init, Idle, MemoryGood
<1>7. QED BY <1>3, <1>5, <1>6 DEF MtGood

\* Every step keeps MtGood: promotions only grow, and the thread that promotes
\* shoots down its own entries.
LEMMA NextGood == MtInv /\ MtGood /\ [Next]_vars => MtGood'
<1>1. SUFFICES ASSUME MtInv, MtGood, [Next]_vars PROVE MtGood'
  OBVIOUS
<1>2. shot \in [Thread -> SUBSET pcc_promotions] /\ call \in [Thread -> CallSet]
  BY <1>1 DEF MtGood, MtInv
<1>3. ASSUME NEW t \in Thread, PlainStep(t) PROVE MtGood'
  <2>1. PICK m, c : StepOf(t, m, c) /\ MachineStep(t, m)
    BY <1>3 DEF PlainStep
  <2>2. Changed(t, m) /\ pcc_promotions \subseteq m.promoted
    BY <2>1 DEF StepOf
  <2>3. CoreGood(m, m.promoted, shot[t])
    BY <1>1, <2>1, <2>2, MachineStepGood
  <2>4. shot[t] \in SUBSET m.promoted /\ shot' = [shot EXCEPT ![t] = shot[t]]
    BY <1>2, <1>3, <2>2 DEF PlainStep
  <2>5. call' = [call EXCEPT ![t] = c] /\ MemoryGood(c, m.promoted, shot[t])
    BY <1>2, <2>1, <2>2 DEF StepOf, MemoryGood
  <2>6. QED BY <1>1, <1>2, <2>2, <2>3, <2>4, <2>5, StepKeepsGood
<1>4. ASSUME NEW t \in Thread, PromotionStep(t) PROVE MtGood'
  <2> DEFINE base == Current(t)
             m == Promoted(t, base)
             n == PromoteRegion(View(t), base)
             D == shot[t] \cup {base}
  <2>1. PICK c : StepOf(t, m, c) /\ c.pc \in {"summary", "lookup"}
    BY <1>4 DEF PromotionStep
  <2>2. call[t].pc = "promote" /\ shot' = [shot EXCEPT ![t] = D]
    BY <1>4 DEF PromotionStep
  <2>3. base \in Base /\ Holds(View(t).pcc, base)
    BY <1>1, <2>2, CurrentListed
  <2>4. /\ \A u : Holds(m.pcc, u) <=> Holds(View(t).pcc, u) /\ u # base
        /\ m.promoted = pcc_promotions \cup {base}
        /\ m.l1_2m = n.l1_2m /\ m.l2 = n.l2 /\ m.promoted = n.promoted
    BY <1>1, <2>3, PromotedFacts
  <2>5. TlbGood(View(t), shot[t]) /\ PccFresh(View(t), shot[t]) /\ View(t) \in MachineSet
    BY <1>1, ViewGood, ViewFacts
  <2>6. TlbGood(n, D)
    BY <2>3, <2>5, PromoteRegionStep
  <2> HIDE DEF m, n, base
  <2>7. TlbGood(m, D)
    BY <2>4, <2>6 DEF TlbGood
  <2>8. PccFresh(m, D)
    BY <2>4, <2>5 DEF PccFresh
  <2>9. D \in SUBSET m.promoted
    BY <1>2, <2>4
  <2> HIDE DEF D
  <2>10. CoreGood(m, m.promoted, D)
    BY <2>7, <2>8, CoreIsGood
  <2>11. Changed(t, m) /\ pcc_promotions \subseteq m.promoted
    BY <2>1 DEF StepOf
  <2>12. call' = [call EXCEPT ![t] = c] /\ MemoryGood(c, m.promoted, D)
    BY <2>1 DEF StepOf, MemoryGood
  <2>13. QED BY <1>1, <1>2, <2>2, <2>9, <2>10, <2>11, <2>12, StepKeepsGood
<1>5. ASSUME QuietStep PROVE MtGood'
  <2>1. ASSUME NEW u \in Thread
        PROVE  call'[u] = call[u] \/ call'[u].pc = "storing"
    BY <1>2, <1>5 DEF QuietStep, Idle
  <2>2. \A u \in Thread : MemoryGood(call'[u], pcc_promotions, shot[u])
    BY <1>1, <2>1 DEF MtGood, MemoryGood
  <2>3. QED BY <1>1, <1>5, <2>2 DEF QuietStep, MtGood
<1>6. QED BY <1>1, <1>3, <1>4, <1>5, Steps

\* MtGood holds in every state.
THEOREM MtGoodInductive == Spec => []MtGood
<1>1. QED BY MtInductive, InitGood, NextGood, PTL DEF Spec

\* A thread that promoted a region itself never again translates one of its
\* pages through a 4KB entry of its L2 TLB: the shootdown of
\* summarize_promotions reaches all of them and no walk brings one back.
THEOREM MtOwnTlbShotDown == Spec => []OwnTlbShotDown
<1>1. MtGood => OwnTlbShotDown
  BY DEF MtGood, CoreGood, OwnTlbShotDown
<1>2. QED BY <1>1, MtGoodInductive, PTL

\* In no thread, in no interleaving, is there a 2MB translation of a region
\* that is not promoted.
THEOREM MtHugeEntriesPromoted == Spec => []HugeEntriesPromoted
<1>1. MtGood => HugeEntriesPromoted
  BY DEF MtGood, CoreGood, HugeEntriesPromoted
<1>2. QED BY <1>1, MtGoodInductive, PTL

\* A region that a thread promoted itself is never again a candidate in that
\* thread's PCC: a walk enters a promoted region under another tag.
THEOREM MtOwnPromotedLeavesPcc == Spec => []OwnPromotedLeavesPcc
<1>1. MtGood => OwnPromotedLeavesPcc
  BY DEF MtGood, CoreGood, OwnPromotedLeavesPcc
<1>2. QED BY <1>1, MtGoodInductive, PTL
=============================================================================
