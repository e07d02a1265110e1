---------------------------- MODULE KernelProofs ----------------------------
(***************************************************************************)
(* For every number of threads, every graph and each of the three kernels: *)
(* the two barriers keep the rounds of the threads apart, so the worklist  *)
(* that a thread reads does not change under it.  And for bfs: a node is   *)
(* claimed by one thread and listed once, so the lists never overflow.     *)
(* The invariant behind that, about what the lists hold, covers sssp too.  *)
(*                                                                         *)
(* The second part shows that bfs and sssp compute the distances from the  *)
(* seed.  They are compared with the potentials: functions that are 0 at   *)
(* the seed and that no edge exceeds.  Shortest is the greatest potential. *)
(* While the kernels run the distances lie above all potentials (Above),   *)
(* and a node with an edge that is not relaxed is still going to be taken  *)
(* up (Busy); so when the threads have left, the distances are themselves  *)
(* a potential, the greatest one.                                          *)
(***************************************************************************)
EXTENDS ParallelKernels, ListLemmas, FiniteSetTheorems, TLAPS

Fields == {"pc", "hop", "i", "node", "e", "val", "index"}
Round == {"loop", "edge", "store", "min", "reread", "skip", "push", "fill", "clear"}

\* The shape of the threads' local variables.
Shape ==
    /\ DOMAIN th = Thread
    /\ \A t \in Thread : DOMAIN th[t] = Fields /\ th[t].hop \in Nat

\* The threads are on one side of the first barrier or on the other.  Before
\* it they are in the same round, which those that wait have counted already.
Before1(t) == th[t].pc \in Round \cup {"test", "done", "barrier1"}
After1(t) == th[t].pc \in {"reset", "barrier2"}
RoundOf(t) == IF th[t].pc = "barrier1" THEN th[t].hop ELSE th[t].hop + 1
Apart ==
    \/ /\ \A t \in Thread : Before1(t)
       /\ \A t, u \in Thread : RoundOf(t) = RoundOf(u)
    \/ /\ \A t \in Thread : After1(t)
       /\ \A t, u \in Thread : th[t].hop = th[u].hop

PhaseInv == Shape /\ Apart

\* A thread that moves within its side of the barrier, and takes its round
\* along, keeps the phases apart.
Moves(t) ==
    /\ DOMAIN th' = Thread
    /\ \A u \in Thread \ {t} : th'[u] = th[u]
    /\ DOMAIN th'[t] = Fields /\ th'[t].hop \in Nat
    /\ \/ Before1(t) /\ Before1(t)' /\ RoundOf(t)' = RoundOf(t)
       \/ After1(t) /\ After1(t)' /\ th'[t].hop = th[t].hop

\* A move of one thread preserves the invariant.
LEMMA MovePreserves ==
    ASSUME PhaseInv, NEW t \in Thread, Moves(t)
    PROVE  PhaseInv'
<1>1. Shape' BY DEF PhaseInv, Shape, Moves
<1>2. CASE /\ \A u \in Thread : Before1(u)
           /\ \A u, v \in Thread : RoundOf(u) = RoundOf(v)
  <2>1. Before1(t) /\ Before1(t)' /\ RoundOf(t)' = RoundOf(t)
    BY <1>2 DEF Moves, Before1, After1, Round
  <2>2. \A u \in Thread : Before1(u)' /\ RoundOf(u)' = RoundOf(u)
    BY <2>1, <1>2 DEF Moves, Before1, RoundOf
  <2> QED BY <1>1, <1>2, <2>2 DEF PhaseInv, Apart
<1>3. CASE /\ \A u \in Thread : After1(u)
           /\ \A u, v \in Thread : th[u].hop = th[v].hop
  <2>1. After1(t) /\ After1(t)' /\ th'[t].hop = th[t].hop
    BY <1>3 DEF Moves, Before1, After1, Round
  <2>2. \A u \in Thread : After1(u)' /\ th'[u].hop = th[u].hop
    BY <2>1, <1>3 DEF Moves, After1
  <2> QED BY <1>1, <1>3, <2>2 DEF PhaseInv, Apart
<1> QED BY <1>2, <1>3 DEF PhaseInv, Apart

\* A change of local variables other than hop that stays on one side.
LEMMA LocalMove ==
    ASSUME PhaseInv, NEW t \in Thread, NEW l,
           th' = [th EXCEPT ![t] = l],
           DOMAIN l = Fields, l.hop = th[t].hop,
           \/ th[t].pc \in Round \cup {"test"} /\ l.pc \in Round \cup {"test", "done"}
           \/ th[t].pc = "reset" /\ l.pc = "barrier2"
    PROVE  PhaseInv'
<1>1. th'[t] = l /\ \A u \in Thread \ {t} : th'[u] = th[u]
  BY DEF PhaseInv, Shape
<1>2. DOMAIN th' = Thread /\ DOMAIN th'[t] = Fields /\ th'[t].hop \in Nat
  BY <1>1 DEF PhaseInv, Shape
<1>3. \/ Before1(t) /\ Before1(t)' /\ RoundOf(t)' = RoundOf(t)
      \/ After1(t) /\ After1(t)' /\ th'[t].hop = th[t].hop
  BY <1>1 DEF Before1, After1, RoundOf, Round
<1> QED BY <1>1, <1>2, <1>3, MovePreserves DEF Moves

\* The loop over the edges leaves hop alone.
LEMMA EdgesLocal ==
    ASSUME NEW l, NEW e, DOMAIN l = Fields
    PROVE  DOMAIN Edges(l, e) = Fields /\ Edges(l, e).hop = l.hop /\ Edges(l, e).pc \in Round
BY DEF Edges, Fields, Round

\* Going on to the next edge preserves the invariant.
LEMMA NextEdgePreserves ==
    ASSUME PhaseInv, NEW t \in Thread, th[t].pc \in Round, NextEdge(t)
    PROVE  PhaseInv'
<1> DEFINE l == Edges(th[t], th[t].e + 1)
<1>1. DOMAIN th[t] = Fields BY DEF PhaseInv, Shape
<1>2. DOMAIN l = Fields /\ l.hop = th[t].hop /\ l.pc \in Round BY <1>1, EdgesLocal
<1>3. th' = [th EXCEPT ![t] = l] BY DEF NextEdge
<1> HIDE DEF l
<1> QED BY <1>2, <1>3, LocalMove

\* Moving to another point on the same side of the barrier preserves it.
LEMMA GotoPreserves ==
    ASSUME PhaseInv, NEW t \in Thread, NEW pc, Goto(t, pc),
           \/ th[t].pc \in Round /\ pc \in Round
           \/ th[t].pc = "reset" /\ pc = "barrier2"
    PROVE  PhaseInv'
<1> DEFINE l == [th[t] EXCEPT !.pc = pc]
<1>1. DOMAIN l = Fields /\ l.hop = th[t].hop /\ l.pc = pc BY DEF PhaseInv, Shape, Fields
<1>2. th' = [th EXCEPT ![t] = l] BY DEF Goto
<1> HIDE DEF l
<1> QED BY <1>1, <1>2, LocalMove

\* The threads leave a barrier together.
LEMMA BarrierPreserves ==
    ASSUME PhaseInv, NEW from, NEW to, Barrier(from, to),
           \/ from = "barrier1" /\ to = "reset"
           \/ from = "barrier2" /\ to = "test"
    PROVE  PhaseInv'
<1>1. \A t \in Thread : th[t].pc = from BY DEF Barrier, At
<1>2. /\ DOMAIN th' = Thread
      /\ \A t \in Thread : th'[t] = [th[t] EXCEPT !.pc = to, !.index = 0]
  BY DEF Barrier
<1>3. \A t \in Thread : DOMAIN th'[t] = Fields /\ th'[t].hop = th[t].hop /\ th'[t].pc = to
  BY <1>2 DEF PhaseInv, Shape, Fields
<1>4. \A t, u \in Thread : th[t].hop = th[u].hop
  BY <1>1 DEF PhaseInv, Apart, RoundOf, Before1, After1, Round
<1>5. Shape' BY <1>2, <1>3 DEF PhaseInv, Shape
<1>6. CASE to = "reset"
  <2>1. \A t \in Thread : After1(t)' BY <1>3, <1>6 DEF After1
  <2>2. \A t, u \in Thread : th'[t].hop = th'[u].hop BY <1>3, <1>4
  <2> QED BY <1>5, <2>1, <2>2 DEF PhaseInv, Apart
<1>7. CASE to = "test"
  <2>1. \A t \in Thread : Before1(t)' BY <1>3, <1>7 DEF Before1
  <2>2. \A t \in Thread : RoundOf(t)' = th[t].hop + 1 BY <1>3, <1>7 DEF RoundOf
  <2>3. \A t, u \in Thread : RoundOf(t)' = RoundOf(u)' BY <1>4, <2>2
  <2> QED BY <1>5, <2>1, <2>3 DEF PhaseInv, Apart
<1> QED BY <1>6, <1>7

\* Every action keeps the phases apart.
LEMMA PhaseInvariant == Spec => []PhaseInv
<1>1. Init => PhaseInv
  <2> SUFFICES ASSUME Init PROVE PhaseInv OBVIOUS
  <2>1. Shape BY DEF Init, Shape, Fields
  <2>2. \A t \in Thread : th[t].pc = "test" /\ th[t].hop = 1 BY DEF Init
  <2> QED BY <2>1, <2>2 DEF PhaseInv, Apart, Before1, RoundOf
<1>2. PhaseInv /\ [Next]_vars => PhaseInv'
  <2> SUFFICES ASSUME PhaseInv, [Next]_vars PROVE PhaseInv' OBVIOUS
  <2>1. CASE UNCHANGED vars
    BY <2>1 DEF vars, PhaseInv, Shape, Apart, Before1, After1, RoundOf
  <2>2. ASSUME NEW t \in Thread, Step(t) PROVE PhaseInv'
    <3>0. DOMAIN th[t] = Fields /\ th[t].hop \in Nat BY DEF PhaseInv, Shape
    <3>1. CASE Test(t)
      <4> DEFINE l == [th[t] EXCEPT !.pc = IF in_index > 0 THEN "loop" ELSE "done", !.i = t]
      <4>1. DOMAIN l = Fields /\ l.hop = th[t].hop /\ l.pc \in {"loop", "done"}
        BY <3>0 DEF Fields
      <4>2. th' = [th EXCEPT ![t] = l] BY <3>1 DEF Test, PhaseInv, Shape
      <4>3. th[t].pc = "test" BY <3>1 DEF Test, At
      <4> HIDE DEF l
      <4> QED BY <4>1, <4>2, <4>3, LocalMove DEF Round
    <3>2. CASE Take(t)
      <4>0. th[t].pc = "loop" BY <3>2 DEF Take, At
      <4>1. CASE th[t].i < in_index
        <5> DEFINE v == wl[In(t)][th[t].i]
                   k == [th[t] EXCEPT !.node = v, !.val = IF kernel = "pagerank" THEN Share(t, v) ELSE 0]
                   l == Edges(k, 1)
        <5>1. DOMAIN k = Fields /\ k.hop = th[t].hop BY <3>0 DEF Fields
        <5>2. th' = [th EXCEPT ![t] = l] BY <3>2, <4>1 DEF Take
        <5> HIDE DEF k
        <5>3. DOMAIN l = Fields /\ l.hop = th[t].hop /\ l.pc \in Round BY <5>1, EdgesLocal
        <5> HIDE DEF l
        <5> QED BY <5>2, <5>3, <4>0, LocalMove DEF Round
      <4>2. CASE ~(th[t].i < in_index)
        <5> DEFINE l == [th[t] EXCEPT !.pc = "barrier1", !.hop = th[t].hop + 1, !.node = None]
        <5>1. DOMAIN l = Fields /\ l.hop = th[t].hop + 1 /\ l.pc = "barrier1"
          BY <3>0 DEF Fields
        <5>2. th' = [th EXCEPT ![t] = l] BY <3>2, <4>2 DEF Take
        <5> HIDE DEF l
        <5>3. th'[t] = l /\ DOMAIN th' = Thread /\ \A u \in Thread \ {t} : th'[u] = th[u]
          BY <5>2 DEF PhaseInv, Shape
        <5>4. Before1(t) /\ Before1(t)' /\ RoundOf(t)' = RoundOf(t)
          BY <4>0, <5>1, <5>3 DEF Before1, RoundOf, Round
        <5>5. Moves(t) BY <3>0, <5>1, <5>3, <5>4 DEF Moves
        <5> QED BY <5>5, MovePreserves
      <4> QED BY <4>1, <4>2
    <3>3. CASE Push(t)
      <4> DEFINE l == [th[t] EXCEPT !.pc = "fill", !.index = out_index]
      <4>1. DOMAIN l = Fields /\ l.hop = th[t].hop /\ l.pc = "fill" BY <3>0 DEF Fields
      <4>2. th' = [th EXCEPT ![t] = l] BY <3>3 DEF Push, PhaseInv, Shape
      <4>3. th[t].pc = "push" BY <3>3 DEF Push, At
      <4> HIDE DEF l
      <4> QED BY <4>1, <4>2, <4>3, LocalMove DEF Round
    <3>4. CASE Fill(t)
      BY <3>4, NextEdgePreserves DEF Fill, At, Round
    <3>5. CASE Reset(t)
      BY <3>5, GotoPreserves DEF Reset, At
    <3>6. CASE Claim(t)
      BY <3>6, GotoPreserves, NextEdgePreserves DEF Claim, At, Round
    <3>7. CASE Store(t)
      BY <3>7, GotoPreserves DEF Store, At, Round
    <3>8. CASE ReadDist(t)
      <4> DEFINE l == [th[t] EXCEPT !.pc = "min", !.val = ret[th[t].node] + Cost(Edge(t))]
      <4>1. DOMAIN l = Fields /\ l.hop = th[t].hop /\ l.pc = "min" BY <3>0 DEF Fields
      <4>2. th' = [th EXCEPT ![t] = l] BY <3>8 DEF ReadDist, PhaseInv, Shape
      <4>3. th[t].pc = "edge" BY <3>8 DEF ReadDist, At
      <4> HIDE DEF l
      <4> QED BY <4>1, <4>2, <4>3, LocalMove DEF Round
    <3>9. CASE FetchMin(t)
      BY <3>9, GotoPreserves, NextEdgePreserves DEF FetchMin, At, Round
    <3>10. CASE AddResidual(t)
      <4> DEFINE l == [th[t] EXCEPT !.pc = IF FloatOf(r[Out(t)][Target(t)]) < epsilon THEN "reread" ELSE "skip"]
      <4>1. DOMAIN l = Fields /\ l.hop = th[t].hop /\ l.pc \in {"reread", "skip"} BY <3>0 DEF Fields
      <4>2. th' = [th EXCEPT ![t] = l] BY <3>10 DEF AddResidual
      <4>3. th[t].pc = "edge" BY <3>10 DEF AddResidual, At
      <4> HIDE DEF l
      <4> QED BY <4>1, <4>2, <4>3, LocalMove DEF Round
    <3>11. CASE Reread(t)
      BY <3>11, GotoPreserves, NextEdgePreserves DEF Reread, At, Round
    <3>12. CASE Clear(t)
      <4> DEFINE l == [th[t] EXCEPT !.pc = "loop", !.i = th[t].i + NumThreads]
      <4>1. DOMAIN l = Fields /\ l.hop = th[t].hop /\ l.pc = "loop" BY <3>0 DEF Fields
      <4>2. th' = [th EXCEPT ![t] = l] BY <3>12 DEF Clear, PhaseInv, Shape
      <4>3. th[t].pc = "clear" BY <3>12 DEF Clear, At
      <4> HIDE DEF l
      <4> QED BY <4>1, <4>2, <4>3, LocalMove DEF Round
    <3> QED BY <2>2, <3>1, <3>2, <3>3, <3>4, <3>5, <3>6, <3>7, <3>8, <3>9, <3>10, <3>11, <3>12 DEF Step
  <2>4. CASE Barrier("barrier1", "reset")
    <3> DEFINE from == "barrier1"
               to == "reset"
    <3>1. Barrier(from, to) BY <2>4
    <3> QED BY <3>1, BarrierPreserves
  <2>5. CASE Barrier("barrier2", "test") BY <2>5, BarrierPreserves
  <2> QED BY <2>1, <2>2, <2>4, <2>5 DEF Next
<1> QED BY <1>1, <1>2, PTL DEF Spec

\* The worklist that a thread is working through, and its length, do not change
\* under it, for any number of threads and any graph, in bfs, sssp and
\* pagerank.
THEOREM WorklistStable == Spec => ListStable
<1>1. PhaseInv /\ [Next]_vars =>
        [\A t \in Thread : Working(t) => wl'[In(t)] = wl[In(t)] /\ in_index' = in_index]_vars
  <2> SUFFICES ASSUME PhaseInv, Next, NEW t \in Thread, Working(t)
               PROVE  wl'[In(t)] = wl[In(t)] /\ in_index' = in_index
    OBVIOUS
  <2>1. ASSUME NEW u \in Thread, Fill(u)
        PROVE  wl'[In(t)] = wl[In(t)] /\ in_index' = in_index
    <3>1. th[u].pc = "fill" BY <2>1 DEF Fill, At
    <3>2. th[u].hop = th[t].hop /\ th[t].hop \in Nat
      BY <3>1 DEF PhaseInv, Shape, Apart, RoundOf, Before1, After1, Working, Round
    <3>3. Out(u) # In(t) BY <3>2 DEF In, Out
    <3>4. wl' = [wl EXCEPT ![Out(u)] = Written(wl[Out(u)], th[u].index, Target(u))]
      BY <2>1 DEF Fill
    <3>5. in_index' = in_index BY <2>1 DEF Fill
    <3> QED BY <3>3, <3>4, <3>5
  <2>2. ASSUME NEW u \in Thread, Reset(u) PROVE FALSE
    BY <2>2 DEF Reset, At, PhaseInv, Apart, Before1, After1, Working, Round
  <2>3. ASSUME NEW u \in Thread, Step(u), ~Fill(u), ~Reset(u)
        PROVE  wl' = wl /\ in_index' = in_index
    BY <2>3 DEF Step, Test, Take, Push, Claim, Store, ReadDist, FetchMin, AddResidual, Reread, Clear
  <2>4. ASSUME NEW from, NEW to, Barrier(from, to) PROVE wl' = wl /\ in_index' = in_index
    BY <2>4 DEF Barrier
  <2> QED BY <2>1, <2>2, <2>3, <2>4 DEF Next
<1> QED BY <1>1, PhaseInvariant, PTL DEF Spec, ListStable
-----------------------------------------------------------------------------
(***************************************************************************)
(* bfs and sssp: the lists.  A thread that has won the compare-and-swap    *)
(* (bfs) or the fetch_min (sssp) of a node claims it until it has filled   *)
(* its entry of the list.  In bfs a node is claimed and listed once.       *)
(***************************************************************************)
Claims(t) == th[t].pc \in {"store", "push", "fill"}

\* The list that is being filled; thread 0 changes it when it resets the
\* indices.
Cur == IF th[0].pc \in {"barrier1", "reset"} THEN In(0) ELSE Out(0)

\* An entry that was taken and written.
Filled(i) ==
    /\ i \in 0..(out_index - 1)
    /\ \A t \in Thread : At(t, "fill") => th[t].index # i

\* The program points of the two kernels, and those at which a thread is on an
\* edge of the node it works on.
EdgePc == {"edge", "min", "store", "push", "fill"}
WalkPc == EdgePc \cup {"test", "loop", "barrier1", "reset", "barrier2", "done"}
WalkLocal == [pc : WalkPc, hop : Nat, i : Nat, node : Node \cup {None}, e : Nat, val : Int, index : Nat]
OnEdge(l) ==
    /\ l.pc \in EdgePc => l.node \in Node /\ l.e \in 1..Len(adj[l.node])
    /\ l.pc = "store" => kernel = "bfs"
    /\ l.pc = "min" => kernel = "sssp"

WalkTypes ==
    /\ adj \in [Node -> Seq([to : Node, weight : Nat])]
    /\ th \in [Thread -> WalkLocal]
    /\ \A t \in Thread : OnEdge(th[t])
    /\ ret \in [Node -> Int]
    /\ wl \in [{0, 1} -> [0..(Capacity(kernel) - 1) -> Node \cup {None}]]
    /\ in_index \in Nat /\ out_index \in Nat

\* The list that is read has nodes up to its length.
ReadsNodes == \A i \in 0..(in_index - 1) : wl[1 - Cur][i] \in Node

\* The fetch-and-add gives every thread an entry of its own.
OwnEntry ==
    /\ \A t \in Thread : At(t, "fill") => th[t].index < out_index
    /\ \A t, u \in Thread : At(t, "fill") /\ At(u, "fill") /\ th[t].index = th[u].index => t = u

\* A node that is claimed or listed has left the value -1 that the
\* compare-and-swap expects, and it is claimed or listed only once.
OneClaim ==
    /\ \A t \in Thread : Claims(t) => ret[Target(t)] # -1
    /\ \A t, u \in Thread : Claims(t) /\ Claims(u) /\ Target(t) = Target(u) => t = u
    /\ \A i \in Nat : Filled(i) => wl[Cur][i] \in Node /\ ret[wl[Cur][i]] # -1
    /\ \A i, j \in Nat : Filled(i) /\ Filled(j) /\ wl[Cur][i] = wl[Cur][j] => i = j
    /\ \A t \in Thread, i \in Nat : Claims(t) /\ Filled(i) => Target(t) # wl[Cur][i]

\* An entry that was filled holds a node.
FilledNodes == \A i \in Nat : Filled(i) => wl[Cur][i] \in Node

WalkInv ==
    /\ WalkTypes /\ ReadsNodes /\ OwnEntry /\ FilledNodes
    /\ kernel = "bfs" => OneClaim

\* There is a thread 0, and the lists have room for every node.
LEMMA Sizes ==
    /\ 0 \in Thread /\ NumThreads \in Nat /\ N \in Nat /\ N > 0
    /\ \A k : N <= Capacity(k) /\ Capacity(k) \in Nat
<1>1. NumThreads \in Nat \ {0} /\ IsFiniteSet(Node) /\ Seed \in Node
  BY KernelsAssumption
<1>2. N \in Nat
  BY <1>1, FS_CardinalityType DEF N
<1>3. N # 0
  BY <1>1, FS_EmptySet DEF N
<1>4. QED BY <1>1, <1>2, <1>3 DEF Thread, Capacity

\* Within a list of n entries a write changes the entry and nothing else.
LEMMA WrittenInside ==
    ASSUME NEW n, NEW list \in [0..(n - 1) -> Node \cup {None}], NEW i \in 0..(n - 1), NEW w
    PROVE  Written(list, i, w) = [list EXCEPT ![i] = w]
BY DEF Written

\* A thread in the loop over the edges fills the list that is being filled.
LEMMA OutIsCur ==
    ASSUME PhaseInv, NEW t \in Thread, th[t].pc \in Round
    PROVE  Out(t) = Cur
<1>1. th[t].hop \in Nat /\ th[0].hop \in Nat /\ 0 \in Thread
  BY Sizes DEF PhaseInv, Shape
<1>2. Before1(0) /\ RoundOf(0) = RoundOf(t)
  BY <1>1 DEF PhaseInv, Apart, Before1, After1, Round
<1>3. CASE th[0].pc = "barrier1"
  <2>1. th[0].hop = th[t].hop + 1
    BY <1>1, <1>2, <1>3 DEF RoundOf, Round
  <2>2. QED BY <1>1, <1>3, <2>1 DEF Cur, In, Out
<1>4. CASE th[0].pc # "barrier1"
  <2>1. th[0].hop = th[t].hop
    BY <1>1, <1>2, <1>4 DEF RoundOf, Round
  <2>2. QED BY <1>1, <1>2, <1>4, <2>1 DEF Cur, In, Out, Before1, Round
<1>5. QED BY <1>3, <1>4

\* Cur is 0 or 1.
LEMMA CurType ==
    ASSUME WalkTypes PROVE Cur \in {0, 1} /\ 1 - Cur \in {0, 1} /\ 1 - (1 - Cur) = Cur
BY Sizes DEF WalkTypes, WalkLocal, Cur, In, Out

\* The target of a thread on an edge is a node.
LEMMA TargetNode ==
    ASSUME WalkTypes, NEW t \in Thread, th[t].pc \in EdgePc
    PROVE  Target(t) \in Node
<1>1. th[t].node \in Node /\ th[t].e \in 1..Len(adj[th[t].node])
  BY DEF WalkTypes, OnEdge, EdgePc
<1>2. adj[th[t].node] \in Seq([to : Node, weight : Nat])
  BY <1>1 DEF WalkTypes
<1>3. adj[th[t].node][th[t].e] \in [to : Node, weight : Nat]
  <2>1. ASSUME NEW S, NEW s \in Seq(S), NEW e \in 1..Len(s) PROVE s[e] \in S
    OBVIOUS
  <2>2. QED BY <1>1, <1>2, <2>1
<1>4. QED BY <1>3 DEF Target, Edge

\* A step that adds no claim and no entry, and that resets no node, keeps the
\* nodes claimed once.
LEMMA SameClaims ==
    ASSUME OneClaim, WalkTypes,
           \A u \in Thread : Claims(u)' => Claims(u) /\ Target(u)' = Target(u),
           \A i \in Nat : Filled(i)' => Filled(i) /\ wl'[Cur'][i] = wl[Cur][i],
           \A n \in Node : ret[n] # -1 => ret'[n] # -1
    PROVE  OneClaim'
<1>1. \A u \in Thread : Claims(u)' => ret'[Target(u)'] # -1
  BY TargetNode DEF OneClaim, Claims, EdgePc
<1>2. \A u, v \in Thread : Claims(u)' /\ Claims(v)' /\ Target(u)' = Target(v)' => u = v
  BY DEF OneClaim
<1>3. \A i \in Nat : Filled(i)' => wl'[Cur'][i] \in Node /\ ret'[wl'[Cur'][i]] # -1
  BY DEF OneClaim
<1>4. \A i, j \in Nat : Filled(i)' /\ Filled(j)' /\ wl'[Cur'][i] = wl'[Cur'][j] => i = j
  BY DEF OneClaim
<1>5. \A u \in Thread, i \in Nat : Claims(u)' /\ Filled(i)' => Target(u)' # wl'[Cur'][i]
  BY DEF OneClaim
<1>6. QED BY <1>1, <1>2, <1>3, <1>4, <1>5 DEF OneClaim

\* What a step of one thread makes of the local variables.
LEMMA OneThread ==
    ASSUME WalkTypes, NEW t \in Thread, NEW l \in WalkLocal, OnEdge(l),
           th' = [th EXCEPT ![t] = l], UNCHANGED <<kernel, adj>>
    PROVE  /\ th' \in [Thread -> WalkLocal] /\ th'[t] = l
           /\ \A u \in Thread : u # t => th'[u] = th[u] /\ Target(u)' = Target(u)
           /\ \A u \in Thread : OnEdge(th[u])'
           /\ l.node = th[t].node /\ l.e = th[t].e => Target(t)' = Target(t)
<1>1. th' \in [Thread -> WalkLocal] /\ th'[t] = l /\ \A u \in Thread : u # t => th'[u] = th[u]
  BY DEF WalkTypes
<1>2. \A u \in Thread : u # t => Target(u)' = Target(u)
  BY <1>1 DEF Target, Edge
<1>3. \A u \in Thread : OnEdge(th[u])'
  BY <1>1 DEF WalkTypes, OnEdge
<1>4. l.node = th[t].node /\ l.e = th[t].e => Target(t)' = Target(t)
  BY <1>1 DEF Target, Edge
<1>5. QED BY <1>1, <1>2, <1>3, <1>4

\* A step of one thread that neither claims nor pushes nor fills.
LEMMA LocalKeeps ==
    ASSUME WalkInv, NEW t \in Thread, NEW l \in WalkLocal, OnEdge(l),
           th' = [th EXCEPT ![t] = l],
           UNCHANGED <<kernel, adj, ret, wl, in_index, out_index>>,
           Cur' = Cur, ~Claims(t), l.pc \notin {"store", "push", "fill"}
    PROVE  WalkInv'
<1>1. WalkTypes /\ ReadsNodes /\ OwnEntry /\ FilledNodes /\ (kernel = "bfs" => OneClaim)
  BY DEF WalkInv
<1>2. /\ th' \in [Thread -> WalkLocal] /\ th'[t] = l
      /\ \A u \in Thread : u # t => th'[u] = th[u] /\ Target(u)' = Target(u)
      /\ \A u \in Thread : OnEdge(th[u])'
  BY <1>1, OneThread
<1>3. WalkTypes'
  BY <1>1, <1>2 DEF WalkTypes
<1>4. ReadsNodes'
  BY <1>1 DEF ReadsNodes
<1>5. \A u \in Thread : Claims(u)' => Claims(u) /\ u # t
  BY <1>2 DEF Claims
<1>6. \A u \in Thread : At(u, "fill")' <=> At(u, "fill")
  BY <1>2 DEF Claims, At
<1>7. \A u \in Thread : At(u, "fill")' => th'[u] = th[u]
  BY <1>2, <1>5 DEF Claims, At
<1>8. OwnEntry'
  BY <1>1, <1>6, <1>7 DEF OwnEntry
<1>9. \A i \in Nat : Filled(i)' => Filled(i) /\ wl'[Cur'][i] = wl[Cur][i]
  BY <1>6, <1>7 DEF Filled
<1>10. FilledNodes' /\ (kernel = "bfs" => OneClaim')
  BY <1>1, <1>2, <1>5, <1>9, SameClaims DEF FilledNodes
<1>11. QED BY <1>3, <1>4, <1>8, <1>10 DEF WalkInv

\* Only the reset by thread 0 changes the list that is being filled.
LEMMA CurKept ==
    ASSUME WalkTypes, NEW t \in Thread, NEW l \in WalkLocal, th' = [th EXCEPT ![t] = l],
           \/ t # 0
           \/ /\ th[t].pc \notin {"barrier1", "reset"}
              /\ \/ l.pc \notin {"barrier1", "reset"} /\ l.hop = th[t].hop
                 \/ l.pc = "barrier1" /\ l.hop = th[t].hop + 1
    PROVE  Cur' = Cur
<1>1. 0 \in Thread /\ th \in [Thread -> WalkLocal]
  BY Sizes DEF WalkTypes
<1>2. CASE t # 0
  BY <1>1, <1>2 DEF Cur, In, Out
<1>3. CASE t = 0
  <2>1. th'[0] = l /\ th[0].hop \in Nat
    BY <1>1, <1>3 DEF WalkLocal
  <2>2. QED BY <1>3, <2>1 DEF Cur, In, Out
<1>4. QED BY <1>2, <1>3

\* The loop over the edges of a node.
LEMMA WalkEdges ==
    ASSUME kernel # "pagerank", WalkTypes, NEW l \in WalkLocal, l.node \in Node, NEW e \in Nat \ {0}
    PROVE  /\ Edges(l, e) \in WalkLocal /\ OnEdge(Edges(l, e))
           /\ Edges(l, e).pc \in {"edge", "loop"} /\ Edges(l, e).hop = l.hop
<1>1. NumThreads \in Nat
  BY Sizes
<1>2. Len(adj[l.node]) \in Nat
  BY DEF WalkTypes
<1>3. CASE e <= Len(adj[l.node])
  <2> DEFINE m == [l EXCEPT !.pc = "edge", !.e = e]
  <2>1. Edges(l, e) = m
    BY <1>3 DEF Edges
  <2>2. m \in WalkLocal
    BY DEF WalkLocal, WalkPc, EdgePc
  <2>3. m.pc = "edge" /\ m.e = e /\ m.node = l.node /\ m.hop = l.hop
    BY DEF WalkLocal
  <2> HIDE DEF m
  <2>4. e \in 1..Len(adj[l.node])
    BY <1>2, <1>3
  <2>5. QED BY <2>1, <2>2, <2>3, <2>4 DEF OnEdge, EdgePc
<1>4. CASE ~(e <= Len(adj[l.node]))
  <2> DEFINE m == [l EXCEPT !.pc = "loop", !.e = 0, !.i = l.i + NumThreads]
  <2>1. Edges(l, e) = m
    BY <1>4 DEF Edges
  <2>2. m \in WalkLocal
    <3>1. l.i + NumThreads \in Nat
      BY <1>1 DEF WalkLocal
    <3>2. ASSUME NEW i \in Nat PROVE [l EXCEPT !.pc = "loop", !.e = 0, !.i = i] \in WalkLocal
      BY DEF WalkLocal, WalkPc, EdgePc
    <3>3. QED BY <3>1, <3>2
  <2>3. m.pc = "loop" /\ m.hop = l.hop
    BY DEF WalkLocal
  <2> HIDE DEF m
  <2>4. QED BY <2>1, <2>2, <2>3 DEF OnEdge, EdgePc
<1>5. QED BY <1>3, <1>4

\* Going on to the next edge without a claim.
LEMMA NextEdgeKeeps ==
    ASSUME kernel # "pagerank", WalkInv, NEW t \in Thread, th[t].pc \in {"edge", "min"}, NextEdge(t),
           UNCHANGED <<kernel, adj, ret, wl, in_index, out_index>>
    PROVE  WalkInv'
<1> DEFINE l == Edges(th[t], th[t].e + 1)
<1>1. WalkTypes /\ th[t] \in WalkLocal /\ th[t].node \in Node /\ th[t].e \in Nat
  BY DEF WalkInv, WalkTypes, OnEdge, EdgePc, WalkLocal
<1>2. l \in WalkLocal /\ OnEdge(l) /\ l.pc \in {"edge", "loop"} /\ l.hop = th[t].hop
  BY <1>1, WalkEdges
<1>3. th' = [th EXCEPT ![t] = l]
  BY DEF NextEdge
<1> HIDE DEF l
<1>4. Cur' = Cur
  BY <1>1, <1>2, <1>3, CurKept
<1>5. ~Claims(t)
  BY DEF Claims
<1>6. QED BY <1>2, <1>3, <1>4, <1>5, LocalKeeps

\* The test of the while loop.
LEMMA TestKeeps ==
    ASSUME kernel # "pagerank", WalkInv, NEW t \in Thread, Test(t)
    PROVE  WalkInv'
<1> DEFINE l == [th[t] EXCEPT !.pc = IF in_index > 0 THEN "loop" ELSE "done", !.i = t]
<1>1. WalkTypes /\ th[t] \in WalkLocal /\ th[t].pc = "test"
  BY DEF WalkInv, WalkTypes, Test, At
<1>2. l \in WalkLocal /\ OnEdge(l) /\ l.pc \in {"loop", "done"} /\ l.hop = th[t].hop
  <2>1. l \in WalkLocal
    <3>1. t \in Nat
      BY Sizes DEF Thread
    <3>2. ASSUME NEW pc \in WalkPc PROVE [th[t] EXCEPT !.pc = pc, !.i = t] \in WalkLocal
      BY <1>1, <3>1 DEF WalkLocal
    <3>3. QED BY <3>2 DEF WalkPc, EdgePc
  <2>2. l.pc \in {"loop", "done"} /\ l.hop = th[t].hop
    BY <1>1 DEF WalkLocal
  <2> HIDE DEF l
  <2>3. QED BY <2>1, <2>2 DEF OnEdge, EdgePc
<1>3. th' = [th EXCEPT ![t] = l] /\ UNCHANGED <<kernel, adj, ret, wl, in_index, out_index>>
  BY <1>1 DEF Test, graph, WalkTypes
<1> HIDE DEF l
<1>4. Cur' = Cur
  BY <1>1, <1>2, <1>3, CurKept
<1>5. ~Claims(t)
  BY <1>1 DEF Claims
<1>6. QED BY <1>2, <1>3, <1>4, <1>5, LocalKeeps

\* The next entry of the list that is read, or the first barrier.
LEMMA TakeKeeps ==
    ASSUME kernel # "pagerank", PhaseInv, WalkInv, NEW t \in Thread, Take(t)
    PROVE  WalkInv'
<1>1. WalkTypes /\ th[t] \in WalkLocal /\ th[t].pc = "loop" /\ ~Claims(t)
  BY DEF WalkInv, WalkTypes, Take, At, Claims
<1>2. UNCHANGED <<kernel, adj, ret, wl, in_index, out_index>>
  BY DEF Take, graph
<1>3. CASE th[t].i < in_index
  <2> DEFINE v == wl[In(t)][th[t].i]
             k == [th[t] EXCEPT !.node = v, !.val = 0]
             l == Edges(k, 1)
  <2>1. th' = [th EXCEPT ![t] = l]
    BY <1>3 DEF Take
  <2>2. In(t) = 1 - Cur
    <3>1. Out(t) = Cur
      BY <1>1, OutIsCur DEF Round
    <3>2. QED BY <1>1, <3>1 DEF In, Out, WalkLocal
  <2>3. v \in Node
    BY <1>1, <1>3, <2>2 DEF WalkInv, ReadsNodes, WalkLocal, WalkTypes
  <2> HIDE DEF v
  <2>4. k \in WalkLocal /\ k.node \in Node /\ k.hop = th[t].hop
    <3>1. ASSUME NEW m \in WalkLocal, NEW n \in Node, NEW x \in Int
          PROVE  [m EXCEPT !.node = n, !.val = x] \in WalkLocal
      BY DEF WalkLocal
    <3>2. k \in WalkLocal
      <4>1. 0 \in Int
        OBVIOUS
      <4>2. QED BY <1>1, <2>3, <3>1, <4>1, Zenon
    <3>3. QED BY <1>1, <2>3, <3>2 DEF WalkLocal
  <2> HIDE DEF k
  <2>5. l \in WalkLocal /\ OnEdge(l) /\ l.pc \in {"edge", "loop"} /\ l.hop = th[t].hop
    BY <1>1, <2>4, WalkEdges
  <2> HIDE DEF l
  <2>6. Cur' = Cur
    BY <1>1, <2>1, <2>5, CurKept
  <2>7. QED BY <1>1, <1>2, <2>1, <2>5, <2>6, LocalKeeps
<1>4. CASE ~(th[t].i < in_index)
  <2> DEFINE l == [th[t] EXCEPT !.pc = "barrier1", !.hop = th[t].hop + 1, !.node = None]
  <2>1. th' = [th EXCEPT ![t] = l]
    BY <1>4 DEF Take
  <2>2. l \in WalkLocal /\ OnEdge(l) /\ l.pc = "barrier1" /\ l.hop = th[t].hop + 1
    <3>1. l \in WalkLocal
      <4>1. th[t].hop + 1 \in Nat
        BY <1>1 DEF WalkLocal
      <4>2. ASSUME NEW h \in Nat
            PROVE  [th[t] EXCEPT !.pc = "barrier1", !.hop = h, !.node = None] \in WalkLocal
        BY <1>1 DEF WalkLocal, WalkPc, EdgePc
      <4>3. QED BY <4>1, <4>2
    <3>2. l.pc = "barrier1" /\ l.hop = th[t].hop + 1
      BY <1>1 DEF WalkLocal
    <3> HIDE DEF l
    <3>3. QED BY <3>1, <3>2 DEF OnEdge, EdgePc
  <2> HIDE DEF l
  <2>3. Cur' = Cur
    BY <1>1, <2>1, <2>2, CurKept
  <2>4. QED BY <1>1, <1>2, <2>1, <2>2, <2>3, LocalKeeps
<1>5. QED BY <1>3, <1>4

\* The compare-and-swap: the winner is the first to claim the node.
LEMMA ClaimKeeps ==
    ASSUME kernel = "bfs", WalkInv, NEW t \in Thread, Claim(t)
    PROVE  WalkInv'
<1>1. WalkTypes /\ ReadsNodes /\ OwnEntry /\ FilledNodes /\ (kernel = "bfs" => OneClaim)
  BY DEF WalkInv
<1>2. th[t] \in WalkLocal /\ th[t].pc = "edge" /\ ~Claims(t) /\ Target(t) \in Node
  BY <1>1, TargetNode DEF WalkTypes, Claim, At, Claims, EdgePc
<1>3. UNCHANGED <<kernel, adj, wl, in_index, out_index>>
  BY DEF Claim, graph
<1>4. CASE ret[Target(t)] # -1
  BY <1>2, <1>3, <1>4, NextEdgeKeeps DEF Claim
<1>5. CASE ret[Target(t)] = -1
  <2> DEFINE l == [th[t] EXCEPT !.pc = "store"]
  <2>1. ret' = [ret EXCEPT ![Target(t)] = th[t].hop] /\ th' = [th EXCEPT ![t] = l]
    BY <1>5 DEF Claim, Goto
  <2>2. l \in WalkLocal
    BY <1>2 DEF WalkLocal, WalkPc, EdgePc
  <2>3. l.pc = "store" /\ l.hop = th[t].hop /\ l.node = th[t].node /\ l.e = th[t].e
    BY <1>2 DEF WalkLocal
  <2> HIDE DEF l
  <2>4. OnEdge(l)
    BY <1>1, <1>2, <2>3 DEF OnEdge, EdgePc, WalkTypes
  <2>5. /\ th' \in [Thread -> WalkLocal] /\ th'[t] = l
        /\ \A u \in Thread : u # t => th'[u] = th[u] /\ Target(u)' = Target(u)
        /\ \A u \in Thread : OnEdge(th[u])'
        /\ Target(t)' = Target(t)
    BY <1>1, <1>3, <2>1, <2>2, <2>3, <2>4, OneThread
  <2>6. Cur' = Cur
    BY <1>1, <1>2, <2>1, <2>2, <2>3, CurKept
  <2>7. th[t].hop \in Nat /\ ret' \in [Node -> Int]
    BY <1>1, <1>2, <2>1 DEF WalkLocal, WalkTypes
  <2>8. WalkTypes'
    BY <1>1, <1>3, <2>5, <2>7 DEF WalkTypes
  <2>9. ReadsNodes'
    BY <1>1, <1>3, <2>6 DEF ReadsNodes
  <2>10. \A u \in Thread : /\ At(u, "fill")' <=> At(u, "fill")
                           /\ At(u, "fill") => th'[u] = th[u]
    BY <1>2, <2>3, <2>5 DEF At
  <2>11. OwnEntry'
    BY <1>1, <1>3, <2>10 DEF OwnEntry
  <2>12. \A i \in Nat : Filled(i)' <=> Filled(i)
    BY <1>3, <2>10 DEF Filled
  <2>13. \A u \in Thread : Claims(u)' <=> Claims(u) \/ u = t
    BY <2>3, <2>5 DEF Claims
  <2>14. \A u \in Thread : Claims(u) => u # t /\ Target(u)' = Target(u) /\ Target(u) # Target(t)
    BY <1>1, <1>2, <1>5, <2>5 DEF OneClaim
  <2>15. \A i \in Nat : Filled(i) => wl[Cur][i] \in Node /\ wl[Cur][i] # Target(t)
    BY <1>1, <1>5 DEF OneClaim
  <2>16. ret'[Target(t)] # -1 /\ \A n \in Node : ret[n] # -1 => ret'[n] # -1
    BY <1>1, <1>2, <2>1, <2>7 DEF WalkTypes
  <2>17. \A u \in Thread : Claims(u) => Target(u) \in Node
    BY <1>1, TargetNode DEF Claims, EdgePc
  <2>18. OneClaim'
    <3>1. \A u \in Thread : Claims(u)' => ret'[Target(u)'] # -1
      BY <1>1, <2>5, <2>13, <2>14, <2>16, <2>17 DEF OneClaim
    <3>2. \A u, v \in Thread : Claims(u)' /\ Claims(v)' /\ Target(u)' = Target(v)' => u = v
      BY <1>1, <2>5, <2>13, <2>14 DEF OneClaim
    <3>3. \A i \in Nat : Filled(i)' => wl'[Cur'][i] \in Node /\ ret'[wl'[Cur'][i]] # -1
      BY <1>1, <1>3, <2>6, <2>12, <2>16 DEF OneClaim
    <3>4. \A i, j \in Nat : Filled(i)' /\ Filled(j)' /\ wl'[Cur'][i] = wl'[Cur'][j] => i = j
      BY <1>1, <1>3, <2>6, <2>12 DEF OneClaim
    <3>5. \A u \in Thread, i \in Nat : Claims(u)' /\ Filled(i)' => Target(u)' # wl'[Cur'][i]
      BY <1>1, <1>3, <2>5, <2>6, <2>12, <2>13, <2>14, <2>15 DEF OneClaim
    <3>6. QED BY <3>1, <3>2, <3>3, <3>4, <3>5 DEF OneClaim
  <2>19. FilledNodes'
    BY <1>1, <1>3, <2>6, <2>12 DEF FilledNodes
  <2>20. QED BY <2>8, <2>9, <2>11, <2>18, <2>19 DEF WalkInv
<1>6. QED BY <1>4, <1>5

\* The store of the whole word leaves the claim where it is.
LEMMA StoreKeeps ==
    ASSUME WalkInv, NEW t \in Thread, Store(t)
    PROVE  WalkInv'
<1> DEFINE l == [th[t] EXCEPT !.pc = "push"]
<1>1. WalkTypes /\ ReadsNodes /\ OwnEntry /\ FilledNodes /\ (kernel = "bfs" => OneClaim)
  BY DEF WalkInv
<1>2. th[t] \in WalkLocal /\ th[t].pc = "store" /\ Claims(t) /\ Target(t) \in Node
  BY <1>1, TargetNode DEF WalkTypes, Store, At, Claims, EdgePc
<1>3. UNCHANGED <<kernel, adj, wl, in_index, out_index>> /\ th' = [th EXCEPT ![t] = l]
  BY DEF Store, graph, Goto
<1>4. l \in WalkLocal
  BY <1>2 DEF WalkLocal, WalkPc, EdgePc
<1>5. l.pc = "push" /\ l.hop = th[t].hop /\ l.node = th[t].node /\ l.e = th[t].e
  BY <1>2 DEF WalkLocal
<1> HIDE DEF l
<1>6. OnEdge(l)
  BY <1>1, <1>2, <1>5 DEF OnEdge, EdgePc, WalkTypes
<1>7. /\ th' \in [Thread -> WalkLocal] /\ th'[t] = l
      /\ \A u \in Thread : u # t => th'[u] = th[u] /\ Target(u)' = Target(u)
      /\ \A u \in Thread : OnEdge(th[u])'
      /\ Target(t)' = Target(t)
  BY <1>1, <1>3, <1>4, <1>5, <1>6, OneThread
<1>8. Cur' = Cur
  BY <1>1, <1>2, <1>3, <1>4, <1>5, CurKept
<1>9. ret' = [ret EXCEPT ![Target(t)] = th[t].hop] /\ th[t].hop \in Nat
  BY <1>2 DEF Store, WalkLocal
<1>10. WalkTypes'
  <2>1. ret' \in [Node -> Int]
    BY <1>1, <1>2, <1>9 DEF WalkTypes
  <2>2. QED BY <1>1, <1>3, <1>7, <2>1 DEF WalkTypes
<1>11. ReadsNodes'
  BY <1>1, <1>3, <1>8 DEF ReadsNodes
<1>12. \A u \in Thread : /\ At(u, "fill")' <=> At(u, "fill")
                         /\ At(u, "fill") => th'[u] = th[u]
  BY <1>2, <1>5, <1>7 DEF At
<1>13. OwnEntry'
  BY <1>1, <1>3, <1>12 DEF OwnEntry
<1>14. \A i \in Nat : Filled(i)' => Filled(i) /\ wl'[Cur'][i] = wl[Cur][i]
  BY <1>3, <1>8, <1>12 DEF Filled
<1>15. \A u \in Thread : Claims(u)' => Claims(u) /\ Target(u)' = Target(u)
  BY <1>2, <1>7 DEF Claims
<1>16. \A n \in Node : ret[n] # -1 => ret'[n] # -1
  BY <1>1, <1>9 DEF WalkTypes
<1>17. FilledNodes' /\ (kernel = "bfs" => OneClaim')
  BY <1>1, <1>14, <1>15, <1>16, SameClaims DEF FilledNodes
<1>18. QED BY <1>3, <1>10, <1>11, <1>13, <1>17 DEF WalkInv

\* The fetch-and-add: the claim gets an entry that no one else has.
LEMMA PushKeeps ==
    ASSUME WalkInv, NEW t \in Thread, Push(t)
    PROVE  WalkInv'
<1> DEFINE l == [th[t] EXCEPT !.pc = "fill", !.index = out_index]
<1>1. WalkTypes /\ ReadsNodes /\ OwnEntry /\ FilledNodes /\ (kernel = "bfs" => OneClaim)
  BY DEF WalkInv
<1>2. th[t] \in WalkLocal /\ th[t].pc = "push" /\ Claims(t) /\ out_index \in Nat
  BY <1>1 DEF WalkTypes, Push, At, Claims
<1>3. UNCHANGED <<kernel, adj, ret, wl, in_index>> /\ th' = [th EXCEPT ![t] = l] /\ out_index' = out_index + 1
  BY <1>1 DEF Push, graph, WalkTypes
<1>4. l \in WalkLocal
  BY <1>2 DEF WalkLocal, WalkPc, EdgePc
<1>5. /\ l.pc = "fill" /\ l.hop = th[t].hop /\ l.node = th[t].node /\ l.e = th[t].e
      /\ l.index = out_index
  BY <1>2 DEF WalkLocal
<1> HIDE DEF l
<1>6. OnEdge(l)
  BY <1>1, <1>2, <1>5 DEF OnEdge, EdgePc, WalkTypes
<1>7. /\ th' \in [Thread -> WalkLocal] /\ th'[t] = l
      /\ \A u \in Thread : u # t => th'[u] = th[u] /\ Target(u)' = Target(u)
      /\ \A u \in Thread : OnEdge(th[u])'
      /\ Target(t)' = Target(t)
  BY <1>1, <1>3, <1>4, <1>5, <1>6, OneThread
<1>8. Cur' = Cur
  BY <1>1, <1>2, <1>3, <1>4, <1>5, CurKept
<1>9. WalkTypes'
  <2>1. out_index' \in Nat
    BY <1>2, <1>3
  <2>2. QED BY <1>1, <1>3, <1>7, <2>1 DEF WalkTypes
<1>10. ReadsNodes'
  BY <1>1, <1>3, <1>8 DEF ReadsNodes
<1>11. \A u \in Thread : u # t => (At(u, "fill")' <=> At(u, "fill")) /\ th'[u] = th[u]
  BY <1>7 DEF At
<1>12. At(t, "fill")' /\ th'[t].index = out_index
  BY <1>5, <1>7 DEF At
<1>13. \A u \in Thread : th[u].index \in Nat
  BY <1>1 DEF WalkTypes, WalkLocal
<1>14. OwnEntry'
  <2>1. \A u \in Thread : At(u, "fill")' => th'[u].index < out_index'
    BY <1>1, <1>2, <1>3, <1>11, <1>12, <1>13 DEF OwnEntry
  <2>2. \A u, v \in Thread : At(u, "fill")' /\ At(v, "fill")' /\ th'[u].index = th'[v].index => u = v
    BY <1>1, <1>2, <1>11, <1>12, <1>13 DEF OwnEntry
  <2>3. QED BY <2>1, <2>2 DEF OwnEntry
<1>15. \A i \in Nat : Filled(i)' => Filled(i) /\ wl'[Cur'][i] = wl[Cur][i]
  <2>1. SUFFICES ASSUME NEW i \in Nat, Filled(i)' PROVE Filled(i)
    BY <1>3, <1>8
  <2>2. i # out_index /\ i \in 0..out_index
    BY <1>2, <1>3, <1>12, <2>1 DEF Filled
  <2>3. \A u \in Thread : At(u, "fill") => th[u].index # i
    BY <1>2, <1>11, <2>1 DEF Filled, At
  <2>4. QED BY <1>2, <2>2, <2>3 DEF Filled
<1>16. \A u \in Thread : Claims(u)' => Claims(u) /\ Target(u)' = Target(u)
  BY <1>2, <1>7 DEF Claims
<1>17. FilledNodes' /\ (kernel = "bfs" => OneClaim')
  BY <1>1, <1>3, <1>15, <1>16, SameClaims DEF FilledNodes
<1>18. QED BY <1>3, <1>9, <1>10, <1>14, <1>17 DEF WalkInv

\* The node in each entry that was taken, filled or not.
Owner(i) == CHOOSE t \in Thread : At(t, "fill") /\ th[t].index = i
Item(i) == IF Filled(i) THEN wl[Cur][i] ELSE Target(Owner(i))

\* Entries are nodes, each node once.
LEMMA ItemsDiffer ==
    ASSUME WalkInv, kernel = "bfs"
    PROVE  /\ \A i \in 0..(out_index - 1) : Item(i) \in Node
           /\ \A i, j \in 0..(out_index - 1) : Item(i) = Item(j) => i = j
<1>1. WalkTypes /\ OwnEntry /\ OneClaim /\ out_index \in Nat
  BY DEF WalkInv, WalkTypes
<1>2. \A i \in 0..(out_index - 1) :
        ~Filled(i) => Owner(i) \in Thread /\ At(Owner(i), "fill") /\ th[Owner(i)].index = i
  BY DEF Filled, Owner
<1>3. \A i \in 0..(out_index - 1) : ~Filled(i) => Claims(Owner(i)) /\ Target(Owner(i)) \in Node
  BY <1>1, <1>2, TargetNode DEF At, Claims, EdgePc
<1>4. \A i \in 0..(out_index - 1) : Item(i) \in Node
  BY <1>1, <1>3 DEF Item, OneClaim
<1>5. ASSUME NEW i \in 0..(out_index - 1), NEW j \in 0..(out_index - 1), Item(i) = Item(j)
      PROVE  i = j
  <2>0. i \in Nat /\ j \in Nat
    BY <1>1
  <2>1. CASE Filled(i) /\ Filled(j)
    BY <1>1, <1>5, <2>0, <2>1 DEF Item, OneClaim
  <2>2. CASE ~Filled(i) /\ ~Filled(j)
    BY <1>1, <1>2, <1>3, <1>5, <2>2 DEF Item, OneClaim
  <2>3. CASE Filled(i) /\ ~Filled(j)
    BY <1>1, <1>2, <1>3, <1>5, <2>0, <2>3 DEF Item, OneClaim
  <2>4. CASE ~Filled(i) /\ Filled(j)
    BY <1>1, <1>2, <1>3, <1>5, <2>0, <2>4 DEF Item, OneClaim
  <2>5. QED BY <2>1, <2>2, <2>3, <2>4
<1>6. QED BY <1>4, <1>5

\* Hence bfs has no more entries than nodes.
LEMMA ListFits ==
    ASSUME WalkInv, kernel = "bfs" PROVE out_index <= N
<1> DEFINE S == 0..(out_index - 1)
           f == [i \in S |-> Item(i)]
<1>1. out_index \in Nat /\ IsFiniteSet(Node)
  BY KernelsAssumption DEF WalkInv, WalkTypes
<1>2. (\A i \in S : Item(i) \in Node) /\ \A i, j \in S : Item(i) = Item(j) => i = j
  BY ItemsDiffer
<1>3. f \in Injection(S, Node)
  BY <1>2 DEF Injection, IsInjective
<1>4. Cardinality(S) <= Cardinality(Node)
  <2> HIDE DEF S, f
  <2>1. QED BY <1>1, <1>3, FS_Injection
<1>5. Cardinality(S) = out_index
  BY <1>1, FS_Interval
<1>6. QED BY <1>4, <1>5 DEF N

\* Filling the entry turns the claim into an entry.
LEMMA FillKeeps ==
    ASSUME kernel # "pagerank", PhaseInv, WalkInv, out_index <= Capacity(kernel), NEW t \in Thread, Fill(t)
    PROVE  WalkInv'
<1> DEFINE l == Edges(th[t], th[t].e + 1)
           w == Target(t)
<1>1. WalkTypes /\ ReadsNodes /\ OwnEntry /\ FilledNodes /\ (kernel = "bfs" => OneClaim)
  BY DEF WalkInv
<1>2. th[t] \in WalkLocal /\ th[t].pc = "fill" /\ Claims(t) /\ th[t].node \in Node /\ w \in Node
  BY <1>1, TargetNode DEF WalkTypes, OnEdge, Fill, At, Claims, EdgePc
<1>3. UNCHANGED <<kernel, adj, ret, in_index, out_index>> /\ th' = [th EXCEPT ![t] = l]
  BY DEF Fill, graph, NextEdge
<1>4. l \in WalkLocal /\ OnEdge(l) /\ l.pc \in {"edge", "loop"} /\ l.hop = th[t].hop
  <2>1. th[t].e + 1 \in Nat \ {0}
    BY <1>2 DEF WalkLocal
  <2>2. QED BY <1>1, <1>2, <2>1, WalkEdges
<1> HIDE DEF l
<1>5. /\ th' \in [Thread -> WalkLocal] /\ th'[t] = l
      /\ \A u \in Thread : u # t => th'[u] = th[u] /\ Target(u)' = Target(u)
      /\ \A u \in Thread : OnEdge(th[u])'
  BY <1>1, <1>3, <1>4, OneThread
<1>6. Cur' = Cur /\ Cur \in {0, 1}
  BY <1>1, <1>2, <1>3, <1>4, CurKept, CurType
<1>0. PICK k \in Nat : k = th[t].index
  BY <1>2 DEF WalkLocal
<1>7. k \in Nat /\ k < out_index /\ k \in 0..(Capacity(kernel) - 1) /\ out_index \in Nat
  <2>1. k \in Nat /\ k < out_index /\ out_index \in Nat
    BY <1>0, <1>1, <1>2 DEF OwnEntry, At, WalkTypes, WalkLocal
  <2>2. QED BY <2>1, Sizes
<1>9. wl[Cur] \in [0..(Capacity(kernel) - 1) -> Node \cup {None}]
  BY <1>1, <1>6 DEF WalkTypes
<1>8. wl' = [wl EXCEPT ![Cur] = [wl[Cur] EXCEPT ![k] = w]]
  <2>1. wl' = [wl EXCEPT ![Cur] = Written(wl[Cur], k, w)]
    BY <1>0, <1>2, OutIsCur DEF Fill, Round
  <2>2. Written(wl[Cur], k, w) = [wl[Cur] EXCEPT ![k] = w]
    BY <1>7, <1>9, WrittenInside
  <2>3. QED BY <2>1, <2>2
<1>10. /\ wl'[Cur][k] = w /\ \A i \in Nat : i # k => wl'[Cur][i] = wl[Cur][i]
       /\ wl'[1 - Cur] = wl[1 - Cur]
  <2>1. wl'[Cur] = [wl[Cur] EXCEPT ![k] = w] /\ wl'[1 - Cur] = wl[1 - Cur]
    <3>1. 1 - Cur \in {0, 1} /\ 1 - Cur # Cur
      BY <1>1, <1>6, CurType
    <3>2. QED BY <1>1, <1>6, <1>8, <3>1 DEF WalkTypes
  <2>2. \A i \in Nat : i # k => [wl[Cur] EXCEPT ![k] = w][i] = wl[Cur][i]
    BY <1>7, <1>9
  <2>3. QED BY <1>7, <1>9, <2>1, <2>2
<1>11. WalkTypes'
  <2>1. wl' \in [{0, 1} -> [0..(Capacity(kernel) - 1) -> Node \cup {None}]]
    BY <1>1, <1>2, <1>6, <1>7, <1>8, <1>9 DEF WalkTypes
  <2>2. QED BY <1>1, <1>3, <1>5, <2>1 DEF WalkTypes
<1>12. ReadsNodes'
  BY <1>1, <1>3, <1>6, <1>10 DEF ReadsNodes
<1>13. \A u \in Thread : /\ At(u, "fill")' <=> At(u, "fill") /\ u # t
                         /\ Claims(u)' <=> Claims(u) /\ u # t
  BY <1>2, <1>4, <1>5 DEF At, Claims
<1>14. OwnEntry'
  BY <1>1, <1>3, <1>5, <1>13 DEF OwnEntry
<1>15. \A i \in Nat : Filled(i)' <=> Filled(i) \/ i = k
  <2>1. \A u \in Thread : At(u, "fill")' => th'[u] = th[u]
    BY <1>5, <1>13
  <2>2. At(t, "fill") /\ \A u \in Thread : At(u, "fill") /\ th[u].index = k => u = t
    BY <1>0, <1>1, <1>2 DEF OwnEntry, At
  <2>3. Filled(k)'
    BY <1>3, <1>7, <1>13, <2>1, <2>2 DEF Filled
  <2>4. \A i \in Nat : i # k => (Filled(i)' <=> Filled(i))
    BY <1>0, <1>3, <1>13, <2>1, <2>2 DEF Filled
  <2>5. ~Filled(k)
    BY <1>0, <2>2 DEF Filled
  <2>6. QED BY <2>3, <2>4, <2>5
<1>16. \A i \in Nat : Filled(i) => i # k
  BY <1>0, <1>2 DEF Filled, At
<1>17. FilledNodes'
  BY <1>1, <1>2, <1>6, <1>10, <1>15, <1>16 DEF FilledNodes
<1>18. ASSUME kernel = "bfs" PROVE OneClaim'
  <2>1. OneClaim /\ ret[w] # -1
    BY <1>1, <1>2, <1>18 DEF OneClaim
  <2>2. \A i \in Nat : Filled(i) => i # k /\ wl[Cur][i] # w
    BY <1>2, <1>16, <2>1 DEF OneClaim
  <2>3. \A u \in Thread : Claims(u)' => Claims(u) /\ u # t /\ Target(u)' = Target(u) /\ Target(u) # w
    BY <1>2, <1>5, <1>13, <2>1 DEF OneClaim
  <2> HIDE DEF w
  <2>4. \A u \in Thread : Claims(u)' => ret'[Target(u)'] # -1
    BY <1>3, <2>1, <2>3 DEF OneClaim
  <2>5. \A u, v \in Thread : Claims(u)' /\ Claims(v)' /\ Target(u)' = Target(v)' => u = v
    BY <2>1, <2>3 DEF OneClaim
  <2>6. \A i \in Nat : Filled(i)' => wl'[Cur'][i] \in Node /\ ret'[wl'[Cur'][i]] # -1
    BY <1>2, <1>3, <1>6, <1>10, <1>15, <2>1, <2>2 DEF OneClaim
  <2>7. \A i, j \in Nat : Filled(i)' /\ Filled(j)' /\ wl'[Cur'][i] = wl'[Cur'][j] => i = j
    BY <1>6, <1>10, <1>15, <2>1, <2>2 DEF OneClaim
  <2>8. \A u \in Thread, i \in Nat : Claims(u)' /\ Filled(i)' => Target(u)' # wl'[Cur'][i]
    BY <1>6, <1>10, <1>15, <2>1, <2>2, <2>3 DEF OneClaim
  <2>9. QED BY <2>4, <2>5, <2>6, <2>7, <2>8 DEF OneClaim
<1>19. QED BY <1>3, <1>11, <1>12, <1>14, <1>17, <1>18 DEF WalkInv

\* The reset: with no thread in the loop every entry is filled, and what was
\* filled is read next.
LEMMA ResetKeeps ==
    ASSUME kernel # "pagerank", PhaseInv, WalkInv, NEW t \in Thread, Reset(t)
    PROVE  WalkInv'
<1> DEFINE l == [th[t] EXCEPT !.pc = "barrier2"]
<1>1. WalkTypes /\ ReadsNodes /\ OwnEntry /\ FilledNodes /\ (kernel = "bfs" => OneClaim)
  BY DEF WalkInv
<1>2. th[t] \in WalkLocal /\ th[t].pc = "reset" /\ ~Claims(t)
  BY <1>1 DEF WalkTypes, Reset, At, Claims
<1>3. UNCHANGED <<kernel, adj, ret, wl>> /\ th' = [th EXCEPT ![t] = l]
  BY DEF Reset, graph, Goto
<1>4. l \in WalkLocal
  BY <1>2 DEF WalkLocal, WalkPc, EdgePc
<1>5. l.pc = "barrier2" /\ l.hop = th[t].hop
  BY <1>2 DEF WalkLocal
<1> HIDE DEF l
<1>6. OnEdge(l)
  BY <1>5 DEF OnEdge, EdgePc
<1>7. CASE t # 0
  <2>1. in_index' = in_index /\ out_index' = out_index
    BY <1>7 DEF Reset
  <2>2. Cur' = Cur
    BY <1>1, <1>3, <1>4, <1>7, CurKept
  <2>3. QED BY <1>2, <1>3, <1>4, <1>5, <1>6, <2>1, <2>2, LocalKeeps
<1>8. CASE t = 0
  <2>1. in_index' = out_index /\ out_index' = 0
    BY <1>8 DEF Reset
  <2>2. /\ th' \in [Thread -> WalkLocal] /\ th'[t] = l
        /\ \A u \in Thread : u # t => th'[u] = th[u] /\ Target(u)' = Target(u)
        /\ \A u \in Thread : OnEdge(th[u])'
    BY <1>1, <1>3, <1>4, <1>6, OneThread
  <2>3. 1 - Cur' = Cur
    BY <1>2, <1>5, <1>8, <2>2 DEF Cur, In, Out, WalkLocal
  <2>4. \A u \in Thread : th[u].pc \in {"reset", "barrier2"}
    BY <1>2 DEF PhaseInv, Apart, Before1, After1, Round
  <2>5. \A u \in Thread : ~Claims(u)' /\ ~At(u, "fill") /\ ~At(u, "fill")'
    BY <1>5, <2>2, <2>4 DEF Claims, At
  <2>6. WalkTypes'
    BY <1>1, <1>3, <2>1, <2>2 DEF WalkTypes
  <2>7. ReadsNodes'
    <3>1. \A i \in 0..(out_index - 1) : i \in Nat /\ Filled(i)
      BY <1>1, <2>5 DEF Filled, WalkTypes
    <3>2. QED BY <1>1, <1>3, <2>1, <2>3, <3>1 DEF ReadsNodes, FilledNodes
  <2>8. OwnEntry'
    BY <2>5 DEF OwnEntry
  <2>9. \A i \in Nat : ~Filled(i)'
    BY <2>1 DEF Filled
  <2>10. FilledNodes' /\ (kernel = "bfs" => OneClaim')
    BY <1>1, <1>3, <2>5, <2>9, SameClaims DEF FilledNodes
  <2>11. QED BY <1>3, <2>6, <2>7, <2>8, <2>10 DEF WalkInv
<1>9. QED BY <1>7, <1>8

\* The barriers.
LEMMA BarrierKeeps ==
    ASSUME kernel # "pagerank", WalkInv, NEW from, NEW to, Barrier(from, to),
           \/ from = "barrier1" /\ to = "reset"
           \/ from = "barrier2" /\ to = "test"
    PROVE  WalkInv'
<1>1. /\ WalkTypes /\ ReadsNodes /\ OwnEntry /\ FilledNodes /\ 0 \in Thread
      /\ kernel = "bfs" => OneClaim
  BY Sizes DEF WalkInv
<1>2. UNCHANGED <<kernel, adj, ret, wl, in_index, out_index>>
  BY DEF Barrier, graph
<1>3. \A t \in Thread : th[t].pc = from /\ th[t] \in WalkLocal
  BY <1>1 DEF Barrier, At, WalkTypes
<1>4. th' = [t \in Thread |-> [th[t] EXCEPT !.pc = to, !.index = 0]]
  BY DEF Barrier
<1>5. \A t \in Thread : th'[t] \in WalkLocal
  BY <1>3, <1>4 DEF WalkLocal, WalkPc, EdgePc
<1>6. \A t \in Thread : th'[t].pc = to /\ th'[t].hop = th[t].hop
  BY <1>3, <1>4 DEF WalkLocal
<1>7. \A t \in Thread : OnEdge(th[t])'
  BY <1>6 DEF OnEdge, EdgePc
<1>8. WalkTypes'
  BY <1>1, <1>2, <1>4, <1>5, <1>7 DEF WalkTypes
<1>9. Cur' = Cur
  BY <1>1, <1>3, <1>6 DEF Cur, In, Out
<1>10. ReadsNodes'
  BY <1>1, <1>2, <1>9 DEF ReadsNodes
<1>11. \A t \in Thread : ~Claims(t)' /\ ~At(t, "fill")' /\ ~At(t, "fill")
  BY <1>3, <1>6 DEF Claims, At
<1>12. OwnEntry'
  BY <1>11 DEF OwnEntry
<1>13. \A i \in Nat : Filled(i)' => Filled(i) /\ wl'[Cur'][i] = wl[Cur][i]
  BY <1>2, <1>9, <1>11 DEF Filled
<1>14. FilledNodes' /\ (kernel = "bfs" => OneClaim')
  BY <1>1, <1>2, <1>11, <1>13, SameClaims DEF FilledNodes
<1>15. QED BY <1>2, <1>8, <1>10, <1>12, <1>14 DEF WalkInv

\* sssp reads the distance of its node and adds the weight of the edge.
LEMMA ReadDistKeeps ==
    ASSUME WalkInv, NEW t \in Thread, ReadDist(t)
    PROVE  WalkInv'
<1> DEFINE v == ret[th[t].node] + Cost(Edge(t))
           l == [th[t] EXCEPT !.pc = "min", !.val = v]
<1>1. WalkTypes /\ th[t] \in WalkLocal /\ th[t].pc = "edge" /\ ~Claims(t) /\ kernel = "sssp"
  BY DEF WalkInv, WalkTypes, ReadDist, At, Claims
<1>2. th[t].node \in Node /\ th[t].e \in 1..Len(adj[th[t].node])
  BY <1>1 DEF WalkTypes, OnEdge, EdgePc
<1>3. v \in Int
  <2>1. Edge(t) \in [to : Node, weight : Nat]
    <3>1. ASSUME NEW S, NEW s \in Seq(S), NEW e \in 1..Len(s) PROVE s[e] \in S
      OBVIOUS
    <3>2. adj[th[t].node] \in Seq([to : Node, weight : Nat])
      BY <1>1, <1>2 DEF WalkTypes
    <3>3. QED BY <1>2, <3>1, <3>2 DEF Edge
  <2>2. Cost(Edge(t)) \in Int
    BY <2>1 DEF Cost
  <2>3. ret[th[t].node] \in Int
    BY <1>1, <1>2 DEF WalkTypes
  <2>4. QED BY <2>2, <2>3
<1>4. th' = [th EXCEPT ![t] = l] /\ UNCHANGED <<kernel, adj, ret, wl, in_index, out_index>>
  BY <1>1 DEF ReadDist, graph, WalkTypes
<1> HIDE DEF v
<1>5. l \in WalkLocal
  BY <1>1, <1>3 DEF WalkLocal, WalkPc, EdgePc
<1>6. l.pc = "min" /\ l.hop = th[t].hop /\ l.node = th[t].node /\ l.e = th[t].e
  BY <1>1 DEF WalkLocal
<1> HIDE DEF l
<1>7. OnEdge(l)
  BY <1>1, <1>2, <1>6 DEF OnEdge
<1>8. Cur' = Cur
  BY <1>1, <1>4, <1>5, <1>6, CurKept
<1>9. QED BY <1>1, <1>4, <1>5, <1>6, <1>7, <1>8, LocalKeeps

\* fetch_min: the thread whose value was smaller claims the node.
LEMMA FetchMinKeeps ==
    ASSUME WalkInv, NEW t \in Thread, FetchMin(t)
    PROVE  WalkInv'
<1>1. WalkTypes /\ ReadsNodes /\ OwnEntry /\ FilledNodes
  BY DEF WalkInv
<1>2. /\ th[t] \in WalkLocal /\ th[t].pc = "min" /\ ~Claims(t) /\ Target(t) \in Node
      /\ kernel = "sssp"
  BY <1>1, TargetNode DEF WalkTypes, FetchMin, At, Claims, EdgePc, OnEdge
<1>3. UNCHANGED <<kernel, adj, wl, in_index, out_index>>
  BY DEF FetchMin, graph
<1>4. CASE ~(th[t].val < ret[Target(t)])
  BY <1>2, <1>3, <1>4, NextEdgeKeeps DEF FetchMin
<1>5. CASE th[t].val < ret[Target(t)]
  <2> DEFINE l == [th[t] EXCEPT !.pc = "push"]
  <2>1. ret' = [ret EXCEPT ![Target(t)] = th[t].val] /\ th' = [th EXCEPT ![t] = l]
    BY <1>5 DEF FetchMin, Goto
  <2>2. l \in WalkLocal
    BY <1>2 DEF WalkLocal, WalkPc, EdgePc
  <2>3. l.pc = "push" /\ l.hop = th[t].hop /\ l.node = th[t].node /\ l.e = th[t].e
    BY <1>2 DEF WalkLocal
  <2> HIDE DEF l
  <2>4. OnEdge(l)
    BY <1>1, <1>2, <2>3 DEF OnEdge, EdgePc, WalkTypes
  <2>5. /\ th' \in [Thread -> WalkLocal] /\ th'[t] = l
        /\ \A u \in Thread : u # t => th'[u] = th[u]
        /\ \A u \in Thread : OnEdge(th[u])'
    BY <1>1, <1>3, <2>1, <2>2, <2>4, OneThread
  <2>6. Cur' = Cur
    BY <1>1, <1>2, <2>1, <2>2, <2>3, CurKept
  <2>7. ret' \in [Node -> Int]
    BY <1>1, <1>2, <2>1 DEF WalkLocal, WalkTypes
  <2>8. WalkTypes'
    BY <1>1, <1>3, <2>5, <2>7 DEF WalkTypes
  <2>9. \A u \in Thread : /\ At(u, "fill")' <=> At(u, "fill")
                          /\ At(u, "fill") => th'[u] = th[u]
    BY <1>2, <2>3, <2>5 DEF At
  <2>10. ReadsNodes' /\ OwnEntry'
    BY <1>1, <1>3, <2>6, <2>9 DEF ReadsNodes, OwnEntry
  <2>11. FilledNodes'
    BY <1>1, <1>3, <2>6, <2>9 DEF FilledNodes, Filled
  <2>12. QED BY <1>2, <1>3, <2>8, <2>10, <2>11 DEF WalkInv
<1>6. QED BY <1>4, <1>5

\* Every action of the two kernels keeps the invariant, while the entries that
\* are pushed are within the list.
LEMMA WalkNext ==
    ASSUME kernel # "pagerank", PhaseInv, WalkInv, out_index <= Capacity(kernel), [Next]_vars
    PROVE  WalkInv'
<1>1. CASE UNCHANGED vars
  <2>1. UNCHANGED <<kernel, adj, ret, wl, in_index, out_index, th>>
    BY <1>1 DEF vars
  <2>2. WalkTypes' /\ Cur' = Cur /\ \A u \in Thread : At(u, "fill")' <=> At(u, "fill")
    BY <2>1 DEF WalkInv, WalkTypes, OnEdge, Cur, In, Out, At
  <2>3. ReadsNodes' /\ OwnEntry'
    BY <2>1, <2>2 DEF WalkInv, ReadsNodes, OwnEntry, FilledNodes
  <2>4. \A u \in Thread : Claims(u)' => Claims(u) /\ Target(u)' = Target(u)
    BY <2>1 DEF Claims, Target, Edge
  <2>5. \A i \in Nat : Filled(i)' => Filled(i) /\ wl'[Cur'][i] = wl[Cur][i]
    BY <2>1, <2>2 DEF Filled
  <2>6. FilledNodes' /\ (kernel = "bfs" => OneClaim')
    BY <2>1, <2>4, <2>5, SameClaims DEF WalkInv, FilledNodes
  <2>7. QED BY <2>1, <2>2, <2>3, <2>6 DEF WalkInv
<1>2. ASSUME NEW t \in Thread, Step(t) PROVE WalkInv'
  <2>1. th[t].pc \in WalkPc
    BY DEF WalkInv, WalkTypes, WalkLocal
  <2>2. ~Reread(t) /\ ~Clear(t) /\ ~AddResidual(t)
    BY <2>1 DEF WalkPc, EdgePc, Reread, Clear, AddResidual, At
  <2>3. Claim(t) => kernel = "bfs"
    BY DEF Claim
  <2>4. QED BY <1>2, <2>2, <2>3, TestKeeps, TakeKeeps, ClaimKeeps, StoreKeeps, PushKeeps, FillKeeps,
               ResetKeeps, ReadDistKeeps, FetchMinKeeps DEF Step
<1>3. CASE Barrier("barrier1", "reset")
  BY <1>3, BarrierKeeps
<1>4. CASE Barrier("barrier2", "test")
  BY <1>4, BarrierKeeps
<1>5. QED BY <1>1, <1>2, <1>3, <1>4 DEF Next

\* At the start only the seed is listed, and nothing is claimed.
LEMMA WalkInit ==
    ASSUME Init, kernel # "pagerank" PROVE WalkInv
<1>1. adj \in [Node -> Seq([to : Node, weight : Nat])] /\ Seed \in Node
  BY KernelsAssumption DEF Init
<1>2. th = [t \in Thread |-> [pc |-> "test", hop |-> 1, i |-> 0, node |-> None,
                              e |-> 0, val |-> 0, index |-> 0]]
  BY DEF Init
<1>3. th \in [Thread -> WalkLocal] /\ \A t \in Thread : th[t].pc = "test" /\ th[t].hop = 1
  BY <1>2 DEF WalkLocal, WalkPc, EdgePc
<1>4. ret \in [Node -> Int] /\ in_index = 1 /\ out_index = 0
  BY KernelsAssumption DEF Init
<1>5. wl = [k \in {0, 1} |-> [i \in 0..(Capacity(kernel) - 1) |->
               IF k = 1 THEN None ELSE IF i = 0 THEN Seed ELSE None]]
  BY DEF Init
<1>6. wl \in [{0, 1} -> [0..(Capacity(kernel) - 1) -> Node \cup {None}]]
  BY <1>1, <1>5
<1>7. WalkTypes
  BY <1>1, <1>3, <1>4, <1>6 DEF WalkTypes, OnEdge, EdgePc
<1>8. Cur = 1
  BY <1>3, Sizes DEF Cur, Out
<1>9. ReadsNodes
  <2>1. 0 \in 0..(Capacity(kernel) - 1)
    BY Sizes
  <2>2. wl[0][0] = Seed
    BY <1>5, <2>1
  <2>3. QED BY <1>1, <1>4, <1>8, <2>2 DEF ReadsNodes
<1>10. \A t \in Thread : ~Claims(t) /\ ~At(t, "fill")
  BY <1>3 DEF Claims, At
<1>11. OwnEntry
  BY <1>10 DEF OwnEntry
<1>12. \A i \in Nat : ~Filled(i)
  BY <1>4 DEF Filled
<1>13. OneClaim /\ FilledNodes
  BY <1>10, <1>12 DEF OneClaim, FilledNodes
<1>14. QED BY <1>7, <1>9, <1>11, <1>13 DEF WalkInv

\* The invariant holds in every state of bfs, for every number of threads and every
\* graph: no node is claimed or listed twice.
THEOREM BfsInductive == Spec => [](kernel = "bfs" => WalkInv)
<1>1. Init => (kernel = "bfs" => WalkInv)
  BY WalkInit
<1>2. PhaseInv /\ (kernel = "bfs" => WalkInv) /\ [Next]_vars => (kernel = "bfs" => WalkInv)'
  <2>1. SUFFICES ASSUME PhaseInv, kernel = "bfs" => WalkInv, [Next]_vars, kernel' = "bfs"
                 PROVE  WalkInv'
    OBVIOUS
  <2>2. kernel' = kernel
    BY <2>1 DEF Next, vars, Step, Test, Take, Push, Fill, Reset, Claim, Store, ReadDist, FetchMin,
                AddResidual, Reread, Clear, Barrier, graph
  <2>3. out_index \in Nat /\ out_index <= Capacity(kernel)
    <3>1. out_index <= N
      BY <2>1, <2>2, ListFits
    <3>2. out_index \in Nat
      BY <2>1, <2>2 DEF WalkInv, WalkTypes
    <3>3. QED BY <3>1, <3>2, Sizes
  <2>4. QED BY <2>1, <2>2, <2>3, WalkNext
<1>3. QED BY <1>1, <1>2, PhaseInvariant, PTL DEF Spec

\* The worklists of bfs never hold more entries than the graph has nodes: the
\* unchecked writes out_wl[index] stay within the lists of 2*num_nodes.
THEOREM BfsListFits == Spec => [](kernel = "bfs" => out_index <= N)
<1>1. (kernel = "bfs" => WalkInv) => (kernel = "bfs" => out_index <= N)
  BY ListFits
<1>2. QED BY <1>1, BfsInductive, PTL

\* bfs lists a node once in a round, whichever threads race for it: the
\* compare-and-swap has one winner and the fetch-and-add gives it an entry of
\* its own.
THEOREM BfsListedOnce == Spec => [](kernel = "bfs" => ListedOnce)
<1>1. ASSUME PhaseInv, WalkInv, kernel = "bfs" PROVE ListedOnce
  <2>1. SUFFICES ASSUME NEW t \in Thread, Working(t), NEW w \in Node
                 PROVE  Cardinality({i \in 0..(out_index - 1) : Entry(Out(t), i) = w}) <= 1
    BY <1>1 DEF ListedOnce
  <2>2. WalkTypes /\ OwnEntry /\ out_index \in Nat
    BY <1>1 DEF WalkInv, WalkTypes
  <2>3. Out(t) = Cur
    <3>1. th[t].pc \in Round
      BY <2>1, <2>2 DEF Working, WalkTypes, WalkLocal, WalkPc, EdgePc, Round
    <3>2. QED BY <1>1, <3>1, OutIsCur
  <2>4. ASSUME NEW i \in 0..(out_index - 1) PROVE Entry(Cur, i) = Item(i)
    <3> DEFINE F == {u \in Thread : At(u, "fill") /\ th[u].index = i /\ Out(u) = Cur}
    <3>1. F = {u \in Thread : At(u, "fill") /\ th[u].index = i}
      BY <1>1, OutIsCur DEF At, Round
    <3>2. CASE Filled(i)
      <4>1. F = {}
        BY <3>1, <3>2 DEF Filled
      <4>2. QED BY <3>2, <4>1 DEF Entry, Item
    <3>3. CASE ~Filled(i)
      <4>1. F # {}
        BY <3>1, <3>3 DEF Filled
      <4>2. \A u, v \in F : u = v
        BY <2>2, <3>1 DEF OwnEntry
      <4>3. (CHOOSE u \in F : TRUE) \in F
        BY <4>1
      <4>4. Owner(i) \in F
        BY <3>1, <4>1 DEF Owner
      <4>5. (CHOOSE u \in F : TRUE) = Owner(i)
        BY <4>2, <4>3, <4>4
      <4>6. Entry(Cur, i) = Target(CHOOSE u \in F : TRUE)
        BY <4>1 DEF Entry
      <4>7. QED BY <3>3, <4>5, <4>6 DEF Item
    <3>4. QED BY <3>2, <3>3
  <2> DEFINE S == {i \in 0..(out_index - 1) : Entry(Out(t), i) = w}
  <2>5. \A i, j \in S : i = j
    BY <1>1, <2>3, <2>4, ItemsDiffer
  <2>6. CASE S = {}
    BY <2>6, FS_EmptySet
  <2>7. CASE S # {}
    <3>1. PICK i \in S : TRUE
      BY <2>7
    <3>2. S = {i}
      BY <2>5, <3>1
    <3>3. QED BY <3>2, FS_Singleton
  <2>8. QED BY <2>6, <2>7
<1>2. PhaseInv /\ (kernel = "bfs" => WalkInv) => (kernel = "bfs" => ListedOnce)
  BY <1>1
<1>3. QED BY <1>2, PhaseInvariant, BfsInductive, PTL
-----------------------------------------------------------------------------
(***************************************************************************)
(* The reference: Shortest is the greatest potential.                      *)
(***************************************************************************)
\* The graph, as every state of a run has it.
IsGraph == adj \in [Node -> Seq([to : Node, weight : Nat])]

\* A potential: no edge leads to a node that is farther than the edge allows.
Feasible(p) ==
    /\ p \in [Node -> 0..WEIGHT_MAX] /\ p[Seed] = 0
    /\ \A u \in Node : \A e \in 1..Len(adj[u]) : p[adj[u][e].to] <= p[u] + Cost(adj[u][e])

\* Edges lead to nodes and cost naturals.
LEMMA EdgeTypes ==
    ASSUME IsGraph, NEW u \in Node, NEW e \in 1..Len(adj[u])
    PROVE  adj[u][e].to \in Node /\ Cost(adj[u][e]) \in Nat
<1>1. adj[u] \in Seq([to : Node, weight : Nat])
  BY DEF IsGraph
<1>2. ASSUME NEW S, NEW s \in Seq(S), NEW i \in 1..Len(s) PROVE s[i] \in S
  OBVIOUS
<1>3. adj[u][e] \in [to : Node, weight : Nat]
  BY <1>1, <1>2
<1>4. QED BY <1>3 DEF Cost

\* A nonempty set of naturals up to b has a greatest element.
LEMMA BoundedMax ==
    ASSUME NEW b \in Nat, NEW T \in SUBSET (0..b), T # {}
    PROVE  \E m \in T : \A y \in T : y <= m
<1> DEFINE U == {b - y : y \in T}
<1>0. \A y \in T : y \in Nat /\ b - y \in Nat
  OBVIOUS
<1>1. U \in SUBSET Nat /\ U # {}
  BY <1>0
<1>2. PICK k \in U : \A y \in U : k <= y
  <2> HIDE DEF U
  <2>1. QED BY <1>1, NatMin
<1>3. PICK m \in T : k = b - m
  BY <1>2
<1>4. ASSUME NEW y \in T PROVE y <= m
  <2>1. b - y \in U
    OBVIOUS
  <2>2. b - m <= b - y
    BY <1>2, <1>3, <2>1
  <2>3. QED BY <1>0, <2>2
<1>5. QED BY <1>4

\* The greatest potential.
Greatest(n) == CHOOSE m \in 0..WEIGHT_MAX :
    /\ \E p \in [Node -> 0..WEIGHT_MAX] : Feasible(p) /\ p[n] = m
    /\ \A p \in [Node -> 0..WEIGHT_MAX] : Feasible(p) => p[n] <= m
Delta == [n \in Node |-> Greatest(n)]

\* It bounds every potential and is one of them at each node.
LEMMA GreatestBounds ==
    ASSUME IsGraph, NEW n \in Node
    PROVE  /\ Delta[n] \in 0..WEIGHT_MAX
           /\ \E p \in [Node -> 0..WEIGHT_MAX] : Feasible(p) /\ p[n] = Delta[n]
           /\ \A p \in [Node -> 0..WEIGHT_MAX] : Feasible(p) => p[n] <= Delta[n]
<1> DEFINE T == {m \in 0..WEIGHT_MAX : \E p \in [Node -> 0..WEIGHT_MAX] : Feasible(p) /\ p[n] = m}
           z == [v \in Node |-> 0]
<1>1. WEIGHT_MAX \in Nat /\ Seed \in Node
  BY KernelsAssumption
<1>2. Feasible(z) /\ z \in [Node -> 0..WEIGHT_MAX] /\ z[n] = 0
  <2>1. z \in [Node -> 0..WEIGHT_MAX] /\ z[Seed] = 0 /\ \A v \in Node : z[v] = 0
    BY <1>1
  <2> HIDE DEF z
  <2>2. ASSUME NEW u \in Node, NEW e \in 1..Len(adj[u])
        PROVE  z[adj[u][e].to] <= z[u] + Cost(adj[u][e])
    BY <2>1, EdgeTypes
  <2>3. QED BY <2>1, <2>2 DEF Feasible
<1>3. T # {} /\ T \in SUBSET (0..WEIGHT_MAX)
  <2>1. 0 \in T
    <3> HIDE DEF z
    <3>1. QED BY <1>1, <1>2
  <2>2. QED BY <2>1
<1>4. PICK m \in T : \A y \in T : y <= m
  <2> HIDE DEF T
  <2>1. QED BY <1>1, <1>3, BoundedMax
<1>5. /\ m \in 0..WEIGHT_MAX
      /\ \E p \in [Node -> 0..WEIGHT_MAX] : Feasible(p) /\ p[n] = m
  BY <1>4
<1>6. ASSUME NEW p \in [Node -> 0..WEIGHT_MAX], Feasible(p) PROVE p[n] <= m
  <2>1. p[n] \in T
    BY <1>6
  <2>2. QED BY <1>4, <2>1
<1>7. /\ Greatest(n) \in 0..WEIGHT_MAX
      /\ \E p \in [Node -> 0..WEIGHT_MAX] : Feasible(p) /\ p[n] = Greatest(n)
      /\ \A p \in [Node -> 0..WEIGHT_MAX] : Feasible(p) => p[n] <= Greatest(n)
  <2> HIDE DEF Feasible, T, z
  <2>1. QED BY <1>5, <1>6, Zenon DEF Greatest
<1>8. Delta[n] = Greatest(n)
  BY DEF Delta
<1>9. QED BY <1>7, <1>8

\* The greatest potential is a potential.
LEMMA GreatestFeasible ==
    ASSUME IsGraph PROVE Feasible(Delta)
<1>1. WEIGHT_MAX \in Nat /\ Seed \in Node
  BY KernelsAssumption
<1>2. Delta \in [Node -> 0..WEIGHT_MAX]
  <2>1. \A n \in Node : Delta[n] \in 0..WEIGHT_MAX
    BY GreatestBounds
  <2>2. Delta = [n \in Node |-> Delta[n]]
    BY DEF Delta
  <2>3. QED BY <2>1, <2>2
<1>3. Delta[Seed] = 0
  <2>1. PICK p \in [Node -> 0..WEIGHT_MAX] : Feasible(p) /\ p[Seed] = Delta[Seed]
    BY <1>1, GreatestBounds
  <2>2. QED BY <2>1 DEF Feasible
<1>4. ASSUME NEW u \in Node, NEW e \in 1..Len(adj[u])
      PROVE  Delta[adj[u][e].to] <= Delta[u] + Cost(adj[u][e])
  <2>1. adj[u][e].to \in Node /\ Cost(adj[u][e]) \in Nat
    BY EdgeTypes
  <2>2. PICK p \in [Node -> 0..WEIGHT_MAX] : Feasible(p) /\ p[adj[u][e].to] = Delta[adj[u][e].to]
    BY <2>1, GreatestBounds
  <2>3. p[u] <= Delta[u]
    BY <2>2, GreatestBounds
  <2>4. p[adj[u][e].to] <= p[u] + Cost(adj[u][e])
    BY <2>2 DEF Feasible
  <2>5. p[u] \in Nat /\ Delta[u] \in Nat /\ Delta[adj[u][e].to] \in Nat
    BY <1>1, <1>2, <2>1
  <2>6. QED BY <2>1, <2>2, <2>3, <2>4, <2>5
<1>5. QED BY <1>2, <1>3, <1>4 DEF Feasible

\* The distances after one more round of relaxation, as Shortest has them.
Relax(d) == [n \in Node |->
    Min({d[n]} \cup {d[ue[1]] + Cost(adj[ue[1]][ue[2]]) : ue \in EdgesInto(adj, n)})]
Start == [n \in Node |-> IF n = Seed THEN 0 ELSE WEIGHT_MAX]

\* Shortest is the last of N rounds of relaxation.
LEMMA ShortestEquation ==
    \E D : /\ D = [k \in 0..N |-> IF k = 0 THEN Start ELSE Relax(D[k - 1])]
          /\ Shortest = D[N]
<1> DEFINE Body(f, k) == IF k = 0 THEN Start ELSE Relax(f[k - 1])
           Upto(j) == \E f : f = [k \in 0..j |-> Body(f, k)]
           T == {j \in 0..N : Upto(j)}
<1>0. N \in Nat
  BY Sizes
<1>1. 0 \in T
  <2> DEFINE g == [k \in 0..0 |-> Start]
  <2>1. g = [k \in 0..0 |-> Body(g, k)]
    OBVIOUS
  <2> HIDE DEF g, Body
  <2>2. Upto(0)
    BY <2>1
  <2>3. QED BY <1>0, <2>2
<1>2. ASSUME NEW j \in 0..N, j # N, j \in T PROVE j + 1 \in T
  <2> HIDE DEF Body
  <2>1. PICK f : f = [k \in 0..j |-> Body(f, k)]
    BY <1>2
  <2> DEFINE g == [k \in 0..(j + 1) |-> IF k = j + 1 THEN Body(f, j + 1) ELSE f[k]]
  <2>2. \A k \in 0..j : g[k] = f[k] /\ f[k] = Body(f, k)
    BY <2>1
  <2>3. g[j + 1] = Body(f, j + 1) /\ DOMAIN g = 0..(j + 1)
    OBVIOUS
  <2> HIDE DEF g
  <2>4. ASSUME NEW k \in 0..(j + 1) PROVE g[k] = Body(g, k)
    <3>1. k # 0 => g[k - 1] = f[k - 1]
      BY <2>2
    <3>2. Body(f, k) = Body(g, k)
      BY <3>1 DEF Body
    <3>3. k = j + 1 \/ k \in 0..j
      OBVIOUS
    <3>4. QED BY <2>2, <2>3, <3>2, <3>3
  <2>5. g = [k \in 0..(j + 1) |-> IF k = j + 1 THEN Body(f, j + 1) ELSE f[k]]
    BY DEF g
  <2>6. g = [k \in 0..(j + 1) |-> Body(g, k)]
    BY <2>4, <2>5
  <2>7. j + 1 \in 0..N
    BY <1>0, <1>2
  <2>8. QED BY <2>6, <2>7
<1>3. Upto(N)
  <2>1. \A j \in 0..N : j # N /\ j \in T => j + 1 \in T
    BY <1>2
  <2>2. \A j \in 0..N : j \in T
    <3> HIDE DEF T
    <3>1. QED BY <1>0, <1>1, <2>1, UpToInduction
  <2>3. N \in T
    <3> HIDE DEF T
    <3>1. QED BY <1>0, <2>2
  <2> HIDE DEF Upto
  <2>4. QED BY <2>3
<1> DEFINE D == CHOOSE f : f = [k \in 0..N |-> Body(f, k)]
<1>4. D = [k \in 0..N |-> Body(D, k)]
  BY <1>3
<1>5. Shortest = D[N]
  BY DEF Shortest, Relax, Start
<1>6. QED BY <1>4, <1>5

\* What a round of relaxation does to the distance of a node.
LEMMA RelaxProperties ==
    ASSUME IsGraph, NEW d \in [Node -> Nat]
    PROVE  /\ Relax(d) \in [Node -> Nat]
           /\ \A n \in Node : Relax(d)[n] <= d[n]
           /\ \A u \in Node : \A e \in 1..Len(adj[u]) :
                 Relax(d)[adj[u][e].to] <= d[u] + Cost(adj[u][e])
           /\ \A n \in Node : \/ Relax(d)[n] = d[n]
                              \/ \E u \in Node : \E e \in 1..Len(adj[u]) :
                                   adj[u][e].to = n /\ Relax(d)[n] = d[u] + Cost(adj[u][e])
<1> DEFINE W(n) == {d[ue[1]] + Cost(adj[ue[1]][ue[2]]) : ue \in EdgesInto(adj, n)}
           V(n) == {d[n]} \cup W(n)
<1>0. \A u \in Node : DOMAIN adj[u] = 1..Len(adj[u])
  <2>1. ASSUME NEW S, NEW s \in Seq(S) PROVE DOMAIN s = 1..Len(s)
    OBVIOUS
  <2>2. QED BY <2>1 DEF IsGraph
<1>1. \A n \in Node : \A x : x \in V(n) <=>
        \/ x = d[n]
        \/ \E u \in Node : \E e \in 1..Len(adj[u]) :
             adj[u][e].to = n /\ x = d[u] + Cost(adj[u][e])
  <2>1. ASSUME NEW n \in Node, NEW x
        PROVE  x \in W(n) <=> \E u \in Node : \E e \in 1..Len(adj[u]) :
                                 adj[u][e].to = n /\ x = d[u] + Cost(adj[u][e])
    <3>1. \A ue : ue \in EdgesInto(adj, n) <=>
             \E u \in Node : \E e \in 1..Len(adj[u]) : adj[u][e].to = n /\ ue = <<u, e>>
      BY <1>0 DEF EdgesInto
    <3>2. ASSUME x \in W(n)
          PROVE  \E u \in Node : \E e \in 1..Len(adj[u]) :
                    adj[u][e].to = n /\ x = d[u] + Cost(adj[u][e])
      <4>1. PICK ue \in EdgesInto(adj, n) : x = d[ue[1]] + Cost(adj[ue[1]][ue[2]])
        BY <3>2
      <4>2. PICK u \in Node : \E e \in 1..Len(adj[u]) : adj[u][e].to = n /\ ue = <<u, e>>
        BY <3>1
      <4>3. PICK e \in 1..Len(adj[u]) : adj[u][e].to = n /\ ue = <<u, e>>
        BY <4>2
      <4>4. x = d[u] + Cost(adj[u][e])
        BY <4>1, <4>3
      <4>5. QED BY <4>3, <4>4
    <3>3. ASSUME NEW u \in Node, NEW e \in 1..Len(adj[u]),
                 adj[u][e].to = n, x = d[u] + Cost(adj[u][e])
          PROVE  x \in W(n)
      <4>1. PICK ue : ue = <<u, e>>
        OBVIOUS
      <4>2. ue \in EdgesInto(adj, n)
        BY <3>1, <3>3, <4>1
      <4>3. x = d[ue[1]] + Cost(adj[ue[1]][ue[2]])
        BY <3>3, <4>1
      <4>4. QED BY <4>2, <4>3
    <3> HIDE DEF W
    <3>4. QED BY <3>2, <3>3
  <2> HIDE DEF W
  <2>2. \A n \in Node : \A x : x \in V(n) <=> x = d[n] \/ x \in W(n)
    OBVIOUS
  <2> HIDE DEF V
  <2>3. QED BY <2>1, <2>2
<1>2. \A n \in Node : V(n) \in SUBSET Nat /\ V(n) # {}
  <2>1. ASSUME NEW n \in Node, NEW x \in V(n) PROVE x \in Nat
    <3>1. CASE x = d[n]
      BY <3>1
    <3>2. ASSUME NEW u \in Node, NEW e \in 1..Len(adj[u]), x = d[u] + Cost(adj[u][e]) PROVE x \in Nat
      <4>1. Cost(adj[u][e]) \in Nat
        BY EdgeTypes
      <4>2. QED BY <3>2, <4>1
    <3> HIDE DEF V
    <3>3. QED BY <1>1, <2>1, <3>1, <3>2
  <2>2. QED BY <2>1
<1> HIDE DEF V
<1>3. \A n \in Node : Min(V(n)) \in V(n) /\ \A y \in V(n) : Min(V(n)) <= y
  BY <1>2, NatMin
<1>4. \A n \in Node : Relax(d)[n] = Min(V(n))
  BY DEF Relax, V
<1>5. Relax(d) \in [Node -> Nat]
  <2>1. \A n \in Node : Relax(d)[n] \in Nat
    BY <1>2, <1>3, <1>4
  <2>2. Relax(d) = [n \in Node |-> Relax(d)[n]]
    BY DEF Relax
  <2>3. QED BY <2>1, <2>2
<1>6. \A n \in Node : Relax(d)[n] <= d[n]
  BY <1>1, <1>3, <1>4
<1>7. ASSUME NEW u \in Node, NEW e \in 1..Len(adj[u])
      PROVE  Relax(d)[adj[u][e].to] <= d[u] + Cost(adj[u][e])
  <2>1. adj[u][e].to \in Node
    BY EdgeTypes
  <2>2. d[u] + Cost(adj[u][e]) \in V(adj[u][e].to)
    BY <1>1, <2>1
  <2>3. QED BY <1>3, <1>4, <2>1, <2>2
<1>8. \A n \in Node : \/ Relax(d)[n] = d[n]
                      \/ \E u \in Node : \E e \in 1..Len(adj[u]) :
                           adj[u][e].to = n /\ Relax(d)[n] = d[u] + Cost(adj[u][e])
  BY <1>1, <1>3, <1>4
<1>9. QED BY <1>5, <1>6, <1>7, <1>8

\* What the rounds of relaxation compute: the greatest potential.
LEMMA RoundsReachGreatest ==
    ASSUME IsGraph, NEW D,
           D = [k \in 0..N |-> IF k = 0 THEN Start ELSE Relax(D[k - 1])]
    PROVE  D[N] = Delta
<1> DEFINE S(k) == {n \in Node : D[k][n] = Delta[n]}
           Good(k) == /\ D[k] \in [Node -> Nat]
                      /\ \A n \in Node : Delta[n] <= D[k][n] /\ D[k][n] <= WEIGHT_MAX
                      /\ Seed \in S(k)
                      /\ Cardinality(S(k)) > k \/ S(k) = Node
           T == {k \in 0..N : Good(k)}
<1>1. N \in Nat /\ WEIGHT_MAX \in Nat /\ Seed \in Node /\ IsFiniteSet(Node)
  BY Sizes, KernelsAssumption
<1>2. Feasible(Delta) /\ Delta \in [Node -> 0..WEIGHT_MAX] /\ Delta[Seed] = 0
  BY GreatestFeasible DEF Feasible
<1>3. D[0] = Start /\ \A k \in 1..N : D[k] = Relax(D[k - 1])
  <2>1. \A k \in 0..N : D[k] = IF k = 0 THEN Start ELSE Relax(D[k - 1])
    BY Zenon
  <2>2. 0 \in 0..N /\ \A k \in 1..N : k \in 0..N /\ k # 0
    BY <1>1
  <2>3. QED BY <2>1, <2>2
<1>4. \A k : S(k) \subseteq Node /\ IsFiniteSet(S(k)) /\ Cardinality(S(k)) \in Nat
  BY <1>1, FS_Subset, FS_CardinalityType
<1>5. 0 \in T
  <2>1. Start \in [Node -> Nat] /\ Start[Seed] = 0 /\ \A n \in Node : n # Seed => Start[n] = WEIGHT_MAX
    BY <1>1 DEF Start
  <2>2. \A n \in Node : Delta[n] <= D[0][n] /\ D[0][n] <= WEIGHT_MAX
    <3>1. \A n \in Node : Delta[n] \in 0..WEIGHT_MAX
      BY <1>2
    <3>2. ASSUME NEW n \in Node PROVE Delta[n] <= Start[n] /\ Start[n] <= WEIGHT_MAX
      <4>1. CASE n = Seed
        BY <1>1, <1>2, <2>1, <4>1
      <4>2. CASE n # Seed
        BY <1>1, <2>1, <3>1, <4>2
      <4>3. QED BY <4>1, <4>2
    <3>3. QED BY <1>3, <3>2
  <2>3. Seed \in S(0)
    BY <1>1, <1>2, <1>3, <2>1
  <2>4. Cardinality(S(0)) > 0
    <3> HIDE DEF S
    <3>1. Cardinality(S(0)) # 0
      BY <1>4, <2>3, FS_EmptySet
    <3>2. QED BY <1>4, <3>1
  <2>5. QED BY <1>1, <1>3, <2>1, <2>2, <2>3, <2>4
<1>6. ASSUME NEW k \in 0..N, k # N, k \in T PROVE k + 1 \in T
  <2> DEFINE d == D[k]
             f == D[k + 1]
  <2>1. Good(k) /\ k + 1 \in 1..N /\ (k + 1) - 1 = k /\ k \in Nat
    BY <1>1, <1>6
  <2>2. f = Relax(d) /\ d \in [Node -> Nat]
    BY <1>3, <2>1
  <2>4. \A n \in Node : Delta[n] <= d[n] /\ d[n] <= WEIGHT_MAX
    BY <2>1
  <2>5. Seed \in S(k) /\ (Cardinality(S(k)) > k \/ S(k) = Node)
    BY <2>1
  <2>6. S(k) = {n \in Node : d[n] = Delta[n]} /\ S(k + 1) = {n \in Node : f[n] = Delta[n]}
    OBVIOUS
  <2> HIDE DEF d, f, S, T, Good
  <2>3. /\ f \in [Node -> Nat]
        /\ \A n \in Node : f[n] <= d[n]
        /\ \A u \in Node : \A e \in 1..Len(adj[u]) : f[adj[u][e].to] <= d[u] + Cost(adj[u][e])
        /\ \A n \in Node : \/ f[n] = d[n]
                           \/ \E u \in Node : \E e \in 1..Len(adj[u]) :
                                adj[u][e].to = n /\ f[n] = d[u] + Cost(adj[u][e])
    BY <2>2, RelaxProperties
  <2>7. \A n \in Node : d[n] \in Nat /\ f[n] \in Nat /\ Delta[n] \in Nat
    <3>1. \A n \in Node : Delta[n] \in 0..WEIGHT_MAX
      BY <1>2
    <3>2. QED BY <1>1, <2>2, <2>3, <3>1
  <2>8. ASSUME NEW n \in Node PROVE Delta[n] <= f[n] /\ f[n] <= WEIGHT_MAX
    <3>1. CASE f[n] = d[n]
      BY <2>4, <3>1
    <3>2. ASSUME NEW u \in Node, NEW e \in 1..Len(adj[u]),
                 adj[u][e].to = n, f[n] = d[u] + Cost(adj[u][e])
          PROVE  Delta[n] <= f[n]
      <4>1. Delta[n] <= Delta[u] + Cost(adj[u][e])
        BY <1>2, <3>2 DEF Feasible
      <4>2. Cost(adj[u][e]) \in Nat /\ Delta[u] <= d[u]
        BY <2>4, EdgeTypes
      <4>3. QED BY <2>7, <3>2, <4>1, <4>2
    <3>3. f[n] <= WEIGHT_MAX
      BY <1>1, <2>3, <2>4, <2>7
    <3>4. QED BY <2>3, <3>1, <3>2, <3>3
  <2>9. S(k) \subseteq S(k + 1)
    <3>1. ASSUME NEW n \in Node, d[n] = Delta[n] PROVE f[n] = Delta[n]
      BY <2>3, <2>7, <2>8, <3>1
    <3>2. QED BY <2>6, <3>1
  <2>10. ASSUME S(k + 1) = S(k), S(k) # Node PROVE FALSE
    <3> DEFINE q == [n \in Node |-> IF n \in S(k) THEN Delta[n] ELSE Delta[n] + 1]
    <3>1. \A n \in Node : n \notin S(k) => Delta[n] < d[n]
      BY <2>4, <2>6, <2>7
    <3>2. /\ q \in [Node -> 0..WEIGHT_MAX] /\ q[Seed] = 0
          /\ \A n \in Node : q[n] = IF n \in S(k) THEN Delta[n] ELSE Delta[n] + 1
      <4>1. \A n \in Node : n \notin S(k) => Delta[n] + 1 \in 0..WEIGHT_MAX
        BY <1>1, <2>4, <2>7, <3>1
      <4>2. \A n \in Node : Delta[n] \in 0..WEIGHT_MAX
        BY <1>2
      <4>3. QED BY <1>1, <1>2, <2>5, <4>1, <4>2
    <3> HIDE DEF q
    <3>3. ASSUME NEW u \in Node, NEW e \in 1..Len(adj[u])
          PROVE  q[adj[u][e].to] <= q[u] + Cost(adj[u][e])
      <4>1. PICK v \in Node : v = adj[u][e].to
        BY EdgeTypes
      <4>2. PICK c \in Nat : c = Cost(adj[u][e])
        BY EdgeTypes
      <4>3. Delta[v] <= Delta[u] + c
        BY <1>2, <4>1, <4>2 DEF Feasible
      <4>4. f[v] <= d[u] + c
        BY <2>3, <4>1, <4>2
      <4>5. CASE u \in S(k) /\ v \notin S(k)
        <5>1. d[u] = Delta[u] /\ f[v] # Delta[v]
          BY <2>6, <2>10, <4>5
        <5>2. Delta[v] < f[v]
          BY <2>7, <2>8, <5>1
        <5>3. Delta[v] + 1 <= Delta[u] + c
          BY <2>7, <4>4, <5>1, <5>2
        <5>4. QED BY <3>2, <4>1, <4>2, <4>5, <5>3
      <4>6. CASE ~(u \in S(k) /\ v \notin S(k))
        <5>1. q[v] <= q[u] + c
          BY <2>7, <3>2, <4>3, <4>6
        <5>2. QED BY <4>1, <4>2, <5>1
      <4>7. QED BY <4>5, <4>6
    <3>4. Feasible(q)
      BY <3>2, <3>3 DEF Feasible
    <3>5. PICK n \in Node : n \notin S(k)
      BY <1>4, <2>10
    <3>6. q[n] <= Delta[n]
      BY <3>2, <3>4, GreatestBounds
    <3>7. QED BY <2>7, <3>2, <3>5, <3>6
  <2>11. Cardinality(S(k + 1)) > k + 1 \/ S(k + 1) = Node
    <3>1. CASE S(k) = Node
      BY <1>4, <2>9, <3>1
    <3>2. CASE S(k) # Node
      <4>1. S(k + 1) # S(k)
        BY <2>10, <3>2
      <4>2. Cardinality(S(k)) <= Cardinality(S(k + 1)) /\ Cardinality(S(k)) # Cardinality(S(k + 1))
        BY <1>4, <2>9, <4>1, FS_Subset
      <4>3. QED BY <1>4, <2>1, <2>5, <3>2, <4>2
    <3>3. QED BY <3>1, <3>2
  <2>12. Good(k + 1)
    BY <2>3, <2>5, <2>8, <2>9, <2>11 DEF Good, f
  <2>13. QED BY <2>1, <2>12 DEF T
<1>7. N \in T
  <2> HIDE DEF T
  <2>1. \A k \in 0..N : k # N /\ k \in T => k + 1 \in T
    BY <1>6
  <2>2. \A k \in 0..N : k \in T
    BY <1>1, <1>5, <2>1, UpToInduction
  <2>3. QED BY <1>1, <2>2
<1>8. S(N) = Node
  <2>1. Cardinality(S(N)) > N \/ S(N) = Node
    BY <1>7
  <2> HIDE DEF S
  <2>2. Cardinality(S(N)) <= N
    BY <1>1, <1>4, FS_Subset DEF N
  <2>3. QED BY <1>1, <1>4, <2>1, <2>2
<1>9. D[N] \in [Node -> Nat] /\ \A n \in Node : D[N][n] = Delta[n]
  BY <1>7, <1>8
<1>10. PICK g : g = D[N]
  OBVIOUS
<1>11. g \in [Node -> Nat] /\ \A n \in Node : g[n] = Delta[n]
  BY <1>9, <1>10
<1>12. g = Delta
  BY <1>2, <1>11
<1>13. QED BY <1>10, <1>12

\* The reference is the greatest potential: itself one, and above all others.
LEMMA ShortestIsGreatest ==
    ASSUME IsGraph
    PROVE  /\ Feasible(Shortest)
           /\ \A p \in [Node -> 0..WEIGHT_MAX] : Feasible(p) => \A n \in Node : p[n] <= Shortest[n]
<1>1. Shortest = Delta
  BY ShortestEquation, RoundsReachGreatest
<1>2. QED BY <1>1, GreatestFeasible, GreatestBounds
-----------------------------------------------------------------------------
(***************************************************************************)
(* bfs and sssp: what a step does to the thread that takes it.             *)
(***************************************************************************)
Data == <<ret, high, wl, in_index, out_index>>

\* The thread goes on with edge e of its node, or past the last one.
Onto(t, e) ==
    /\ th'[t].hop = th[t].hop
    /\ IF e <= Len(adj[th'[t].node]) THEN th'[t].pc = "edge" /\ th'[t].e = e /\ th'[t].i = th[t].i
       ELSE th'[t].pc = "loop" /\ th'[t].i = th[t].i + NumThreads

\* It stays with its edge.
SameEdge(t) ==
    /\ th'[t].hop = th[t].hop /\ th'[t].i = th[t].i
    /\ th'[t].node = th[t].node /\ th'[t].e = th[t].e

Tested(t) ==
    /\ th[t].pc = "test" /\ th'[t].i = t /\ th'[t].hop = th[t].hop
    /\ th'[t].pc = IF in_index > 0 THEN "loop" ELSE "done"
    /\ UNCHANGED Data
Took(t) ==
    /\ th[t].pc = "loop" /\ th[t].i < in_index
    /\ th'[t].node = wl[1 - Cur][th[t].i] /\ Onto(t, 1)
    /\ UNCHANGED Data
Finished(t) ==
    /\ th[t].pc = "loop" /\ ~(th[t].i < in_index)
    /\ th'[t].pc = "barrier1" /\ th'[t].hop = th[t].hop + 1
    /\ UNCHANGED Data
Passed(t) ==
    /\ \/ kernel = "bfs" /\ th[t].pc = "edge" /\ ret[Target(t)] # -1
       \/ kernel = "sssp" /\ th[t].pc = "min" /\ ~(th[t].val < ret[Target(t)])
    /\ th'[t].node = th[t].node /\ Onto(t, th[t].e + 1)
    /\ UNCHANGED Data
Summed(t) ==
    /\ kernel = "sssp" /\ th[t].pc = "edge" /\ th'[t].pc = "min" /\ SameEdge(t)
    /\ th'[t].val = ret[th[t].node] + Cost(Edge(t))
    /\ UNCHANGED Data
Won(t) ==
    /\ \/ /\ kernel = "bfs" /\ th[t].pc = "edge" /\ th'[t].pc = "store"
          /\ ret[Target(t)] = -1 /\ ret' = [ret EXCEPT ![Target(t)] = th[t].hop]
       \/ /\ kernel = "sssp" /\ th[t].pc = "min" /\ th'[t].pc = "push"
          /\ th[t].val < ret[Target(t)] /\ ret' = [ret EXCEPT ![Target(t)] = th[t].val]
    /\ SameEdge(t) /\ UNCHANGED <<high, wl, in_index, out_index>>
Stored(t) ==
    /\ kernel = "bfs" /\ th[t].pc = "store" /\ th'[t].pc = "push" /\ SameEdge(t)
    /\ ret' = [ret EXCEPT ![Target(t)] = th[t].hop]
    /\ high' = high \ {Target(t)}
    /\ UNCHANGED <<wl, in_index, out_index>>
Pushed(t) ==
    /\ th[t].pc = "push" /\ th'[t].pc = "fill" /\ SameEdge(t) /\ th'[t].index = out_index
    /\ out_index' = out_index + 1
    /\ UNCHANGED <<ret, high, wl, in_index>>
Entered(t) ==
    /\ th[t].pc = "fill"
    /\ wl' = [wl EXCEPT ![Cur] = Written(wl[Cur], th[t].index, Target(t))]
    /\ th'[t].node = th[t].node /\ Onto(t, th[t].e + 1)
    /\ UNCHANGED <<ret, high, in_index, out_index>>
Cleared(t) ==
    /\ th[t].pc = "reset" /\ th'[t].pc = "barrier2" /\ th'[t].hop = th[t].hop
    /\ in_index' = IF t = 0 THEN out_index ELSE in_index
    /\ out_index' = IF t = 0 THEN 0 ELSE out_index
    /\ UNCHANGED <<ret, high, wl>>
Effect(t) ==
    \/ Tested(t) \/ Took(t) \/ Finished(t) \/ Passed(t) \/ Summed(t) \/ Won(t)
    \/ Stored(t) \/ Pushed(t) \/ Entered(t) \/ Cleared(t)

\* What Edges makes of the local variables.
LEMMA EdgesFields ==
    ASSUME kernel # "pagerank", NEW l \in WalkLocal, NEW e
    PROVE  /\ Edges(l, e).hop = l.hop /\ Edges(l, e).node = l.node
           /\ IF e <= Len(adj[l.node])
              THEN Edges(l, e).pc = "edge" /\ Edges(l, e).e = e /\ Edges(l, e).i = l.i
              ELSE Edges(l, e).pc = "loop" /\ Edges(l, e).i = l.i + NumThreads
BY DEF Edges, WalkLocal

\* Going on to the next edge.
LEMMA NextEdgeOnto ==
    ASSUME kernel # "pagerank", WalkTypes, NEW t \in Thread, NextEdge(t)
    PROVE  th'[t].node = th[t].node /\ Onto(t, th[t].e + 1)
<1>1. th[t] \in WalkLocal /\ th'[t] = Edges(th[t], th[t].e + 1)
  BY DEF WalkTypes, NextEdge
<1>2. QED BY <1>1, EdgesFields DEF Onto

\* Every step of a thread has one of these effects.
LEMMA StepEffect ==
    ASSUME kernel # "pagerank", PhaseInv, WalkInv, NEW t \in Thread, Step(t)
    PROVE  /\ UNCHANGED <<kernel, adj>>
           /\ \A u \in Thread : u # t => th'[u] = th[u] /\ Target(u)' = Target(u) /\ Edge(u)' = Edge(u)
           /\ Effect(t)
<1>1. WalkTypes /\ th \in [Thread -> WalkLocal] /\ th[t] \in WalkLocal
  BY DEF WalkInv, WalkTypes
<1>2. UNCHANGED <<kernel, adj>>
  BY DEF Step, Test, Take, Push, Fill, Reset, Claim, Store, ReadDist, FetchMin,
         AddResidual, Reread, Clear, graph
<1>3. \A u \in Thread : u # t => th'[u] = th[u]
  BY <1>1 DEF Step, Test, Take, Push, Fill, Reset, Claim, Store, ReadDist, FetchMin,
              AddResidual, Reread, Clear, Goto, NextEdge
<1>4. \A u \in Thread : u # t => Target(u)' = Target(u) /\ Edge(u)' = Edge(u)
  BY <1>2, <1>3 DEF Target, Edge
<1>5. Effect(t)
  <2>0. ~Reread(t) /\ ~Clear(t) /\ ~AddResidual(t)
    BY <1>1 DEF WalkLocal, WalkPc, EdgePc, Reread, Clear, AddResidual, At
  <2>1. CASE Test(t)
    <3>1. th'[t] = [th[t] EXCEPT !.pc = IF in_index > 0 THEN "loop" ELSE "done", !.i = t]
      BY <1>1, <2>1 DEF Test
    <3>2. th[t].pc = "test" /\ UNCHANGED Data
      BY <2>1 DEF Test, At, Data
    <3>3. Tested(t)
      BY <1>1, <3>1, <3>2 DEF Tested, WalkLocal
    <3>4. QED BY <3>3 DEF Effect
  <2>2. CASE Take(t)
    <3>1. th[t].pc = "loop" /\ UNCHANGED Data
      BY <2>2 DEF Take, At, Data
    <3>2. CASE th[t].i < in_index
      <4> DEFINE v == wl[In(t)][th[t].i]
                 k == [th[t] EXCEPT !.node = v, !.val = 0]
      <4>1. In(t) = 1 - Cur
        <5>1. Out(t) = Cur
          BY <3>1, OutIsCur DEF Round
        <5>2. QED BY <1>1, <5>1 DEF In, Out, WalkLocal
      <4>2. v \in Node /\ v = wl[1 - Cur][th[t].i]
        BY <1>1, <3>2, <4>1 DEF WalkInv, ReadsNodes, WalkLocal, WalkTypes
      <4> HIDE DEF v
      <4>3. k \in WalkLocal /\ k.node = v /\ k.hop = th[t].hop /\ k.i = th[t].i
        <5>1. ASSUME NEW m \in WalkLocal, NEW n \in Node, NEW x \in Int
              PROVE  [m EXCEPT !.node = n, !.val = x] \in WalkLocal
          BY DEF WalkLocal
        <5>2. 0 \in Int
          OBVIOUS
        <5>3. k \in WalkLocal
          BY <1>1, <4>2, <5>1, <5>2, Zenon
        <5>4. QED BY <1>1, <5>3 DEF WalkLocal
      <4>4. th'[t] = Edges(k, 1)
        BY <1>1, <2>2, <3>2 DEF Take, v
      <4> HIDE DEF k
      <4>5. Took(t)
        BY <3>1, <3>2, <4>2, <4>3, <4>4, EdgesFields DEF Took, Onto
      <4>6. QED BY <4>5 DEF Effect
    <3>3. CASE ~(th[t].i < in_index)
      <4>1. th'[t] = [th[t] EXCEPT !.pc = "barrier1", !.hop = th[t].hop + 1, !.node = None]
        BY <1>1, <2>2, <3>3 DEF Take
      <4>2. Finished(t)
        BY <1>1, <3>1, <3>3, <4>1 DEF Finished, WalkLocal
      <4>3. QED BY <4>2 DEF Effect
    <3>4. QED BY <3>2, <3>3
  <2>3. CASE Push(t)
    <3>1. th'[t] = [th[t] EXCEPT !.pc = "fill", !.index = out_index]
      BY <1>1, <2>3 DEF Push
    <3>2. Pushed(t)
      BY <1>1, <2>3, <3>1 DEF Push, Pushed, SameEdge, At, WalkLocal
    <3>3. QED BY <3>2 DEF Effect
  <2>4. CASE Fill(t)
    <3>1. Out(t) = Cur
      BY <2>4, OutIsCur DEF Round, Fill, At
    <3>2. Entered(t)
      BY <1>1, <2>4, <3>1, NextEdgeOnto DEF Fill, Entered, At
    <3>3. QED BY <3>2 DEF Effect
  <2>5. CASE Reset(t)
    <3>1. th'[t] = [th[t] EXCEPT !.pc = "barrier2"]
      BY <1>1, <2>5 DEF Reset, Goto
    <3>2. Cleared(t)
      BY <1>1, <2>5, <3>1 DEF Reset, Cleared, At, WalkLocal
    <3>3. QED BY <3>2 DEF Effect
  <2>6. CASE Claim(t)
    <3>1. th[t].pc = "edge" /\ kernel = "bfs" /\ UNCHANGED <<high, wl, in_index, out_index>>
      BY <2>6 DEF Claim, At
    <3>2. CASE ret[Target(t)] = -1
      <4>1. th'[t] = [th[t] EXCEPT !.pc = "store"] /\ ret' = [ret EXCEPT ![Target(t)] = th[t].hop]
        BY <1>1, <2>6, <3>2 DEF Claim, Goto
      <4>2. th'[t].pc = "store" /\ SameEdge(t)
        BY <1>1, <4>1 DEF SameEdge, WalkLocal
      <4>3. Won(t)
        BY <3>1, <3>2, <4>1, <4>2 DEF Won
      <4>4. QED BY <4>3 DEF Effect
    <3>3. CASE ret[Target(t)] # -1
      <4>1. NextEdge(t) /\ ret' = ret
        BY <2>6, <3>3 DEF Claim
      <4>2. Passed(t)
        BY <1>1, <3>1, <3>3, <4>1, NextEdgeOnto DEF Passed, Data
      <4>3. QED BY <4>2 DEF Effect
    <3>4. QED BY <3>2, <3>3
  <2>7. CASE Store(t)
    <3>1. th'[t] = [th[t] EXCEPT !.pc = "push"]
      BY <1>1, <2>7 DEF Store, Goto
    <3>2. kernel = "bfs" /\ th[t].pc = "store"
      BY <1>1, <2>7 DEF Store, At, WalkTypes, OnEdge
    <3>3. th'[t].pc = "push" /\ SameEdge(t)
      BY <1>1, <3>1 DEF SameEdge, WalkLocal
    <3>4. Stored(t)
      BY <2>7, <3>2, <3>3 DEF Store, Stored
    <3>5. QED BY <3>4 DEF Effect
  <2>8. CASE ReadDist(t)
    <3>1. PICK v : v = ret[th[t].node] + Cost(Edge(t))
      OBVIOUS
    <3>2. th'[t] = [th[t] EXCEPT !.pc = "min", !.val = v]
      BY <1>1, <2>8, <3>1 DEF ReadDist
    <3>3. th'[t].pc = "min" /\ th'[t].val = v /\ SameEdge(t)
      BY <1>1, <3>2 DEF SameEdge, WalkLocal
    <3>4. kernel = "sssp" /\ th[t].pc = "edge" /\ UNCHANGED Data
      BY <2>8 DEF ReadDist, At, Data
    <3>5. Summed(t)
      BY <3>1, <3>3, <3>4 DEF Summed
    <3>6. QED BY <3>5 DEF Effect
  <2>9. CASE FetchMin(t)
    <3>1. /\ th[t].pc = "min" /\ kernel = "sssp"
          /\ UNCHANGED <<high, wl, in_index, out_index>>
      BY <1>1, <2>9 DEF FetchMin, At, WalkTypes, OnEdge
    <3>2. CASE th[t].val < ret[Target(t)]
      <4>1. th'[t] = [th[t] EXCEPT !.pc = "push"] /\ ret' = [ret EXCEPT ![Target(t)] = th[t].val]
        BY <1>1, <2>9, <3>2 DEF FetchMin, Goto
      <4>2. th'[t].pc = "push" /\ SameEdge(t)
        BY <1>1, <4>1 DEF SameEdge, WalkLocal
      <4>3. Won(t)
        BY <3>1, <3>2, <4>1, <4>2 DEF Won
      <4>4. QED BY <4>3 DEF Effect
    <3>3. CASE ~(th[t].val < ret[Target(t)])
      <4>1. NextEdge(t) /\ ret' = ret
        BY <2>9, <3>3 DEF FetchMin
      <4>2. Passed(t)
        BY <1>1, <3>1, <3>3, <4>1, NextEdgeOnto DEF Passed, Data
      <4>3. QED BY <4>2 DEF Effect
    <3>4. QED BY <3>2, <3>3
  <2>10. QED BY <2>0, <2>1, <2>2, <2>3, <2>4, <2>5, <2>6, <2>7, <2>8, <2>9 DEF Step
<1>6. QED BY <1>2, <1>3, <1>4, <1>5

\* The round that is being worked on.
Level == IF th[0].pc \in {"barrier1", "reset"} THEN th[0].hop - 1 ELSE th[0].hop

\* A thread in the loop is in that round.
LEMMA RoundIsLevel ==
    ASSUME PhaseInv, NEW t \in Thread, th[t].pc \in Round
    PROVE  th[t].hop = Level
<1>1. th[t].hop \in Nat /\ th[0].hop \in Nat /\ 0 \in Thread
  BY Sizes DEF PhaseInv, Shape
<1>2. Before1(0) /\ RoundOf(0) = RoundOf(t)
  BY <1>1 DEF PhaseInv, Apart, Before1, After1, Round
<1>3. QED BY <1>1, <1>2 DEF RoundOf, Round, Level, Before1

\* Only the reset by thread 0 starts a round.
LEMMA LevelKept ==
    ASSUME WalkTypes, NEW t \in Thread, Effect(t),
           \A u \in Thread : u # t => th'[u] = th[u]
    PROVE  /\ Level \in Int
           /\ IF th[t].pc = "reset" /\ t = 0
              THEN Level' = Level + 1 /\ Cur' = 1 - Cur
              ELSE Level' = Level /\ Cur' = Cur
<1>1. 0 \in Thread /\ th[0].hop \in Nat
  BY Sizes DEF WalkTypes, WalkLocal
<1>2. CASE t # 0
  BY <1>1, <1>2 DEF Level, Cur, In, Out
<1>3. CASE t = 0
  <2>1. \/ Cleared(0)
        \/ /\ th[0].pc \notin {"barrier1", "reset"}
           /\ \/ th'[0].pc \notin {"barrier1", "reset"} /\ th'[0].hop = th[0].hop
              \/ th'[0].pc = "barrier1" /\ th'[0].hop = th[0].hop + 1
    BY <1>3 DEF Effect, Tested, Took, Finished, Passed, Summed, Won, Stored, Pushed, Entered, Onto, SameEdge
  <2>2. CASE Cleared(0)
    BY <1>1, <1>3, <2>2 DEF Cleared, Level, Cur, In, Out
  <2>3. CASE ~Cleared(0)
    BY <1>1, <1>3, <2>1, <2>3 DEF Level, Cur, In, Out
  <2>4. QED BY <2>2, <2>3
<1>4. QED BY <1>2, <1>3

\* The barriers start none either.
LEMMA BarrierLevel ==
    ASSUME WalkTypes, NEW from, NEW to, Barrier(from, to),
           \/ from = "barrier1" /\ to = "reset"
           \/ from = "barrier2" /\ to = "test"
    PROVE  /\ Level' = Level /\ Cur' = Cur /\ Level \in Int
           /\ \A t \in Thread : th[t].pc = from /\ th'[t].pc = to /\ th'[t].hop = th[t].hop
           /\ UNCHANGED <<kernel, adj, ret, high, wl, in_index, out_index>>
<1>1. 0 \in Thread /\ \A t \in Thread : th[t] \in WalkLocal
  BY Sizes DEF WalkTypes
<1>2. UNCHANGED <<kernel, adj, ret, high, wl, in_index, out_index>>
  BY DEF Barrier, graph
<1>3. \A t \in Thread : th[t].pc = from /\ th'[t] = [th[t] EXCEPT !.pc = to, !.index = 0]
  BY DEF Barrier, At
<1>4. \A t \in Thread : th'[t].pc = to /\ th'[t].hop = th[t].hop /\ th[t].hop \in Nat
  BY <1>1, <1>3 DEF WalkLocal
<1>5. Level' = Level /\ Cur' = Cur /\ Level \in Int
  <2>1. /\ th[0].pc = from /\ th'[0].pc = to /\ th'[0].hop = th[0].hop /\ th[0].hop \in Nat
    BY <1>1, <1>3, <1>4
  <2>2. QED BY <2>1 DEF Level, Cur, In, Out
<1>6. QED BY <1>2, <1>3, <1>4, <1>5
-----------------------------------------------------------------------------
(***************************************************************************)
(* Which entries of the list a thread reads, and when the threads leave.   *)
(***************************************************************************)
Mine(t) == {t + q * NumThreads : q \in Nat}

\* A thread reads every NumThreads-th entry, and the threads read them all.
LEMMA MineFacts ==
    /\ \A i \in Nat : \E t \in Thread : i \in Mine(t)
    /\ \A t \in Thread : /\ t \in Mine(t) /\ t \in Nat /\ Mine(t) \subseteq Nat
                         /\ \A i \in Mine(t) : i >= t /\ i + NumThreads \in Mine(t)
                         /\ \A i, j \in Mine(t) : j > i => j >= i + NumThreads
<1>1. NumThreads \in Nat \ {0}
  BY KernelsAssumption
<1>2. \A q \in Nat : q * NumThreads \in Nat /\ (q + 1) * NumThreads = q * NumThreads + NumThreads
  BY <1>1
<1>3. ASSUME NEW i \in Nat PROVE \E t \in Thread : i \in Mine(t)
  <2>1. i % NumThreads \in Thread
    BY <1>1 DEF Thread
  <2>2. i \div NumThreads \in Nat /\ i = (i % NumThreads) + (i \div NumThreads) * NumThreads
    BY <1>1
  <2>3. QED BY <2>1, <2>2 DEF Mine
<1>4. ASSUME NEW t \in Thread
      PROVE  /\ t \in Mine(t) /\ t \in Nat /\ Mine(t) \subseteq Nat
             /\ \A i \in Mine(t) : i >= t /\ i + NumThreads \in Mine(t)
  <2>1. t \in Nat
    BY <1>1 DEF Thread
  <2>2. t = t + 0 * NumThreads
    BY <1>1, <2>1
  <2>3. t \in Mine(t)
    BY <2>2 DEF Mine
  <2>4. ASSUME NEW i \in Mine(t) PROVE i \in Nat /\ i >= t /\ i + NumThreads \in Mine(t)
    <3>1. PICK q \in Nat : i = t + q * NumThreads
      BY DEF Mine
    <3>2. i + NumThreads = t + (q + 1) * NumThreads /\ q + 1 \in Nat
      BY <1>1, <1>2, <2>1, <3>1
    <3>3. i + NumThreads \in Mine(t)
      BY <3>2 DEF Mine
    <3>4. QED BY <1>2, <2>1, <3>1, <3>3
  <2>5. QED BY <2>1, <2>3, <2>4
<1>5. ASSUME NEW t \in Thread, NEW i \in Mine(t), NEW j \in Mine(t), j > i
      PROVE  j >= i + NumThreads
  <2>0. t \in Nat
    BY <1>1 DEF Thread
  <2>1. PICK p \in Nat : i = t + p * NumThreads
    BY DEF Mine
  <2>2. PICK q \in Nat : j = t + q * NumThreads
    BY DEF Mine
  <2>3. q > p
    <3>1. SUFFICES ASSUME q <= p PROVE FALSE
      OBVIOUS
    <3>2. p - q \in Nat /\ p * NumThreads = q * NumThreads + (p - q) * NumThreads
      BY <1>1, <3>1
    <3>3. (p - q) * NumThreads \in Nat
      BY <1>2, <3>2
    <3>4. QED BY <1>2, <1>5, <2>0, <2>1, <2>2, <3>2, <3>3
  <2>4. q - p - 1 \in Nat /\ q * NumThreads = p * NumThreads + NumThreads + (q - p - 1) * NumThreads
    BY <1>1, <2>3
  <2>5. (q - p - 1) * NumThreads \in Nat
    BY <1>2, <2>4
  <2>6. QED BY <1>1, <1>2, <2>0, <2>1, <2>2, <2>4, <2>5
<1>6. QED BY <1>3, <1>4, <1>5

\* A thread in the loop is at an entry of its own.  Threads leave when the list
\* is empty, and then nothing is being pushed.
Quiet == \A t \in Thread : th[t].pc \in {"test", "done"}
Ends ==
    /\ \A t \in Thread : th[t].pc \in EdgePc \cup {"loop"} => th[t].i \in Mine(t)
    /\ \A t \in Thread : th[t].pc = "done" => in_index = 0
    /\ th[0].pc = "barrier2" => out_index = 0
    /\ in_index = 0 /\ (\A t \in Thread : Before1(t)) => out_index = 0 /\ Quiet

\* The steps keep it so.
LEMMA EndsKept ==
    ASSUME WalkTypes, PhaseInv, Ends, NEW t \in Thread, Effect(t),
           \A u \in Thread : u # t => th'[u] = th[u]
    PROVE  Ends'
<1>1. in_index \in Nat /\ out_index \in Nat /\ 0 \in Thread
  BY Sizes DEF WalkTypes
<1>2. th'[t].pc \in EdgePc \cup {"loop"} => th'[t].i \in Mine(t)
  <2>1. CASE Tested(t)
    BY <2>1, MineFacts DEF Tested
  <2>2. CASE ~Tested(t)
    <3>1. CASE th[t].pc \in EdgePc \cup {"loop"}
      <4>1. th[t].i \in Mine(t) /\ th[t].i + NumThreads \in Mine(t)
        BY <3>1, MineFacts DEF Ends
      <4>2. th'[t].pc = "barrier1" \/ th'[t].i \in {th[t].i, th[t].i + NumThreads}
        BY <2>2, <3>1 DEF Effect, Took, Finished, Passed, Summed, Won, Stored, Pushed, Entered, Cleared,
                          Onto, SameEdge, EdgePc
      <4>3. QED BY <4>1, <4>2 DEF EdgePc
    <3>2. CASE th[t].pc \notin EdgePc \cup {"loop"}
      BY <2>2, <3>2 DEF Effect, Took, Finished, Passed, Summed, Won, Stored, Pushed, Entered, Cleared, EdgePc
    <3>3. QED BY <3>1, <3>2
  <2>3. QED BY <2>1, <2>2
<1>3. \A u \in Thread : th'[u].pc \in EdgePc \cup {"loop"} => th'[u].i \in Mine(u)
  BY <1>2 DEF Ends
<1>4. CASE Cleared(t)
  <2>1. \A u \in Thread : th[u].pc \in {"reset", "barrier2"} /\ th'[u].pc \in {"reset", "barrier2"}
    BY <1>4 DEF Cleared, PhaseInv, Apart, Before1, After1, Round
  <2>2. \A u \in Thread : th'[u].pc # "done" /\ ~Before1(u)'
    BY <2>1 DEF Before1, Round
  <2>3. th'[0].pc = "barrier2" => out_index' = 0
    BY <1>1, <1>4 DEF Cleared, Ends
  <2>4. QED BY <1>1, <1>3, <2>2, <2>3 DEF Ends
<1>5. CASE ~Cleared(t)
  <2>1. /\ in_index' = in_index /\ th[t].pc \in {"test", "loop"} \cup EdgePc
        /\ th'[t].pc \in {"loop", "barrier1", "done"} \cup EdgePc
    BY <1>5 DEF Effect, Tested, Took, Finished, Passed, Summed, Won, Stored, Pushed, Entered, Onto, EdgePc, Data
  <2>2. Before1(t) /\ \A u \in Thread : Before1(u)
    BY <2>1 DEF PhaseInv, Apart, Before1, After1, Round, EdgePc
  <2>3. th'[0].pc # "barrier2"
    BY <1>1, <2>1, <2>2 DEF Before1, Round, EdgePc
  <2>4. th'[t].pc = "done" => in_index = 0
    BY <1>1, <1>5, <2>1 DEF Effect, Tested, Took, Finished, Passed, Summed, Won, Stored, Pushed, Entered, Onto, EdgePc
  <2>5. ASSUME in_index = 0 PROVE out_index' = 0 /\ Quiet'
    <3>1. out_index = 0 /\ Quiet
      BY <2>2, <2>5 DEF Ends
    <3>2. Tested(t)
      BY <1>5, <3>1 DEF Quiet, Effect, Took, Finished, Passed, Summed, Won, Stored, Pushed, Entered
    <3>3. QED BY <2>5, <3>1, <3>2 DEF Tested, Quiet, Data
  <2>6. \A u \in Thread : th'[u].pc = "done" => in_index' = 0
    BY <2>1, <2>4 DEF Ends
  <2>7. QED BY <1>3, <2>1, <2>3, <2>5, <2>6 DEF Ends
<1>6. QED BY <1>4, <1>5

\* So do the barriers.
LEMMA EndsBarrier ==
    ASSUME WalkTypes, Ends, NEW from, NEW to, Barrier(from, to),
           \/ from = "barrier1" /\ to = "reset"
           \/ from = "barrier2" /\ to = "test"
    PROVE  Ends'
<1>1. 0 \in Thread
  BY Sizes
<1>2. /\ \A t \in Thread : th[t].pc = from /\ th'[t].pc = to
      /\ UNCHANGED <<in_index, out_index>>
  BY BarrierLevel
<1>3. QED BY <1>1, <1>2 DEF Ends, Quiet, EdgePc, Before1, Round

\* What a step within a round does to the two lists.
LEMMA ListsStep ==
    ASSUME WalkInv, out_index <= Capacity(kernel), NEW t \in Thread, Effect(t),
           \A u \in Thread : u # t => th'[u] = th[u],
           ~(th[t].pc = "reset" /\ t = 0)
    PROVE  /\ in_index' = in_index /\ wl'[1 - Cur] = wl[1 - Cur]
           /\ \A i \in Nat : Filled(i) => Filled(i)' /\ wl'[Cur][i] = wl[Cur][i]
           /\ \A i \in Nat : Filled(i)' => \/ Filled(i) /\ wl'[Cur][i] = wl[Cur][i]
                                           \/ Entered(t) /\ wl'[Cur][i] = Target(t)
           /\ Entered(t) => \E i \in Nat : Filled(i)' /\ wl'[Cur][i] = Target(t)
<1>1. WalkTypes /\ OwnEntry /\ in_index \in Nat /\ out_index \in Nat /\ Capacity(kernel) \in Nat
  BY Sizes DEF WalkInv, WalkTypes
<1>2. CASE Entered(t)
  <2>0. PICK k \in Nat : k = th[t].index
    BY <1>1 DEF WalkTypes, WalkLocal
  <2>1. /\ th[t].pc = "fill" /\ UNCHANGED <<in_index, out_index>>
        /\ wl' = [wl EXCEPT ![Cur] = Written(wl[Cur], k, Target(t))]
    BY <1>2, <2>0 DEF Entered
  <2>2. k < out_index /\ k \in 0..(Capacity(kernel) - 1)
    BY <1>1, <2>0, <2>1 DEF OwnEntry, At
  <2>3. Cur \in {0, 1} /\ 1 - Cur \in {0, 1} /\ Cur # 1 - Cur
    BY <1>1, CurType
  <2>4. wl[Cur] \in [0..(Capacity(kernel) - 1) -> Node \cup {None}] /\ wl \in [{0, 1} -> [0..(Capacity(kernel) - 1) -> Node \cup {None}]]
    BY <1>1, <2>3 DEF WalkTypes
  <2>5. wl'[Cur] = [wl[Cur] EXCEPT ![k] = Target(t)] /\ wl'[1 - Cur] = wl[1 - Cur]
    <3>1. Written(wl[Cur], k, Target(t)) = [wl[Cur] EXCEPT ![k] = Target(t)]
      BY <2>2, <2>4, WrittenInside
    <3>2. QED BY <2>1, <2>3, <2>4, <3>1
  <2>6. wl'[Cur][k] = Target(t) /\ \A i \in Nat : i # k => wl'[Cur][i] = wl[Cur][i]
    <3>1. \A i \in Nat : i # k => [wl[Cur] EXCEPT ![k] = Target(t)][i] = wl[Cur][i]
      BY <2>2, <2>4
    <3>2. [wl[Cur] EXCEPT ![k] = Target(t)][k] = Target(t)
      BY <2>2, <2>4
    <3>3. QED BY <2>5, <3>1, <3>2
  <2>7. th'[t].pc # "fill"
    BY <1>2 DEF Entered, Onto
  <2>8. \A u \in Thread : At(u, "fill")' <=> At(u, "fill") /\ u # t
    BY <2>7 DEF At
  <2>9. \A u \in Thread : At(u, "fill") /\ th[u].index = k => u = t
    BY <1>1, <2>0, <2>1 DEF OwnEntry, At
  <2>10. Filled(k)' /\ ~Filled(k)
    <3>1. \A u \in Thread : At(u, "fill")' => th'[u] = th[u] /\ th[u].index # k
      BY <2>8, <2>9
    <3>2. At(t, "fill")
      BY <2>1 DEF At
    <3>3. QED BY <1>1, <2>0, <2>1, <2>2, <3>1, <3>2 DEF Filled
  <2>11. \A i \in Nat : i # k => (Filled(i)' <=> Filled(i))
    BY <2>0, <2>1, <2>8 DEF Filled
  <2>12. QED BY <1>2, <2>1, <2>5, <2>6, <2>10, <2>11
<1>3. CASE ~Entered(t)
  <2>1. UNCHANGED <<wl, in_index>> /\ th[t].pc # "fill"
    BY <1>3 DEF Effect, Tested, Took, Finished, Passed, Summed, Won, Stored, Pushed, Cleared, Data
  <2>2. \/ out_index' = out_index /\ th'[t].pc # "fill"
        \/ out_index' = out_index + 1 /\ th'[t].pc = "fill" /\ th'[t].index = out_index
    BY <1>3 DEF Effect, Tested, Took, Finished, Passed, Summed, Won, Stored, Pushed, Cleared, Data, Onto
  <2>3. \A i \in Nat : Filled(i) <=> Filled(i)'
    <3>1. \A i \in Nat : Filled(i) <=> i < out_index /\ \A u \in Thread : u # t /\ At(u, "fill") => th[u].index # i
      BY <1>1, <2>1 DEF Filled, At
    <3>2. \A u \in Thread : u # t => th'[u] = th[u] /\ (At(u, "fill")' <=> At(u, "fill"))
      BY DEF At
    <3>3. CASE out_index' = out_index /\ th'[t].pc # "fill"
      BY <1>1, <3>1, <3>2, <3>3 DEF Filled, At
    <3>4. CASE out_index' = out_index + 1 /\ th'[t].pc = "fill" /\ th'[t].index = out_index
      <4>1. \A i \in Nat : Filled(i)' <=>
               i < out_index + 1 /\ i # out_index /\ \A u \in Thread : u # t /\ At(u, "fill") => th[u].index # i
        BY <1>1, <3>2, <3>4 DEF Filled, At
      <4>2. QED BY <1>1, <3>1, <4>1
    <3>5. QED BY <2>2, <3>3, <3>4
  <2>4. QED BY <1>3, <2>1, <2>3
<1>4. QED BY <1>2, <1>3

\* Where a thread on an edge has come from, and what it claims.
LEMMA EdgeStep ==
    ASSUME WalkTypes, NEW t \in Thread, Effect(t), UNCHANGED <<kernel, adj>>
    PROVE  /\ SameEdge(t) => Target(t)' = Target(t) /\ Edge(t)' = Edge(t)
           /\ th'[t].pc \in EdgePc =>
                 \/ th[t].pc \in EdgePc /\ th'[t].node = th[t].node
                 \/ Took(t)
           /\ Claims(t)' => SameEdge(t) /\ (Claims(t) \/ Won(t))
<1>1. SameEdge(t) => Target(t)' = Target(t) /\ Edge(t)' = Edge(t)
  BY DEF SameEdge, Target, Edge
<1>2. th'[t].pc \in EdgePc => \/ th[t].pc \in EdgePc /\ th'[t].node = th[t].node
                              \/ Took(t)
  BY DEF Effect, Tested, Finished, Passed, Summed, Won, Stored, Pushed, Entered, Cleared, SameEdge, EdgePc
<1>3. Claims(t)' => SameEdge(t) /\ (Claims(t) \/ Won(t))
  BY DEF Effect, Tested, Took, Finished, Passed, Summed, Won, Stored, Pushed, Entered, Cleared, Onto, Claims
<1>4. QED BY <1>1, <1>2, <1>3
-----------------------------------------------------------------------------
(***************************************************************************)
(* bfs: the rounds are the levels of the search.                           *)
(***************************************************************************)
Levels ==
    /\ ret \in [Node -> Int] /\ Level \in Nat \ {0}
    /\ \A n \in Node : ret[n] >= -1 /\ ret[n] <= Level
    /\ \A i \in 0..(in_index - 1) : ret[wl[1 - Cur][i]] = Level - 1
    /\ \A i \in Nat : Filled(i) => ret[wl[Cur][i]] = Level
    /\ \A t \in Thread : Claims(t) => ret[Target(t)] = Level
    /\ \A t \in Thread : th[t].pc \in EdgePc => ret[th[t].node] = Level - 1
    /\ \A n \in Node : ret[n] > 0 => \E m \in Node : ret[m] = ret[n] - 1
    /\ ret[Seed] = 0
    /\ \A n \in Node : n \in high <=> ret[n] = -1 \/ \E t \in Thread : At(t, "store") /\ Target(t) = n

\* A node is written at most once: what is known of the others stays.
LEMMA LevelsStep ==
    ASSUME WalkInv, WalkInv', PhaseInv, Levels, kernel = "bfs", NEW t \in Thread, Effect(t),
           UNCHANGED <<kernel, adj>>,
           \A u \in Thread : u # t => th'[u] = th[u] /\ Target(u)' = Target(u),
           ~(th[t].pc = "reset" /\ t = 0), out_index <= Capacity(kernel)
    PROVE  Levels'
<1>0. Level' = Level /\ Cur' = Cur /\ Level \in Nat \ {0} /\ WalkTypes
  BY LevelKept DEF WalkInv, Levels
<1>1. th[t].pc \in EdgePc => th[t].hop = Level /\ Target(t) \in Node /\ th[t].node \in Node
  BY <1>0, RoundIsLevel, TargetNode DEF Round, EdgePc, WalkTypes, OnEdge
<1>2. /\ in_index' = in_index /\ wl'[1 - Cur] = wl[1 - Cur]
      /\ \A i \in Nat : Filled(i)' => \/ Filled(i) /\ wl'[Cur][i] = wl[Cur][i]
                                      \/ Entered(t) /\ wl'[Cur][i] = Target(t)
  BY ListsStep
<1>3. /\ SameEdge(t) => Target(t)' = Target(t)
      /\ th'[t].pc \in EdgePc => (th[t].pc \in EdgePc /\ th'[t].node = th[t].node) \/ Took(t)
      /\ Claims(t)' => SameEdge(t) /\ (Claims(t) \/ Won(t))
  BY <1>0, EdgeStep
<1>4. /\ ret' \in [Node -> Int]
      /\ IF Won(t) THEN /\ ret[Target(t)] = -1 /\ ret'[Target(t)] = Level
                        /\ \A n \in Node : n # Target(t) => ret'[n] = ret[n]
         ELSE ret' = ret
  <2>1. CASE Won(t)
    BY <1>0, <1>1, <2>1 DEF Won, Levels, EdgePc
  <2>2. CASE Stored(t) /\ ~Won(t)
    <3>1. ret[Target(t)] = Level
      BY <2>2 DEF Stored, Levels, Claims
    <3>2. QED BY <1>0, <1>1, <2>2, <3>1 DEF Stored, Levels, EdgePc
  <2>3. CASE ~Stored(t) /\ ~Won(t)
    BY <2>3 DEF Effect, Tested, Took, Finished, Passed, Summed, Pushed, Entered, Cleared, Data, Levels
  <2>4. QED BY <2>1, <2>2, <2>3
<1>5. \A n \in Node : ret[n] # -1 => ret'[n] = ret[n]
  BY <1>4
<1>6. Won(t) => th[t].pc = "edge" /\ Target(t) \in Node /\ th[t].node \in Node /\ ret[th[t].node] = Level - 1
  BY <1>1 DEF Won, EdgePc, Levels
<1>7. \A n \in Node : ret'[n] >= -1 /\ ret'[n] <= Level
  BY <1>0, <1>4 DEF Levels
<1>8. \A i \in 0..(in_index - 1) : ret'[wl'[1 - Cur][i]] = Level - 1
  <2>1. \A i \in 0..(in_index - 1) : wl[1 - Cur][i] \in Node /\ ret[wl[1 - Cur][i]] = Level - 1
    BY DEF Levels, WalkInv, ReadsNodes
  <2>2. QED BY <1>0, <1>2, <1>5, <2>1
<1>9. \A u \in Thread : Claims(u) => Target(u) \in Node /\ ret[Target(u)] = Level
  BY <1>0, TargetNode DEF Levels, Claims, EdgePc
<1>10. \A i \in Nat : Filled(i)' => ret'[wl'[Cur][i]] = Level
  <2>1. SUFFICES ASSUME NEW i \in Nat, Filled(i)' PROVE ret'[wl'[Cur][i]] = Level
    OBVIOUS
  <2>2. CASE Filled(i) /\ wl'[Cur][i] = wl[Cur][i]
    BY <1>0, <1>5, <2>2 DEF Levels, WalkInv, FilledNodes
  <2>3. CASE Entered(t) /\ wl'[Cur][i] = Target(t)
    BY <1>0, <1>5, <1>9, <2>3 DEF Entered, Claims
  <2>4. QED BY <1>2, <2>1, <2>2, <2>3
<1>11. \A u \in Thread : Claims(u)' => ret'[Target(u)'] = Level
  <2>1. ASSUME NEW u \in Thread, u # t, Claims(u)' PROVE ret'[Target(u)'] = Level
    <3>1. Claims(u) /\ Target(u)' = Target(u)
      BY <2>1 DEF Claims
    <3>2. QED BY <1>0, <1>5, <1>9, <3>1
  <2>2. ASSUME Claims(t)' PROVE ret'[Target(t)'] = Level
    BY <1>0, <1>3, <1>4, <1>5, <1>9, <2>2
  <2>3. QED BY <2>1, <2>2
<1>12. \A u \in Thread : th'[u].pc \in EdgePc => ret'[th'[u].node] = Level - 1
  <2>1. ASSUME NEW u \in Thread, th[u].pc \in EdgePc PROVE ret'[th[u].node] = Level - 1
    <3>1. th[u].node \in Node /\ ret[th[u].node] = Level - 1
      BY <1>0, <2>1 DEF Levels, WalkTypes, OnEdge
    <3>2. QED BY <1>0, <1>5, <3>1
  <2>2. ASSUME Took(t) PROVE ret'[th'[t].node] = Level - 1
    <3>1. th'[t].node = wl[1 - Cur][th[t].i] /\ th[t].i \in 0..(in_index - 1)
      BY <1>0, <2>2 DEF Took, WalkTypes, WalkLocal
    <3>2. QED BY <1>2, <1>8, <3>1
  <2>3. QED BY <1>3, <2>1, <2>2
<1>13. \A n \in Node : ret'[n] > 0 => \E m \in Node : ret'[m] = ret'[n] - 1
  <2>1. SUFFICES ASSUME NEW n \in Node, ret'[n] > 0 PROVE \E m \in Node : ret'[m] = ret'[n] - 1
    OBVIOUS
  <2>2. CASE ret'[n] = ret[n]
    <3>1. PICK m \in Node : ret[m] = ret[n] - 1
      BY <2>1, <2>2 DEF Levels
    <3>2. ret[m] # -1
      BY <2>1, <2>2, <3>1 DEF Levels
    <3>3. QED BY <1>5, <2>2, <3>1, <3>2
  <2>3. CASE ret'[n] # ret[n]
    <3>1. ret'[n] = Level /\ Won(t)
      BY <1>4, <2>3
    <3>2. ret'[th[t].node] = Level - 1
      BY <1>0, <1>5, <1>6, <3>1
    <3>3. QED BY <1>6, <3>1, <3>2
  <2>4. QED BY <2>2, <2>3
<1>14. ret'[Seed] = 0
  BY <1>5, KernelsAssumption DEF Levels
<1>15. ASSUME NEW n \in Node
       PROVE  n \in high' <=> ret'[n] = -1 \/ \E u \in Thread : At(u, "store")' /\ Target(u)' = n
  <2>1. n \in high <=> ret[n] = -1 \/ \E u \in Thread : At(u, "store") /\ Target(u) = n
    BY DEF Levels
  <2>2. \A u \in Thread : u # t => (At(u, "store")' <=> At(u, "store")) /\ Target(u)' = Target(u)
    BY DEF At
  <2>3. CASE Won(t)
    <3>1. high' = high /\ At(t, "store")' /\ Target(t)' = Target(t) /\ ~At(t, "store")
      BY <1>3, <2>3 DEF Won, At
    <3>2. QED BY <1>0, <1>4, <2>1, <2>2, <2>3, <3>1
  <2>4. CASE Stored(t)
    <3>1. high' = high \ {Target(t)} /\ ~At(t, "store")' /\ At(t, "store") /\ ~Won(t)
      BY <2>4 DEF Stored, At, Won
    <3>2. ret' = ret /\ ret[Target(t)] = Level
      BY <1>4, <1>9, <3>1 DEF At, Claims
    <3>3. \A u \in Thread : At(u, "store") /\ Target(u) = Target(t) => u = t
      BY <3>1 DEF WalkInv, OneClaim, At, Claims
    <3>4. QED BY <1>0, <2>1, <2>2, <3>1, <3>2, <3>3
  <2>5. CASE ~Won(t) /\ ~Stored(t)
    <3>1. high' = high /\ ~At(t, "store")' /\ ~At(t, "store") /\ ret' = ret
      BY <2>5 DEF Effect, Tested, Took, Finished, Passed, Summed, Pushed, Entered, Cleared, Data, At, Onto
    <3>2. QED BY <2>1, <2>2, <3>1
  <2>6. QED BY <2>3, <2>4, <2>5
<1>16. QED BY <1>0, <1>2, <1>4, <1>7, <1>8, <1>10, <1>11, <1>12, <1>13, <1>14, <1>15 DEF Levels

\* The reset: what was filled is read in the next round.
LEMMA LevelsReset ==
    ASSUME WalkInv, PhaseInv, Levels, kernel = "bfs", Effect(0), th[0].pc = "reset",
           UNCHANGED <<kernel, adj>>,
           \A u \in Thread : u # 0 => th'[u] = th[u]
    PROVE  Levels'
<1>1. Level' = Level + 1 /\ Cur' = 1 - Cur /\ Level \in Nat \ {0} /\ WalkTypes /\ 0 \in Thread
  BY LevelKept, Sizes DEF WalkInv, Levels
<1>2. Cleared(0)
  BY DEF Effect, Tested, Took, Finished, Passed, Summed, Won, Stored, Pushed, Entered
<1>3. /\ in_index' = out_index /\ out_index' = 0 /\ UNCHANGED <<ret, high, wl>>
      /\ th'[0].pc = "barrier2" /\ in_index \in Nat /\ out_index \in Nat
  BY <1>1, <1>2 DEF Cleared, WalkTypes
<1>4. \A u \in Thread : th[u].pc \in {"reset", "barrier2"} /\ th'[u].pc \in {"reset", "barrier2"}
  BY <1>1, <1>3 DEF PhaseInv, Apart, Before1, After1, Round
<1>5. \A u \in Thread : ~At(u, "store") /\ ~At(u, "store")' /\ ~At(u, "fill") /\ ~Claims(u)'
  BY <1>4 DEF At, Claims
<1>6. \A i \in 0..(out_index - 1) : ret[wl[Cur][i]] = Level
  <2>1. \A i \in 0..(out_index - 1) : i \in Nat /\ Filled(i)
    BY <1>3, <1>5 DEF Filled
  <2>2. QED BY <2>1 DEF Levels
<1>7. \A i \in Nat : ~Filled(i)'
  BY <1>3 DEF Filled
<1>8. 1 - Cur' = Cur
  BY <1>1, CurType
<1>9. \A u \in Thread : th'[u].pc \notin EdgePc
  BY <1>4 DEF EdgePc
<1>10. \A i \in 0..(in_index' - 1) : ret'[wl'[1 - Cur'][i]] = Level' - 1
  BY <1>1, <1>3, <1>6, <1>8
<1>11. \A n \in Node : ret'[n] >= -1 /\ ret'[n] <= Level'
  BY <1>1, <1>3 DEF Levels
<1>12. \A n \in Node : n \in high' <=> ret'[n] = -1 \/ \E u \in Thread : At(u, "store")' /\ Target(u)' = n
  BY <1>3, <1>5 DEF Levels
<1>13. QED BY <1>1, <1>3, <1>5, <1>7, <1>9, <1>10, <1>11, <1>12 DEF Levels

\* The barriers.
LEMMA LevelsBarrier ==
    ASSUME WalkInv, Levels, NEW from, NEW to, Barrier(from, to),
           \/ from = "barrier1" /\ to = "reset"
           \/ from = "barrier2" /\ to = "test"
    PROVE  Levels'
<1>1. WalkTypes
  BY DEF WalkInv
<1>2. /\ Level' = Level /\ Cur' = Cur
      /\ \A t \in Thread : th[t].pc = from /\ th'[t].pc = to
      /\ UNCHANGED <<kernel, adj, ret, high, wl, in_index, out_index>>
  BY <1>1, BarrierLevel
<1>3. \A u \in Thread : /\ ~At(u, "store") /\ ~At(u, "store")' /\ ~At(u, "fill") /\ ~Claims(u)'
                        /\ th'[u].pc \notin EdgePc
  BY <1>2 DEF At, Claims, EdgePc
<1>4. \A i \in Nat : Filled(i)' => Filled(i)
  BY <1>2, <1>3 DEF Filled
<1>5. \A n \in Node : n \in high' <=> ret'[n] = -1 \/ \E u \in Thread : At(u, "store")' /\ Target(u)' = n
  BY <1>2, <1>3 DEF Levels
<1>6. QED BY <1>2, <1>3, <1>4, <1>5 DEF Levels

\* There is a node at every level up to the last, so the levels are fewer than
\* the nodes.
LEMMA LevelsBounded ==
    ASSUME Levels, NEW n \in Node PROVE ret[n] < N
<1>1. N \in Nat /\ IsFiniteSet(Node) /\ ret[n] \in Int
  BY Sizes, KernelsAssumption DEF Levels
<1>2. CASE ret[n] < 0
  BY <1>1, <1>2, Sizes
<1>3. CASE ret[n] >= 0
  <2>0. PICK k \in Nat : k = ret[n]
    BY <1>1, <1>3
  <2> DEFINE T == {j \in 0..k : \E m \in Node : ret[m] = k - j}
             g == [j \in 0..k |-> CHOOSE m \in Node : ret[m] = k - j]
  <2>1. 0 \in T
    BY <2>0
  <2>2. ASSUME NEW j \in 0..k, j # k, j \in T PROVE j + 1 \in T
    <3>1. PICK m \in Node : ret[m] = k - j
      BY <2>2
    <3>2. PICK v \in Node : ret[v] = ret[m] - 1
      BY <2>2, <3>1 DEF Levels
    <3>3. ret[v] = k - (j + 1) /\ j + 1 \in 0..k
      BY <2>2, <3>1, <3>2
    <3>4. QED BY <3>3
  <2>3. \A j \in 0..k : j \in T
    <3> HIDE DEF T
    <3>1. QED BY <2>1, <2>2, UpToInduction
  <2>4. \A j \in 0..k : g[j] \in Node /\ ret[g[j]] = k - j
    BY <2>3
  <2>5. g \in [0..k -> Node]
    BY <2>4
  <2>6. \A i, j \in 0..k : g[i] = g[j] => i = j
    <3> HIDE DEF g
    <3>1. QED BY <2>4
  <2> HIDE DEF g, T
  <2>7. g \in Injection(0..k, Node)
    BY <2>5, <2>6 DEF Injection, IsInjective
  <2>8. Cardinality(0..k) <= Cardinality(Node)
    BY <1>1, <2>7, FS_Injection
  <2>9. Cardinality(0..k) = k + 1
    BY FS_Interval
  <2>10. QED BY <1>1, <2>0, <2>8, <2>9 DEF N
<1>4. QED BY <1>1, <1>2, <1>3
-----------------------------------------------------------------------------
(***************************************************************************)
(* The distances never fall below a potential.                             *)
(***************************************************************************)
Dist(n) == IF ret[n] = -1 THEN WEIGHT_MAX ELSE ret[n]

\* sssp: the distances are naturals up to the mark of unreached nodes.
Values ==
    /\ ret \in [Node -> 0..WEIGHT_MAX] /\ ret[Seed] = 0
    /\ \A t \in Thread : At(t, "min") => th[t].val \in Nat

Exact == IF kernel = "bfs" THEN Levels ELSE Values

Above ==
    \A q \in [Node -> 0..WEIGHT_MAX] : Feasible(q) =>
        /\ \A n \in Node : q[n] <= Dist(n)
        /\ \A t \in Thread : At(t, "min") => q[Target(t)] <= th[t].val

\* Both kernels: distances are naturals up to the mark, and 0 at the seed.
LEMMA DistType ==
    ASSUME kernel # "pagerank", kernel = "bfs" => N <= WEIGHT_MAX, Exact
    PROVE  /\ \A n \in Node : Dist(n) \in 0..WEIGHT_MAX
           /\ Dist(Seed) = 0
<1>1. WEIGHT_MAX \in Nat /\ Seed \in Node /\ N \in Nat
  BY KernelsAssumption, Sizes
<1>2. CASE kernel = "bfs"
  <2>1. Levels /\ \A n \in Node : ret[n] < N
    BY <1>2, LevelsBounded DEF Exact
  <2>2. \A n \in Node : ret[n] \in Int /\ ret[n] >= -1
    BY <2>1 DEF Levels
  <2>3. ret[Seed] = 0
    BY <2>1 DEF Levels
  <2>4. QED BY <1>1, <1>2, <2>1, <2>2, <2>3 DEF Dist
<1>3. CASE kernel # "bfs"
  BY <1>1, <1>3 DEF Exact, Values, Dist
<1>4. QED BY <1>2, <1>3

\* Only the node that is won changes its distance, to a smaller one that the
\* edge allows.
LEMMA DistStep ==
    ASSUME kernel # "pagerank", kernel = "bfs" => N <= WEIGHT_MAX, WalkTypes, PhaseInv, Exact,
           NEW t \in Thread, Effect(t)
    PROVE  IF Won(t)
           THEN /\ Target(t) \in Node /\ th[t].node \in Node /\ th[t].e \in 1..Len(adj[th[t].node])
                /\ \A n \in Node : n = Target(t) =>
                      /\ Dist(n)' \in Nat /\ Dist(n)' <= Dist(n)
                      /\ Dist(n)' = IF kernel = "bfs" THEN Dist(th[t].node) + 1 ELSE th[t].val
                /\ \A n \in Node : n # Target(t) => Dist(n)' = Dist(n)
           ELSE \A n \in Node : Dist(n)' = Dist(n)
<1>0. WEIGHT_MAX \in Nat /\ N \in Nat
  BY KernelsAssumption, Sizes
<1>1. CASE Won(t)
  <2>1. th[t].pc \in {"edge", "min"} /\ th[t].node \in Node /\ th[t].e \in 1..Len(adj[th[t].node])
    BY <1>1 DEF Won, WalkTypes, OnEdge, EdgePc
  <2>2. Target(t) \in Node
    BY <2>1, TargetNode DEF EdgePc
  <2>3. CASE kernel = "bfs"
    <3>1. Levels /\ th[t].hop = Level /\ ret[th[t].node] = Level - 1 /\ Level \in Nat \ {0}
      BY <2>1, <2>3, RoundIsLevel DEF Exact, Levels, EdgePc, Round
    <3>2. Level - 1 < N
      BY <2>1, <3>1, LevelsBounded
    <3>3. ret[Target(t)] = -1 /\ ret' = [ret EXCEPT ![Target(t)] = Level] /\ ret \in [Node -> Int]
      BY <1>1, <2>3, <3>1 DEF Won, Levels
    <3>4. Dist(th[t].node) = Level - 1
      BY <3>1 DEF Dist
    <3>5. \A n \in Node : n = Target(t) => Dist(n) = WEIGHT_MAX /\ Dist(n)' = Level
      BY <2>2, <3>1, <3>3 DEF Dist
    <3>6. \A n \in Node : n # Target(t) => Dist(n)' = Dist(n)
      BY <3>3 DEF Dist
    <3>7. QED BY <1>0, <1>1, <2>1, <2>2, <2>3, <3>1, <3>2, <3>4, <3>5, <3>6
  <2>4. CASE kernel # "bfs"
    <3>1. Values /\ th[t].val \in Nat /\ th[t].val < ret[Target(t)]
      BY <1>1, <2>4 DEF Won, Exact, Values, At
    <3>2. ret' = [ret EXCEPT ![Target(t)] = th[t].val] /\ ret \in [Node -> 0..WEIGHT_MAX]
      BY <1>1, <2>4, <3>1 DEF Won, Values
    <3>3. \A n \in Node : n = Target(t) => Dist(n) = ret[n] /\ Dist(n)' = th[t].val
      BY <2>2, <3>1, <3>2 DEF Dist
    <3>4. \A n \in Node : n # Target(t) => Dist(n)' = Dist(n)
      BY <3>2 DEF Dist
    <3>5. ret[Target(t)] \in Nat
      BY <2>2, <3>2
    <3>6. QED BY <1>1, <2>1, <2>2, <2>4, <3>1, <3>3, <3>4, <3>5
  <2>5. QED BY <2>3, <2>4
<1>2. CASE ~Won(t)
  <2>1. CASE Stored(t)
    <3>1. kernel = "bfs" /\ Levels /\ Claims(t) /\ th[t].pc = "store" /\ ret' = [ret EXCEPT ![Target(t)] = th[t].hop]
      BY <2>1 DEF Stored, Exact, Claims
    <3>2. ret[Target(t)] = Level /\ th[t].hop = Level
      BY <3>1, RoundIsLevel DEF Levels, Round
    <3>3. ret' = ret
      BY <3>1, <3>2 DEF Levels
    <3>4. QED BY <1>2, <3>3 DEF Dist
  <2>2. CASE ~Stored(t)
    <3>1. ret' = ret
      BY <1>2, <2>2 DEF Effect, Tested, Took, Finished, Passed, Summed, Pushed, Entered, Cleared, Data
    <3>2. QED BY <1>2, <3>1 DEF Dist
  <2>3. QED BY <2>1, <2>2
<1>3. QED BY <1>1, <1>2

\* sssp: the values stay naturals.
LEMMA ValuesStep ==
    ASSUME kernel = "sssp", WalkTypes, PhaseInv, Values, NEW t \in Thread, Effect(t),
           \A u \in Thread : u # t => th'[u] = th[u]
    PROVE  Values'
<1>1. WEIGHT_MAX \in Nat /\ Seed \in Node
  BY KernelsAssumption
<1>2. ret' \in [Node -> 0..WEIGHT_MAX] /\ ret'[Seed] = 0
  <2>1. CASE Won(t)
    <3>1. /\ th[t].pc = "min" /\ th[t].val \in Nat /\ th[t].val < ret[Target(t)]
          /\ ret' = [ret EXCEPT ![Target(t)] = th[t].val]
      BY <2>1 DEF Won, Values, At
    <3>2. Target(t) \in Node
      BY <3>1, TargetNode DEF EdgePc
    <3>3. ret[Target(t)] \in 0..WEIGHT_MAX /\ Target(t) # Seed
      BY <3>1, <3>2 DEF Values
    <3>4. th[t].val \in 0..WEIGHT_MAX
      BY <1>1, <3>1, <3>3
    <3>5. QED BY <1>1, <3>1, <3>2, <3>3, <3>4 DEF Values
  <2>2. CASE ~Won(t)
    BY <2>2 DEF Effect, Tested, Took, Finished, Passed, Summed, Stored, Pushed, Entered, Cleared, Data, Values
  <2>3. QED BY <2>1, <2>2
<1>3. At(t, "min")' => th'[t].val \in Nat
  <2>1. SUFFICES ASSUME th'[t].pc = "min" PROVE th'[t].val \in Nat
    BY DEF At
  <2>2. Summed(t)
    BY <2>1 DEF Effect, Tested, Took, Finished, Passed, Won, Stored, Pushed, Entered, Cleared, Onto
  <2>3. th[t].node \in Node /\ th[t].e \in 1..Len(adj[th[t].node]) /\ IsGraph
    BY <2>2 DEF Summed, WalkTypes, OnEdge, EdgePc, IsGraph
  <2>4. Cost(Edge(t)) \in Nat /\ ret[th[t].node] \in 0..WEIGHT_MAX
    BY <2>3, EdgeTypes DEF Edge, Values
  <2>5. QED BY <2>2, <2>4 DEF Summed
<1>4. \A u \in Thread : At(u, "min")' => th'[u].val \in Nat
  BY <1>3 DEF At, Values
<1>5. QED BY <1>2, <1>4 DEF Values

\* A step keeps the distances above every potential.
LEMMA AboveStep ==
    ASSUME kernel # "pagerank", kernel = "bfs" => N <= WEIGHT_MAX, WalkTypes, PhaseInv, Exact, Above,
           NEW t \in Thread, Effect(t), UNCHANGED <<kernel, adj>>,
           \A u \in Thread : u # t => th'[u] = th[u] /\ Target(u)' = Target(u)
    PROVE  Above'
<1>1. SUFFICES ASSUME NEW q \in [Node -> 0..WEIGHT_MAX], Feasible(q)'
               PROVE  /\ \A n \in Node : q[n] <= Dist(n)'
                      /\ \A u \in Thread : At(u, "min")' => q[Target(u)'] <= th'[u].val
  BY DEF Above
<1>2. Feasible(q)
  BY <1>1 DEF Feasible, Cost
<1>3. /\ \A n \in Node : q[n] <= Dist(n) /\ q[n] \in Nat
      /\ \A u \in Thread : At(u, "min") => q[Target(u)] <= th[u].val
  BY <1>2, KernelsAssumption DEF Above
<1>4. /\ \A n \in Node : Dist(n) \in Nat
      /\ IsGraph
  <2>1. \A n \in Node : Dist(n) \in 0..WEIGHT_MAX
    BY DistType
  <2>2. WEIGHT_MAX \in Nat
    BY KernelsAssumption
  <2>3. IsGraph
    BY DEF WalkTypes, IsGraph
  <2>4. QED BY <2>1, <2>2, <2>3
<1>5. ASSUME th[t].node \in Node, th[t].e \in 1..Len(adj[th[t].node])
      PROVE  /\ q[Target(t)] <= Dist(th[t].node) + Cost(Edge(t))
             /\ Cost(Edge(t)) \in Nat
  <2>1. q[Target(t)] <= q[th[t].node] + Cost(Edge(t))
    BY <1>2, <1>5 DEF Feasible, Target, Edge
  <2>2. Cost(Edge(t)) \in Nat /\ Target(t) \in Node
    BY <1>4, <1>5, EdgeTypes DEF Edge, Target
  <2>3. QED BY <1>3, <1>4, <1>5, <2>1, <2>2
<1>6. \A n \in Node : q[n] <= Dist(n)'
  <2>1. CASE Won(t)
    <3>1. /\ Target(t) \in Node /\ th[t].node \in Node /\ th[t].e \in 1..Len(adj[th[t].node])
          /\ \A n \in Node : n = Target(t) =>
                Dist(n)' = IF kernel = "bfs" THEN Dist(th[t].node) + 1 ELSE th[t].val
          /\ \A n \in Node : n # Target(t) => Dist(n)' = Dist(n)
      BY <2>1, DistStep
    <3>2. CASE kernel = "bfs"
      <4>1. Cost(Edge(t)) = 1
        BY <3>2 DEF Cost
      <4>2. q[Target(t)] <= Dist(th[t].node) + 1
        BY <1>5, <3>1, <4>1
      <4>3. QED BY <1>3, <3>1, <3>2, <4>2
    <3>3. CASE kernel # "bfs"
      <4>1. q[Target(t)] <= th[t].val
        BY <1>3, <2>1, <3>3 DEF Won, At
      <4>2. QED BY <1>3, <3>1, <3>3, <4>1
    <3>4. QED BY <3>2, <3>3
  <2>2. CASE ~Won(t)
    BY <1>3, <2>2, DistStep
  <2>3. QED BY <2>1, <2>2
<1>7. At(t, "min")' => q[Target(t)'] <= th'[t].val
  <2>1. SUFFICES ASSUME th'[t].pc = "min" PROVE q[Target(t)'] <= th'[t].val
    BY DEF At
  <2>2. Summed(t)
    BY <2>1 DEF Effect, Tested, Took, Finished, Passed, Won, Stored, Pushed, Entered, Cleared, Onto
  <2>3. th[t].node \in Node /\ th[t].e \in 1..Len(adj[th[t].node]) /\ Target(t)' = Target(t)
    BY <2>2, EdgeStep DEF Summed, WalkTypes, OnEdge, EdgePc
  <2>4. Dist(th[t].node) = ret[th[t].node]
    <3>1. ret[th[t].node] \in 0..WEIGHT_MAX
      BY <2>2, <2>3 DEF Summed, Exact, Values
    <3>2. QED BY <3>1 DEF Dist
  <2>5. QED BY <1>5, <2>2, <2>3, <2>4 DEF Summed
<1>8. \A u \in Thread : At(u, "min")' => q[Target(u)'] <= th'[u].val
  BY <1>3, <1>7 DEF At
<1>9. QED BY <1>6, <1>8

\* The barriers change no distance.
LEMMA ExactBarrier ==
    ASSUME kernel # "pagerank", WalkInv, Exact, Above, NEW from, NEW to, Barrier(from, to),
           \/ from = "barrier1" /\ to = "reset"
           \/ from = "barrier2" /\ to = "test"
    PROVE  Exact' /\ Above'
<1>1. /\ \A t \in Thread : th[t].pc = from /\ th'[t].pc = to
      /\ UNCHANGED <<kernel, adj, ret, high, wl, in_index, out_index>>
  BY BarrierLevel DEF WalkInv
<1>2. \A t \in Thread : ~At(t, "min")'
  BY <1>1 DEF At
<1>3. Exact'
  <2>1. Levels => Levels'
    BY LevelsBarrier
  <2>2. Values => Values'
    BY <1>1, <1>2 DEF Values
  <2>3. QED BY <1>1, <2>1, <2>2 DEF Exact
<1>4. Above'
  <2>1. ASSUME NEW q \in [Node -> 0..WEIGHT_MAX], Feasible(q)'
        PROVE  \A n \in Node : q[n] <= Dist(n)'
    <3>1. Feasible(q)
      BY <1>1, <2>1 DEF Feasible, Cost
    <3>2. \A n \in Node : Dist(n)' = Dist(n)
      BY <1>1 DEF Dist
    <3>3. QED BY <3>1, <3>2 DEF Above
  <2>2. QED BY <1>2, <2>1 DEF Above
<1>5. QED BY <1>3, <1>4

\* At the start the seed has distance 0 and no other node was reached.
LEMMA ExactInit ==
    ASSUME Init, kernel # "pagerank" PROVE Ends /\ Exact /\ Above
<1>1. WEIGHT_MAX \in Nat \ {0} /\ Seed \in Node /\ 0 \in Thread
  BY KernelsAssumption, Sizes
<1>2. \A t \in Thread : th[t].pc = "test" /\ th[t].hop = 1
  BY DEF Init
<1>3. in_index = 1 /\ out_index = 0 /\ WalkInv
  BY WalkInit DEF Init
<1>4. \A t \in Thread : /\ ~At(t, "min") /\ ~At(t, "store") /\ ~At(t, "fill") /\ ~Claims(t)
                        /\ th[t].pc \notin EdgePc \cup {"loop"}
  BY <1>2 DEF At, Claims, EdgePc
<1>5. Ends
  BY <1>1, <1>2, <1>3, <1>4 DEF Ends
<1>6. ret = [n \in Node |-> IF n = Seed THEN 0 ELSE IF kernel = "bfs" THEN -1 ELSE WEIGHT_MAX]
  BY DEF Init
<1>7. Exact
  <2>1. CASE kernel = "bfs"
    <3>1. Level = 1 /\ Cur = 1
      BY <1>1, <1>2 DEF Level, Cur, Out
    <3>2. ret \in [Node -> Int] /\ ret[Seed] = 0 /\ \A n \in Node : n # Seed => ret[n] = -1
      BY <1>1, <1>6, <2>1
    <3>3. wl[0][0] = Seed
      <4>1. wl = [k \in {0, 1} |-> [i \in 0..(Capacity(kernel) - 1) |->
                   IF k = 1 THEN None ELSE IF i = 0 THEN Seed ELSE None]]
        BY <2>1 DEF Init
      <4>2. 0 \in 0..(Capacity(kernel) - 1)
        BY Sizes
      <4>3. QED BY <4>1, <4>2
    <3>4. \A i \in 0..(in_index - 1) : ret[wl[1 - Cur][i]] = Level - 1
      BY <1>3, <3>1, <3>2, <3>3
    <3>5. \A i \in Nat : ~Filled(i)
      BY <1>3 DEF Filled
    <3>6. high = Node \ {Seed}
      BY <2>1 DEF Init
    <3>7. Levels
      <4>1. \A n \in Node : ret[n] >= -1 /\ ret[n] <= 0
        BY <3>2
      <4>2. \A t \in Thread : th[t].pc \notin EdgePc
        BY <1>4
      <4>3. \A n \in Node : n \in high <=> ret[n] = -1 \/ \E t \in Thread : At(t, "store") /\ Target(t) = n
        BY <1>4, <3>2, <3>6
      <4>4. Level \in Nat \ {0} /\ \A n \in Node : ret[n] <= Level /\ ~(ret[n] > 0)
        BY <3>1, <3>2, <4>1
      <4>5. QED BY <1>4, <3>2, <3>4, <3>5, <4>1, <4>2, <4>3, <4>4 DEF Levels
    <3>8. QED BY <2>1, <3>7 DEF Exact
  <2>2. CASE kernel # "bfs"
    <3>1. ret = [n \in Node |-> IF n = Seed THEN 0 ELSE WEIGHT_MAX]
      BY <1>6, <2>2
    <3>2. ret \in [Node -> 0..WEIGHT_MAX] /\ ret[Seed] = 0
      BY <1>1, <3>1
    <3>3. QED BY <1>4, <2>2, <3>2 DEF Exact, Values
  <2>3. QED BY <2>1, <2>2
<1>8. Above
  <2>1. \A n \in Node : Dist(n) = IF n = Seed THEN 0 ELSE WEIGHT_MAX
    BY <1>1, <1>6 DEF Dist
  <2>2. ASSUME NEW q \in [Node -> 0..WEIGHT_MAX], Feasible(q) PROVE \A n \in Node : q[n] <= Dist(n)
    <3>1. q[Seed] = 0 /\ \A n \in Node : q[n] \in Nat /\ q[n] <= WEIGHT_MAX
      BY <1>1, <2>2 DEF Feasible
    <3>2. QED BY <1>1, <2>1, <3>1
  <2>3. QED BY <1>4, <2>2 DEF Above
<1>9. QED BY <1>5, <1>7, <1>8
-----------------------------------------------------------------------------
(***************************************************************************)
(* A node with an edge that is not relaxed is going to be taken up: it is  *)
(* in one of the lists, about to be entered, or in hand before that edge.  *)
(***************************************************************************)
Relaxed(u, e) == Dist(adj[u][e].to) <= Dist(u) + Cost(adj[u][e])
Settled(u) == \A e \in 1..Len(adj[u]) : Relaxed(u, e)

Claimed(u) == \E t \in Thread : Claims(t) /\ Target(t) = u
InList(u) == \E i \in Nat : Filled(i) /\ wl[Cur][i] = u

\* Entry i of the list that is read is still ahead of its thread t.
Ahead(t, i) ==
    \/ th[0].pc = "barrier2" \/ th[t].pc = "test"
    \/ th[t].pc = "loop" /\ i >= th[t].i
    \/ th[t].pc \in EdgePc /\ i > th[t].i
Unread(u) == \E t \in Thread : \E i \in Mine(t) : i < in_index /\ wl[1 - Cur][i] = u /\ Ahead(t, i)

\* Thread t works on u and has relaxed the edges before the one it is at.
InHand(t, u) ==
    /\ th[t].pc \in EdgePc /\ th[t].node = u
    /\ \A k \in 1..(th[t].e - 1) : Relaxed(u, k)
    /\ th[t].pc = "min" => th[t].val <= Dist(u) + Cost(Edge(t))
    /\ Claims(t) => Relaxed(u, th[t].e)

Busy == \A u \in Node : Claimed(u) \/ InList(u) \/ Unread(u) \/ (\E t \in Thread : InHand(t, u)) \/ Settled(u)

\* An edge stays relaxed until the distance of its source falls.
LEMMA RelaxedKept ==
    ASSUME kernel # "pagerank", kernel = "bfs" => N <= WEIGHT_MAX, WalkTypes, PhaseInv, Exact,
           NEW t \in Thread, Effect(t), UNCHANGED <<kernel, adj>>,
           NEW u \in Node, Dist(u)' = Dist(u), NEW e \in 1..Len(adj[u]), Relaxed(u, e)
    PROVE  Relaxed(u, e)'
<1>1. IsGraph
  BY DEF WalkTypes, IsGraph
<1>2. PICK w \in Node : w = adj[u][e].to
  BY <1>1, EdgeTypes
<1>3. PICK c \in Nat : c = Cost(adj[u][e])
  BY <1>1, EdgeTypes
<1>4. Cost(adj[u][e])' = c /\ adj'[u][e].to = w
  BY <1>2, <1>3 DEF Cost
<1>5. Dist(u) \in Nat /\ Dist(w) \in Nat
  <2>1. Dist(u) \in 0..WEIGHT_MAX /\ Dist(w) \in 0..WEIGHT_MAX
    BY DistType
  <2>2. QED BY <2>1, KernelsAssumption
<1>6. Dist(w)' \in Nat /\ Dist(w)' <= Dist(w)
  BY <1>5, DistStep
<1>7. Dist(w) <= Dist(u) + c
  BY <1>2, <1>3 DEF Relaxed
<1>8. Dist(w)' <= Dist(u)' + c
  BY <1>5, <1>6, <1>7
<1>9. QED BY <1>4, <1>8 DEF Relaxed

\* An edge that is passed over is relaxed.
LEMMA PassedRelaxed ==
    ASSUME kernel # "pagerank", WalkTypes, PhaseInv, Exact, NEW t \in Thread, Passed(t),
           InHand(t, th[t].node)
    PROVE  Relaxed(th[t].node, th[t].e)
<1>1. /\ th[t].node \in Node /\ th[t].e \in 1..Len(adj[th[t].node])
      /\ Edge(t) = adj[th[t].node][th[t].e] /\ Target(t) = Edge(t).to
  BY DEF InHand, WalkTypes, OnEdge, Edge, Target
<1>2. Target(t) \in Node
  BY TargetNode DEF InHand
<1>3. CASE kernel = "bfs"
  <2>1. /\ Levels /\ ret[th[t].node] = Level - 1 /\ Level \in Nat \ {0} /\ Cost(Edge(t)) = 1
        /\ ret[Target(t)] # -1 /\ ret[Target(t)] <= Level
    BY <1>1, <1>2, <1>3 DEF Exact, Levels, InHand, Passed, Cost
  <2>2. Dist(th[t].node) = Level - 1 /\ Dist(Target(t)) = ret[Target(t)]
    BY <2>1 DEF Dist
  <2>3. Dist(Target(t)) <= Dist(th[t].node) + Cost(Edge(t))
    BY <2>1, <2>2
  <2>4. QED BY <1>1, <2>3 DEF Relaxed
<1>4. CASE kernel # "bfs"
  <2>1. /\ Values /\ th[t].val \in Nat /\ ~(th[t].val < ret[Target(t)])
        /\ th[t].val <= Dist(th[t].node) + Cost(Edge(t))
    BY <1>4 DEF Exact, Values, InHand, Passed, At
  <2>2. ret[Target(t)] \in Nat /\ ret[th[t].node] \in Nat
    <3>1. ret[Target(t)] \in 0..WEIGHT_MAX /\ ret[th[t].node] \in 0..WEIGHT_MAX
      BY <1>1, <1>2, <2>1 DEF Values
    <3>2. QED BY <3>1, KernelsAssumption
  <2>3. Dist(Target(t)) = ret[Target(t)] /\ Dist(th[t].node) \in Nat
    BY <2>2 DEF Dist
  <2>4. Cost(Edge(t)) \in Nat
    BY <1>1, EdgeTypes DEF WalkTypes, IsGraph
  <2>5. Dist(Target(t)) <= Dist(th[t].node) + Cost(Edge(t))
    BY <2>1, <2>2, <2>3, <2>4
  <2>6. QED BY <1>1, <2>5 DEF Relaxed
<1>5. QED BY <1>3, <1>4

\* A thread goes on with its node until the node is settled.
LEMMA InHandStep ==
    ASSUME kernel # "pagerank", kernel = "bfs" => N <= WEIGHT_MAX, WalkTypes, PhaseInv, Exact,
           NEW t \in Thread, Effect(t), UNCHANGED <<kernel, adj>>,
           \A v \in Thread : v # t => th'[v] = th[v] /\ Edge(v)' = Edge(v),
           NEW u \in Node, Dist(u)' = Dist(u), NEW v \in Thread, InHand(v, u)
    PROVE  InHand(v, u)' \/ Settled(u)'
<1>0. IsGraph /\ \A x : Cost(x)' = Cost(x)
  BY DEF WalkTypes, IsGraph, Cost
<1>1. \A k \in 1..Len(adj[u]) : Relaxed(u, k) => Relaxed(u, k)'
  BY RelaxedKept
<1>2. th[v].pc \in EdgePc /\ th[v].node = u /\ th[v].e \in 1..Len(adj[u]) /\ Len(adj[u]) \in Nat
  BY <1>0 DEF InHand, WalkTypes, OnEdge, IsGraph
<1>3. \A k \in 1..(th[v].e - 1) : k \in 1..Len(adj[u]) /\ Relaxed(u, k)'
  BY <1>1, <1>2 DEF InHand
<1>4. CASE v # t
  <2>1. th'[v] = th[v] /\ Edge(v)' = Edge(v)
    BY <1>4
  <2>2. Claims(v)' => Relaxed(u, th[v].e)'
    BY <1>1, <1>2, <2>1 DEF InHand, Claims
  <2>3. th'[v].pc = "min" => th'[v].val <= Dist(u)' + Cost(Edge(v))'
    <3>1. Cost(Edge(v))' = Cost(Edge(v))
      BY <2>1 DEF Cost
    <3>2. QED BY <2>1, <3>1 DEF InHand
  <2>4. QED BY <1>2, <1>3, <2>1, <2>2, <2>3 DEF InHand
<1>5. CASE v = t
  <2>0. PICK f \in 1..Len(adj[u]) : f = th[t].e
    BY <1>2, <1>5
  <2>1. ASSUME Relaxed(u, f)', th'[t].node = u, Onto(t, f + 1)
        PROVE  InHand(t, u)' \/ Settled(u)'
    <3>1. \A k \in 1..f : Relaxed(u, k)'
      BY <1>2, <1>3, <1>5, <2>0, <2>1
    <3>2. CASE f + 1 <= Len(adj[u])
      <4>1. th'[t].pc = "edge" /\ th'[t].e = f + 1
        BY <2>1, <3>2 DEF Onto
      <4>2. ~Claims(t)' /\ th'[t].pc \in EdgePc /\ th'[t].pc # "min"
        BY <4>1 DEF Claims, EdgePc
      <4>3. \A k \in 1..(th'[t].e - 1) : Relaxed(u, k)'
        BY <1>2, <1>5, <3>1, <4>1
      <4>4. QED BY <2>1, <4>2, <4>3 DEF InHand
    <3>3. CASE ~(f + 1 <= Len(adj[u]))
      <4>1. f = Len(adj[u])
        BY <1>2, <1>5, <3>3
      <4>2. QED BY <3>1, <4>1 DEF Settled
    <3>4. QED BY <3>2, <3>3
  <2>2. CASE Passed(t)
    <3>1. Relaxed(u, f)
      BY <1>2, <1>5, <2>0, <2>2, PassedRelaxed
    <3>2. Relaxed(u, f)'
      BY <1>1, <1>2, <1>5, <2>0, <3>1
    <3>3. QED BY <1>2, <1>5, <2>0, <2>1, <2>2, <3>2 DEF Passed
  <2>3. CASE Entered(t)
    <3>1. Relaxed(u, f)'
      BY <1>1, <1>2, <1>5, <2>0, <2>3 DEF Entered, InHand, Claims
    <3>2. QED BY <1>2, <1>5, <2>0, <2>1, <2>3, <3>1 DEF Entered
  <2>4. ASSUME SameEdge(t), th'[t].pc \in EdgePc,
               th'[t].pc = "min" => th'[t].val <= Dist(u)' + Cost(Edge(t))',
               Claims(t)' => Relaxed(u, f)'
        PROVE  InHand(t, u)'
    BY <1>2, <1>3, <1>5, <2>0, <2>4 DEF SameEdge, InHand
  <2>5. CASE Summed(t)
    <3>1. SameEdge(t) /\ th'[t].pc = "min" /\ ~Claims(t)' /\ th'[t].val = ret[u] + Cost(Edge(t))
      BY <1>2, <1>5, <2>5 DEF Summed, Claims
    <3>2. Edge(t)' = Edge(t)
      BY <3>1, EdgeStep
    <3>3. ret[u] \in Nat /\ Cost(Edge(t)) \in Nat
      <4>1. ret[u] \in 0..WEIGHT_MAX
        BY <2>5 DEF Summed, Exact, Values
      <4>2. Cost(Edge(t)) \in Nat
        BY <1>0, <1>2, <1>5, EdgeTypes DEF Edge
      <4>3. QED BY <4>1, <4>2, KernelsAssumption
    <3>4. Dist(u) = ret[u]
      BY <3>3 DEF Dist
    <3>5. Cost(Edge(t))' = Cost(Edge(t))
      BY <3>2 DEF Cost
    <3>6. th'[t].val <= Dist(u)' + Cost(Edge(t))'
      BY <3>1, <3>3, <3>4, <3>5
    <3>7. QED BY <1>5, <2>4, <3>1, <3>6 DEF EdgePc
  <2>6. CASE Won(t)
    <3>1. SameEdge(t) /\ th'[t].pc \in {"store", "push"}
      BY <2>6 DEF Won
    <3>2. PICK w \in Node : w = Target(t)
      BY <2>6, DistStep
    <3>3. Dist(w)' \in Nat /\ Dist(w)' = IF kernel = "bfs" THEN Dist(u) + 1 ELSE th[t].val
      BY <1>2, <1>5, <2>6, <3>2, DistStep
    <3>4. Dist(w)' <= Dist(u) + Cost(Edge(t))
      <4>1. CASE kernel = "bfs"
        BY <3>3, <4>1 DEF Cost
      <4>2. CASE kernel # "bfs"
        BY <1>5, <2>6, <3>3, <4>2 DEF Won, InHand
      <4>3. QED BY <4>1, <4>2
    <3>5. adj'[u][f].to = w /\ Cost(adj[u][f])' = Cost(Edge(t))
      BY <1>2, <1>5, <2>0, <3>2 DEF Target, Edge, Cost
    <3>6. Relaxed(u, f)'
      BY <1>0, <3>4, <3>5 DEF Relaxed
    <3>7. QED BY <1>5, <2>4, <3>1, <3>6 DEF EdgePc
  <2>7. CASE Stored(t) \/ Pushed(t)
    <3>1. SameEdge(t) /\ th'[t].pc \in {"push", "fill"} /\ Claims(t)
      BY <2>7 DEF Stored, Pushed, Claims
    <3>2. Relaxed(u, f)'
      BY <1>1, <1>2, <1>5, <2>0, <3>1 DEF InHand
    <3>3. QED BY <1>5, <2>4, <3>1, <3>2 DEF EdgePc
  <2>8. ~Tested(t) /\ ~Took(t) /\ ~Finished(t) /\ ~Cleared(t)
    BY <1>2, <1>5 DEF Tested, Took, Finished, Cleared, EdgePc
  <2>9. QED BY <1>5, <2>2, <2>3, <2>5, <2>6, <2>7, <2>8 DEF Effect
<1>6. QED BY <1>4, <1>5

\* An entry that is not read yet stays so until its thread takes it up.
LEMMA UnreadStep ==
    ASSUME WalkInv, PhaseInv, Ends, out_index <= Capacity(kernel), NEW t \in Thread, Effect(t),
           \A v \in Thread : v # t => th'[v] = th[v],
           ~(th[t].pc = "reset" /\ t = 0), NEW u \in Node, Unread(u)
    PROVE  Unread(u)' \/ (Took(t) /\ th'[t].node = u)
<1>1. /\ Cur' = Cur /\ in_index' = in_index /\ wl'[1 - Cur] = wl[1 - Cur] /\ in_index \in Nat
      /\ 0 \in Thread /\ NumThreads \in Nat
  BY LevelKept, ListsStep, Sizes DEF WalkInv, WalkTypes
<1>2. PICK v \in Thread : \E i \in Mine(v) : i < in_index /\ wl[1 - Cur][i] = u /\ Ahead(v, i)
  BY DEF Unread
<1>3. PICK i \in Mine(v) : i < in_index /\ wl[1 - Cur][i] = u /\ Ahead(v, i)
  BY <1>2
<1>4. i \in Nat /\ i >= v /\ v \in Nat /\ th[v].i \in Nat
  BY <1>3, MineFacts DEF WalkInv, WalkTypes, WalkLocal
<1>5. Ahead(v, i)' => Unread(u)'
  BY <1>1, <1>3 DEF Unread
<1>6. CASE th[0].pc = "barrier2"
  <2>1. t # 0
    BY <1>1, <1>6 DEF Effect, Tested, Took, Finished, Passed, Summed, Won, Stored, Pushed, Entered, Cleared
  <2>2. QED BY <1>1, <1>5, <1>6, <2>1 DEF Ahead
<1>7. CASE v # t
  <2>1. th'[v] = th[v]
    BY <1>7
  <2>2. CASE th[0].pc # "barrier2"
    BY <1>3, <1>5, <2>1, <2>2 DEF Ahead
  <2>3. QED BY <1>6, <2>2
<1>8. CASE v = t /\ th[0].pc # "barrier2"
  <2>1. CASE Tested(t)
    BY <1>1, <1>3, <1>4, <1>5, <1>8, <2>1 DEF Tested, Ahead
  <2>2. ASSUME i > th[t].i, th[t].pc \in EdgePc \cup {"loop"}
        PROVE  i >= th[t].i + NumThreads
    BY <1>3, <1>8, <2>2, MineFacts DEF Ends
  <2>3. CASE Took(t)
    <3>1. i >= th[t].i
      BY <1>3, <1>8, <2>3 DEF Took, Ahead, EdgePc
    <3>2. CASE i = th[t].i
      BY <1>3, <2>3, <3>2 DEF Took
    <3>3. CASE i > th[t].i
      BY <1>5, <1>8, <2>2, <2>3, <3>3 DEF Took, Onto, Ahead, EdgePc
    <3>4. QED BY <1>4, <1>8, <3>1, <3>2, <3>3
  <2>4. CASE th[t].pc \in EdgePc
    <3>1. i > th[t].i /\ i >= th[t].i + NumThreads
      BY <1>3, <1>8, <2>2, <2>4 DEF Ahead, EdgePc
    <3>2. \/ th'[t].pc \in EdgePc /\ th'[t].i = th[t].i
          \/ th'[t].pc = "loop" /\ th'[t].i = th[t].i + NumThreads
      BY <2>4 DEF Effect, Tested, Took, Finished, Passed, Summed, Won, Stored, Pushed, Entered, Cleared,
                  Onto, SameEdge, EdgePc
    <3>3. QED BY <1>5, <1>8, <3>1, <3>2 DEF Ahead
  <2>5. CASE Finished(t) \/ Cleared(t)
    BY <1>1, <1>3, <1>4, <1>8, <2>5 DEF Finished, Cleared, Ahead, EdgePc
  <2>6. QED BY <2>1, <2>3, <2>4, <2>5 DEF Effect, Passed, Summed, Won, Stored, Pushed, Entered, EdgePc
<1>9. QED BY <1>6, <1>7, <1>8

\* Within a round no node with an edge to relax is forgotten.
LEMMA BusyStep ==
    ASSUME kernel # "pagerank", kernel = "bfs" => N <= WEIGHT_MAX, WalkInv, PhaseInv, Ends, Exact, Busy,
           out_index <= Capacity(kernel), NEW t \in Thread, Effect(t), UNCHANGED <<kernel, adj>>,
           \A v \in Thread : v # t => th'[v] = th[v] /\ Target(v)' = Target(v) /\ Edge(v)' = Edge(v),
           ~(th[t].pc = "reset" /\ t = 0)
    PROVE  Busy'
<1>1. WalkTypes /\ Cur' = Cur
  BY LevelKept DEF WalkInv
<1>2. SUFFICES ASSUME NEW u \in Node
               PROVE  (Claimed(u) \/ InList(u) \/ Unread(u) \/ (\E v \in Thread : InHand(v, u)) \/ Settled(u))'
  BY DEF Busy
<1>3. CASE Dist(u)' # Dist(u)
  <2>1. Won(t) /\ u = Target(t)
    BY <1>1, <1>3, DistStep
  <2>2. Claims(t)' /\ Target(t)' = Target(t)
    BY <1>1, <2>1, EdgeStep DEF Won, Claims
  <2>3. QED BY <2>1, <2>2 DEF Claimed
<1>4. CASE Dist(u)' = Dist(u)
  <2>1. CASE Claimed(u)
    <3>1. PICK v \in Thread : Claims(v) /\ Target(v) = u
      BY <2>1 DEF Claimed
    <3>2. CASE v # t
      BY <3>1, <3>2 DEF Claimed, Claims
    <3>3. CASE v = t /\ Entered(t)
      BY <1>1, <3>1, <3>3, ListsStep DEF InList
    <3>4. CASE v = t /\ ~Entered(t)
      <4>1. Claims(t)' /\ SameEdge(t)
        BY <3>1, <3>4 DEF Effect, Tested, Took, Finished, Passed, Summed, Won, Stored, Pushed, Cleared, Claims
      <4>2. Target(t)' = Target(t)
        BY <1>1, <4>1, EdgeStep
      <4>3. QED BY <3>1, <3>4, <4>1, <4>2 DEF Claimed
    <3>5. QED BY <3>2, <3>3, <3>4
  <2>2. CASE InList(u)
    BY <1>1, <2>2, ListsStep DEF InList
  <2>3. CASE Unread(u)
    <3>1. Unread(u)' \/ (Took(t) /\ th'[t].node = u)
      BY <2>3, UnreadStep
    <3>2. CASE Took(t) /\ th'[t].node = u
      <4>1. Len(adj[u]) \in Nat
        BY <1>1 DEF WalkTypes
      <4>2. CASE 1 <= Len(adj[u])
        <5>1. th'[t].pc = "edge" /\ th'[t].e = 1
          BY <3>2, <4>2 DEF Took, Onto
        <5>2. InHand(t, u)'
          BY <3>2, <5>1 DEF InHand, EdgePc, Claims
        <5>3. QED BY <5>2
      <4>3. CASE ~(1 <= Len(adj[u]))
        BY <4>1, <4>3 DEF Settled
      <4>4. QED BY <4>2, <4>3
    <3>3. QED BY <3>1, <3>2
  <2>4. CASE \E v \in Thread : InHand(v, u)
    <3>1. PICK v \in Thread : InHand(v, u)
      BY <2>4
    <3>2. InHand(v, u)' \/ Settled(u)'
      BY <1>1, <1>4, <3>1, InHandStep
    <3>3. QED BY <3>2
  <2>5. CASE Settled(u)
    <3>1. \A e \in 1..Len(adj[u]) : Relaxed(u, e)'
      BY <1>1, <1>4, <2>5, RelaxedKept DEF Settled
    <3>2. QED BY <3>1 DEF Settled
  <2>6. QED BY <2>1, <2>2, <2>3, <2>4, <2>5 DEF Busy
<1>5. QED BY <1>3, <1>4

\* Edges stay relaxed while nothing is written.
LEMMA SettledKept ==
    ASSUME UNCHANGED <<kernel, adj, ret>>, NEW u \in Node, Settled(u)
    PROVE  Settled(u)'
<1>1. \A n : Dist(n)' = Dist(n)
  BY DEF Dist
<1>2. \A x : Cost(x)' = Cost(x)
  BY DEF Cost
<1>3. QED BY <1>1, <1>2 DEF Settled, Relaxed

\* The reset: the nodes that were entered are now to be read.
LEMMA BusyReset ==
    ASSUME WalkInv, PhaseInv, Busy, Effect(0), th[0].pc = "reset", UNCHANGED <<kernel, adj>>,
           \A v \in Thread : v # 0 => th'[v] = th[v]
    PROVE  Busy'
<1>1. Cur' = 1 - Cur /\ 1 - Cur' = Cur /\ WalkTypes /\ 0 \in Thread
  BY LevelKept, Sizes, CurType DEF WalkInv
<1>2. Cleared(0)
  BY DEF Effect, Tested, Took, Finished, Passed, Summed, Won, Stored, Pushed, Entered
<1>3. /\ in_index' = out_index /\ UNCHANGED <<ret, wl>> /\ th'[0].pc = "barrier2"
      /\ out_index \in Nat
  BY <1>1, <1>2 DEF Cleared, WalkTypes
<1>4. \A v \in Thread : th[v].pc \in {"reset", "barrier2"}
  BY <1>1 DEF PhaseInv, Apart, Before1, After1, Round
<1>5. SUFFICES ASSUME NEW u \in Node PROVE Unread(u)' \/ Settled(u)'
  BY DEF Busy
<1>6. ~Claimed(u) /\ ~Unread(u) /\ \A v \in Thread : ~InHand(v, u)
  BY <1>4 DEF Claimed, Claims, Unread, Ahead, InHand, EdgePc
<1>7. CASE InList(u)
  <2>1. PICK i \in Nat : Filled(i) /\ wl[Cur][i] = u
    BY <1>7 DEF InList
  <2>2. PICK v \in Thread : i \in Mine(v)
    BY MineFacts
  <2>3. i < in_index' /\ wl'[1 - Cur'][i] = u /\ Ahead(v, i)'
    BY <1>1, <1>3, <2>1 DEF Filled, Ahead
  <2>4. QED BY <2>2, <2>3 DEF Unread
<1>8. CASE Settled(u)
  BY <1>3, <1>8, SettledKept
<1>9. QED BY <1>6, <1>7, <1>8 DEF Busy

\* The barriers.
LEMMA BusyBarrier ==
    ASSUME WalkInv, Busy, NEW from, NEW to, Barrier(from, to),
           \/ from = "barrier1" /\ to = "reset"
           \/ from = "barrier2" /\ to = "test"
    PROVE  Busy'
<1>1. WalkTypes /\ 0 \in Thread
  BY Sizes DEF WalkInv
<1>2. /\ Cur' = Cur
      /\ \A t \in Thread : th[t].pc = from /\ th'[t].pc = to
      /\ UNCHANGED <<kernel, adj, ret, high, wl, in_index, out_index>>
  BY <1>1, BarrierLevel
<1>3. SUFFICES ASSUME NEW u \in Node PROVE InList(u)' \/ Unread(u)' \/ Settled(u)'
  BY DEF Busy
<1>4. ~Claimed(u) /\ \A v \in Thread : ~InHand(v, u)
  BY <1>2 DEF Claimed, Claims, InHand, EdgePc
<1>5. InList(u) => InList(u)'
  <2>1. \A t \in Thread : ~At(t, "fill")'
    BY <1>2 DEF At
  <2>2. \A i \in Nat : Filled(i) => Filled(i)'
    BY <1>2, <2>1 DEF Filled
  <2>3. QED BY <1>2, <2>2 DEF InList
<1>6. CASE Unread(u)
  <2>1. from = "barrier2" /\ to = "test"
    BY <1>1, <1>2, <1>6 DEF Unread, Ahead, EdgePc
  <2>2. \A t \in Thread : \A i \in Mine(t) : Ahead(t, i)'
    BY <1>2, <2>1 DEF Ahead
  <2>3. PICK t \in Thread : \E i \in Mine(t) : i < in_index /\ wl[1 - Cur][i] = u
    BY <1>6 DEF Unread
  <2>4. QED BY <1>2, <2>2, <2>3 DEF Unread
<1>7. Settled(u) => Settled(u)'
  BY <1>2, SettledKept
<1>8. QED BY <1>4, <1>5, <1>6, <1>7 DEF Busy

\* At the start the seed is to be read, and no other node is reached.
LEMMA BusyInit ==
    ASSUME Init, kernel # "pagerank" PROVE Busy
<1>1. WEIGHT_MAX \in Nat /\ Seed \in Node /\ 0 \in Thread /\ IsGraph
  BY KernelsAssumption, Sizes DEF Init, IsGraph
<1>2. \A t \in Thread : th[t].pc = "test" /\ th[t].hop = 1
  BY DEF Init
<1>3. \A n \in Node : Dist(n) = IF n = Seed THEN 0 ELSE WEIGHT_MAX
  BY <1>1 DEF Init, Dist
<1>4. Unread(Seed)
  <2>1. wl = [k \in {0, 1} |-> [i \in 0..(Capacity(kernel) - 1) |->
               IF k = 1 THEN None ELSE IF i = 0 THEN Seed ELSE None]]
    BY DEF Init
  <2>2. 0 \in 0..(Capacity(kernel) - 1) /\ 0 \in Mine(0)
    BY <1>1, Sizes, MineFacts
  <2>3. wl[0][0] = Seed
    BY <2>1, <2>2
  <2>4. 1 - Cur = 0 /\ in_index = 1
    BY <1>1, <1>2 DEF Cur, Out, Init
  <2>5. 0 < in_index /\ wl[1 - Cur][0] = Seed /\ Ahead(0, 0)
    BY <1>1, <1>2, <2>3, <2>4 DEF Ahead
  <2>6. QED BY <1>1, <2>2, <2>5 DEF Unread
<1>5. ASSUME NEW u \in Node, u # Seed PROVE Settled(u)
  <2>1. ASSUME NEW e \in 1..Len(adj[u]) PROVE Relaxed(u, e)
    <3>1. adj[u][e].to \in Node /\ Cost(adj[u][e]) \in Nat
      BY <1>1, EdgeTypes
    <3>2. QED BY <1>1, <1>3, <1>5, <3>1 DEF Relaxed
  <2>2. QED BY <2>1 DEF Settled
<1>6. QED BY <1>4, <1>5 DEF Busy
-----------------------------------------------------------------------------
DistInv == Ends /\ Exact /\ Above /\ Busy

\* Every step keeps the invariant.
LEMMA DistNext ==
    ASSUME kernel \in {"bfs", "sssp"}, kernel = "bfs" => N <= WEIGHT_MAX, PhaseInv, WalkInv, DistInv,
           out_index <= Capacity(kernel), [Next]_vars
    PROVE  WalkInv' /\ DistInv'
<1>1. WalkInv' /\ WalkTypes /\ Ends /\ Exact /\ Above /\ Busy
  BY WalkNext DEF WalkInv, DistInv
<1>2. CASE UNCHANGED vars
  <2>1. UNCHANGED <<kernel, adj, ret, high, wl, in_index, out_index, th>>
    BY <1>2 DEF vars
  <2>2. /\ Cur' = Cur /\ Level' = Level
        /\ \A t : /\ Target(t)' = Target(t) /\ Edge(t)' = Edge(t) /\ (Claims(t)' <=> Claims(t))
                  /\ \A l : At(t, l)' <=> At(t, l)
        /\ \A n : Dist(n)' = Dist(n)
        /\ \A x : Cost(x)' = Cost(x)
    BY <2>1 DEF Cur, Level, In, Out, Target, Edge, Claims, At, Dist, Cost
  <2>3. \A i : Filled(i)' <=> Filled(i)
    BY <2>1, <2>2 DEF Filled
  <2>4. Ends'
    BY <1>1, <2>1 DEF Ends, Before1, Quiet
  <2>5. Exact'
    <3>1. Levels => Levels'
      BY <2>1, <2>2, <2>3 DEF Levels
    <3>2. Values => Values'
      BY <2>1, <2>2 DEF Values
    <3>3. QED BY <1>1, <2>1, <3>1, <3>2 DEF Exact
  <2>6. Above'
    <3>1. \A q : Feasible(q)' => Feasible(q)
      BY <2>1, <2>2 DEF Feasible
    <3>2. QED BY <1>1, <2>1, <2>2, <3>1 DEF Above
  <2>7. Busy'
    <3>1. \A u \in Node : Settled(u) => Settled(u)'
      BY <2>1, SettledKept
    <3>2. \A u \in Node : Claimed(u) => Claimed(u)'
      BY <2>1, <2>2 DEF Claimed
    <3>3. \A u \in Node : InList(u) => InList(u)'
      BY <2>1, <2>2, <2>3 DEF InList
    <3>4. \A u \in Node : Unread(u) => Unread(u)'
      BY <2>1, <2>2 DEF Unread, Ahead
    <3>5. \A u \in Node, t \in Thread : InHand(t, u) => InHand(t, u)'
      <4>1. \A u, k : Relaxed(u, k)' <=> Relaxed(u, k)
        BY <2>1, <2>2 DEF Relaxed
      <4>2. \A t : Cost(Edge(t))' = Cost(Edge(t))
        BY <2>1, <2>2 DEF Cost
      <4>3. QED BY <2>1, <2>2, <4>1, <4>2 DEF InHand
    <3>6. QED BY <1>1, <3>1, <3>2, <3>3, <3>4, <3>5 DEF Busy
  <2>8. QED BY <1>1, <2>4, <2>5, <2>6, <2>7 DEF DistInv
<1>3. ASSUME NEW t \in Thread, Step(t) PROVE WalkInv' /\ DistInv'
  <2>1. /\ UNCHANGED <<kernel, adj>> /\ Effect(t)
        /\ \A u \in Thread : u # t => th'[u] = th[u] /\ Target(u)' = Target(u) /\ Edge(u)' = Edge(u)
    BY <1>3, StepEffect
  <2>2. Ends'
    BY <1>1, <2>1, EndsKept
  <2>3. Above'
    BY <1>1, <2>1, AboveStep
  <2>4. Exact'
    <3>1. CASE kernel = "bfs" /\ th[t].pc = "reset" /\ t = 0
      BY <1>1, <2>1, <3>1, LevelsReset DEF Exact
    <3>2. CASE kernel = "bfs" /\ ~(th[t].pc = "reset" /\ t = 0)
      BY <1>1, <2>1, <3>2, LevelsStep DEF Exact
    <3>3. CASE kernel = "sssp"
      BY <1>1, <2>1, <3>3, ValuesStep DEF Exact
    <3>4. QED BY <3>1, <3>2, <3>3
  <2>5. Busy'
    <3>1. CASE th[t].pc = "reset" /\ t = 0
      BY <1>1, <2>1, <3>1, BusyReset
    <3>2. CASE ~(th[t].pc = "reset" /\ t = 0)
      BY <1>1, <2>1, <3>2, BusyStep
    <3>3. QED BY <3>1, <3>2
  <2>6. QED BY <1>1, <2>2, <2>3, <2>4, <2>5 DEF DistInv
<1>4. ASSUME NEW from, NEW to, Barrier(from, to),
             \/ from = "barrier1" /\ to = "reset"
             \/ from = "barrier2" /\ to = "test"
      PROVE  WalkInv' /\ DistInv'
  BY <1>1, <1>4, EndsBarrier, ExactBarrier, BusyBarrier DEF DistInv
<1>5. QED BY <1>2, <1>3, <1>4 DEF Next

\* When the threads have left, no entry is unread and nothing is in hand, so the
\* distances are a potential; being above all potentials they are the greatest.
LEMMA DistDone ==
    ASSUME kernel # "pagerank", kernel = "bfs" => N <= WEIGHT_MAX, WalkInv, DistInv
    PROVE  DistancesExact
<1>1. SUFFICES ASSUME Done PROVE DistancesExact
  BY DEF DistancesExact
<1>2. Ends /\ Exact /\ Above /\ Busy /\ WalkTypes /\ IsGraph /\ 0 \in Thread /\ WEIGHT_MAX \in Nat \ {0}
  BY Sizes, KernelsAssumption DEF DistInv, WalkInv, WalkTypes, IsGraph
<1>3. \A t \in Thread : th[t].pc = "done"
  BY <1>1 DEF Done, At
<1>4. in_index = 0 /\ out_index = 0
  BY <1>2, <1>3 DEF Ends, Before1, Round
<1>5. \A u \in Node : Settled(u)
  <2>1. ASSUME NEW u \in Node
        PROVE  ~Claimed(u) /\ ~InList(u) /\ ~Unread(u) /\ \A t \in Thread : ~InHand(t, u)
    <3>1. ~Claimed(u) /\ \A t \in Thread : ~InHand(t, u)
      BY <1>3 DEF Claimed, Claims, InHand, EdgePc
    <3>2. ~InList(u)
      BY <1>4 DEF InList, Filled
    <3>3. ~Unread(u)
      BY <1>2, <1>3 DEF Unread, Ahead, EdgePc
    <3>4. QED BY <3>1, <3>2, <3>3
  <2>2. QED BY <1>2, <2>1 DEF Busy
<1> DEFINE d == [n \in Node |-> Dist(n)]
<1>6. (\A n \in Node : Dist(n) \in 0..WEIGHT_MAX) /\ Dist(Seed) = 0
  BY <1>2, DistType
<1>7. d \in [Node -> 0..WEIGHT_MAX] /\ \A n \in Node : d[n] = Dist(n)
  BY <1>6
<1> HIDE DEF d
<1>8. Feasible(d)
  <2>1. ASSUME NEW u \in Node, NEW e \in 1..Len(adj[u])
        PROVE  d[adj[u][e].to] <= d[u] + Cost(adj[u][e])
    <3>1. Relaxed(u, e) /\ adj[u][e].to \in Node
      BY <1>2, <1>5, EdgeTypes DEF Settled
    <3>2. QED BY <1>7, <3>1 DEF Relaxed
  <2>2. d[Seed] = 0
    BY <1>6, <1>7, KernelsAssumption
  <2>3. QED BY <1>7, <2>1, <2>2 DEF Feasible
<1>9. \A n \in Node : Dist(n) = Shortest[n]
  <2>1. Feasible(Shortest) /\ \A n \in Node : d[n] <= Shortest[n]
    BY <1>2, <1>7, <1>8, ShortestIsGreatest
  <2>2. Shortest \in [Node -> 0..WEIGHT_MAX]
    BY <2>1 DEF Feasible
  <2>3. \A n \in Node : Shortest[n] <= Dist(n)
    BY <1>2, <2>1, <2>2 DEF Above
  <2>4. ASSUME NEW n \in Node PROVE Dist(n) = Shortest[n]
    <3>1. Dist(n) \in Nat /\ Shortest[n] \in Nat
      BY <1>2, <1>6, <2>2
    <3>2. QED BY <1>7, <2>1, <2>3, <3>1
  <2>5. QED BY <2>4
<1>10. ASSUME NEW n \in Node
       PROVE  /\ Shortest[n] < WEIGHT_MAX => ret[n] = Shortest[n]
              /\ ~(Shortest[n] < WEIGHT_MAX) => ret[n] = IF kernel = "bfs" THEN -1 ELSE WEIGHT_MAX
              /\ kernel = "bfs" => (n \in high <=> ~(Shortest[n] < WEIGHT_MAX))
  <2>1. Dist(n) = Shortest[n] /\ Dist(n) \in 0..WEIGHT_MAX
    BY <1>6, <1>9
  <2>2. CASE kernel = "bfs"
    <3>1. Levels /\ ret[n] < N /\ N \in Nat
      BY <1>2, <2>2, LevelsBounded, Sizes DEF Exact
    <3>2. n \in high <=> ret[n] = -1
      BY <1>3, <3>1 DEF Levels, At
    <3>3. ret[n] \in Int
      BY <3>1 DEF Levels
    <3>4. QED BY <1>2, <2>1, <2>2, <3>1, <3>2, <3>3 DEF Dist
  <2>3. CASE kernel # "bfs"
    <3>1. ret[n] \in 0..WEIGHT_MAX
      BY <1>2, <2>3 DEF Exact, Values
    <3>2. Dist(n) = ret[n]
      BY <3>1 DEF Dist
    <3>3. QED BY <1>2, <2>1, <2>3, <3>1, <3>2
  <2>4. QED BY <2>2, <2>3
<1>11. QED BY <1>10 DEF DistancesExact

\* No step changes the program.
LEMMA KernelKept ==
    ASSUME [Next]_vars PROVE kernel' = kernel
BY DEF Next, vars, Step, Test, Take, Push, Fill, Reset, Claim, Store, ReadDist, FetchMin,
       AddResidual, Reread, Clear, Barrier, graph

\* bfs, for every number of threads, every graph with fewer nodes than the mark
\* of unreached nodes and every interleaving: when the threads have left, both
\* halves of every word of ret hold the distance from the seed, and nodes that
\* cannot be reached keep their mark.
THEOREM BfsDistances ==
    ASSUME N <= WEIGHT_MAX PROVE Spec => [](kernel = "bfs" => DistancesExact)
<1> DEFINE J == kernel = "bfs" => WalkInv /\ DistInv
<1>1. Init => J
  BY WalkInit, ExactInit, BusyInit DEF DistInv
<1>2. PhaseInv /\ J /\ [Next]_vars => J'
  <2>1. SUFFICES ASSUME PhaseInv, J, [Next]_vars, kernel' = "bfs" PROVE WalkInv' /\ DistInv'
    OBVIOUS
  <2>2. kernel = "bfs" /\ WalkInv /\ DistInv
    BY <2>1, KernelKept
  <2>3. out_index <= Capacity(kernel)
    <3>1. out_index <= N /\ out_index \in Nat
      BY <2>2, ListFits DEF WalkInv, WalkTypes
    <3>2. QED BY <3>1, Sizes
  <2>4. QED BY <2>1, <2>2, <2>3, DistNext
<1>3. J => (kernel = "bfs" => DistancesExact)
  BY DistDone
<1> HIDE DEF J
<1>4. QED BY <1>1, <1>2, <1>3, PhaseInvariant, PTL DEF Spec

\* sssp, for every number of threads, every graph and every interleaving of the
\* relaxations: as long as the lists of 5*num_nodes entries are not written past
\* their end, which sssp.h does not check, the words of ret are in the end the
\* distances from the seed.
THEOREM SsspDistances ==
    Spec /\ [](kernel = "sssp" => out_index <= Capacity(kernel)) => [](kernel = "sssp" => DistancesExact)
<1> DEFINE J == kernel = "sssp" => WalkInv /\ DistInv
           Fits == kernel = "sssp" => out_index <= Capacity(kernel)
<1>1. Init => J
  BY WalkInit, ExactInit, BusyInit DEF DistInv
<1>2. PhaseInv /\ J /\ Fits /\ [Next]_vars => J'
  <2>1. SUFFICES ASSUME PhaseInv, J, Fits, [Next]_vars, kernel' = "sssp" PROVE WalkInv' /\ DistInv'
    OBVIOUS
  <2>2. kernel = "sssp" /\ WalkInv /\ DistInv /\ out_index <= Capacity(kernel)
    BY <2>1, KernelKept
  <2>3. QED BY <2>1, <2>2, DistNext
<1>3. J => (kernel = "sssp" => DistancesExact)
  BY DistDone
<1> HIDE DEF J
<1>4. QED BY <1>1, <1>2, <1>3, PhaseInvariant, PTL DEF Spec
=============================================================================
