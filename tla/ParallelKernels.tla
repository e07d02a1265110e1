-------------------------- MODULE ParallelKernels ---------------------------
(***************************************************************************)
(* The multi-threaded graph kernels the simulator and the launcher run:    *)
(* applications/launch/parallel/{bfs/bfs.h,sssp/sssp.h,                    *)
(* pagerank/pagerank.h}.                                                   *)
(*                                                                         *)
(* The three share one skeleton: two worklists that change roles every     *)
(* round, two shared indices, a loop over every num_threads-th entry and   *)
(* two barriers, between which thread 0 resets the indices.  They differ   *)
(* in what they do with an edge.  An action is one access to shared memory *)
(* and the local steps that follow it.                                     *)
(*                                                                         *)
(* The rank x of PageRank is left out: no thread's control depends on it.  *)
(* Residuals are whole numbers, divisions round down.                      *)
(***************************************************************************)
EXTENDS Integers, Sequences, FiniteSetsExt

CONSTANTS
    Node,
    Graphs,              \* the graphs: node -> sequence of [to, weight]
    Seed,                \* start_seed (SEEDS is 1)
    NumThreads,
    WEIGHT_MAX,
    epsilon,             \* of pagerank.h, ...
    AlphaNum, AlphaDen,  \* ... its alpha as a fraction, ...
    Unit,                \* ... the whole number that stands for 1.0 ...
    FloatStep,           \* ... and the distance between two floats there
    MaxHop               \* bound: the rounds of PageRank

ASSUME KernelsAssumption ==
    /\ Graphs \subseteq [Node -> Seq([to : Node, weight : Nat])]
    /\ IsFiniteSet(Node) /\ Seed \in Node
    /\ {NumThreads, WEIGHT_MAX, epsilon, AlphaNum, AlphaDen, Unit, FloatStep, MaxHop} \subseteq Nat \ {0}

Thread == 0..(NumThreads - 1)
N == Cardinality(Node)
None == -1

\* The entries that init_bfs, init_sssp and init_pagerank allocate for each of
\* the two worklists of kernel k.
Capacity(k) == IF k = "bfs" THEN 2 * N ELSE IF k = "sssp" THEN 5 * N ELSE N

VARIABLES
    kernel, adj,          \* the program and its input: never change
    ret,                  \* bfs: the low half of each word; sssp: the word
    high,                 \* bfs: the nodes whose high half is still all ones
    r,                    \* pagerank: ret and in_r, which change roles too
    wl,                   \* the two worklists
    in_index, out_index,
    th                    \* thread -> its program point and local variables

vars == <<kernel, adj, ret, high, r, wl, in_index, out_index, th>>
graph == <<kernel, adj>>

\* The weight of an edge: bfs counts hops.
Cost(edge) == IF kernel = "bfs" THEN 1 ELSE edge.weight

\* The edges into w, as <<node, number of the edge>>.
EdgesInto(g, w) == UNION {{<<v, e>> : e \in {k \in DOMAIN g[v] : g[v][k].to = w}} : v \in Node}

\* init_pagerank: (1-alpha)*alpha times the sum over incoming edges of 1/G_v.
InitialResidual(g, w) ==
    LET Sum == MapThenSumSet(LAMBDA ve : Unit \div Len(g[ve[1]]), EdgesInto(g, w))
    IN  ((AlphaDen - AlphaNum) * AlphaNum * Sum) \div (AlphaDen * AlphaDen)

\* init_bfs, init_sssp: the seed is listed; init_pagerank: every node is.
Init ==
    /\ kernel \in {"bfs", "sssp", "pagerank"}
    /\ adj \in Graphs
    /\ ret = [n \in Node |-> IF n = Seed THEN 0 ELSE IF kernel = "bfs" THEN -1 ELSE WEIGHT_MAX]
    /\ high = IF kernel = "bfs" THEN Node \ {Seed} ELSE {}
    /\ r = [k \in {0, 1} |-> [n \in Node |->
              IF k = 0 /\ kernel = "pagerank" THEN InitialResidual(adj, n) ELSE 0]]
    /\ wl = [k \in {0, 1} |-> [i \in 0..(Capacity(kernel) - 1) |->
              IF k = 1 THEN None
              ELSE IF kernel = "pagerank" THEN i
              ELSE IF i = 0 THEN Seed ELSE None]]
    /\ in_index = IF kernel = "pagerank" THEN N ELSE 1
    /\ out_index = 0
    /\ th = [t \in Thread |-> [pc |-> "test", hop |-> 1, i |-> 0, node |-> None,
                               e |-> 0, val |-> 0, index |-> 0]]
-----------------------------------------------------------------------------
(***************************************************************************)
(* The skeleton.                                                           *)
(***************************************************************************)
At(t, pc) == th[t].pc = pc
Goto(t, pc) == th' = [th EXCEPT ![t].pc = pc]

\* The worklists as thread t sees them after hop - 1 swaps of its pointers.
In(t) == (th[t].hop - 1) % 2
Out(t) == th[t].hop % 2
Edge(t) == adj[th[t].node][th[t].e]
Target(t) == Edge(t).to

\* Faulty: a thread for which there is no entry leaves.
TestOwn(t) ==
    /\ At(t, "test")
    /\ kernel = "pagerank" => th[t].hop <= MaxHop
    /\ th' = [th EXCEPT ![t].pc = IF in_index > t THEN "loop" ELSE "done", ![t].i = t]
    /\ UNCHANGED <<graph, ret, high, r, wl, in_index, out_index>>

\* while (*in_index > 0)
Test(t) ==
    /\ At(t, "test")
    /\ kernel = "pagerank" => th[t].hop <= MaxHop
    /\ th' = [th EXCEPT ![t].pc = IF in_index > 0 THEN "loop" ELSE "done", ![t].i = t]
    /\ UNCHANGED <<graph, ret, high, r, wl, in_index, out_index>>

\* Where the loop over the edges goes from edge e: to the next, or past the
\* last one to the next entry (pagerank first clears the residual).
Edges(l, e) ==
    IF e <= Len(adj[l.node]) THEN [l EXCEPT !.pc = "edge", !.e = e]
    ELSE IF kernel = "pagerank" THEN [l EXCEPT !.pc = "clear", !.e = 0]
    ELSE [l EXCEPT !.pc = "loop", !.e = 0, !.i = @ + NumThreads]
NextEdge(t) == th' = [th EXCEPT ![t] = Edges(@, @.e + 1)]

\* new_r = in_r[v]*alpha/G_v
Share(t, v) == (r[In(t)][v] * AlphaNum) \div (AlphaDen * Max({Len(adj[v]), 1}))

\* Faulty: no first barrier.
TakeNoBarrier(t) ==
    /\ At(t, "loop")
    /\ th' = [th EXCEPT ![t] =
                IF @.i < in_index
                THEN LET v == wl[In(t)][@.i]
                     IN  Edges([@ EXCEPT !.node = v, !.val = IF kernel = "pagerank" THEN Share(t, v) ELSE 0], 1)
                ELSE [@ EXCEPT !.pc = "reset", !.hop = th[t].hop + 1, !.node = None]]
    /\ UNCHANGED <<graph, ret, high, r, wl, in_index, out_index>>

\* for (i = tid; i < *in_index; i += num_threads): the next entry, or else
\* the swap of the pointers, hop++ and the first barrier.
Take(t) ==
    /\ At(t, "loop")
    /\ th' = [th EXCEPT ![t] =
                IF @.i < in_index
                THEN LET v == wl[In(t)][@.i]
                     IN  Edges([@ EXCEPT !.node = v, !.val = IF kernel = "pagerank" THEN Share(t, v) ELSE 0], 1)
                ELSE [@ EXCEPT !.pc = "barrier1", !.hop = th[t].hop + 1, !.node = None]]
    /\ UNCHANGED <<graph, ret, high, r, wl, in_index, out_index>>

\* index = atomic_fetch_add(out_index, 1) ...
Push(t) ==
    /\ At(t, "push")
    /\ th' = [th EXCEPT ![t].pc = "fill", ![t].index = out_index]
    /\ out_index' = out_index + 1
    /\ UNCHANGED <<graph, ret, high, r, wl, in_index>>

\* A write to entry i.  No index is checked: past the end of the allocation
\* the list grows into the memory behind it.  What else may live there is not
\* modelled: the entry keeps what was written.
Written(list, i, w) == [j \in DOMAIN list \cup {i} |-> IF j = i THEN w ELSE list[j]]

\* ... and out_wl[index] = edge_index.
Fill(t) ==
    /\ At(t, "fill")
    /\ wl' = [wl EXCEPT ![Out(t)] = Written(@, th[t].index, Target(t))]
    /\ NextEdge(t)
    /\ UNCHANGED <<graph, ret, high, r, in_index, out_index>>

\* #pragma omp barrier
Barrier(from, to) ==
    /\ \A t \in Thread : At(t, from)
    /\ th' = [t \in Thread |-> [th[t] EXCEPT !.pc = to, !.index = 0]]
    /\ UNCHANGED <<graph, ret, high, r, wl, in_index, out_index>>

\* if (tid == 0) { *in_index = *out_index; *out_index = 0; }
Reset(t) ==
    /\ At(t, "reset")
    /\ in_index' = IF t = 0 THEN out_index ELSE in_index
    /\ out_index' = IF t = 0 THEN 0 ELSE out_index
    /\ Goto(t, "barrier2")
    /\ UNCHANGED <<graph, ret, high, r, wl>>
-----------------------------------------------------------------------------
(***************************************************************************)
(* bfs: a 32-bit compare-and-swap claims the node, then the whole word is  *)
(* stored.                                                                 *)
(***************************************************************************)
\* Faulty: a test of the word; the store is what claims it.
ClaimByTest(t) ==
    /\ At(t, "edge") /\ kernel = "bfs"
    /\ IF ret[Target(t)] = -1 THEN Goto(t, "store") ELSE NextEdge(t)
    /\ UNCHANGED <<graph, ret, high, r, wl, in_index, out_index>>

Claim(t) ==
    /\ At(t, "edge") /\ kernel = "bfs"
    /\ IF ret[Target(t)] = -1
       THEN ret' = [ret EXCEPT ![Target(t)] = th[t].hop] /\ Goto(t, "store")
       ELSE NextEdge(t) /\ UNCHANGED ret
    /\ UNCHANGED <<graph, high, r, wl, in_index, out_index>>

\* Faulty: the compare-and-swap is all (as in pin_source/parallel/bfs/bfs.h).
StoreMissing(t) ==
    /\ At(t, "store")
    /\ Goto(t, "push")
    /\ UNCHANGED <<graph, ret, high, r, wl, in_index, out_index>>

\* ret[edge_index] = hop
Store(t) ==
    /\ At(t, "store")
    /\ ret' = [ret EXCEPT ![Target(t)] = th[t].hop]
    /\ high' = high \ {Target(t)}
    /\ Goto(t, "push")
    /\ UNCHANGED <<graph, r, wl, in_index, out_index>>
-----------------------------------------------------------------------------
(***************************************************************************)
(* sssp: new_dist is computed from a distance that another thread may be   *)
(* lowering, then fetch_min.                                               *)
(***************************************************************************)
ReadDist(t) ==
    /\ At(t, "edge") /\ kernel = "sssp"
    /\ th' = [th EXCEPT ![t].pc = "min", ![t].val = ret[th[t].node] + Cost(Edge(t))]
    /\ UNCHANGED <<graph, ret, high, r, wl, in_index, out_index>>

\* fetch_min takes effect where its compare-and-swap succeeds, or where it
\* reads a value that is small enough.
FetchMin(t) ==
    /\ At(t, "min")
    /\ IF th[t].val < ret[Target(t)]
       THEN ret' = [ret EXCEPT ![Target(t)] = th[t].val] /\ Goto(t, "push")
       ELSE NextEdge(t) /\ UNCHANGED ret
    /\ UNCHANGED <<graph, high, r, wl, in_index, out_index>>
-----------------------------------------------------------------------------
(***************************************************************************)
(* pagerank: fetch_add_double on the residual, which is then read again.   *)
(***************************************************************************)
\* fetch_add_double returns a float: the nearest one.
FloatOf(v) == ((v + FloatStep \div 2) \div FloatStep) * FloatStep

AddResidual(t) ==
    /\ At(t, "edge") /\ kernel = "pagerank"
    /\ r' = [r EXCEPT ![Out(t)][Target(t)] = @ + th[t].val]
    /\ th' = [th EXCEPT ![t].pc = IF FloatOf(r[Out(t)][Target(t)]) < epsilon THEN "reread" ELSE "skip"]
    /\ UNCHANGED <<graph, ret, high, wl, in_index, out_index>>

\* if (ret[w] >= epsilon && r_old < epsilon)
Reread(t) ==
    /\ th[t].pc \in {"reread", "skip"}
    /\ IF At(t, "reread") /\ r[Out(t)][Target(t)] >= epsilon THEN Goto(t, "push") ELSE NextEdge(t)
    /\ UNCHANGED <<graph, ret, high, r, wl, in_index, out_index>>

\* in_r[v] = 0
Clear(t) ==
    /\ At(t, "clear")
    /\ r' = [r EXCEPT ![In(t)][th[t].node] = 0]
    /\ th' = [th EXCEPT ![t].pc = "loop", ![t].i = @ + NumThreads]
    /\ UNCHANGED <<graph, ret, high, wl, in_index, out_index>>
-----------------------------------------------------------------------------
Step(t) == \/ Test(t) \/ Take(t) \/ Push(t) \/ Fill(t) \/ Reset(t)
           \/ Claim(t) \/ Store(t) \/ ReadDist(t) \/ FetchMin(t)
           \/ AddResidual(t) \/ Reread(t) \/ Clear(t)

Next == \/ \E t \in Thread : Step(t)
        \/ Barrier("barrier1", "reset")
        \/ Barrier("barrier2", "test")

\* The scheduler runs every thread, and a barrier that all threads have
\* reached lets them go.
Fairness == /\ \A t \in Thread : WF_vars(Step(t))
            /\ WF_vars(Barrier("barrier1", "reset"))
            /\ WF_vars(Barrier("barrier2", "test"))

Spec == Init /\ [][Next]_vars /\ Fairness
-----------------------------------------------------------------------------
Working(t) == th[t].pc \notin {"test", "barrier1", "reset", "barrier2", "done"}
Done == \A t \in Thread : At(t, "done")

\* The reference: the length of a shortest path of at most k edges.
Shortest ==
    LET D[k \in 0..N] ==
          IF k = 0 THEN [n \in Node |-> IF n = Seed THEN 0 ELSE WEIGHT_MAX]
          ELSE [n \in Node |->
                  Min({D[k - 1][n]} \cup
                      {D[k - 1][ue[1]] + Cost(adj[ue[1]][ue[2]]) : ue \in EdgesInto(adj, n)})]
    IN  D[N]

\* However the threads interleave, claim nodes twice or relax with distances
\* that are no longer current, in the end every word of ret is the distance
\* from the seed (bfs: in both halves), and unreached nodes keep their mark.
DistancesExact ==
    Done /\ kernel # "pagerank" =>
        \A n \in Node :
            LET reached == Shortest[n] < WEIGHT_MAX
            IN  /\ reached => ret[n] = Shortest[n]
                /\ ~reached => ret[n] = IF kernel = "bfs" THEN -1 ELSE WEIGHT_MAX
                /\ kernel = "bfs" => (n \in high <=> ~reached)

\* The entry of a worklist: one about to be filled counts as filled.
Entry(k, i) ==
    LET filling == {t \in Thread : At(t, "fill") /\ th[t].index = i /\ Out(t) = k}
    IN  IF filling = {} THEN wl[k][i] ELSE Target(CHOOSE t \in filling : TRUE)

\* In a round bfs lists a node once, whoever reaches it, so that its list of
\* 2*num_nodes suffices.  pagerank may list it once for every thread (two may
\* both see the residual cross epsilon): that is how far it writes past its
\* list of num_nodes entries.
ListedOnce ==
    \A t \in Thread : Working(t) /\ kernel # "sssp" =>
        \A w \in Node :
            Cardinality({i \in 0..(out_index - 1) : Entry(Out(t), i) = w})
                <= IF kernel = "bfs" THEN 1 ELSE NumThreads

\* The worklist a thread reads and its length do not change under it, although
\* every thread swaps its own pointers and thread 0 resets the indices.
ListStable ==
    [][ \A t \in Thread : Working(t) =>
           wl'[In(t)] = wl[In(t)] /\ in_index' = in_index ]_vars

\* All threads leave the kernel: none is left behind at a barrier.
Terminates == kernel # "pagerank" => <>Done
=============================================================================
