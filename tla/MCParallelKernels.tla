------------------------- MODULE MCParallelKernels --------------------------
\* Four nodes and every graph that has some of eight edges, written as
\* <<from, to, weight>>: detours that are shorter than a direct edge and are
\* found in a later round, nodes with two or three edges into them, cycles,
\* nodes that are not reached.
EXTENDS ParallelKernels, SequencesExt

AllEdges == <<<<0, 1, 1>>, <<0, 2, 5>>, <<0, 3, 9>>, <<1, 2, 1>>,
              <<1, 3, 5>>, <<2, 3, 1>>, <<2, 1, 1>>, <<3, 0, 1>>>>

Graph(chosen) ==
    [n \in 0..3 |->
        LET from == SetToSortSeq({k \in chosen : AllEdges[k][1] = n}, <)
        IN  [j \in DOMAIN from |-> [to |-> AllEdges[from[j]][2], weight |-> AllEdges[from[j]][3]]]]

MCGraphs == {Graph(chosen) : chosen \in SUBSET DOMAIN AllEdges}
=============================================================================
