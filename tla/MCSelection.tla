----------------------------- MODULE MCSelection ----------------------------
\* Two threads, one summary; hot regions are walked by both.
EXTENDS SelectionHistory

Entry(a) == [addr |-> a, cache_freq |-> 1]
Lists == {<<>>, <<Entry(1), Entry(2)>>, <<Entry(1), Entry(2), Entry(3)>>, <<Entry(4), Entry(1), Entry(5)>>}
MCLogs == [{1} -> [{1, 2} -> Lists]]
=============================================================================
