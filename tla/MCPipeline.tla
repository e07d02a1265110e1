----------------------------- MODULE MCPipeline -----------------------------
\* Logs of one thread with three summaries and of two threads with two.
EXTENDS Pipeline

Entry(a, f) == [addr |-> a, cache_freq |-> f]

\* What a summary of a single thread lists: regions that are neighbours or
\* not, in both orders, with hits or without.
Lists == {<<>>, <<Entry(1, 1)>>, <<Entry(2, 0)>>, <<Entry(3, 1)>>,
          <<Entry(2, 1), Entry(1, 1)>>, <<Entry(1, 1), Entry(3, 0)>>, <<Entry(3, 1), Entry(2, 1)>>}
ShortLists == {<<>>, <<Entry(1, 1)>>, <<Entry(1, 1), Entry(2, 1)>>, <<Entry(3, 1), Entry(1, 1), Entry(4, 0)>>}

MCLogs == [1..3 -> [{1} -> Lists]] \cup [1..2 -> [{1, 2} -> ShortLists]]
=============================================================================
