----------------------------- MODULE CacheSetLru ----------------------------
(***************************************************************************)
(* CacheSet with a history variable that remembers, for every tag, which   *)
(* other tags were touched (hit or inserted) since it was last touched.    *)
(* The list of an LRU set is supposed to encode that order.                *)
(***************************************************************************)
EXTENDS CacheSetRefinement

VARIABLE newer    \* newer[t]: the tags touched since t was

lruVars == <<vars, newer>>

LruInit == Init /\ newer = [t \in Tag |-> {}]

Touched(t) ==
    newer' = [u \in Tag |-> IF u = t THEN {} ELSE newer[u] \cup {t}]

LruNext ==
    \/ \E t \in Tag, o \in Offset :
          /\ Access(t, o) \/ InsertFree(t, o) \/ InsertEvict(t, o)
          /\ Touched(t)
    \/ /\ (\E t \in Tag : Evict(t)) \/ Flush
       /\ UNCHANGED newer

LruSpec == LruInit /\ [][LruNext]_lruVars

\* addr_map leads to line l.  The other lines of the list are ghosts, which
\* the second insertion of a tag leaves behind.
Live(l) == addr_map[addr[l]] = l

\* What the list of an LRU set means, ghosts or not: of two lines that can
\* be found, the tag of the one nearer the front was touched later.
RecencyOrder ==
    \A i, j \in DOMAIN list :
        Policy = 0 /\ i < j /\ Live(list[i]) /\ Live(list[j])
            => addr[list[i]] \in newer[addr[list[j]]]

\* A full LRU set gives up the tag whose last touch is the oldest ("LRU",
\* tlb.h:102), provided the line before tail is not a ghost: every tag that
\* stays was touched since.
VictimIsLeastRecent ==
    [][ \A t, u \in Tag, o \in Offset :
           /\ Policy = 0
           /\ InsertEvict(t, o) /\ Live(list[Len(list)])
           /\ addr_map[u] # NULL /\ addr_map'[u] = NULL
           => \A v \in Tag \ {u} : addr_map[v] # NULL => v \in newer[u] ]_lruVars
=============================================================================
