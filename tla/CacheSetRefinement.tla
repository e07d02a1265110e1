------------------------- MODULE CacheSetRefinement -------------------------
(***************************************************************************)
(* Two abstract views of class CacheSet.                                   *)
(***************************************************************************)
EXTENDS CacheSet

(***************************************************************************)
(* View 1: under LFU and callers that insert only after a miss, the set is *)
(* the frequency table of Lfu.                                             *)
(***************************************************************************)
Resident == {t \in Tag : addr_map[t] # NULL}
Count == [t \in Tag |-> IF addr_map[t] = NULL THEN 0 ELSE freq[addr_map[t]]]

Table == INSTANCE Lfu WITH
            Tag <- Tag, Capacity <- Cardinality(Line), MaxFreq <- MaxFreq,
            resident <- Resident, count <- Count

\* Every step of the linked list, the free stack and the tag map is a step
\* of the frequency table: hits count, admissions displace a least used tag
\* and only when every line is taken, evictions forget exactly one tag.
ImplementsLfu == Table!LfuSpec

(***************************************************************************)
(* View 2: for every policy and every caller, the set is a sequence of     *)
(* lines handled by the operators of LineSet.                              *)
(***************************************************************************)
LS == INSTANCE LineSet

AsLines == [i \in DOMAIN list |->
              LET l == list[i]
              IN  [tag |-> addr[l], freq |-> IF Policy = 2 THEN freq[l] ELSE 0,
                   offset |-> offset[l], live |-> addr_map[addr[l]] = l]]

\* Every step changes the lines as one of the operators of LineSet does for
\* some tag and offset, or empties the set.
ImplementsLineSet ==
    /\ AsLines = <<>>
    /\ [][ \/ \E t \in Tag, o \in Offset :
                 \/ AsLines' = LS!AccessSet(Policy, MaxFreq, AsLines, t, o)
                 \/ AsLines' = LS!InsertSet(Policy, Cardinality(Line), AsLines, t, o)
           \/ \E t \in Tag : LS!Holds(AsLines, t) /\ AsLines' = LS!EvictSet(AsLines, t)
           \/ AsLines' = <<>> ]_AsLines
=============================================================================
