-------------------------------- MODULE Lfu ---------------------------------
(***************************************************************************)
(* What a promotion candidate cache promises, without lines, lists or      *)
(* maps: at most Capacity tags, each with a use count that saturates by    *)
(* halving every count, and an admission that costs, only when the cache   *)
(* is full, one resident tag whose count is minimal.                       *)
(***************************************************************************)
EXTENDS Integers, FiniteSets

CONSTANTS Tag, Capacity, MaxFreq

VARIABLES
    resident,   \* the tags in the cache
    count       \* the use count of each tag, 0 for one that is not resident

lfuVars == <<resident, count>>

LfuInit ==
    /\ resident = {}
    /\ count = [t \in Tag |-> 0]

\* A hit: one more use; the use that reaches MaxFreq halves all counts.
Hit(t) ==
    /\ t \in resident
    /\ resident' = resident
    /\ count' = IF count[t] + 1 = MaxFreq
                THEN [u \in Tag |-> IF u = t THEN MaxFreq \div 2 ELSE count[u] \div 2]
                ELSE [count EXCEPT ![t] = @ + 1]

\* A miss while there is room.
Admit(t) ==
    /\ t \in Tag \ resident
    /\ Cardinality(resident) < Capacity
    /\ resident' = resident \cup {t}
    /\ count' = count

\* A miss in a full cache: some least used resident makes room.
Displace(t, v) ==
    /\ t \in Tag \ resident
    /\ Cardinality(resident) = Capacity
    /\ v \in resident
    /\ \A u \in resident : count[v] <= count[u]
    /\ resident' = (resident \ {v}) \cup {t}
    /\ count' = [count EXCEPT ![v] = 0]

\* The promotion process takes a candidate out, or a flush takes all.
Remove(t) ==
    /\ t \in resident
    /\ resident' = resident \ {t}
    /\ count' = [count EXCEPT ![t] = 0]

Clear ==
    /\ resident' = {}
    /\ count' = [t \in Tag |-> 0]

LfuNext ==
    \/ \E t \in Tag : Hit(t) \/ Admit(t) \/ Remove(t)
    \/ \E t, v \in Tag : Displace(t, v)
    \/ Clear

LfuSpec == LfuInit /\ [][LfuNext]_lfuVars
=============================================================================
