-------------------------- MODULE SelectionHistory --------------------------
(***************************************************************************)
(* The selection of Candidates with a history variable that only the       *)
(* property reads: from which threads the regions of a time came.          *)
(***************************************************************************)
EXTENDS Candidates

VARIABLE given    \* thread -> number of regions selected from its PCC at this time

historyVars == <<cvars, given>>

NoneGiven == [t \in Tid |-> 0]

HistoryInit == CInit /\ given = NoneGiven

HistoryNext ==
    \/ /\ TakeTurn
       /\ given' = IF unique_candidates' = unique_candidates THEN given
                   ELSE [given EXCEPT ![turn] = @ + 1]
    \/ EndTime /\ given' = NoneGiven

HistorySpec == HistoryInit /\ [][HistoryNext]_historyVars

-----------------------------------------------------------------------------
(***************************************************************************)
(* A statement of the documentation that the code does not keep.           *)
(***************************************************************************)
\* "Unless a thread runs out of candidates in its PCC, huge pages will always
\* be distributed evenly amongst threads" (README.md:223): when the selection
\* of one time ends, a thread that still has a candidate which nobody promoted
\* is not more than one huge page behind another thread.
EvenlyDistributed ==
    done_promoting \/ Exhausted =>
        \A s, t \in Tid :
            (\E c \in Range(candidates[t]) : c.addr \notin unique_candidates)
                => given[s] <= given[t] + 1
=============================================================================
