----------------------------- MODULE PccHistory -----------------------------
(***************************************************************************)
(* The simulator of Pcc with history variables that only the properties    *)
(* read: what happened since the last summary.                             *)
(***************************************************************************)
EXTENDS Pcc

VARIABLES
    walks    \* page table walks of each region since the last summary, up to 2

historyVars == <<vars, walks>>

HistoryInit == Init /\ walks = [b \in Region |-> 0]

\* w with the access to p counted if it walks in machine state m.
CountWalk(w, m, p) ==
    IF Misses(m, p) THEN [w EXCEPT ![BaseOf(p)] = Min({@ + 1, 2})] ELSE w

HistoryNext ==
    \/ \E p \in Page :
          /\ TrackAccess(p)
          /\ walks' = CountWalk(walks, Machine, p)
    \/ \E p \in Page :
          /\ SummarizeAndTrack(p)
          /\ walks' = CountWalk([b \in Region |-> 0], SummarizePromotions(Machine), p)
    \/ (StartROI \/ StopROI) /\ UNCHANGED walks

HistorySpec == HistoryInit /\ [][HistoryNext]_historyVars

\* A region is promoted only by a summary, and only if accesses to it went
\* past both TLBs at least twice since the one before: a single walk, or
\* walks of an earlier period, never promote.
PromotionEarned ==
    [][ \A b \in Region \cap (pcc_promotions' \ pcc_promotions) :
          SummaryDue(clock') /\ walks[b] >= 2 ]_historyVars

-----------------------------------------------------------------------------
(***************************************************************************)
(* A statement of the documentation that the code does not keep.           *)
(***************************************************************************)
\* "demotion" (huge_page_reuse.h:50), "with demotion in place" (README.md:242):
\* a promoted region that still walks comes back to the PCC and is demoted by
\* the next summary.  The first walk makes it known again and the second puts
\* it into the PCC, where it stays if the PCC has room for every region.
PromotedWalkerDemoted ==
    [][ PccSize >= Cardinality(Base) /\ SummaryDue(clock') /\ clock' # clock =>
          \A b \in Region \cap pcc_promotions :
              walks[b] >= 2 => b \notin pcc_promotions' ]_historyVars
=============================================================================
