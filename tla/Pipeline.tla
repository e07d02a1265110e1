------------------------------ MODULE Pipeline ------------------------------
(***************************************************************************)
(* From the log of a simulation to the huge pages of a later run: the      *)
(* scripts select the candidates, then the launcher runs the application   *)
(* with the promoter beside it (run.sh and go.py in this order).           *)
(***************************************************************************)
EXTENDS Candidates, Promoter

VARIABLE launched
vars == <<cvars, pvars, launched>>

Init == CInit /\ PInit /\ launched = FALSE

Select == CNext /\ UNCHANGED <<pvars, launched>>
Start == /\ finished /\ ~launched /\ launched' = TRUE
         /\ Launch(promotion_file, demotion_file)
         /\ UNCHANGED cvars
Run(A) == launched /\ A /\ UNCHANGED <<cvars, launched>>

Next == \/ Select \/ Start \/ Run(AppStep) \/ Run(Crash)
        \/ \E c \in Child : Run(ChildStep(c))

\* The kernels terminate, so the application goes on to its end unless it
\* crashes; the processes it forked are scheduled.
Fairness == WF_vars(Run(AppStep)) /\ \A c \in Child : WF_vars(Run(ChildStep(c)))

Spec == Init /\ [][Next]_vars /\ Fairness
-----------------------------------------------------------------------------
Pages(r) == r.start..(r.start + r.num - 1)
PagesOf(ranges) == UNION {Pages(ranges[i]) : i \in DOMAIN ranges}
Handled(k) == promotion_it = None \/ k < promotion_it

\* At whatever point the application ends, the ranges promoted so far hold
\* every region selected for the times gone by, once, and no other: nothing is
\* lost or added where lines are joined into ranges.
PromotedAsSelected ==
    launched =>
        /\ PagesOf(promoting) = {line.addr : line \in {line \in Range(promotion_file) : Handled(line.time)}}
        /\ \A i, j \in DOMAIN promoting : i # j => Pages(promoting[i]) \cap Pages(promoting[j]) = {}

\* A region is demoted only after it was promoted, although the demotions are
\* selected without regard to the limit.  Demotions are done up to the first
\* time at which there is no promotion: from then on they are all lost.
DemotionsAsDue ==
    LET reachable == {k \in DOMAIN demotions : {j \in DOMAIN demotions : j <= k} \subseteq DOMAIN promotions}
    IN  launched =>
          /\ PagesOf(demoting) \subseteq PagesOf(promoting)
          /\ PagesOf(demoting) = {line.addr : line \in
                {line \in Range(demotion_file) : line.time \in reachable /\ Handled(line.time)}}

\* A child that has seen done.txt ends, whether the application finishes or
\* crashes.  (One that has not may poll forever.)
ChildrenEnd == \A c \in Child : child[c] = "running" ~> child[c] = "ended"
=============================================================================
