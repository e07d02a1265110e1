-------------------------------- MODULE Pcc ---------------------------------
(***************************************************************************)
(* The single-threaded TLB and promotion-candidate-cache simulator:        *)
(* pin3.7/source/tools/PromotionCache/{huge_page_reuse.h,tlb.h,roi.cpp}.   *)
(*                                                                         *)
(* Pin calls RecordMem for every memory access; inside the region of       *)
(* interest it feeds the address to pcc_track_access, which looks the page *)
(* up in the L1 and L2 TLBs and, when both miss, in the promotion          *)
(* candidate cache (PCC).  At fixed access counts summarize_promotions     *)
(* promotes the candidates and empties the PCC.                            *)
(***************************************************************************)
EXTENDS TlbHierarchy

VARIABLES
    l1_tlb_4k, l1_tlb_2m, l2_tlb,   \* set index -> LineSet
    promotion_cache,                \* a LineSet: the PCC has one set
    reuse_map,       \* base -> "absent", "cold" (all fields 0) or "tracked"
    pcc_promotions,  \* the promoted bases
    evicted,         \* the base that l1_4k_evicted_tag and _offset denote
    clock,           \* total_num_accesses modulo Factor * Interval
    isROI

vars == <<l1_tlb_4k, l1_tlb_2m, l2_tlb, promotion_cache, reuse_map,
          pcc_promotions, evicted, clock, isROI>>

\* The part of the state that summarize_promotions and the access path
\* rewrite, as one value that can be passed from step to step.
Machine == [l1_4k |-> l1_tlb_4k, l1_2m |-> l1_tlb_2m, l2 |-> l2_tlb,
            pcc |-> promotion_cache, reuse |-> reuse_map,
            promoted |-> pcc_promotions, evicted |-> evicted]

-----------------------------------------------------------------------------
(***************************************************************************)
(* summarize_promotions.                                                   *)
(***************************************************************************)
\* Faulty: a promoted region stays in the PCC.
SummarizeLineKeeps(m, i, base) ==
    IF IsCandidate(m, base) THEN PromoteRegion(m, base) ELSE m

\* The loop body for the i-th line.  Reading reuse_map[base] creates the
\* entry.  The demotion branch takes the loop index i as a page offset.
SummarizeLine(m, i, base) ==
    LET demoted == base + ((i - 1) \div PagesPerRegion)
        read == [m EXCEPT !.reuse[base] = IF @ = "absent" THEN "cold" ELSE @,
                          !.pcc = EvictSet(@, base)]
    IN  CASE IsCandidate(m, base) -> PromoteRegion(read, base)
          [] base \in m.promoted ->
               [read EXCEPT !.promoted = @ \ {base},
                            !.l1_2m = Shootdown(@, {demoted}),
                            !.l2 = Shootdown(@, {demoted})]
          [] OTHER -> read

\* Faulty: the loop ends one entry early.
SummarizeAllButLast(m) ==
    LET after[i \in 0..Len(m.pcc)] ==
            IF i = 0 THEN m
            ELSE IF i = Len(m.pcc) THEN after[i - 1]
            ELSE SummarizeLine(after[i - 1], i, m.pcc[i].tag)
    IN  after[Len(m.pcc)]

\* The loop over the entries: get_entries is taken once, before it.
SummarizePromotions(m) ==
    LET after[i \in 0..Len(m.pcc)] ==
            IF i = 0 THEN m ELSE SummarizeLine(after[i - 1], i, m.pcc[i].tag)
    IN  after[Len(m.pcc)]

\* The access counts at which pcc_track_access summarizes.
SummaryDue(n) == (Factor > 1 /\ n = Interval) \/ n = 0

-----------------------------------------------------------------------------
\* promotion_cache_init.  Tracing is on from the start for the benchmarks
\* that main knows by name.
Init ==
    /\ l1_tlb_4k = EmptyTlb(L1Sets4K)
    /\ l1_tlb_2m = EmptyTlb(L1Sets2M)
    /\ l2_tlb = EmptyTlb(L2Sets)
    /\ promotion_cache = <<>>
    /\ reuse_map = [b \in Base |-> "absent"]
    /\ pcc_promotions = {}
    /\ evicted = None
    /\ clock = 0
    /\ isROI \in BOOLEAN

Becomes(m) ==
    /\ l1_tlb_4k' = m.l1_4k
    /\ l1_tlb_2m' = m.l1_2m
    /\ l2_tlb' = m.l2
    /\ promotion_cache' = m.pcc
    /\ reuse_map' = m.reuse
    /\ pcc_promotions' = m.promoted
    /\ evicted' = m.evicted

\* RecordMem inside the region of interest, between two summaries ...
TrackAccess(p) ==
    /\ isROI
    /\ clock' = (clock + 1) % (Factor * Interval)
    /\ ~SummaryDue(clock')
    /\ Becomes(AccessPage(Machine, p))
    /\ UNCHANGED isROI

\* ... and at one: the candidates are summarized before the access.
SummarizeAndTrack(p) ==
    /\ isROI
    /\ clock' = (clock + 1) % (Factor * Interval)
    /\ SummaryDue(clock')
    /\ Becomes(AccessPage(SummarizePromotions(Machine), p))
    /\ UNCHANGED isROI

\* pin_start returns, pin_end is entered.
StartROI ==
    /\ ~isROI
    /\ isROI' = TRUE
    /\ UNCHANGED <<l1_tlb_4k, l1_tlb_2m, l2_tlb, promotion_cache, reuse_map,
                   pcc_promotions, evicted, clock>>
StopROI ==
    /\ isROI
    /\ isROI' = FALSE
    /\ UNCHANGED <<l1_tlb_4k, l1_tlb_2m, l2_tlb, promotion_cache, reuse_map,
                   pcc_promotions, evicted, clock>>

Next ==
    \/ \E p \in Page : TrackAccess(p) \/ SummarizeAndTrack(p)
    \/ StartROI
    \/ StopROI

Spec == Init /\ [][Next]_vars
-----------------------------------------------------------------------------
\* Every TLB and the PCC hold at most their number of lines, with tags and
\* frequencies in range.
TypeOK ==
    /\ \A k \in 0..(L1Sets4K - 1) : LinesOK(l1_tlb_4k[k], L1Assoc, Page, {0}, {0})
    /\ \A k \in 0..(L1Sets2M - 1) : LinesOK(l1_tlb_2m[k], L1Assoc, Region, {0}, {0})
    /\ \A k \in 0..(L2Sets - 1) : LinesOK(l2_tlb[k], L2Assoc, Page \cup Region, {0}, {0})
    /\ LinesOK(promotion_cache, PccSize, Base, 0..(PagesPerRegion - 1), 0..(MaxFreq - 1))
    /\ reuse_map \in [Base -> {"absent", "cold", "tracked"}]
    /\ pcc_promotions \subseteq Base
    /\ evicted \in Base \cup {None}
    /\ clock \in 0..(Factor * Interval - 1)
    /\ isROI \in BOOLEAN

\* The PCC is one set with callers that insert only after a miss: every line
\* is found by its tag, no tag has two lines, and the lines are ordered by
\* use.  summarize_promotions relies on the first two: it looks up and evicts
\* each of the tags it listed, and a tag listed twice would be evicted through
\* a null pointer.
PccConsistent ==
    \A i, j \in DOMAIN promotion_cache :
        /\ promotion_cache[i].live
        /\ promotion_cache[i].tag = promotion_cache[j].tag => i = j
        /\ i < j => promotion_cache[i].freq >= promotion_cache[j].freq

\* A region that has been promoted is not a candidate any more: the PCC
\* cannot hand it to the promotion process again.  (Nor to the demotion
\* branch, against what that branch is for: PromotedWalkerDemoted.)
CandidatesNotPromoted ==
    \A i \in DOMAIN promotion_cache :
        promotion_cache[i].tag \in Region => promotion_cache[i].tag \notin pcc_promotions

\* After a promotion no later access is translated by a stale 4KB entry of
\* the L2 TLB: the pages of a promoted region are not found there.
L2ShotDown ==
    \A p \in Page : BaseOf(p) \in pcc_promotions => ~CacheHit(l2_tlb, p)

\* A 2MB translation exists only for a promoted region.
HugeEntriesPromoted ==
    \A b \in Region : CacheHit(l1_tlb_2m, b) \/ CacheHit(l2_tlb, b) => b \in pcc_promotions

\* A summary hands over every candidate: what the PCC holds afterwards was
\* put there by the access that triggered it.
SummaryDrains ==
    [][ \A p \in Page : SummarizeAndTrack(p) =>
          /\ Len(promotion_cache') <= 1
          /\ \A i \in DOMAIN promotion_cache' : promotion_cache'[i].freq = 0 ]_vars

-----------------------------------------------------------------------------
(***************************************************************************)
(* A statement of the documentation that the code does not keep.           *)
(***************************************************************************)
\* "lose information if evicted" (huge_page_reuse.h:123): the reuse record of
\* a tracked region is reset only by the call that takes it out of the PCC.
LostOnlyIfEvicted ==
    [][ \A b \in Base : reuse_map[b] = "tracked" /\ reuse_map'[b] = "cold" =>
          /\ \E i \in DOMAIN promotion_cache : promotion_cache[i].tag = b
          /\ ~\E i \in DOMAIN promotion_cache' : promotion_cache'[i].tag = b ]_vars
=============================================================================
