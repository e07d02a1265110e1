---------------------------- MODULE TlbHierarchy ----------------------------
(***************************************************************************)
(* The TLB hierarchy and the promotion candidate cache (PCC) of one        *)
(* simulated core, as operators on a machine state: a record of its TLBs,  *)
(* its PCC, its reuse map, the promoted regions and the last victim        *)
(* (pin3.7/source/tools/PromotionCache/{huge_page_reuse.h,tlb.h}).  Pcc    *)
(* runs one such machine, PccMt one per thread.                            *)
(*                                                                         *)
(* Addresses are page numbers.  A (tag, set index) pair of FunctionalCache *)
(* determines, and is determined by, the number it was extracted from, so  *)
(* lines carry that number as their tag: a 4KB page number, or the number  *)
(* of a 2MB region ("base").  Both kinds share the L2 TLB without a size   *)
(* bit, as in the code.  PCC lines record the offset in pages.             *)
(***************************************************************************)
EXTENDS LineSet

CONSTANTS
    Page,            \* the page numbers the program touches
    PagesPerRegion,  \* HUGE_PAGE_SIZE/PAGE_SIZE, 512 in the code
    L1Sets4K, L1Sets2M, L2Sets,   \* number of sets of each TLB
    L1Assoc, L2Assoc,             \* L1_ASSOC, L2_ASSOC
    PccSize,         \* PROMOTION_CACHE_SIZE
    MaxFreq,         \* MAX_FREQ
    Interval,        \* ACCESS_INTERVAL
    Factor           \* FACTOR

ASSUME SizesAssumption ==
    /\ Page \subseteq Nat /\ Page # {}
    /\ {PagesPerRegion, L1Sets4K, L1Sets2M, L2Sets, L1Assoc, L2Assoc,
        PccSize, MaxFreq, Interval, Factor} \subseteq Nat \ {0}

BaseOf(p) == p \div PagesPerRegion
Region == {BaseOf(p) : p \in Page}

\* The numbers that can be looked up in reuse_map as a base: the regions,
\* and what a PCC tag computed with the 2MB page offset comes to.
Base == Region \cup {BaseOf(b) : b \in Region}

\* The traced program's layout: none of its pages has a number that is also
\* the number of one of its regions (the L2 TLB has no size bit), and none of
\* its regions the number that a promoted one gets as a PCC tag.
ASSUME LayoutAssumption ==
    Page \cap Region = {} /\ \A b \in Region : BaseOf(b) \notin Region

None == -1

-----------------------------------------------------------------------------
(***************************************************************************)
(* FunctionalCache: the set is chosen by the low bits of the number.       *)
(***************************************************************************)
SetOf(c, n) == n % (Max(DOMAIN c) + 1)
CacheHit(c, n) == Holds(c[SetOf(c, n)], n)
CacheAccess(c, n) == [c EXCEPT ![SetOf(c, n)] = AccessSet(0, MaxFreq, @, n, 0)]
CacheInsert(c, assoc, n) == [c EXCEPT ![SetOf(c, n)] = InsertSet(0, assoc, @, n, 0)]

\* access followed, on a hit, by evict, for every number of N.
Shootdown(c, N) == [k \in DOMAIN c |-> EvictEach(c[k], N)]

\* The out-parameters of an insertion into the LineSet s: written when a
\* line is recycled, else left as they were.  A page number that is not the
\* number of a base leads line 123 to an entry of reuse_map nobody reads.
EvictedBy(s, assoc, old) ==
    LET n == Last(s).tag + Last(s).offset
    IN  IF Len(s) # assoc THEN old ELSE IF n \in Base THEN n ELSE None

\* The 4KB pages of a region.  Faulty: the loop starts at 1.
PagesOfPastFirst(base) == (base * PagesPerRegion + 1)..((base + 1) * PagesPerRegion - 1)
PagesOf(base) == (base * PagesPerRegion)..((base + 1) * PagesPerRegion - 1)

\* Not promoted yet, and hit in the PCC since it came in.  Faulty: a region
\* that was only inserted is promoted too.
IsCandidateUnused(m, base) == base \notin m.promoted
IsCandidate(m, base) ==
    base \notin m.promoted /\ m.pcc[Find(m.pcc, base)].freq > 0

\* What a promotion does besides evicting the region from the PCC.
PromoteRegion(m, base) ==
    [m EXCEPT !.promoted = @ \cup {base},
              !.reuse[base] = "absent",
              !.l1_4k = Shootdown(@, PagesOf(base)),
              !.l2 = Shootdown(@, PagesOf(base))]

-----------------------------------------------------------------------------
(***************************************************************************)
(* pcc_track_access after the summary, outcome by outcome.                 *)
(***************************************************************************)
\* Both L1 TLBs are looked up, whatever the first one says.
LookupL1(m, p) == [m EXCEPT !.l1_4k = CacheAccess(@, p),
                            !.l1_2m = CacheAccess(@, BaseOf(p))]

L1Hit(m, p) == CacheHit(m.l1_4k, p) \/ CacheHit(m.l1_2m, BaseOf(p))

FillL1_4k(m, p) ==
    [m EXCEPT !.l1_4k = CacheInsert(@, L1Assoc, p),
              !.evicted = EvictedBy(m.l1_4k[SetOf(m.l1_4k, p)], L1Assoc, @)]

\* Faulty: the 2MB TLB is indexed by 4KB page.
FillL1_2mByPage(m, p) == [m EXCEPT !.l1_2m = CacheInsert(@, L1Assoc, p)]
FillL1_2m(m, p) == [m EXCEPT !.l1_2m = CacheInsert(@, L1Assoc, BaseOf(p))]

\* An L2 hit on the page, and an L2 hit on its region.
L2Hit4k(m, p) == FillL1_4k([m EXCEPT !.l2 = CacheAccess(@, p)], p)
L2Hit2m(m, p) == FillL1_2m([m EXCEPT !.l2 = CacheAccess(@, BaseOf(p))], p)

\* Faulty: both L1 TLBs are filled whatever the size of the page.
FillBySizeBoth(m, p) ==
    LET is_2m == BaseOf(p) \in m.promoted
        inL2 == [m EXCEPT !.l2 = CacheInsert(@, L2Assoc, IF is_2m THEN BaseOf(p) ELSE p)]
    IN  FillL1_4k(FillL1_2m(inL2, p), p)

\* After a page table walk: the L2 TLB, and the L1 TLB of the page's size ...
FillBySize(m, p) ==
    LET is_2m == BaseOf(p) \in m.promoted
        inL2 == [m EXCEPT !.l2 = CacheInsert(@, L2Assoc, IF is_2m THEN BaseOf(p) ELSE p)]
    IN  IF is_2m THEN FillL1_2m(inL2, p) ELSE FillL1_4k(inL2, p)

\* ... and then the 4KB L1 TLB (again).
Walk(m, p) == FillL1_4k(FillBySize(m, p), p)

\* A promoted region is looked up in the PCC with the 2MB page offset.
PccTag(m, base) == IF base \in m.promoted THEN BaseOf(base) ELSE base
PccOffset(m, base) == IF base \in m.promoted THEN base % PagesPerRegion ELSE 0
PccHit(m, base) == Holds(m.pcc, PccTag(m, base))

\* access, and insert if that misses.
TouchPcc(m, base) ==
    LET tag == PccTag(m, base)
        off == PccOffset(m, base)
    IN  IF PccHit(m, base) THEN [m EXCEPT !.pcc = AccessSet(2, MaxFreq, @, tag, off)]
        ELSE [m EXCEPT !.pcc = InsertSet(2, PccSize, @, tag, off),
                       !.evicted = EvictedBy(m.pcc, PccSize, @)]

\* After a miss the record of whatever evicted denotes is reset.
LoseEvicted(m) == IF m.evicted = None THEN m ELSE [m EXCEPT !.reuse[m.evicted] = "cold"]

\* TRACK_REUSE: the access itself is recorded.
Record(m, base) == [m EXCEPT !.reuse[base] = "tracked"]

\* The promotion cache logic.
LookupPcc(m, base) ==
    Record(IF PccHit(m, base) THEN TouchPcc(m, base) ELSE LoseEvicted(TouchPcc(m, base)), base)

\* The first walk of a region only makes it known.
TrackWalk(m, base) ==
    IF m.reuse[base] = "absent" THEN [m EXCEPT !.reuse[base] = "cold"]
    ELSE LookupPcc(m, base)

AccessPage(m, p) ==
    LET n == LookupL1(m, p)
    IN  IF L1Hit(m, p) THEN n
        ELSE IF CacheHit(m.l2, p) THEN L2Hit4k(n, p)
        ELSE IF CacheHit(m.l2, BaseOf(p)) THEN L2Hit2m(n, p)
        ELSE TrackWalk(Walk(n, p), BaseOf(p))

\* Whether the access is a page table walk.
Misses(m, p) == ~L1Hit(m, p) /\ ~CacheHit(m.l2, p) /\ ~CacheHit(m.l2, BaseOf(p))

EmptyTlb(sets) == [k \in 0..(sets - 1) |-> <<>>]

\* A set of at most n lines whose fields come from the given sets.
LinesOK(s, n, tags, offsets, freqs) ==
    /\ Len(s) <= n
    /\ \A i \in DOMAIN s : s[i] \in [tag : tags, freq : freqs, offset : offsets, live : BOOLEAN]
=============================================================================
