------------------------------- MODULE PccMt --------------------------------
(***************************************************************************)
(* The multi-threaded simulator:                                           *)
(* pin3.7/source/tools/PromotionCache/{huge_page_reuse_mt.h,roi_mt.cpp}.   *)
(*                                                                         *)
(* Pin runs the callbacks of an application thread in that thread.  Every  *)
(* thread has its own TLBs, PCC, reuse map and access count; the promoted  *)
(* regions, the last victim (l1_4k_evicted_tag, _offset) and the address   *)
(* of the store in progress (WriteAddr) are globals without a lock.        *)
(*                                                                         *)
(* A callback is one action per stretch of code between two accesses to    *)
(* shared data that another thread can come between.  The map operations   *)
(* on pcc_promotions are taken as atomic.                                  *)
(***************************************************************************)
EXTENDS TlbHierarchy

CONSTANTS
    Thread,
    Written,       \* the pages the program stores to
    Wrap,          \* 2^32: num_accesses is a vector<unsigned int>
    MaxAccesses    \* bound: the accesses all threads make together

ASSUME MtAssumption ==
    Thread # {} /\ Written \subseteq Page /\ {Wrap, MaxAccesses} \subseteq Nat \ {0}

VARIABLES
    core,            \* thread -> its TLBs, promotion_caches[t], reuse_maps[t]
    num_accesses,    \* thread -> access count
    pcc_promotions, evicted, WriteAddr,    \* shared
    isROI,
    call,            \* thread -> where it is in its callback: the point pc,
                     \* the page accessed, the addresses still to summarize
                     \* and the local is_2m, while it is in use
    shot,            \* history: the regions each thread has promoted itself
    budget           \* bound: the accesses left to make

vars == <<core, num_accesses, pcc_promotions, evicted, WriteAddr, isROI, call, shot, budget>>

Point == {"idle", "storing", "summary", "promote", "lookup", "walk", "pcc", "insert", "lose"}

\* The machine that thread t sees: its own core and the shared globals.
View(t) == [core[t] EXCEPT !.promoted = pcc_promotions, !.evicted = evicted]

\* Thread t writes back m.  A core keeps no copy of the globals.
Writes(t, m) ==
    /\ core' = [core EXCEPT ![t] = [m EXCEPT !.promoted = {}, !.evicted = None]]
    /\ pcc_promotions' = m.promoted
    /\ evicted' = m.evicted

Idle == [pc |-> "idle", page |-> None, todo |-> <<>>, is_2m |-> FALSE]
At(t, pc) == call[t].pc = pc

\* The machine as thread t takes it to be when it goes by what it has read of
\* pcc_promotions, whatever was promoted since.
Remembered(t) ==
    LET base == BaseOf(call[t].page)
    IN  [View(t) EXCEPT !.promoted = IF call[t].is_2m THEN @ \cup {base} ELSE @ \ {base}]

Init ==
    /\ core = [t \in Thread |->
                 [l1_4k |-> EmptyTlb(L1Sets4K), l1_2m |-> EmptyTlb(L1Sets2M),
                  l2 |-> EmptyTlb(L2Sets), pcc |-> <<>>,
                  reuse |-> [b \in Base |-> "absent"], promoted |-> {}, evicted |-> None]]
    /\ num_accesses = [t \in Thread |-> 0]
    /\ pcc_promotions = {} /\ evicted = None /\ WriteAddr = None
    /\ isROI \in BOOLEAN
    /\ call = [t \in Thread |-> Idle]
    /\ shot = [t \in Thread |-> {}]
    /\ budget = MaxAccesses
-----------------------------------------------------------------------------
(***************************************************************************)
(* The TLB hierarchy and the callbacks of roi_mt.cpp.                      *)
(***************************************************************************)
\* Thread t looks p up in its TLBs.  A hit ends the call; a lookup that misses
\* changes nothing, and the thread reads whether the region is promoted.
Lookup(t, p) ==
    LET m == View(t)
    IN  IF Misses(m, p)
        THEN /\ call' = [call EXCEPT ![t] = [Idle EXCEPT !.pc = "walk", !.page = p,
                                                       !.is_2m = BaseOf(p) \in pcc_promotions]]
             /\ UNCHANGED <<core, pcc_promotions, evicted>>
        ELSE Writes(t, AccessPage(m, p)) /\ call' = [call EXCEPT ![t] = Idle]

\* num_accesses[tid] % (FACTOR*ACCESS_INTERVAL) == ACCESS_INTERVAL.
SummaryDue(n) == n % (Factor * Interval) = Interval

\* num_accesses[tid]++ on an unsigned int.  Faulty: on an unbounded one.
IncrementWide(n) == n + 1
Increment(n) == (n + 1) % Wrap

\* RecordMem(addr = p) and pcc_track_access up to the first point where
\* another thread can interfere: get_entries, or else the TLB lookups.
RecordMem(t, p) ==
    LET n == Increment(num_accesses[t])
        entries == [i \in DOMAIN core[t].pcc |-> core[t].pcc[i].tag]
    IN  IF ~isROI
        THEN /\ call' = [call EXCEPT ![t] = Idle]
             /\ UNCHANGED <<core, pcc_promotions, evicted, num_accesses>>
        ELSE /\ num_accesses' = [num_accesses EXCEPT ![t] = n]
             /\ IF SummaryDue(n) /\ entries # <<>>
                THEN /\ call' = [call EXCEPT ![t] = [Idle EXCEPT !.pc = "summary", !.page = p, !.todo = entries]]
                     /\ UNCHANGED <<core, pcc_promotions, evicted>>
                ELSE Lookup(t, p)

Spend == budget > 0 /\ budget' = budget - 1

\* A load: one callback before the instruction.
Load(t, p) ==
    /\ At(t, "idle") /\ isROI /\ Spend
    /\ RecordMem(t, p)
    /\ UNCHANGED <<WriteAddr, isROI, shot>>

\* A store: RecordWriteAddrSize before the instruction ...
BeforeStore(t, p) ==
    /\ At(t, "idle") /\ Spend
    /\ WriteAddr' = p
    /\ call' = [call EXCEPT ![t] = [Idle EXCEPT !.pc = "storing", !.page = p]]
    /\ UNCHANGED <<core, num_accesses, pcc_promotions, evicted, isROI, shot>>

\* ... and RecordMemWrite after it.
AfterStore(t) ==
    /\ At(t, "storing")
    /\ RecordMem(t, WriteAddr)
    /\ UNCHANGED <<WriteAddr, isROI, shot, budget>>

\* pin_start returns in a thread, pin_end is entered in a thread.
StartROI ==
    /\ ~isROI /\ isROI' = TRUE
    /\ UNCHANGED <<core, num_accesses, pcc_promotions, evicted, WriteAddr, call, shot, budget>>
StopROI ==
    /\ isROI /\ isROI' = FALSE
    /\ UNCHANGED <<core, num_accesses, pcc_promotions, evicted, WriteAddr, call, shot, budget>>
-----------------------------------------------------------------------------
(***************************************************************************)
(* summarize_promotions, one listed address at a time.                     *)
(***************************************************************************)
Current(t) == Head(call[t].todo)

\* Faulty: the address stays on the list.
NextAddressStays(t) == call' = [call EXCEPT ![t].pc = "summary"]

\* The loop moves on to the next address, or ends and the access follows.
NextAddress(t) ==
    call' = [call EXCEPT ![t].todo = Tail(@),
                         ![t].pc = IF Len(call[t].todo) = 1 THEN "lookup" ELSE "summary"]

\* Faulty: an address that is not promoted is passed over.
ExamineSkips(t) ==
    LET base == Current(t)
        read == [View(t) EXCEPT !.reuse[base] = IF @ = "absent" THEN "cold" ELSE @]
    IN  /\ At(t, "summary")
        /\ IF IsCandidate(read, base)
           THEN Writes(t, read) /\ call' = [call EXCEPT ![t].pc = "promote"]
           ELSE Writes(t, read) /\ NextAddress(t)
        /\ UNCHANGED <<num_accesses, WriteAddr, isROI, shot, budget>>

\* Read the records of the address and look for it in pcc_promotions.  One
\* that is not promoted now is counted there, which adds it if it is missing.
Examine(t) ==
    LET base == Current(t)
        read == [View(t) EXCEPT !.reuse[base] = IF @ = "absent" THEN "cold" ELSE @]
    IN  /\ At(t, "summary")
        /\ IF IsCandidate(read, base)
           THEN Writes(t, read) /\ call' = [call EXCEPT ![t].pc = "promote"]
           ELSE Writes(t, [read EXCEPT !.promoted = @ \cup {base}]) /\ NextAddress(t)
        /\ UNCHANGED <<num_accesses, WriteAddr, isROI, shot, budget>>

\* Faulty: the TLBs are not shot down.
PromoteKeepsTlb(t) ==
    LET base == Current(t)
        m == [View(t) EXCEPT !.promoted = @ \cup {base}, !.reuse[base] = "absent"]
    IN  /\ At(t, "promote")
        /\ Writes(t, [m EXCEPT !.pcc = EvictSet(@, base)])
        /\ NextAddress(t)
        /\ shot' = [shot EXCEPT ![t] = @ \cup {base}]
        /\ UNCHANGED <<num_accesses, WriteAddr, isROI, budget>>

\* Faulty: the region stays in the PCC.
PromoteKeepsLine(t) ==
    LET base == Current(t)
    IN  /\ At(t, "promote")
        /\ Writes(t, PromoteRegion(View(t), base))
        /\ NextAddress(t)
        /\ shot' = [shot EXCEPT ![t] = @ \cup {base}]
        /\ UNCHANGED <<num_accesses, WriteAddr, isROI, budget>>

\* The promotion: atomic_store, erase, the shootdown of this thread's TLBs
\* and the eviction from this thread's PCC.
Promote(t) ==
    LET base == Current(t)
    IN  /\ At(t, "promote")
        /\ Writes(t, [PromoteRegion(View(t), base) EXCEPT !.pcc = EvictSet(@, base)])
        /\ NextAddress(t)
        /\ shot' = [shot EXCEPT ![t] = @ \cup {base}]
        /\ UNCHANGED <<num_accesses, WriteAddr, isROI, budget>>
-----------------------------------------------------------------------------
(***************************************************************************)
(* pcc_track_access after the summary.                                     *)
(***************************************************************************)
LookupAfterSummary(t) ==
    /\ At(t, "lookup")
    /\ Lookup(t, call[t].page)
    /\ UNCHANGED <<num_accesses, WriteAddr, isROI, shot, budget>>

\* The walk fills the TLBs by the size it has read, and goes on to the PCC
\* unless it is the thread's first of the region.  (The two fills of the 4KB
\* L1 TLB leave a page number in the shared victim, which denotes no region:
\* no thread can tell one fill from the other.)
FillTlbs(t) ==
    LET base == BaseOf(call[t].page)
        filled == [Walk(Remembered(t), call[t].page) EXCEPT !.promoted = pcc_promotions]
    IN  /\ At(t, "walk")
        /\ IF core[t].reuse[base] = "absent"
           THEN Writes(t, [filled EXCEPT !.reuse[base] = "cold"]) /\ call' = [call EXCEPT ![t] = Idle]
           ELSE Writes(t, filled) /\ call' = [call EXCEPT ![t].pc = "pcc", ![t].is_2m = FALSE]
        /\ UNCHANGED <<num_accesses, WriteAddr, isROI, shot, budget>>

\* The thread reads again whether the region is promoted and accesses the PCC;
\* a hit is recorded and ends the call.
AccessPcc(t) ==
    LET base == BaseOf(call[t].page)
        m == View(t)
    IN  /\ At(t, "pcc")
        /\ IF PccHit(m, base)
           THEN Writes(t, Record(TouchPcc(m, base), base)) /\ call' = [call EXCEPT ![t] = Idle]
           ELSE /\ call' = [call EXCEPT ![t].pc = "insert", ![t].is_2m = base \in pcc_promotions]
                /\ UNCHANGED <<core, pcc_promotions, evicted>>
        /\ UNCHANGED <<num_accesses, WriteAddr, isROI, shot, budget>>

\* After a miss the region is inserted under the tag of the size it has read,
\* and the shared victim is written if a line was recycled.
InsertPcc(t) ==
    LET inserted == TouchPcc(Remembered(t), BaseOf(call[t].page))
    IN  /\ At(t, "insert")
        /\ Writes(t, [inserted EXCEPT !.promoted = pcc_promotions])
        /\ call' = [call EXCEPT ![t].pc = "lose", ![t].is_2m = FALSE]
        /\ UNCHANGED <<num_accesses, WriteAddr, isROI, shot, budget>>

\* The record of the victim, whichever thread's it is by now, is reset.
LoseVictim(t) ==
    /\ At(t, "lose")
    /\ Writes(t, Record(LoseEvicted(View(t)), BaseOf(call[t].page)))
    /\ call' = [call EXCEPT ![t] = Idle]
    /\ UNCHANGED <<num_accesses, WriteAddr, isROI, shot, budget>>

Step(t) == \/ AfterStore(t) \/ Examine(t) \/ Promote(t) \/ LookupAfterSummary(t)
           \/ FillTlbs(t) \/ AccessPcc(t) \/ InsertPcc(t) \/ LoseVictim(t)

Next == \/ \E t \in Thread : Step(t)
        \/ \E t \in Thread, p \in Page : Load(t, p)
        \/ \E t \in Thread, p \in Written : BeforeStore(t, p)
        \/ StartROI \/ StopROI

Spec == Init /\ [][Next]_vars
-----------------------------------------------------------------------------
\* Caches within their sizes, points and pages in range.
TypeOK ==
    /\ \A t \in Thread :
          /\ \A k \in 0..(L2Sets - 1) : LinesOK(core[t].l2[k], L2Assoc, Page \cup Region, {0}, {0})
          /\ LinesOK(core[t].pcc, PccSize, Base, 0..(PagesPerRegion - 1), 0..(MaxFreq - 1))
          /\ core[t].reuse \in [Base -> {"absent", "cold", "tracked"}]
          /\ call[t].pc \in Point /\ call[t].page \in Page \cup {None}
          /\ Len(call[t].todo) <= PccSize
          /\ num_accesses[t] \in 0..(Wrap - 1)
    /\ pcc_promotions \subseteq Base /\ evicted \in Base \cup {None}

\* Whatever the other threads promote meanwhile, the addresses a thread has
\* still to summarize are in its PCC, each once: getFreq and evict never meet
\* a missing line (they would follow a null pointer).
SummaryListInPcc ==
    \A t \in Thread :
        /\ IsInjective(call[t].todo)
        /\ \A i \in DOMAIN call[t].todo : Holds(core[t].pcc, call[t].todo[i])

\* A thread that promoted a region itself never again translates one of its
\* pages through a 4KB entry of its L2 TLB (the other threads may: nobody
\* shoots down their entries).
OwnTlbShotDown ==
    \A t \in Thread, p \in Page : BaseOf(p) \in shot[t] => ~CacheHit(core[t].l2, p)

\* In no thread is there a 2MB translation of a region that is not promoted.
HugeEntriesPromoted ==
    \A t \in Thread, b \in Region :
        CacheHit(core[t].l1_2m, b) \/ CacheHit(core[t].l2, b) => b \in pcc_promotions

\* A region that a thread promoted itself is never again a candidate in that
\* thread's PCC (in the PCC of another thread it may be).
OwnPromotedLeavesPcc ==
    \A t \in Thread : \A b \in Region \cap shot[t] : ~Holds(core[t].pcc, b)

\* Between a thread's test of pcc_promotions and its update another thread may
\* update the same entry; still, an address leaves the list of a summary only
\* when it is marked as promoted, one that was never hit in the PCC included.
SummaryMarksAll ==
    [][ \A t \in Thread : Range(call[t].todo) \ Range(call'[t].todo) \subseteq pcc_promotions' ]_vars
-----------------------------------------------------------------------------
\* "For each (dynamic) instruction reading or writing to memory the the ip and
\* ea are recorded" (common.h:76): the address recorded after a store is the
\* one that store wrote to, inside the region of interest, where RecordMem
\* records it.
StoreAddressKept ==
    isROI => \A t \in Thread : At(t, "storing") => WriteAddr = call[t].page
=============================================================================
