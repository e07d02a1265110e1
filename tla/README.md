# A TLA+ model of the promotion candidate cache

The repository studies *which* 2MB regions of a program's memory the operating
system should back with huge pages. A Pin tool simulates the TLBs of a CPU and a
small hardware structure, the promotion candidate cache (PCC); its log is turned
into promotion schedules, which a launcher then replays against a running
program. This directory holds TLA+ modules for the simulators (with one thread
and with several), the HawkEye baseline, the scripts, the launcher and the
parallel graph kernels it runs, the TLC configurations that check them, and
TLAPS proofs about the replacement logic, both simulators, HawkEye, the
kernels, and the way from a log to the promotions.

Run a check with `tlc -config MCPcc.cfg PccHistory` (see the table of runs) and
the proofs with `tlapm CacheSetProofs.tla` etc., in this directory.

Paths below are relative to `src/`; `PromotionCache/` abbreviates
`pin3.7/source/tools/PromotionCache/`.

## The system

| Component | State | Operations | Talks to | Modelled |
|---|---|---|---|---|
| `CacheSet` (`PromotionCache/tlb.h`) | linked list of lines between two sentinels, free stack, tag map, a frequency per line | access, insert, evict, flush, get_freq, get_set, decay_freqs | called by `FunctionalCache` | yes |
| `FunctionalCache` (`tlb.h`) | array of sets, geometry | access, insert, evict, getFreq, get_entries, flush | the simulators | yes |
| single-threaded simulator (`huge_page_reuse.h`) | three TLBs, PCC, `reuse_map`, `pcc_promotions`, last evicted tag, access counter | `pcc_track_access`, `summarize_promotions` | called by `RecordMem`, writes the log | yes, without reuse statistics |
| instrumentation (`roi.cpp`, `roi_mt.cpp`, `common.h`) | `isROI`, `WriteAddr` | `RecordMem`, `RecordMemWrite`, `StartROI`, `StopROI` | Pin | ROI gating, the hand-over of a store's address |
| multi-threaded simulator (`huge_page_reuse_mt.h`, `roi_mt.cpp`) | the same per thread; `pcc_promotions` and evicted tags shared, no locks | the same, concurrently | Pin threads | yes, without statistics |
| HawkEye baseline (`hawkeye.h`) | coverage bitmaps, moving averages, 10 buckets, tracking flag | `hawkeye_track_access`, `summarize`, `change_bucket` | `RecordMem` | yes |
| candidate scripts (`get_promotions*.py`, `get_demotions.py`) | candidates per summary, promoted set | select, deduplicate, limit | the log; schedule files | selection, not parsing |
| promoter and launcher (`utils/common.h`, `applications/launch/*/main.cpp`) | schedule, iterators, `done.txt`, child processes | read schedule, coalesce ranges, replay, poll | the kernel, the application | yes, for the graph programs |
| parallel kernels (`applications/launch/parallel/`) | distances or residuals, two work lists and their indices | compare-and-swap, fetch-add, barriers | OpenMP threads | yes |
| sequential kernels, `utils/dbg.cpp`, graph conversion | graph files | sequential loops | files | no |
| fragmentation tools, page map reading, experiment scripts | - | I/O and system calls | kernel, files | no: pure I/O |
| Pin, numactl, canneal, dedup | - | - | - | no: third-party |

The log of a simulator goes through the scripts to the promoter; the simulators
trace, and the promoter accompanies, the graph kernels.

What is hard here: the list order of an LFU set is maintained by a walk that
assumes it, one hit at a time; callers that insert a tag twice; out-parameters
that outlive the call that set them; promotions that must invalidate
translations elsewhere; periods counted in accesses; threads that share maps and
globals without a lock; reads past the end of a vector; a schedule replayed
beside a program that may crash; helper processes that poll; racing graph
kernels held together by two barriers.
`PROJECT.json` lists each hazard at its line with the properties that guard it.

## Modules

| Module | Stands for |
|---|---|
| `CacheSet` | class `CacheSet`: one action per method |
| `Lfu` | what an LFU set promises: a bounded table of use counts |
| `LineSet` | a set as a value, with one operator per method; what `Pcc` is built on |
| `CacheSetRefinement` | `CacheSet` implements `Lfu` and behaves like `LineSet` |
| `CacheSetLru` | `CacheSet` with a history of who was touched since whom |
| `FunctionalCache` | the bit masks that split an address into tag, set and offset |
| `TlbHierarchy` | the TLBs and the PCC of one core, as operators on a record |
| `Pcc` | the single-threaded simulator with its ROI gating |
| `PccHistory` | `Pcc` with the history of walks that properties read |
| `PccMt` | the multi-threaded simulator: one core per thread, shared globals |
| `HawkEye` | the HawkEye baseline |
| `Candidates` | the selection scripts over an abstract log |
| `SelectionHistory` | the selection with a history of which thread each region came from |
| `Promoter` | the launcher's processes: application, perf, THP tracker, promoter |
| `Pipeline` | `Candidates` and then `Promoter` on its output |
| `ParallelKernels` | bfs, sssp and pagerank with threads |
| `ListLemmas`, `CacheSetProofs` | theorems about a cache set |
| `TlbProofs`, `PccProofs`, `PccMtProofs` | theorems about the two simulators |
| `HawkEyeProofs` | theorems about the HawkEye baseline |
| `KernelProofs` | theorems about the parallel kernels |
| `PipelineProofs` | theorems about the scripts and the promoter |
| `MCCacheSet`, `MCCacheSetLru`, `MCPccMt`, `MCHawkEye`, `MCParallelKernels`, `MCPipeline`, `MCSelection` | symmetry sets, graphs and logs for TLC |

### CacheSet

The doubly linked list is the sequence of its lines from `head->next` to
`tail->prev`; `deleteNode` removes a position and the insertion routines insert
at one (position 1 for LRU, the end of the walk of `insertLFU` for LFU). The
free stack is a set: callers cannot tell which free line is taken. Null and
missing map entries are one value, since `operator[]` leaves nulls behind and
every reader tests for them. `Policy` is 0 or 2, the values the simulator
passes; policy 1 and `insertHalf` are dead code. `dirty` is left out because
every caller passes `isLoad = true`. The constant `Disciplined` says whether
callers insert only after a lookup missed: true of the PCC, of the L2 TLB and of
the 2MB L1 TLB; false of the 4KB L1 TLB, which a page table walk fills twice
(`huge_page_reuse.h:94` and `:104`). A line left on the list by a second
insertion of its tag is called a ghost below. When a ghost is recycled, the map
entry of the live line goes with it and a recently used page is lost, so
`VictimIsLeastRecent` speaks of victims that are live. A hit changes the state exactly as
the method does, in its order: the line is placed by its old frequency, then
counted, then, at `MAX_FREQ`, the whole list is halved.

### LineSet, TlbHierarchy and Pcc

`LineSet` is the same class as a value: a sequence of lines with tag, frequency,
offset and a flag `live` saying whether the tag map leads to the line. That
`CacheSet` behaves like it is checked (`ImplementsLineSet`) and proved
(`CacheSetIsLineSet`), for both policies and with ghosts, so `TlbHierarchy` may
use it for its four caches.

In `TlbHierarchy` an address is a page number. A (tag, set) pair is in one-to-one
correspondence with the page number it was extracted from; the run
`address_split` establishes this, so lines carry the number. A PCC line of a
promoted region is looked up with the 2MB page offset (`is_2m` at
`huge_page_reuse.h:117`), as in the code. The L2 TLB holds 4KB and 2MB entries
without a size bit, as in the code. `TrackAccess` and `SummarizeAndTrack` are
the whole of `pcc_track_access`, without and with the leading summary;
`SummarizePromotions` is the loop over the entries listed at its start, as a
function from the number of entries done to the machine; `EvictEach` is the loop
over the pages of a region that are evicted from a TLB set where they hit.
`reuse_map` is reduced to absent, cold (all fields zero) and tracked: the rest
of a record only reaches the log. Entries of `reuse_map` under keys that are no
base (the page numbers that line 123 stores) are dropped, as nothing reads them;
one caveat is that a page number could equal the base of another region, which
`EvictedBy` keeps. The access counter is kept modulo `FACTOR*ACCESS_INTERVAL`.

### FunctionalCache

Words have `Width` bits and arithmetic wraps. `extract(63, ...)` shifts by the
word size, which C++ leaves undefined: both outcomes that compilers produce (1
from the x86 shift, 0 from constant folding) are explored.

### PccMt

Pin runs the callbacks of an application thread in that thread, so every thread
has a program point. The steps of `pcc_track_access` are cut where shared data is
touched: the search in `pcc_promotions` and the update after it (`Examine`,
`Promote`); the search after a TLB miss and the fills that go by its result
(`Lookup`, `FillTlbs`); the search before the PCC is accessed, the insertion that
goes by its result and writes the shared victim, and the reading of that victim
(`AccessPcc`, `InsertPcc`, `LoseVictim`); the two callbacks of a store
(`BeforeStore`, `AfterStore`). What a thread has read is in its `is_2m`, and
`Remembered(t)` is the machine as the thread takes it to be: the region may have
been promoted since. One
operation on the shared map is one step; that such operations race inside the
container is not modelled. `View(t)` is the machine a thread sees, its own core
and the globals, so both simulators use the operators of `TlbHierarchy`. Unlike
the single-threaded code, a summary marks *every* listed address as promoted,
those with frequency 0 through `operator[]`, and evicts only the others.

### HawkEye

A coverage bitmap is reduced to its count and averages are whole pages.
`MoveRegion` is one pass of the loop over the hash map, which takes every order
(`MoveRegions`); `Visits` is the order in which the promotion loop meets the
entries and `Visited` how far it goes. Two reads past the end are undefined and
have every outcome: a bucket index above the last (a crash, or nothing found, in
which case the region's old entry stays, recorded in the history variable
`lost`), and the first slot of an empty top bucket (a crash if the vector never
had memory, else what the slot still holds, the variable `memory0`).

### Candidates, Promoter, Pipeline

A log is a sequence of summaries with a list per thread; one thread is the case
of `get_promotions.py`. `TakeTurn` is one turn of the round robin, which is the
only policy that runs: the script stores its argument in `policy` and tests
`POLICY`. `Kth` is the sort of the regions to be written. `Entries`, `Firsts` and
`Chosen` are the reference the selection is compared with and model no code. The
schedules are maps from times to vectors of ranges (`At` and `Push` are
`operator[]` and `push_back`); `read_promotions_over_time` applies `ReadLine` to
one line after the other, a range being closed by the line after it. `PromoteTime` is one pass of the
promoter's loop; the result of `madvise` is only printed. An application may
crash at any point (`Crash`), its children go on.

### ParallelKernels

The three kernels are one skeleton (`Test`, `Take`, `Push`, `Fill`, `Reset`, two
barriers) with different work on an edge: `Claim` and `Store` for bfs,
`ReadDist` and `FetchMin` for sssp, `AddResidual`, `Reread` and `Clear` for
pagerank. An action has one access to shared memory. bfs swaps the low 32 bits
of a word and then stores 64, so `ret` is the low half and `high` says whose high
half is still all ones. Each kernel has the worklists its init function allocates
(`Capacity`: `2*num_nodes` for bfs, `5*num_nodes` for sssp, `G.nodes` for
pagerank). No index is checked in the code, so a write past the end lengthens the
list (`Written`) and the entry keeps what was written; what such a write may
destroy, or a crash, is not followed further. pagerank does this in the run
`kernels`: two threads add shares below epsilon whose sum is not, each sees a
residual below epsilon before its own addition and one above it when it reads
again, and both list the node; if most other nodes are listed too, `out_index`
passes `G.nodes`. With the values of the code (alpha 0.85, epsilon 0.01) the
complete graph of three nodes can get there in its 12th round. The lists of bfs
fit (`BfsListFits`), those of sssp do in the graphs checked. The loops of `fetch_min` and `fetch_add_double` are one
step each, where the compare-and-swap succeeds. Residuals are whole multiples of
a unit, and `fetch_add_double` returns the nearest float, as in the code.

## Runs

| Run | Checks | Bounds |
|---|---|---|
| `cacheset_pcc` | `TypeOK`, `Partitioned`, `MapSound`, `NoGhost`, `Sorted`, `VictimIsLeastUsed`, `ImplementsLfu`, `ImplementsLineSet` | 4 tags, 3 lines, 2 offsets, `MaxFreq` 6: one tag more than fits, and a cap high enough that lines differ in frequency before and after halving |
| `cacheset_lru` | `Partitioned`, `MapSound`, `RecencyOrder`, `VictimIsLeastRecent`, `ImplementsLineSet` | 4 tags, 3 lines, 2 offsets, callers that may insert twice |
| `address_split` | `PageNumberSplit`, `EvictedIsPageNumber` | all 8-bit addresses, 4- and 16-byte pages, 1, 4 and 6 sets (PCC, L1, and the L2's non-power of two) |
| `pcc` | `TypeOK`, `PccConsistent`, `CandidatesNotPromoted`, `L2ShotDown`, `HugeEntriesPromoted`, `SummaryDrains`, `PromotionEarned` | 5 pages in 3 regions of 4 pages, 2-way L1 TLBs, two direct-mapped L2 sets, a PCC of 2 (one region more than fits), `MaxFreq` 3, `FACTOR` 2, `ACCESS_INTERVAL` 5 (just enough for a region to be walked, inserted and hit within a period) |
| `pcc_mt` | `TypeOK`, `SummaryListInPcc`, `OwnTlbShotDown`, `OwnPromotedLeavesPcc`, `HugeEntriesPromoted`, `SummaryMarksAll` | 2 threads (a symmetry set), 2 regions, direct-mapped TLBs of one line so that every change of page walks, PCCs of 2, `ACCESS_INTERVAL` 6, a counter that wraps at 7, 13 accesses together: enough for both threads to be in a summary of two lines at once, both about to promote, and for regions to be pushed out of a PCC; 1,250,614 states |
| `hawkeye` | `BucketsMatchAverages`, `DensestFirst`, `AllowanceUsed` | 3 regions (a symmetry set) of 3 pages, 3 buckets of 1 page (so an average of 3 is past the last), 1 promotion per summary, windows of 6 accesses, 3 summaries: a region rises past the last bucket, falls, is found again, and is promoted from the entry it left behind; 159,886 states |
| `kernels` | `DistancesExact`, `ListedOnce`, `ListStable`, `Terminates` | 3 threads, 4 nodes, every subset of 8 weighted edges (256 graphs with detours, joins, cycles and unreached nodes), 3 rounds of pagerank with a threshold low enough that it overruns its list; 917,746 states |
| `pipeline` | `SelectionExact`, `PromotedAsSelected`, `DemotionsAsDue`, `ChildrenEnd` | 343 logs of one thread and three summaries, 256 of two threads and two, limits 0, 2 and 3; 207,806 states |
| `pcc_demotion` | `PromotedWalkerDemoted`, violated | as `pcc` with a PCC of 5, room for every tag, so that nothing is pushed out |
| `pcc_stale_eviction` | `LostOnlyIfEvicted`, violated | 8 pages, 8-set TLBs |
| `mt_store` | `StoreAddressKept`, violated | two threads that store |
| `selection_even` | `EvenlyDistributed`, violated | two threads, one summary, 16 logs with shared regions, a limit of 2 |

There are no state constraints: the access counter of `Pcc` is kept modulo the
period, histories saturate, and the bounds that limit behaviours are constants
named as such (`MaxAccesses`, `MaxSummaries`, `MaxHop`) in the guards. Tags and
lines of `CacheSet`, the threads of `PccMt` and the regions of `HawkEye` are
interchangeable and used as symmetry sets. Region numbers
in the `pcc` runs start at 2, so that no region's number is another region's
number divided by the region size; user address spaces have the same gap.

Deadlock is checked except in `hawkeye`, `kernels`, `pipeline` and
`selection_even`, which really end: by a crash or after the last summary, when the
threads are done, when all processes have ended, when the schedule is written.

**Fairness.** `kernels` assumes weak fairness of each thread and of each barrier:
the operating system runs every thread, and OpenMP releases a barrier that all
threads have reached. Under it `Terminates` says that bfs and sssp end; pagerank
ends by the shrinking of its residuals, which a bounded model does not show, so
its rounds are bounded and it is exempt. `pipeline` assumes weak fairness of the
application (its kernels terminate; a crash needs no fairness) and of each child.
`ChildrenEnd` then says that a child that has seen `done.txt` ends. It is not
claimed of a child that has not: one that still polls when the application
crashes, or is not scheduled between the creation and the removal of the file,
polls for ever. The simulators only react to the traced program, so nothing is
assumed of or claimed about their progress.

Definitions marked "Faulty" are plausible mistakes in the code (a loop that
starts one late, a missing unlink, a dropped guard, a missing barrier). Replacing
the original by the faulty one makes the property named in `PROJECT.json` fail.
One of them, `StoreMissing`, is what `pin_source/parallel/bfs/bfs.h` does: there
the words of reached nodes keep the upper half of -1, which only the printed
result shows, since the kernel itself compares the lower half.

### What holds with threads, and what does not

Each thread can rely on its own structures: a summary finds every line it listed,
a region it promoted leaves its own TLBs and PCC for good, and every listed
address ends up marked. Nothing of the kind holds across threads: another
thread's 4KB translations of a promoted region survive, and its PCC may still
hold the region as a candidate. The properties say so explicitly (`Own...`).

In the scripts, `SelectionExact` says which regions are selected and in which
order of *turns*; whether the regions are distributed evenly is another question
(`EvenlyDistributed`, below). A limit of 0 promotes one region, and
`DemotionsAsDue` shows that the first demotion time without a promotion blocks
all demotions after it.

### What the violated properties show

* `PromotedWalkerDemoted` (`huge_page_reuse.h:50`, "demotion"; README.md:242, "with
  demotion in place"). A promoted region that walks twice in a period, with room
  for it in the PCC, should be listed by the next summary, which would demote it.
  What is listed is `base/512`, so the demotion branch is reachable only for such
  derived tags and no region is ever demoted (`PccNeverDemotes` proves this). The
  derived tag is the prefix of no address that was accessed, against README.md:142
  ("the tags are 2MB virtual address prefixes"), and it is also the reason why
  `CandidatesNotPromoted` holds: a promoted region never meets its own tag again.
  With `is_2m` left out of the two PCC calls, TLC finds the property satisfied.
  `get_demotions.py` demotes a region at its second listing, which a region that
  the simulator promoted never gets: it can only name regions whose first listing
  had frequency 0.
* `LostOnlyIfEvicted` (`huge_page_reuse.h:123`, "lose information if evicted").
  The evicted tag is never reset, so later insertions that evict nothing reset
  the record of an old victim, which may be tracked again by then.
* `StoreAddressKept` (`common.h:76`, "the ip and ea are recorded"). `WriteAddr` is
  one global for all threads; a store by a second thread between the two
  callbacks of the first one's replaces the address that is then recorded. The
  property speaks of stores inside the region of interest only.
* `EvenlyDistributed` (README.md:223, "Unless a thread runs out of candidates in
  its PCC, huge pages will always be distributed evenly amongst threads"). A region
  that another thread listed before costs its thread the turn. If the turn were
  kept until a new region is found, TLC finds the property satisfied.

## Proofs

All eight proof modules are checked by TLAPS without unproved steps, for every
value of the constants. Assumptions on constants: a finite non-empty set of lines
without the null value, policy 0 or 2, `MaxFreq >= 1`, some tag and some offset;
for the simulators, positive sizes, pages and regions that are natural numbers
and, where noted, `LayoutAssumption`; for the kernels, finitely many nodes, graphs
that map nodes to sequences of edges and at least one thread; for HawkEye, positive
sizes, an ALPHA of at most 1 and finitely many regions; for the scripts, logs with
at least one summary, the same positive number of threads in all of them and lists
of candidates with natural addresses and frequencies (`LogsAssumption`), and limits
that are natural numbers (`LimitsAssumption`).

`LayoutAssumption` (in `TlbHierarchy`) is about the traced program: none of its
page numbers is one of its region numbers, and no region number divided by 512 is
one either. The L2 TLB has no size bit, so a 4KB page number that equals a region
number hits that region's 2MB entry, and a promoted region's PCC line is tagged
with its number divided by 512. The first is not guaranteed by the code: without
it `HugeEntriesPromoted` is false (pages 2 and 8 with four pages to a region: the
4KB entry of page 2 passes for a 2MB entry of region 2). It holds for the usual
layout of position-independent programs, whose heap (0x55...) and mappings
(0x7f...) are far above the page numbers that equal their region numbers; a
program linked at a fixed low address with a heap of many gigabytes can break it.
The theorems marked (L) use it, the others do not.

* `ListLemmas`: what `InsertAt` and `RemoveAt` do to length, range and elements;
  a non-empty set of naturals has a minimum; and, from that, induction up to `n`
  for membership in a set (`UpToInduction`), with which loops are proved.
* `CacheSetProofs`: the inductive invariant `Inv` is the conjunction of
  `TypeOK`, `Partitioned`, `MapSound`, `NoGhost` and `Sorted`. The parts need
  each other: an eviction stays sound because the victim is on the list
  (`Partitioned`) and its tag leads to it (`NoGhost`); a frequency stays below
  the cap because the line hit is on the list that decay halves (`MapSound`).
  That a hit keeps the list sorted although it places before it counts
  is `PlaceSorted`: a line placed in front of all lines of at most its old
  frequency may be raised by one. Theorems: `TypeCorrect`, `LinesPartitioned`,
  `MapIsSound`, `NoGhosts`, `PccSorted`, `LeastUsedVictim`.
  `PccImplementsLfu` is the refinement of `Lfu` by a disciplined LFU set. Resident
  tags and listed lines correspond one to one (a bijection, hence equal
  cardinalities), so a set without free lines is a full table.
  `RecencyOrdered` and `LeastRecentVictim` are about an LRU set with the history
  variable. The order is inductive even with ghosts, as it speaks of live lines
  only and a line that is not live never becomes live.
  `CacheSetIsLineSet` is the refinement of `LineSet`, step by step: a set is seen
  through its list as a sequence of lines with tag, frequency, offset and liveness
  (`View`, `Seen`). Linking, unlinking and the walk of `insertLFU` commute with
  that view (`SeenLinked`, `SeenUnlinked`, `SeenPlaced`), the lookup finds the
  position of the line that `addr_map` names (`SeenFound`), and "no free line" is
  the same as "as long as the set" (`FullList`, a counting argument); one lemma per
  method puts these together. It justifies the use of `LineSet` in both simulators.
* `TlbProofs`: what the operators of `LineSet` and `TlbHierarchy` do to what a
  cache *holds*. A lookup brings in nothing, an insertion only what is inserted
  (`HitsOnly`, `HoldsOnly`: eviction is never mentioned, so ghosts and recycling
  do not matter), a shootdown removes every page of the region (`TlbShootdown`,
  by induction over the lines), the PCC stays `Sound` (every line found, no tag
  twice, sorted by use), and a line's frequency grows only by a hit
  (`UsedOnly`). `AccessPage` and `PromoteRegion`, the whole of an access and of a
  promotion, follow from these.
* `PccProofs`, the single-threaded simulator. `PccInv` (types, and a sound PCC)
  gives `PccTypes`, `PccStaysConsistent` and `PccDrains`. The loop of
  `summarize_promotions` has the loop invariant `AfterEntry`: after entry *i* the
  PCC holds the tags listed behind *i*, no more used than at the start, and every
  region promoted so far had been hit. `PccGood` says what the caches do *not*
  hold: a 2MB translation of a region that is not promoted, a 4KB L2 translation
  or a PCC line of one that is. The parts depend on each other: a walk of a
  promoted region brings in no 4KB entry because the region is found promoted,
  the region does not return to the PCC because its tag is another one then, and
  so no summary takes it out of the promoted ones. Theorems: `PccCandidates` (L),
  `PccL2ShotDown` (L), `PccHugeEntries` (L), `PccNeverDemotes` (L). With the
  history of walks, `WalksInv` (a region in the PCC was walked since the last
  summary, one that was hit there at least twice) gives `PccPromotionEarned` (L);
  `HistoryRefines` carries the other theorems over to that specification.
* `PccMtProofs`, the same with any number of threads, at the grain of the shared
  accesses. `MtInv`: every thread's PCC is sound, and what is left of its summary
  list lies in its PCC, each tag once. No step of another thread can break that,
  as it touches only shared variables; the thread's own steps take the head off
  the list when they take it out of the PCC. Theorems: `MtTypes`, `MtListInPcc`,
  `MtMarksAll`. `MtGood` relates each core to the *shared* promotions, which only
  grow, for 2MB entries, and to the thread's *own* promotions for 4KB entries and
  PCC lines, and needs a third part, `MemoryGood`, about what a thread in the
  middle of a walk remembers: it takes a region for promoted only if it is, and a
  region it promoted itself for nothing else. So a fill or an insertion that goes by
  an old reading does no harm: `MtHugeEntriesPromoted` (L), `MtOwnTlbShotDown` (L),
  `MtOwnPromotedLeavesPcc` (L). That the second half cannot be stated of the shared
  set is what the previous section says about other threads.
* `KernelProofs`: `WorklistStable`, that the list a thread reads does not change
  under it, for any number of threads, any graph and all three kernels. The
  swap of pointers is local and only thread 0 writes the indices, so the argument
  is about phases: `Apart` says that all threads are before the first barrier or all
  between the two, and that they agree on the number of the round (those that
  wait have counted it already), hence on which list is which.
  `Shape` (the fields of a thread's local state) is the other half of the
  inductive invariant `PhaseInv`; one lemma per kind of move (`LocalMove`,
  `NextEdgePreserves`, `GotoPreserves`, `BarrierPreserves`) carries it through
  the twelve actions.

  For bfs, `BfsListedOnce` (a node is listed once in a round) and `BfsListFits`
  (there are never more entries than nodes, so the unchecked writes stay inside
  the lists of `2*num_nodes`). A thread *claims* a node from its compare-and-swap
  until it has filled the list entry. `WalkInv`: every claimed or listed node has
  left the value -1, so the next compare-and-swap on it fails; claims and filled
  entries name pairwise different nodes; the entries about to be filled are
  pairwise different (fetch-and-add); and the list being read holds nodes up to
  its length, which at the reset is what was filled. The bound on the length is
  needed to see that a write lands in the list, and follows by counting: entries,
  filled or taken, map one to one to nodes.

  The results of the kernels: `BfsDistances` and `SsspDistances`, that
  `DistancesExact` holds for every number of threads, graph and interleaving. The first assumes that the
  mark of unreached nodes is no smaller than the number of nodes (`WEIGHT_MAX`
  is 1073741823 in the code); the second that the work lists of sssp are not written
  past their end, which the code does not check and which the theorem has as a
  hypothesis on the behaviour (the lists of bfs fit, by `BfsListFits`).
  The reference is the recursive `Shortest`, which is never unfolded into paths.
  A labelling of the nodes is *feasible* if the seed has 0 and no edge could
  lower a label; `Shortest` is the largest feasible one, by induction over the
  number of edges and a counting argument that N rounds suffice. What the kernels
  have computed lies between: never below any feasible labelling (`Above`), and
  feasible itself once nobody has work left. The latter needs `Busy`: every node
  has either all its edges relaxed, or is claimed, on the list being filled, on the
  unread part of the list being read, or in the hands of a thread that has relaxed
  the edges before its own. For bfs, `Levels` adds that nodes claimed in a round get
  the number of that round, so the first claim is by a shortest path. `Ends` says
  that the threads leave only when there is nothing left to read or to push.
  These are parts of `DistInv`, which rests on `PhaseInv` and `WalkInv`.
* `HawkEyeProofs`. `HInv`: the tables have their types and every region is
  `Placed`: no entry without an average, an entry in the bucket of the average, and
  only that one unless the region is in `lost`. That is stronger than
  `BucketsMatchAverages` in what it says of regions without an average, which
  `change_bucket` looks for in bucket 0. `MovePlaced` is one pass of the loop, and
  `MoveRegionsSound` the loop in any order, by `UpToInduction`. Theorem
  `BucketsFollow`. `VisitsQueue` says that the entries are met by descending bucket
  behind the slot of an empty top bucket, and `VisitedStops` that the loop ends at the
  first entry that completes the allowance, or the last one; a new promotion raises
  the count by one at most, so it is never passed over. From these and `Placed`:
  `PromotesDensest` and `AllowanceIsUsed`.

  The attempt to prove `DensestFirst` as it was first stated, with an exception
  only for the slot of an empty top bucket, failed for regions in `lost`, and TLC
  confirmed it with windows of 6 accesses: a region whose average was past the
  last bucket and falls leaves an entry behind in the top bucket, and is promoted
  from there ahead of denser regions. The property now names that exception, and
  the run has the bounds that reach it.
* `PipelineProofs`, for every log, number of threads, limit and interleaving of the
  launched processes.

  `ReadFile` is about `read_promotions_over_time` alone: the map has a page at a
  time exactly if the file has a line for it, and no two ranges share a page if no
  two lines share an address. Its loop invariant `ReadSoFar` says this of the map
  together with the range that is still open, by `UpToInduction` over the lines.

  `PipelineInvariant`. `CInv` is about the scripts: what is left of each list is a
  tail of it (`Position`), the promoted regions are those of the candidates taken
  so far (`Uniq`), each of them stands in the file or is about to be written, once
  (`Written`), and a region listed at a time gone by has its line at that time or
  an earlier one (`Timely`).
  `PInv` is about the promoter: its maps are what `ReadFile` says of the files, and
  it has done exactly the ranges of the times that its iterator has passed
  (`Iterates`). With `Written` this gives `PipelinePromotes`.

  `PipelineDemotes` adds `DInv`: the demotion iterator, which moves only when the
  promotion iterator is at the same time, has passed exactly the *reachable* times
  that the other one has passed (`Follows`). A region that is demoted was listed at
  an earlier time as well; if the promoter got to its demotion, that earlier time
  was one the selection worked off completely, so by `Timely` it was promoted.

  `PipelineSelects` compares the round robin with the reference. `Round`: at a turn
  the threads before it have had one turn more than the others, so what is left of
  a list is what remains after that many. Hence the candidates taken are closed
  downwards in the order of the reference (`Closed`). The regions promoted so far
  correspond one to one to the first listings among those taken (`UniqCount`), and
  a downward closed set whose first listings number as many as the limit, or that
  has all of them, has exactly the chosen ones (`ChosenTaken`). `SInv` adds that
  the file has them by time and, for each time, in ascending order (`InOrder`).

The inductive invariants were checked by TLC on the instances of the runs (or
slightly smaller ones) before they were proved, except those of `PipelineProofs`,
which quantify over places in a log without a bound; there only the properties
they imply were.

Only model-checked: `ListedOnce` for pagerank, where the bound per thread depends
on how the threshold rounds to a float; `PageNumberSplit` and `EvictedIsPageNumber` (the
Bitwise operators are recursive, which the prover cannot use); and the two
liveness properties `Terminates` and `ChildrenEnd`, which are outside TLAPS's reach.
The four violated properties are refuted by TLC.

## Not modelled

* The numbers of a reuse record, `num_2mb_ptw` and the exit summaries: they only
  reach the log.
* Data races inside `unordered_map` while another thread rehashes it.
* Parsing of logs, the THP tracker's samples, page maps, experiment scripts,
  fragmentation tools: I/O.
* `applications/launch/main.cpp` with its own `common.h` (for canneal and dedup):
  a variant of the promoter without demotions, whose loop also runs past the end
  of its map.
* The sequential kernels, `pin_source` copies of the parallel ones, `dbg.cpp` and
  graph conversion: sequential code without the hazards above.
* Pin, numactl, canneal, dedup: third-party. They make up nearly all lines of the
  repository.

## Further work

1. `ListedOnce` for pagerank, from `PhaseInv` and an assignment of entries to the
   threads that pushed them, for thresholds that are floats.
2. A bound on the list of sssp, which `SsspDistances` has as a hypothesis.
