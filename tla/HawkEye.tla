------------------------------ MODULE HawkEye -------------------------------
(***************************************************************************)
(* The HawkEye baseline: pin3.7/source/tools/PromotionCache/hawkeye.h.     *)
(*                                                                         *)
(* For ACCESS_INTERVAL accesses the pages touched in each region are       *)
(* marked; then summarize() averages the number of marks into ema, moves   *)
(* the region to the bucket of its average and promotes regions from the   *)
(* top bucket down; then nothing is tracked for FACTOR*ACCESS_INTERVAL     *)
(* accesses.                                                               *)
(*                                                                         *)
(* Only the number of marked pages matters, so coverage is a count.  The   *)
(* averages are kept in whole pages, rounded down.  Where the code reads   *)
(* past a vector the model has every outcome: the value that the memory    *)
(* still holds, or a crash.                                                *)
(***************************************************************************)
EXTENDS Integers, SequencesExt, FiniteSets

CONSTANTS
    Region,                    \* the 2MB regions the program touches
    NUM_BASE_PAGES,            \* pages of a region, 512
    NUM_BUCKETS, BUCKET_SIZE,  \* 10 buckets of 50 pages
    MAX_NUM_PROMOTIONS,        \* new promotions per summary, 8
    Interval, Factor,          \* ACCESS_INTERVAL, FACTOR
    AlphaNum, AlphaDen,        \* ALPHA as a fraction, 9/10
    MaxSummaries               \* bound: the summaries made

ASSUME HawkEyeAssumption ==
    /\ {NUM_BASE_PAGES, NUM_BUCKETS, BUCKET_SIZE, MAX_NUM_PROMOTIONS,
        Interval, Factor, AlphaNum, AlphaDen, MaxSummaries} \subseteq Nat \ {0}
    /\ AlphaNum <= AlphaDen /\ Region # {} /\ IsFiniteSet(Region)

Unknown == -1
Bucket == 0..(NUM_BUCKETS - 1)

VARIABLES
    tracking,
    coverage,            \* region -> number of bits set, or Unknown
    ema,                 \* region -> average, or Unknown
    buckets,             \* bucket -> sequence of regions
    hawkeye_promotions,  \* the promoted regions
    curr_num_accesses,
    memory0,             \* what the first slot of the top bucket's memory
                         \* holds: a region, or Unknown if never allocated
    lost,                \* history: regions moved out of a bucket index that
                         \* does not exist, so that their old entry stayed
    crashed,
    summaries            \* bound: the summaries made

vars == <<tracking, coverage, ema, buckets, hawkeye_promotions,
          curr_num_accesses, memory0, lost, crashed, summaries>>

Init ==
    /\ tracking = TRUE
    /\ coverage = [b \in Region |-> Unknown]
    /\ ema = [b \in Region |-> Unknown]
    /\ buckets = [k \in Bucket |-> <<>>]
    /\ hawkeye_promotions = {}
    /\ curr_num_accesses = 0
    /\ memory0 = Unknown
    /\ lost = {}
    /\ crashed = FALSE
    /\ summaries = 0
-----------------------------------------------------------------------------
Top == NUM_BUCKETS - 1

\* The moving average of the number of pages touched.
Average(old, cov) ==
    IF old = Unknown THEN cov
    ELSE (AlphaNum * old + (AlphaDen - AlphaNum) * cov) \div AlphaDen

\* The bucket of an average as summarize() computes it, for a region without
\* one too (ema[base] creates a 0); and as change_bucket clamps a new one.
BucketOf(avg) == Max({avg, 0}) \div BUCKET_SIZE
Clamp(k) == Min({k, Top})

\* Faulty: only a region that changes its bucket is moved, and appended.
ChangeBucketKeeps(t, base, old, new) == [t EXCEPT !.buckets[Clamp(new)] = Append(@, base)]

\* change_bucket.  The old bucket is not clamped: past the last one there is
\* no entry to erase.
ChangeBucket(t, base, old, new) ==
    LET erased == IF old <= Top THEN [t.buckets EXCEPT ![old] = RemoveFirst(@, base)]
                  ELSE t.buckets
    IN  [t EXCEPT !.buckets = [erased EXCEPT ![Clamp(new)] = Append(@, base)],
                  !.lost = IF old <= Top THEN @ ELSE @ \cup {base}]

\* One pass of the loop over coverage.  The first slot of the top bucket keeps
\* its value when the bucket becomes empty.
MoveRegion(t, cov, base) ==
    LET avg == Average(t.ema[base], cov[base])
        u == [ChangeBucket(t, base, BucketOf(t.ema[base]), BucketOf(avg)) EXCEPT !.ema[base] = avg]
    IN  [u EXCEPT !.memory0 = IF u.buckets[Top] = <<>> THEN @ ELSE Head(u.buckets[Top])]

\* The loop over coverage, in the order of the hash map.
MoveRegions(cov, order) ==
    LET Moved[n \in 0..Len(order)] ==
          IF n = 0 THEN [buckets |-> buckets, ema |-> ema, lost |-> lost, memory0 |-> memory0]
          ELSE MoveRegion(Moved[n - 1], cov, order[n])
    IN  Moved[Len(order)]

\* Faulty: from the lowest bucket up.
VisitsUpwards(t) ==
    LET Up[k \in 0..NUM_BUCKETS] == IF k = 0 THEN <<>> ELSE Up[k - 1] \o t.buckets[k - 1]
    IN  Up[NUM_BUCKETS]

\* The regions in the order in which the promotion loop visits them.  It
\* begins with the first slot of the top bucket, even if that is empty.
Visits(t) ==
    LET Down[k \in 0..NUM_BUCKETS] ==
          IF k = 0 THEN <<>> ELSE Down[k - 1] \o t.buckets[NUM_BUCKETS - k]
    IN  IF t.buckets[Top] = <<>> THEN <<t.memory0>> \o Down[NUM_BUCKETS] ELSE Down[NUM_BUCKETS]

\* Faulty: repeated promotions count towards the limit.
VisitedCountsRepeats(visits) == Range(SubSeq(visits, 1, Min({MAX_NUM_PROMOTIONS, Len(visits)})))

\* The loop goes on until it has promoted MAX_NUM_PROMOTIONS new regions, or
\* has visited them all.
Visited(visits) ==
    LET Found(n) == Cardinality(Range(SubSeq(visits, 1, n)) \ hawkeye_promotions)
        stop == Min({n \in 1..Len(visits) : Found(n) = MAX_NUM_PROMOTIONS \/ n = Len(visits)})
    IN  Range(SubSeq(visits, 1, stop))
-----------------------------------------------------------------------------
\* coverage[base].set(offset): of a page that is marked, or of a new one.
Marked(base, fresh) ==
    [coverage EXCEPT ![base] = IF fresh THEN Max({@, 0}) + 1 ELSE @]
CanMark(base, fresh) ==
    IF fresh THEN coverage[base] < NUM_BASE_PAGES ELSE coverage[base] > 0

\* hawkeye_track_access in the middle of a tracking window ...
Track(base, fresh) ==
    /\ ~crashed /\ tracking /\ CanMark(base, fresh)
    /\ curr_num_accesses + 1 < Interval
    /\ curr_num_accesses' = curr_num_accesses + 1
    /\ coverage' = Marked(base, fresh)
    /\ UNCHANGED <<tracking, ema, buckets, hawkeye_promotions, memory0, lost, crashed, summaries>>

\* ... outside of one ...
Skip ==
    /\ ~crashed /\ ~tracking
    /\ tracking' = (curr_num_accesses + 1 = Factor * Interval)
    /\ curr_num_accesses' = IF tracking' THEN 0 ELSE curr_num_accesses + 1
    /\ UNCHANGED <<coverage, ema, buckets, hawkeye_promotions, memory0, lost, crashed, summaries>>

\* ... and at the end of one: summarize(), then clear_coverage().
Summarize(base, fresh) ==
    LET cov == Marked(base, fresh)
        known == {b \in Region : cov[b] # Unknown}
    IN  /\ ~crashed /\ tracking /\ CanMark(base, fresh)
        /\ curr_num_accesses + 1 = Interval
        /\ summaries < MaxSummaries /\ summaries' = summaries + 1
        /\ \E order \in SetToSeqs(known) :
              LET t == MoveRegions(cov, order)
              IN  /\ t.buckets[Top] # <<>> \/ t.memory0 # Unknown
                  /\ buckets' = t.buckets /\ ema' = t.ema
                  /\ memory0' = t.memory0 /\ lost' = t.lost
                  /\ hawkeye_promotions' = hawkeye_promotions \cup Visited(Visits(t))
        /\ coverage' = [b \in Region |-> IF b \in known THEN 0 ELSE Unknown]
        /\ tracking' = FALSE
        /\ curr_num_accesses' = 0
        /\ UNCHANGED crashed

\* Undefined behaviour in summarize() that ends the process: the scan of a
\* bucket that does not exist, or the first slot of a top bucket that never
\* held anything.
Crash(base, fresh) ==
    LET cov == Marked(base, fresh)
        known == {b \in Region : cov[b] # Unknown}
    IN  /\ ~crashed /\ tracking /\ CanMark(base, fresh)
        /\ curr_num_accesses + 1 = Interval
        /\ \/ \E b \in known : BucketOf(ema[b]) > Top
           \/ \E order \in SetToSeqs(known) :
                 LET t == MoveRegions(cov, order)
                 IN  t.buckets[Top] = <<>> /\ t.memory0 = Unknown
        /\ crashed' = TRUE
        /\ UNCHANGED <<tracking, coverage, ema, buckets, hawkeye_promotions,
                       curr_num_accesses, memory0, lost, summaries>>

Next ==
    \/ \E b \in Region, fresh \in BOOLEAN :
          Track(b, fresh) \/ Summarize(b, fresh) \/ Crash(b, fresh)
    \/ Skip

Spec == Init /\ [][Next]_vars
-----------------------------------------------------------------------------
Entries(b) == {ki \in UNION {{k} \X DOMAIN buckets[k] : k \in Bucket} : buckets[ki[1]][ki[2]] = b}
Known == {b \in Region : ema[b] # Unknown}

\* Every region with an average has an entry in the bucket of that average,
\* however it moved up and down; and that is its only entry, unless it was
\* once moved from past the last bucket (an average of NUM_BUCKETS*BUCKET_SIZE
\* pages or more), where its old entry cannot be found.
BucketsMatchAverages ==
    \A b \in Region :
        /\ (\E e \in Entries(b) : e[1] = Clamp(BucketOf(ema[b]))) <=> b \in Known
        /\ b \in Known \ lost => Cardinality(Entries(b)) = 1

\* A summary prefers the densely used regions: one that it leaves out is in no
\* higher bucket than one that it promotes.  Two kinds of regions are promoted
\* out of order: the one read from the memory of an empty top bucket, and those
\* whose old entry stayed in a bucket above that of their average.
DensestFirst ==
    [][ \A b \in hawkeye_promotions' \ hawkeye_promotions, c \in Known' \ hawkeye_promotions' :
           \/ Clamp(BucketOf(ema'[b])) >= Clamp(BucketOf(ema'[c]))
           \/ buckets'[Top] = <<>> /\ b = memory0'
           \/ b \in lost' ]_vars

\* Promotions already made do not use up the allowance of a summary: it makes
\* MAX_NUM_PROMOTIONS new ones, or has promoted every region seen so far.
AllowanceUsed ==
    [][ tracking /\ ~tracking' =>
           LET new == Cardinality(hawkeye_promotions' \ hawkeye_promotions)
           IN  \/ new = MAX_NUM_PROMOTIONS
               \/ new < MAX_NUM_PROMOTIONS /\ Known' \subseteq hawkeye_promotions' ]_vars
=============================================================================
