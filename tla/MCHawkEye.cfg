CONSTANTS
    Region = {r1, r2, r3}
    NUM_BASE_PAGES = 3
    NUM_BUCKETS = 3
    BUCKET_SIZE = 1
    MAX_NUM_PROMOTIONS = 1
    Interval = 6
    Factor = 1
    AlphaNum = 1
    AlphaDen = 3
    MaxSummaries = 3
SPECIFICATION Spec
INVARIANT BucketsMatchAverages
PROPERTIES DensestFirst AllowanceUsed
CHECK_DEADLOCK FALSE
SYMMETRY RegionSymmetry
