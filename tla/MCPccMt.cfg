CONSTANTS
    Thread = {t1, t2}
    Page = {8, 12}
    Written = {8}
    PagesPerRegion = 4
    L1Sets4K = 1
    L1Sets2M = 1
    L2Sets = 1
    L1Assoc = 1
    L2Assoc = 1
    PccSize = 2
    MaxFreq = 2
    Interval = 6
    Factor = 2
    Wrap = 7
    MaxAccesses = 13
SPECIFICATION Spec
INVARIANTS TypeOK SummaryListInPcc OwnTlbShotDown OwnPromotedLeavesPcc HugeEntriesPromoted
PROPERTY SummaryMarksAll
SYMMETRY ThreadSymmetry
