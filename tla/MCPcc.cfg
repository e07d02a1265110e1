CONSTANTS
    Page = {8, 9, 12, 13, 16}
    PagesPerRegion = 4
    L1Sets4K = 1
    L1Sets2M = 1
    L2Sets = 2
    L1Assoc = 2
    L2Assoc = 1
    PccSize = 2
    MaxFreq = 3
    Interval = 5
    Factor = 2
SPECIFICATION HistorySpec
INVARIANTS TypeOK PccConsistent CandidatesNotPromoted L2ShotDown HugeEntriesPromoted
PROPERTIES SummaryDrains PromotionEarned
