CONSTANTS
    Page = {8, 9, 12, 13, 14, 16, 17, 18}
    PagesPerRegion = 4
    L1Sets4K = 8
    L1Sets2M = 1
    L2Sets = 8
    L1Assoc = 2
    L2Assoc = 2
    PccSize = 2
    MaxFreq = 3
    Interval = 7
    Factor = 2
SPECIFICATION Spec
PROPERTY LostOnlyIfEvicted
