CONSTANTS
    Thread = {t1, t2}
    Page = {8, 9, 12}
    Written = {8, 9}
    PagesPerRegion = 4
    L1Sets4K = 1
    L1Sets2M = 1
    L2Sets = 1
    L1Assoc = 1
    L2Assoc = 1
    PccSize = 1
    MaxFreq = 2
    Interval = 4
    Factor = 2
    Wrap = 6
    MaxAccesses = 4
SPECIFICATION Spec
INVARIANT StoreAddressKept
