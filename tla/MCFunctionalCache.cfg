CONSTANTS
    Width = 8
    LogLine = 2
    LogHuge = 4
    SetCounts = {1, 4, 6}
SPECIFICATION Spec
INVARIANTS PageNumberSplit EvictedIsPageNumber
