CONSTANTS
    Tag = {t1, t2, t3, t4}
    Line = {l1, l2, l3}
    Offset = {o1, o2}
    Policy = 0
    MaxFreq = 2
    Disciplined = FALSE
    NULL = NULL
SPECIFICATION LruSpec
SYMMETRY Symmetry
INVARIANTS Partitioned MapSound RecencyOrder
PROPERTIES VictimIsLeastRecent ImplementsLineSet
