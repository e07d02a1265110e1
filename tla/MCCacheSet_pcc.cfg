CONSTANTS
    Tag = {t1, t2, t3, t4}
    Line = {l1, l2, l3}
    Offset = {o1, o2}
    Policy = 2
    MaxFreq = 6
    Disciplined = TRUE
    NULL = NULL
SPECIFICATION Spec
SYMMETRY Symmetry
INVARIANTS TypeOK Partitioned MapSound NoGhost Sorted
PROPERTIES VictimIsLeastUsed ImplementsLfu ImplementsLineSet
