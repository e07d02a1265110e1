CONSTANTS
    Node = {0, 1, 2, 3}
    Graphs <- MCGraphs
    Seed = 0
    NumThreads = 3
    WEIGHT_MAX = 1000
    epsilon = 2
    AlphaNum = 1
    AlphaDen = 2
    Unit = 16
    FloatStep = 2
    MaxHop = 3
SPECIFICATION Spec
INVARIANTS DistancesExact ListedOnce
PROPERTIES ListStable Terminates
CHECK_DEADLOCK FALSE
