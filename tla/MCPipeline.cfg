CONSTANTS
    Logs <- MCLogs
    Limits = {0, 2, 3}
SPECIFICATION Spec
INVARIANTS SelectionExact PromotedAsSelected DemotionsAsDue
PROPERTY ChildrenEnd
CHECK_DEADLOCK FALSE
