CONSTANTS
    Logs <- MCLogs
    Limits = {2}
SPECIFICATION HistorySpec
INVARIANT EvenlyDistributed
CHECK_DEADLOCK FALSE
