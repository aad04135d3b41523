CONSTANTS
    None = None
    MsgIds = {1, 2, 3, 4}
    Limit = 2
    MaxTime = 3
SPECIFICATION Spec
INVARIANTS TypeOK TimelineOrdered HistoryComplete OnlyOverlapsMissed
CHECK_DEADLOCK FALSE
