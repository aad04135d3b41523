CONSTANTS
    None = None
    MsgIds = {1, 2}
    Limit = 1
    MaxTime = 2
SPECIFICATION Spec
INVARIANT ReplaysEverything
CHECK_DEADLOCK FALSE
