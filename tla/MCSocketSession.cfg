CONSTANTS
    None = None
    MaxPending = 3
    IdleBeats = 2
    MaxInbox = 2
SPECIFICATION FairSpec
INVARIANTS TypeOK NoGaps PendingBounded
PROPERTY Ends
CHECK_DEADLOCK FALSE
