CONSTANTS
    alice = alice
    a1 = a1
    None = None
    Users = {alice}
    Conns = {a1}
    UserOf <- MCUserOf
    Rows = {1, 2}
    Topic <- MCTopic
    Limit = 1
    MaxPushes = 1
    MaxEvents = 2
    MaxFailures = 1
    MaxTimeouts = 0
    MaxCommands = 2
SPECIFICATION DeliveryFairSpec
INVARIANT NoHole
PROPERTY Arrives
CHECK_DEADLOCK FALSE
