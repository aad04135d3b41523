CONSTANTS
    alice = alice
    a1 = a1
    a2 = a2
    None = None
    Users = {alice}
    Conns = {a1, a2}
    UserOf <- MCUserOf
    MaxEvents = 1
    MaxFailures = 2
    MaxTimeouts = 2
    MaxCommands = 2
SPECIFICATION FairSpec
INVARIANTS TypeOK SubscriptionsFollow WaitersServed
PROPERTIES Subscribes Drained
CHECK_DEADLOCK FALSE
