CONSTANTS
    alice = alice
    a1 = a1
    a2 = a2
    None = None
    Users = {alice}
    Conns = {a1, a2}
    UserOf <- MCUserOf
    MaxEvents = 1
    MaxFailures = 0
    MaxTimeouts = 0
    MaxCommands = 2
SPECIFICATION Spec
INVARIANT NothingMissed
CHECK_DEADLOCK FALSE
