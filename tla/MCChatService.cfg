CONSTANTS
    alice = alice
    bob = bob
    k1 = k1
    k2 = k2
    text = text
    photo = photo
    long = long
    None = None
    Users = {alice, bob}
    ClientIds = {k1, k2}
    Contents = {text, photo, long}
    Overlong = {long}
    Attached = {photo}
    MsgIds = {1, 2, 3}
    Sessions = {s1, s2}
    Requests <- MCRequests
    MaxTime = 0
    Skew = 0
    MaxFailures = 1
SPECIFICATION Spec
INVARIANTS TypeOK AckedIsDurable ConflictsAreReal AnnouncedExactly ReadCoversSeen StampsMatchStatus HasConversation OnlyReadersDeadlock
PROPERTIES LedgerSpec Advances
SYMMETRY Symmetry
