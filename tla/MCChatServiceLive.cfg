CONSTANTS
    alice = alice
    bob = bob
    k1 = k1
    k2 = k2
    text = text
    photo = photo
    long = long
    None = None
    Users = {alice, bob}
    ClientIds = {k1, k2}
    Contents = {text, photo}
    Overlong = {}
    Attached = {photo}
    MsgIds = {1, 2}
    Sessions = {s1, s2}
    Requests <- MCLiveRequests
    MaxTime = 1
    Skew = 0
    MaxFailures = 1
SPECIFICATION FairSpec
PROPERTIES Answered ReceiptsStand
