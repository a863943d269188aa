\* Two concurrent handlers and a third request; one failing check; two approvals.
CONSTANTS
    Users = {u1, u2}
    NoUser = NoUser
    Tabs = {t1, t2}
    Workers = {w1, w2}
    MaxRequests = 3
    MaxFaults = 1
    MaxFriendships = 2
SYMMETRY Symmetry
SPECIFICATION Spec
INVARIANTS TypeOK RowsBounded ToldOfStored FriendsWereRequested NoSilentLoss
