\* Two of these events: a login, another call, a token or the cookie expires, a
\* request is lost.  No behaviour needs a fifth (id, token) pair.  A page of
\* another origin than the API's: it keeps no cookie of a registration; where it
\* does, a registration is as a login here.
CONSTANTS
    u1 = u1
    u2 = u2
    Users = {u1, u2}
    None = None
    Kept = {"login"}
    MaxRuns = 4
    MaxApis = 1
    MaxEvents = 2
SPECIFICATION SessionFairSpec
INVARIANTS SessionTypeOK IdentitiesAgree SocketOfItsUser RestoresLogin RefreshIsAwaited
    OneLiveSocket LiveIsCurrent StoreIsLive OnlineIsReal Listened
PROPERTIES LogoutDisconnects CheckEnds
\* The page may be idle for ever.
CHECK_DEADLOCK FALSE
