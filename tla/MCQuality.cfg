\* Two calls, one pending sample of each, two requests of a sender under way,
\* and one of: a request refused, a sample that fails, a further visit.
CONSTANTS
    p1 = p1
    p2 = p2
    Peers = {p1, p2}
    Reports <- McReports
    Gaps <- McGaps
    Null = Null
    Idle = Idle
    MaxPcs = 2
    MaxPending = 1
    MaxSetting = 2
    MaxFaults = 1
SPECIFICATION Spec
INVARIANTS TypeOK MonitorsCanBeStopped EntriesKeepTheirPeer MetricsAreSane AppliedIsSet SettledIsLevel
SYMMETRY Symmetry
\* Nobody has to call.
CHECK_DEADLOCK FALSE
