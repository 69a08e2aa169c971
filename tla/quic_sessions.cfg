SPECIFICATION FairSpec
CONSTANTS
    Conns = {c1, c2}
    Addrs = {a1, a2}
    Streams = {k1}
    Threshold = 1
    NoSession = NoSession
CHECK_DEADLOCK FALSE
INVARIANTS
    NoOrphanSession
    RecordsMatchSessions
    RepliesFollowRequests
PROPERTIES
    InactiveLeave
