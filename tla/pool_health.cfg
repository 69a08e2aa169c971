SPECIFICATION FairSpec
CONSTANTS
    Servers = {s1, s2}
    Users = {u1}
    Kinds = {"tcp", "quic"}
    NoServer = NoServer
    Strategy = "LeastConnections"
    HealthCheckEnabled = TRUE
    FailureThreshold = 3
    RecoveryThreshold = 2
    CounterCap = 3
    MaxSessions = 1
    MaxProbes = 1
    Orders <- OneOrder
CHECK_DEADLOCK FALSE
INVARIANTS
    FlagMatchesCounters
PROPERTIES
    LatchSpec
    HealthSettles
