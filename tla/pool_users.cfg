SPECIFICATION HSpec
CONSTANTS
    Servers = {s1, s2, s3}
    Users = {u1, u2}
    Kinds = {"tcp", "quic"}
    NoServer = NoServer
    Strategy = "RoundRobin"
    HealthCheckEnabled = FALSE
    FailureThreshold = 1
    RecoveryThreshold = 1
    CounterCap = 1
    MaxSessions = 1
    MaxProbes = 1
    Orders <- OneOrder
CHECK_DEADLOCK FALSE
INVARIANTS
    ConnectionsConserved
    MetricsConserved
    FairRotation
