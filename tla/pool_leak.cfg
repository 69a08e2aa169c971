SPECIFICATION Spec
CONSTANTS
    Servers = {s1, s2}
    Users = {u1, u2}
    Kinds = {"tcp"}
    NoServer = NoServer
    Strategy = "LeastConnections"
    HealthCheckEnabled = FALSE
    FailureThreshold = 3
    RecoveryThreshold = 2
    CounterCap = 3
    MaxSessions = 3
    MaxProbes = 1
    Orders <- OneOrder
CHECK_DEADLOCK FALSE
PROPERTIES
    PicksLeastHeld
