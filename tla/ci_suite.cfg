SPECIFICATION SuiteSpec
CONSTANTS
    PortLists <- MCPortLists
    Detects <- MCDetects
    Protocol = "both"
    Flows = 2
    Servers = {"s1"}
    CollectLogs = TRUE
    Troubles = 1
CHECK_DEADLOCK FALSE
INVARIANTS
    EveryLegReported
    VerdictsTrue
    ExitCodeHonest
    FailuresArchived
