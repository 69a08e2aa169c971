SPECIFICATION FairSpec
CONSTANTS
    Users = {1}
    Duration = 1
    ThinkTimes = {0, 1}
    MaxRecords = 2
    MaxEvents = 1
    Kinds = {"tcp", "quic"}
    Horizon = 2
CHECK_DEADLOCK FALSE
INVARIANTS
    SamplesAccount
    ActiveUsersExact
    ReportAdds
PROPERTIES
    RunEnds
