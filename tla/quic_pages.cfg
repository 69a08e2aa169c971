SPECIFICATION FairSpec
CONSTANTS
    Pages = 2
    Resources = {0, 3}
    Concurrent = 2
    Limit = 2
CHECK_DEADLOCK FALSE
INVARIANTS
    RequestsAccount
    SummaryHonest
    PercentilesFaithful
PROPERTIES
    SessionEnds
