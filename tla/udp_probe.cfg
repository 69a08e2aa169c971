SPECIFICATION FairSpec
CONSTANTS
    Conns = {0, 1}
    Second = 2
    Duration = 2
    StallTicks = 2
    Interval = 1
    Ramp = 8
    MaxFaults = 2
    Faults = {"bind", "send", "lose", "copy", "hold", "reject", "stray"}
CHECK_DEADLOCK FALSE
INVARIANTS
    ReceiptsConserved
    StallsExplained
    CleanFlowsClean
PROPERTIES
    RunEnds
