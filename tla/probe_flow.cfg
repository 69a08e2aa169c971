SPECIFICATION FairSpec
CONSTANTS
    Conns = {1}
    Deadline = 6
    StallTicks = 1
    Pace = 2
    Window = 1
    Faults = {"silence", "close", "reset", "refuse", "garbage"}
CHECK_DEADLOCK FALSE
INVARIANTS
    StallsReal
    StalledFlowsReported
    CleanPathIsClean
    DisconnectsConserved
    BreaksReported
PROPERTIES
    RunEnds
