SPECIFICATION FairSpec
CONSTANTS
    Conns = {1}
    Deadline = 2
    StallTicks = 1
    Pace = 1
    Window = 1
    Faults = {"silence"}
CHECK_DEADLOCK FALSE
PROPERTIES
    RunAlwaysEnds
