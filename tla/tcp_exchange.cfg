SPECIFICATION FairSpec
CONSTANTS
    Activities = {"page", "download", "upload"}
    FileSize = 6
    MaxChunk = 3
    Requests = 3
    Window = 3
    Faults = {"silence", "reset"}
CHECK_DEADLOCK FALSE
INVARIANTS
    WholeFile
    CleanExchange
    PacketsAgree
PROPERTIES
    BothEnd
