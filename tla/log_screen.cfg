SPECIFICATION FairSpec
CONSTANTS
    Writers = {w1, w2}
    MaxEntries = 3
    MaxSize = 2
    FileLogging = TRUE
    Visible = 1
    Margin = 1
    MaxHistory = 1
    MaxSamples = 1
CHECK_DEADLOCK FALSE
INVARIANTS
    BufferFollowsFile
    KeysShow
    CacheFresh
PROPERTIES
    ProgramSettles
