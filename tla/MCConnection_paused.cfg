SPECIFICATION FairSpec
CONSTANTS
    VN = VN
    SD = SD
    NoCmd = NoCmd
    Cmd = {VN}
    Greeting <- MCRequest
    Serial = FALSE
    RemoteProgramming = TRUE
    Habits = {}
    MaxSession = 2
    MaxSend = 0
    MaxCall = 2
    MaxBatch = 1
PROPERTIES
    LostLinkReplaced
CHECK_DEADLOCK FALSE
