SPECIFICATION Spec
CONSTANTS
    VN = VN
    SD = SD
    NoCmd = NoCmd
    Cmd = {VN, SD}
    Greeting <- MCRequest
    Serial = FALSE
    RemoteProgramming = TRUE
    Habits <- EveryHabit
    MaxSession = 2
    MaxSend = 1
    MaxCall = 2
    MaxBatch = 1
INVARIANTS
    TypeOK
    NoStrandedMessage
    PausedIsEmpty
    FirstSessionPaced
PROPERTIES
    QuietWhilePaused
    KeepsOrder
CHECK_DEADLOCK FALSE
