SPECIFICATION FairSpec
CONSTANTS
    VN = VN
    SD = SD
    NoCmd = NoCmd
    Cmd = {VN}
    Greeting <- MCRequest
    Serial = FALSE
    RemoteProgramming = FALSE
    Habits = {"drop_on_message"}
    MaxSession = 3
    MaxSend = 1
    MaxCall = 3
    MaxBatch = 2
INVARIANTS
    SingleWriter
    NoLeakedTask
    EventsMatchState
PROPERTIES
    DisconnectIsFinal
    LostLinkReplaced
    KeepsPromise
CHECK_DEADLOCK FALSE
