SPECIFICATION Spec
CONSTANTS
    VN = VN
    SD = SD
    NoCmd = NoCmd
    Cmd = {VN}
    Greeting <- MCRequest
    Serial = FALSE
    RemoteProgramming = FALSE
    Habits = {"reconnect"}
    MaxSession = 3
    MaxSend = 0
    MaxCall = 1
    MaxBatch = 1
INVARIANTS
    SingleWriter
CHECK_DEADLOCK FALSE
