SPECIFICATION FairSpec
CONSTANTS
    Address = {a1, a2}
    NoAddress = NoAddress
    System = {s1, s2}
    NoSystem = NoSystem
    Third = 3
    MaxLate = 1
    MaxScan = 2
    MaxAnswer = 3
INVARIANTS
    TypeOK
    EndsInTime
PROPERTIES
    EndsEarlyWhenAnswered
    AsksThreeTimes
    ScanEnds
CHECK_DEADLOCK FALSE
