SPECIFICATION FairSpec
CONSTANTS
    MaxZone = 1
    MaxArea = 1
    MaxOutput = 0
    BankSize = 1
    MaxBank = 1
    AreaOf <- MCAreaOf
    ElementLists <- MCElementLists
    MaxChange = 2
    MaxTrouble = 1
INVARIANTS
    TypeOK
    AgreesAtRest
PROPERTIES
    NeverBack
    ArmIsHeeded
    ComesToRest
CHECK_DEADLOCK FALSE
