SPECIFICATION FairSpec
CONSTANTS
    Counter = Counter
    User = User
    Output = Output
    Thermostat = Thermostat
    NoKind = NoKind
    Kind = {Counter, User}
    Order <- MCOrder
    MaxUnit = 1
    Stateful = {}
    Counters = {Counter}
    Thermostats = {}
    Describable <- MCDescribable
    Unnamed <- MCUnnamed
    Secure = TRUE
    Habits = {"ua_on_sync", "drop_on_ua"}
    MaxSession = 2
    MaxLost = 1
    MaxExit = 1
    MaxProgram = 1
    MaxBatch = 2
INVARIANTS
    TypeOK
    OneLogin
    SyncAnnounced
PROPERTIES
    UndisturbedMeansRead
    ChainsEnd
CHECK_DEADLOCK FALSE
