SPECIFICATION Spec
CONSTANTS
    Counter = Counter
    User = User
    Output = Output
    Thermostat = Thermostat
    NoKind = NoKind
    Kind = {Output, Thermostat}
    Order <- MCOtherOrder
    MaxUnit = 1
    Stateful = {Output}
    Counters = {}
    Thermostats = {Thermostat}
    Describable <- MCOtherDescribable
    Unnamed = {}
    Secure = FALSE
    Habits = {}
    MaxSession = 2
    MaxLost = 0
    MaxExit = 0
    MaxProgram = 0
    MaxBatch = 2
PROPERTIES
    CompleteMeansRead
CHECK_DEADLOCK FALSE
