SPECIFICATION Spec
CONSTANTS
    None = None
    MaxIndex = 1
    Temp <- MCTemp
    Word <- MCWord
    TimeOfDay <- MCTimeOfDay
    UserOf <- MCUserOf
    Watched <- MCWatched
    MaxChange = 3
INVARIANTS
    TypeOK
    HeldIsTrue
    EventsAreTold
    CodesAreHidden
    SetIsMeant
CHECK_DEADLOCK FALSE
