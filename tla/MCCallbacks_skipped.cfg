SPECIFICATION Spec
CONSTANTS
    HandlerA = HandlerA
    HandlerB = HandlerB
    ObserverA = ObserverA
    ObserverB = ObserverB
    Low = Low
    High = High
    MaxElement = 2
    Value = {Low, High}
    Unset = Unset
    Handler = {HandlerA, HandlerB}
    Store = Store
    Observer = {ObserverA, ObserverB}
    RemovesPassed = TRUE
    MaxMessage = 2
    MaxChange = 4
    MaxAdded = 2
SYMMETRY MCSymmetry
INVARIANTS
    ObserversKnow
CHECK_DEADLOCK FALSE
