SPECIFICATION Spec
CONSTANTS
    People = {p1}
    Devices = {d1}
    Slots = {s1, s2}
    Recordings = {rec1}
    PinValues = {"right", "wrong"}
    ChosenPins = {"right"}
    NoPin = "none"
    MAX_PENDING = 2
    MAX_PIN_FAILURES = 1
    MaxCalls = 4
    MaxRequests = 2
    MaxSigned = 2
    MayFail = TRUE
INVARIANTS
    HandedOutFindable
    GuessesLimited
    
PROPERTIES
    WaitingEnds
CHECK_DEADLOCK FALSE
