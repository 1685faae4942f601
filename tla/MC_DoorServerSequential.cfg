\* One request at a time: commands, toggles and writes of the door and the alarm.
SPECIFICATION Spec
CONSTANTS
    c1 = c1
    c2 = c2
    w1 = w1
    Client <- Clients
    Reader = "reader"
    Web = {w1}
    NetWrites <- CommandsAndAlarm
    RestWrites <- UntypedRequests
    Watched <- OnlyState
    InvokeIds = 4
    MaxRequests = 6
    MaxActive = 1
SYMMETRY Symmetry
INVARIANTS
    StateMatchesLock
PROPERTIES
    ToggleLostForGood
\* the requests of a behaviour are bounded
CHECK_DEADLOCK FALSE
