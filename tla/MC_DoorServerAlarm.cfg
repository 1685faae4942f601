\* Subscribers of the alarm.
SPECIFICATION Spec
CONSTANTS
    c1 = c1
    c2 = c2
    w1 = w1
    Client <- Clients
    Reader = "reader"
    Web = {w1}
    NetWrites <- AlarmWrite
    RestWrites <- NoWrites
    Watched <- OnlyAlarm
    InvokeIds = 4
    MaxRequests = 3
    MaxActive = 1
INVARIANTS
    EveryChangeReported
\* the requests of a behaviour are bounded
CHECK_DEADLOCK FALSE
