\* Two requests at a time, subscriptions that come and go.
SPECIFICATION LiveSpec
CONSTANTS
    c1 = c1
    c2 = c2
    w1 = w1
    Client <- Clients
    Reader = "reader"
    Web = {w1}
    NetWrites <- StateAndDoor
    RestWrites <- RestRequests
    Watched <- DoorState
    InvokeIds = 4
    MaxRequests = 4
    MaxActive = 2
INVARIANTS
    TypeOK
    ChangesReported
PROPERTIES
    RequestsFinish
    WorkRunsOut
\* the requests of a behaviour are bounded
CHECK_DEADLOCK FALSE
