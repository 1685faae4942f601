\* The state after a command.
SPECIFICATION Spec
CONSTANTS
    c1 = c1
    c2 = c2
    w1 = w1
    Client <- Clients
    Reader = "reader"
    Web = {w1}
    NetWrites <- Commands
    RestWrites <- NoWrites
    Watched <- Nothing
    InvokeIds = 4
    MaxRequests = 3
    MaxActive = 1
INVARIANTS
    StateFollowsCommand
\* the requests of a behaviour are bounded
CHECK_DEADLOCK FALSE
