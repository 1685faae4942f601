\* Two sessions that come and go, subscribe and are told of events.
SPECIFICATION LiveSpec
CONSTANTS
    s1 = s1
    s2 = s2
    s3 = s3
    door = door
    hdm14 = hdm14
    nobody = nobody
    Device <- OneDoor
    Id <- DoorOnly
    Target <- DoorTarget
    Nobody = nobody
    Session <- TwoSessions
    MaxMessages = 2
    MaxPushes = 1
INVARIANTS
    TypeOK
    RegistryAgrees
    SubscribedIsHeard
PROPERTIES
    ServiceSpec
    SessionsLeave
\* the sessions of a behaviour are bounded
CHECK_DEADLOCK FALSE
