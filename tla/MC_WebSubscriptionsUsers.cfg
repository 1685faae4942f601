\* Whether the user is connected, as UserSocketManager.java:72 has it.
SPECIFICATION Spec
CONSTANTS
    s1 = s1
    s2 = s2
    s3 = s3
    door = door
    hdm14 = hdm14
    nobody = nobody
    Device <- OneDoor
    Id <- DoorOnly
    Target <- DoorTarget
    Nobody = nobody
    Session <- ThreeSessions
    MaxMessages = 0
    MaxPushes = 0
SYMMETRY
    Symmetry
INVARIANT
    UsersConnected
CHECK_DEADLOCK FALSE
