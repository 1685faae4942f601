\* A user who follows links, types URLs and goes back and forth.
SPECIFICATION LiveSpec
CONSTANTS
    d1 = d1
    d2 = d2
    nan = nan
    none = none
    DeviceId <- TwoDevices
    StrangeId <- OneStrange
    None = none
    MaxHistory = 4
    MaxComponents = 4
    MaxRestarts = 1
INVARIANTS
    TypeOK
    OutletFollowsUrl
    DetailsOfFirstDevice
    RequestAccounted
PROPERTIES
    NoEndlessWait
\* the components of a behaviour are bounded
CHECK_DEADLOCK FALSE
