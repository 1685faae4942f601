\* Two tabs: one reloads the page, the other one has a strict mode build.
SPECIFICATION LiveSpec
CONSTANTS
    p1 = p1
    p2 = p2
    door = door
    hdm14 = hdm14
    nobody = nobody
    Page <- TwoTabs
    MaxLoads <- OneReload
    Renders <- OneStrict
    Listed <- OneDevice
    SubscriptionId = hdm14
    Device <- OneDoor
    Target <- DoorTarget
    Nobody = nobody
    MaxClicks = 2
    MaxEvents = 1
INVARIANTS
    TypeOK
    PageShowsItsMessages
    ClicksAccounted
    EventsWereAskedFor
PROPERTIES
    ClicksAnswered
\* the clicks and loads of a behaviour are bounded
CHECK_DEADLOCK FALSE
