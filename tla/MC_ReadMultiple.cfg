\* A client that asks for properties of known and unknown objects in one request.
SPECIFICATION LiveSpec
CONSTANTS
    device = device
    door = door
    stranger = stranger
    Object <- AnyObject
    Key <- AnyKey
    Payload <- AnyPayload
    Properties <- TwoKnown
    Written <- TwoWritten
    Requests <- AnyRequest
INVARIANTS
    TypeOK
    IndexAtObject
    AnswerIsComplete
    FailsOnlyWhereAsked
PROPERTIES
    WalkEnds
\* a request that is answered or dropped is done with
CHECK_DEADLOCK FALSE
