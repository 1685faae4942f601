\* The frames, the buffers, the refinement of MstpFraming, and the end of every frame.
SPECIFICATION LiveSpec
CONSTANTS
    Octet <- MCOctet
    HeaderCRC <- MCHeaderCRC
    DataCRC <- MCDataCRC
    HeaderBufferLen = 7
    PAYLOAD_BUFFER_LENGTH = 2
INVARIANTS
    TypeOK
    IndicatedFramesAreWhole
    StageInvariant
    FailureContext
PROPERTIES
    FramingSpec
    ReturnsToIdle
\* the receiver stops at the end of the stream and after an exception
CHECK_DEADLOCK FALSE
