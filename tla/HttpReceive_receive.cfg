SPECIFICATION FairSpec

CONSTANTS
    Messages <- MCAll
    HeaderLen = 2
    HeaderSpace = 8
    SizeSpace = 8
    MaxLosses = 2

INVARIANTS
    FramingKept
    BodyRight
    InSync
    ReceivedIsKept
    RoomToReceive

PROPERTIES
    Returns
