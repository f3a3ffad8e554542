CONSTANTS
    Frames <- MCFrames
    MaxChunk = 4
    Room = 3
    MaxMessages = 3
SPECIFICATION WsLiveSpec
\* A behaviour ends when an assertion fails or a freed context is used.
CHECK_DEADLOCK FALSE
INVARIANTS
    MessagesInOrder
    ContextSafe
    WritesInOrder
PROPERTIES
    DataEnds
