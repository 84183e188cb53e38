SPECIFICATION BufferSpec
CONSTANTS
    kCheapPrepend = 2
    InitialSize = 3
    ExtraSize = 3
    LowWater = 2
    HighWater = 7
    Bytes = {0, 1}
    MaxReadable = 7
    MaxLen = 4
INVARIANTS ContentIsPending RoomToRead
