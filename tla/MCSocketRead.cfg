CONSTANTS
    Base = 2
    Word = 8
    Packets <- MCPackets
    MaxFrames = 3
SPECIFICATION ReadSpec
INVARIANTS
    ReadTypeOK
    InSync
    RoomToRead
PROPERTY AllConsumed
