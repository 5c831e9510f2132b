CONSTANTS
    Listeners = {l1}
    Foreign <- OtherTraffic
    Base = 256
    Word = 8
SPECIFICATION PacketsSpec
INVARIANT PacketsTypeOK
PROPERTIES
    FoundByPacket
    FindsUnspoiled
