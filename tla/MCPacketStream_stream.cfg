SPECIFICATION Spec
CONSTANTS
    Additional = 4
    Junk = Junk
    SendSize = 5
    RecvSize = 6
    Field = 1
    HeadC2S = 1
    HeadS2S = 2
    SizeMod = 16
    WireCap = 4
    Kinds <- StreamKinds
    MaxSent = 2
    MaxConns = 2
    NoPacket = NoPacket
CHECK_DEADLOCK FALSE
INVARIANTS RecvRoom Received
PROPERTIES StreamStep Delivered
