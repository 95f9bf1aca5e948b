SPECIFICATION Spec
CONSTANTS
    Additional = 4
    Junk = Junk
    SendSize = 32
    RecvSize = 32
    Field = 1
    HeadC2S = 1
    HeadS2S = 2
    SizeMod = 16
    WireCap = 3
    Kinds <- LongKinds
    MaxSent = 1
    MaxConns = 1
    NoPacket = NoPacket
CHECK_DEADLOCK FALSE
INVARIANTS FrameFormat
