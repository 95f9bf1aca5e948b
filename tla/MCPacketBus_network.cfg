SPECIFICATION Spec
CONSTANTS
    p1 = p1  p2 = p2  p3 = p3
    Packets = {p1, p2}
    GrowBy = 1
    Collectors = {"listen"}
    Members <- ListenMembers
    Exclusive = {}
    NetThreads = {1}
    Msgs <- OuterMsgs
    MaxEmit = 1
    Emitters = {1}
    NoPacket = NoPacket
    NoMsg = NoMsg
INVARIANTS IInv
PROPERTIES DispatchedIsRecycled SentIsRecycled
