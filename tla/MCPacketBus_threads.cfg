SPECIFICATION Spec
CONSTANTS
    p1 = p1  p2 = p2  p3 = p3
    Packets = {p1, p2}
    GrowBy = 2
    Collectors = {"mysql"}
    Members <- MysqlMembers
    Exclusive = {"mysql"}
    NetThreads = {}
    Msgs <- InnerMsgs
    MaxEmit = 1
    Emitters = {0, 1}
    NoPacket = NoPacket
    NoMsg = NoMsg
SYMMETRY Sym
INVARIANTS TypeOK RefCount NoUseAfterRecycle FreedOnce
PROPERTIES Delivery
