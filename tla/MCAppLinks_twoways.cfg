SPECIFICATION Spec
CONSTANTS
    mgr = mgr
    db = db
    g1 = g1
    g2 = g2
    None = None
    Procs = {mgr, g1}
    Dials <- Pair
    Connectors = {mgr, g1}
    Greeted = {mgr, g1}
    Fds = {1, 2}
    Conns = {1, 2, 3}
    Fallible = {mgr}
    MaxDrop = 1
    MaxCrash = 0
    MaxSend = 0
    Immediate = FALSE
CHECK_DEADLOCK FALSE
INVARIANTS OneConnection
