SPECIFICATION Spec
CONSTANTS
    mgr = mgr
    db = db
    g1 = g1
    g2 = g2
    None = None
    Procs = {mgr, g1, g2}
    Dials <- Star
    Connectors = {g1, g2}
    Greeted = {mgr}
    Fds = {1, 2}
    Conns = {1, 2, 3}
    Fallible = {mgr}
    MaxDrop = 1
    MaxCrash = 0
    MaxSend = 1
    Immediate = FALSE
CHECK_DEADLOCK FALSE
INVARIANTS NoMisdelivery
