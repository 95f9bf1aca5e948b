SPECIFICATION Spec
CONSTANTS
    mgr = mgr
    db = db
    g1 = g1
    g2 = g2
    None = None
    Procs = {mgr, db, g1}
    Dials <- Both
    Connectors = {g1}
    Greeted = {mgr}
    Fds = {1, 2}
    Conns = {1, 2}
    Fallible = {mgr}
    MaxDrop = 1
    MaxCrash = 1
    MaxSend = 1
    Immediate = FALSE
CHECK_DEADLOCK FALSE
INVARIANTS RouteLeads DialedOnce RegisteredSafe
PROPERTIES Reconnects
