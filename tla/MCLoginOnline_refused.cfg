SPECIFICATION Spec
CONSTANTS
    l1 = l1
    l2 = l2
    g1 = g1
    g2 = g2
    a = a
    b = b
    None = None
    Clients = {a}
    Enter = {a}
    Logins = {l1}
    Games = {g1}
    MaxToken = 2
    MaxVersion = 1
    Rejoin = TRUE
    MaxPending = 2
    MaxTimed = 1
SYMMETRY ClientSymmetry
CHECK_DEADLOCK FALSE
PROPERTIES RemovesUsedToken
