SPECIFICATION Spec
CONSTANTS
    l1 = l1
    l2 = l2
    g1 = g1
    g2 = g2
    a = a
    b = b
    None = None
    Clients = {a, b}
    Enter = {a}
    Logins = {l1, l2}
    Games = {g1, g2}
    MaxToken = 1
    MaxVersion = 2
    Rejoin = FALSE
    MaxPending = 2
    MaxTimed = 1
SYMMETRY ProcessSymmetry
CHECK_DEADLOCK FALSE
INVARIANTS OneLogin FlagFollowsPlayer TokenLetsInOnce
