SPECIFICATION Spec
CONSTANTS
    w1 = w1
    w2 = w2
    x1 = x1
    p1 = p1
    p2 = p2
    u1 = u1
    u2 = u2
    c1 = c1
    c2 = c2
    None = None
    Objects = {w1, x1, p1, u1, c1}
    Kind <- KindOfAll
    Order <- PartsFirst
    Timers <- Once
    MaxSn = 5
    Twins = TRUE
INVARIANTS PoolExact PartsFollow NoReuse CallsLive TimersOwned CallbacksOwned
SYMMETRY ObjectSymmetry
