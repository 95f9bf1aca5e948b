SPECIFICATION Spec
CONSTANTS
    w1 = w1
    w2 = w2
    x1 = x1
    p1 = p1
    p2 = p2
    u1 = u1
    u2 = u2
    c1 = c1
    c2 = c2
    None = None
    Objects = {w1, x1, c1, c2}
    Kind <- KindOfAll
    Order <- Functions
    Timers <- NoTimers
    MaxSn = 6
    Twins = FALSE
INVARIANTS NoFunctionLeft
SYMMETRY ObjectSymmetry
