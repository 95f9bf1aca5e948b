SPECIFICATION Spec
CONSTANTS
    g1 = g1
    g2 = g2
    s1 = s1
    s2 = s2
    a = a
    b = b
    c = c
    Mgr = Mgr
    None = None
    Worlds = {1}
    Spaces = {s1, s2}
    Games = {g1}
    Registered = {}
    Players = {a}
    Home <- OneHome
    Wish <- OneWish
    MaxSn = 2
    MaxCrash = 0
CHECK_DEADLOCK FALSE
PROPERTIES WaitersEnter
