SPECIFICATION Spec
CONSTANTS
    Sockets = {s1, s2}
    Characters = {c1, c2}
    None = none
    OverlapLogins = FALSE
    KickAnytime = TRUE
    MaxLogins = 2
    MaxPackets = 1
SYMMETRY Symmetry
INVARIANTS Unloaded
