SPECIFICATION Spec
CONSTANTS
    Sockets = {s1, s2}
    Characters = {c1, c2}
    None = none
    OverlapLogins = TRUE
    KickAnytime = FALSE
    MaxLogins = 2
    MaxPackets = 1
SYMMETRY Symmetry
INVARIANTS OneOnline
