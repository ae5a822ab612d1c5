SPECIFICATION Spec
CONSTANTS
    Sockets = {s1, s2}
    Characters = {c1, c2}
    None = none
    OverlapLogins = FALSE
    KickAnytime = FALSE
    MaxLogins = 2
    MaxPackets = 1
INVARIANTS TypeOK Owned StateTellsTrue StopEmptiesWorld
PROPERTIES ImplementsPresence LeavesAlone
