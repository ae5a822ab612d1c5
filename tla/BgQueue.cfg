CONSTANTS
    a1 = a1
    h1 = h1
    Ali = {a1}
    Horde = {h1}
    MinPerTeam = 1
    MaxPerTeam = 1
    MaxGames = 1
    MaxJoins <- MCMaxJoins
    MaxAbsences = 1
    Wrap = 4
    NotQueued = NotQueued
    Backlog = 1
    Hasty = {h1}
SPECIFICATION Spec
CHECK_DEADLOCK FALSE
INVARIANTS SlotAgrees OffersStand EndedNotOffered InvitationExpires
PROPERTIES ImplementsMatchmaker
