CONSTANTS
    s = s
    b1 = b1
    b2 = b2
    i1 = i1
    Players = {s, b1, b2}
    Items = {i1}
    Nobody = Nobody
    None = None
    HasItems <- MCHasItems
    Money = 2
    BotMoney = 2
    StartBids = {1}
    Buyouts = {0, 2}
    Prices = {1, 2}
    Deposit = 1
    CutPercent = 50
    Lots = {1}
    Letters = {1, 2, 3}
    Backlog = 1
    MaxCrashes = 1
    Lag = FALSE
SYMMETRY Symmetry
SPECIFICATION Spec
CHECK_DEADLOCK FALSE
INVARIANTS CrashSafe ItemOnce
PROPERTIES FairDeal
