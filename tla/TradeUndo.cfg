CONSTANTS
    Players = {p1, p2}
    Items = {i1}
    Spells = {}
    NoOne = noOne
    Null = null
    TradedCount = 1
    Room = 1
    MaxMoney = 1
SPECIFICATION Spec
INVARIANTS UndoneAtProblems
