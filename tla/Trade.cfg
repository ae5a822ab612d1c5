CONSTANTS
    Players = {p1, p2, p3}
    Items = {i1, i2}
    Spells = {enchant}
    NoOne = noOne
    Null = null
    TradedCount = 2
    Room = 1
    MaxMoney = 1
SPECIFICATION Spec
SYMMETRY Symmetry
INVARIANTS TypeOK Paired SoldOnce
PROPERTIES ImplementsBarter ConsentStands
