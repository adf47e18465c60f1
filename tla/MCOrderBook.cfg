CONSTANTS
    o1 = o1
    o2 = o2
    o3 = o3
    OrderIds <- MCIds
    SeqModulus = 2
    MaxOrders = 3
    MaxLevels = 2
    Prices = {1,2,3}
    Quantities = {1,2}
    WordModulus = 4
    MaxCount = 2
    Chained <- AllChained
    MaxIllFormed = 2
SYMMETRY Symmetric
SPECIFICATION BookSpec
INVARIANTS LevelsAreOrders BestFirst
CHECK_DEADLOCK FALSE
