CONSTANTS
    g = g
    a1 = a1
    a2 = a2
    a3 = a3
    b2 = b2
    b3 = b3
    x = x
    outside = outside
    None = None
    Malformed = Malformed
    Headers <- MCHeaders
    Prev <- MCPrev
    ValidPow <- MCValidPow
    MaxHeight = 4
    SeedInputs <- MCSeedInputs
    SeedHeights = {1, 2}
    FeeRates = {1, 2}
    MaxBatch = 3
SPECIFICATION Spec
CHECK_DEADLOCK FALSE
INVARIANTS TipStored
