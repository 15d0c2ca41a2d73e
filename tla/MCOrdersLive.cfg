SPECIFICATION FairSpec
CONSTANTS
    c1 = c1
    c2 = c2
    c3 = c3
    c4 = c4
    x1 = x1
    x2 = x2
    w1 = w1
    w2 = w2
    r1 = r1
    r2 = r2
    h1 = h1
    h2 = h2
    Products = {1, 2}
    Calls = {c1, c4}
    Cancellers = {x1}
    Workers = {w1}
    Requests = {r1, r2}
    Hashes = {h1, h2}
    RequestOf <- MCRequestOf
    HashOf <- MCHashOf
    Quantity <- MCQuantity
    InitialStock <- MCStock
    StockLevels = {0, 2}
    TTL = 1
    BatchSize = 1
    MaxTime = 1
    MaxFaults = 1
    MaxSellerUpdates = 0
    NoOrder = NoOrder
INVARIANTS
    PendingHoldsItems
PROPERTIES
    DueOrderEnds
    DueStockReturns
    
