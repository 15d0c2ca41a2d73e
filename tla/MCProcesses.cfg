\* Three callers of locks with one fault, three clients of a limiter whose table
\* holds two, two clients of a server.
CONSTANTS
    t1 = t1
    t2 = t2
    t3 = t3
    LockTasks = {t1, t2, t3}
    LockProducts = {1, 2}
    LockTargets <- MCLockTargets
    LockTTL = 2
    LockAttempts = 2
    LockMaxFaults = 1
    Unlocked = Unlocked
    c1 = c1
    c2 = c2
    c3 = c3
    StockCalls = {c1, c2, c3}
    Ids = {"r1", "r2"}
    StockRequests <- MCStockRequests
    FirstStock = 2
    FirstReserved <- MCFirstReserved
    HoldTime = 1
    StockMaxTime = 2
    StockMaxFaults = 1
    NoReservation = NoReservation
    LimitKeys = {k1, k2, k3}
    Window = 2
    Limit = 2
    TableLimit = 2
    LimitMaxTime = 4
    LimitMaxHits = 6
    Clients = {client1, client2}
    Signals = {SIGINT, SIGTERM}
SPECIFICATION MCSpec
CHECK_DEADLOCK FALSE
INVARIANTS LockExclusive NothingLeftLocked SomebodyGetsThrough LimiterExact WorkHasDatabase
PROPERTY ShutdownEnds StockIsLedger
