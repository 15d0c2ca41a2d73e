\* Six calls, room for one product, stock for two units, two attempts.
CONSTANTS
    a1 = a1
    a2 = a2
    a3 = a3
    s1 = s1
    r1 = r1
    p = p
    q = q
    Products = {p, q}
    Calls = {a1, a2, a3, s1, r1, clear}
    Operation <- MCOperation
    Stock <- MCStock
    MaxItems = 1
    MaxAttempts = 2
    NoCart = NoCart
SPECIFICATION Spec
CHECK_DEADLOCK FALSE
INVARIANT ConflictMeansProgress
PROPERTY CartIsAtomic
