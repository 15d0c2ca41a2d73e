\* A new root comment and a reply, at once.
CONSTANTS
    a = a
    b = b
    d = d
    Seeds = {a, b, d}
    SeedParent <- MCParent
    SeedLeft <- MCLeft
    SeedRight <- MCRight
    Calls = {k1, k2}
    Workloads <- MCRootAndReply
    NoComment = NoComment
SPECIFICATION Spec
SYMMETRY MCCalls
CHECK_DEADLOCK FALSE
INVARIANT ThreadHoldsReplies
