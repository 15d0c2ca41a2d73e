\* Three calls that write: two that race and a third that builds on, or answers,
\* or deletes what they left.  A fourth reads a thread meanwhile.
CONSTANTS
    a = a
    b = b
    d = d
    Seeds = {a, b, d}
    SeedParent <- MCParent
    SeedLeft <- MCLeft
    SeedRight <- MCRight
    Calls = {k1, k2, k3, k4}
    Workloads <- MCOneReads
    NoComment = NoComment
SPECIFICATION Spec
SYMMETRY MCCalls
CHECK_DEADLOCK FALSE
INVARIANT ReplyCountExact
PROPERTIES ThreadRead DeleteTakesReplies
