\* Two sessions, three refreshes and a history of one token: the third refresh
\* can come after the history has dropped the token it presents.
CONSTANTS
    Logins = {s1, s2}
    Refreshes = {r1, r2, r3}
    Lifetime = 1
    HistoryLimit = 1
    MaxTime = 1
    MaxFaults = 1
    MaxStatusChanges = 1
SPECIFICATION Spec
SYMMETRY MCRefreshes
CHECK_DEADLOCK FALSE
INVARIANTS ExchangedOnce ReuseEndsSession
PROPERTY RevokedForGood
