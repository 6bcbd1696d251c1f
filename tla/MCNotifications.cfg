CONSTANTS
    m = m  n = n  x = x  w1 = w1  w2 = w2
    Notes = {m, n, x}
    InApp = {x}
    Marketing = {m}
    Workers = {w1, w2}
    Limit = 2
    MaxAttempts = 2
    MaxCrashes = 1
    MaxResends = 1
SPECIFICATION FairSpec
INVARIANT NTypeOK
INVARIANT OneMailPerMark
INVARIANT DeadLettersExhausted
PROPERTY Settles
PROPERTY ImplementsDelivery
CHECK_DEADLOCK FALSE
