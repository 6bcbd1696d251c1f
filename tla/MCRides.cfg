CONSTANTS
    q1 = q1  q2 = q2  d1 = d1  d2 = d2  NoDriver = NoDriver  NoQuote = NoQuote
    Requests = {q1}
    Drivers = {d1, d2}
    Prices = {1}
    Doubted = {d1}
    ExpiresAt <- MCExpiresAt
    StartsAt <- MCStartsAt
    ReviewDays = 1
    MaxOpen = 1
    MaxNow = 4
SPECIFICATION Spec
INVARIANT TypeOK
INVARIANT BookedIsOneQuote
PROPERTY ImplementsDeals
PROPERTY NoPeeking
PROPERTY RequestsEnd
CHECK_DEADLOCK FALSE
