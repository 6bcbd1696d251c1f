CONSTANTS
    a = a  b = b  c = c  r1 = r1  r2 = r2  s1 = s1
    Keys = {a, b, c}
    Requests = {r1, r2}
    Slots = {s1}
    SlotOf <- MCSlotOf
    PartyOf <- MCPartyOf
    Capacity <- MCCapacity
    StartsAt <- MCStartsAt
    EndsAt <- MCEndsAt
    FreshUntil <- MCFreshUntil
    InstantSlots = {s1}
    PaidSlots = {s1}
    InitiallyAuthoritative = {s1}
    DraftKeys = {c}
    DraftHold = 1
    InstantHold = 1
    RequestHold = 2
    Seats = 2
    Limit = 100
    MaxNow = 3
SPECIFICATION AnnSpec
INVARIANT TypeOK
INVARIANT InventoryConsistent
INVARIANT NoSeatSoldTwice
INVARIANT PaidBeforeConfirmed
INVARIANT TravellerTold
INVARIANT ToldOnce
PROPERTY NeverRevived
PROPERTY ImplementsLifecycle
SYMMETRY MCSymmetry
