CONSTANTS
    a = a  b = b  r1 = r1  s1 = s1  p1 = p1  p2 = p2  Start = 3
    Keys = {a}
    Requests = {r1}
    Slots = {s1}
    SlotOf <- MCSlotOf
    PartyOf <- MCPartyOf
    Capacity <- MCCapacity
    StartsAt <- MCStartsAt
    EndsAt <- MCEndsAt
    FreshUntil <- MCFreshUntil
    InstantSlots = {s1}
    PaidSlots = {s1}
    InitiallyAuthoritative = {s1}
    DraftKeys = {}
    DraftHold = 1
    InstantHold = 1
    RequestHold = 2
    Limit = 100
    MaxNow = 4
    PayKeys = {p1}
    Total = 2
    Windows <- MCWindows
SPECIFICATION PayFairSpec
PROPERTY SettlementNeverLost
