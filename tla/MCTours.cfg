CONSTANTS
    a1 = a1  a2 = a2  a3 = a3  b1 = b1  p1 = p1  b = b  c = c  d = d  t1 = t1  t2 = t2
    NoSlot = NoSlot  NoBooking = NoBooking  Nobody = Nobody  NoKey = NoKey
    Slots = {a1, a2}
    Bookings = {b, c}
    Travellers = {t1}
    Keys = {1, 2}
    MaxTries = 2
    Blocks = {}
    Scheduled = {}
    HireDays = {}
    TourOf <- MCTourOf
    DayOf <- MCDayOf
    Clashes <- MCClashes
    Covers <- MCCovers
    Inside <- MCInside
    Capacity <- MCCapacity
    PartyOf <- MCPartyOf
    Private = {a1}
    MinGroup <- MCMinGroup
    Deadline <- MCDeadline
    StartsAt <- MCStartsAt
    Notice = 0
    Ttl = 1
    DailyCap = 1
    InstantTours = {"valley"}
    Checkouts = {t1}
    MaxNow = 1
SPECIFICATION Spec
INVARIANT TypeOK
INVARIANT SeatsAreParties
INVARIANT OneRowPerRequest
SYMMETRY MCSymmetry
CHECK_DEADLOCK FALSE
