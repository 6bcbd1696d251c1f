CONSTANTS
    a1 = a1  a2 = a2  a3 = a3  b1 = b1  p1 = p1  b = b  c = c  d = d  t1 = t1  t2 = t2
    NoSlot = NoSlot  NoBooking = NoBooking  Nobody = Nobody  NoKey = NoKey
    Slots = {a1, a2, a3, b1}
    Bookings = {b, c, d}
    Travellers = {t1, t2}
    Keys = {1}
    Blocks = {p1}
    Scheduled = {a2}
    HireDays = {1}
    TourOf <- MCTourOf
    DayOf <- MCDayOf
    Clashes <- MCClashes
    Covers <- MCCovers
    Inside <- MCInside
    Capacity <- MCCapacity
    PartyOf <- MCPartyOf
    Private = {a1}
    MinGroup <- MCMinGroup
    Deadline <- MCDeadline
    StartsAt <- MCStartsAt
    Notice = 0
    Ttl = 1
    DailyCap = 1
    InstantTours = {"valley"}
    Checkouts = {}
    MaxNow = 2
SPECIFICATION CalSpec
INVARIANT CalTypeOK
INVARIANT SeatsAreParties
INVARIANT PrivateIsOneParty
INVARIANT HeldStartsStay
PROPERTY ImplementsAgenda
SYMMETRY MCSymmetry
CHECK_DEADLOCK FALSE
