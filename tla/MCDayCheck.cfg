CONSTANTS
    x = x  y = y  s1 = s1  t1 = t1  q1 = q1  q2 = q2  q3 = q3  q4 = q4
    NoPlace = NoPlace  NoSession = NoSession  NoTrip = NoTrip  Nowhere = Nowhere
    Places = {x, y}
    Details = {1, 2}
    Blocked <- MCBlocked
    Sessions = {}
    Trips = {t1}
    Requests = {q1}
    MaxStops = 1
    MaxVersions = 1
    MaxPreviews = 0
    MaxAsked = 2
    Tabs = {"ai", "manual"}
SPECIFICATION Spec
INVARIANT CheckIsOfTheDay
SYMMETRY MCSymmetry
CHECK_DEADLOCK FALSE
