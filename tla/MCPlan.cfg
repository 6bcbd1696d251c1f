CONSTANTS
    x = x  y = y  s1 = s1  t1 = t1  q1 = q1  q2 = q2  q3 = q3  q4 = q4
    NoPlace = NoPlace  NoSession = NoSession  NoTrip = NoTrip  Nowhere = Nowhere
    Places = {x, y}
    Details = {1}
    Blocked <- MCBlocked
    Sessions = {s1}
    Trips = {t1}
    Requests = {q1, q2, q3, q4}
    MaxStops = 1
    MaxVersions = 3
    MaxPreviews = 1
    MaxAsked = 0
    Tabs = {}
SPECIFICATION Spec
INVARIANT TypeOK
INVARIANT AcceptIsPreviewed
INVARIANT PendingMeansBusy
SYMMETRY MCSymmetry
CHECK_DEADLOCK FALSE
