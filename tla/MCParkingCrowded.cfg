\* Three tabs of two citizens over one spot, staff, reservations, no failures:
\* what holds however requests overlap, and what must happen in the end.
CONSTANTS
    u1 = u1
    u2 = u2
    t1 = t1
    t2 = t2
    t3 = t3
    s1 = s1
    s2 = s2
    Users = {u1, u2}
    Tabs = {t1, t2, t3}
    UserOf <- SharedTab
    Spots = {s1}
    SessionIds = {i1, i2}
    Staff = {w1}
    Edits <- BlindEdits
    Ticks = {}
    Bookable <- OneBooking
    Watched = {}
    Faults = FALSE
    None = None
SPECIFICATION FairSpec
INVARIANT
    NoticesAreTrue
PROPERTIES
    SessionsMoveForward
    CheckInAnnounced
    CheckOutAnnounced
CHECK_DEADLOCK FALSE
