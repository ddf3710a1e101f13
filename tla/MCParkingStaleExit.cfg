\* One citizen checks out from two tabs while another waits for the spot.
CONSTANTS
    u1 = u1
    u2 = u2
    t1 = t1
    t2 = t2
    t3 = t3
    s1 = s1
    s2 = s2
    Users = {u1, u2}
    Tabs = {t1, t2, t3}
    UserOf <- SharedTab
    Spots = {s1}
    SessionIds = {i1, i2, i3}
    Staff = {}
    Edits <- AllEdits
    Ticks = {}
    Bookable <- NoBooking
    Watched = {}
    Faults = FALSE
    None = None
SPECIFICATION Spec
INVARIANT
    OneCarPerSpot
CHECK_DEADLOCK FALSE
