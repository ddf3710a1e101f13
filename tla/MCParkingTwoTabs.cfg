\* One citizen checks in from two tabs.
CONSTANTS
    u1 = u1
    u2 = u2
    t1 = t1
    t2 = t2
    t3 = t3
    s1 = s1
    s2 = s2
    Users = {u1, u2}
    Tabs = {t1, t2}
    UserOf <- TwoOfOne
    Spots = {s1, s2}
    SessionIds = {i1, i2}
    Staff = {}
    Edits <- AllEdits
    Ticks = {}
    Bookable <- NoBooking
    Watched = {}
    Faults = FALSE
    None = None
SPECIFICATION Spec
INVARIANT
    OneSpotPerUser
CHECK_DEADLOCK FALSE
