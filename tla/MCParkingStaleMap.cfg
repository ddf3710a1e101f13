\* Two citizens, one tab each, and a live map of the only spot.
CONSTANTS
    u1 = u1
    u2 = u2
    t1 = t1
    t2 = t2
    t3 = t3
    s1 = s1
    s2 = s2
    Users = {u1, u2}
    Tabs = {t1, t2}
    UserOf <- OwnTab
    Spots = {s1}
    SessionIds = {i1, i2}
    Staff = {}
    Edits <- AllEdits
    Ticks = {}
    Bookable <- NoBooking
    Watched = {s1}
    Faults = FALSE
    None = None
SPECIFICATION Spec
INVARIANT
    MapIsLive
CHECK_DEADLOCK FALSE
