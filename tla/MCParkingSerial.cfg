\* Two citizens with one tab each, one tick at a time, staff that never free, and
\* calls that fail.
CONSTANTS
    u1 = u1
    u2 = u2
    t1 = t1
    t2 = t2
    t3 = t3
    s1 = s1
    s2 = s2
    Users = {u1, u2}
    Tabs = {t1, t2}
    UserOf <- OwnTab
    Spots = {s1, s2}
    SessionIds = {i1, i2}
    Staff = {w1}
    Edits <- SafeEdits
    Ticks = {k1}
    Bookable <- NoBooking
    Watched = {}
    Faults = TRUE
    None = None
SPECIFICATION Spec
SYMMETRY PairSymmetry
INVARIANTS
    TypeOK
    OneSpotPerUser
    OneCarPerSpot
    ParkedSpotNotFree
    TickIsHarmless
    OneNoticePerEvent
PROPERTIES
    LotSpec
CHECK_DEADLOCK FALSE
