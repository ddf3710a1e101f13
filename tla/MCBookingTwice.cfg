\* Two citizens book the same spot at once.
CONSTANTS
    u1 = u1
    u2 = u2
    t1 = t1
    t2 = t2
    s1 = s1
    s2 = s2
    Users = {u1, u2}
    Tabs = {t1, t2}
    UserOf <- OwnTab
    Spots = {s1}
    ReservationIds = {r1, r2}
    MayBook <- SameSpot
    Ticks = {}
    Lead = 2
    MaxTime = 3
    MaxReminders = 2
    Removals = FALSE
    Prompt = FALSE
    Faults = FALSE
    None = None
SPECIFICATION Spec
SYMMETRY RowSymmetry
INVARIANTS
    NoDoubleBooking
CHECK_DEADLOCK FALSE
