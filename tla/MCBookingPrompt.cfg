\* Each citizen books a spot of their own, one check a minute, nothing fails.
CONSTANTS
    u1 = u1
    u2 = u2
    t1 = t1
    t2 = t2
    s1 = s1
    s2 = s2
    Users = {u1, u2}
    Tabs = {t1, t2}
    UserOf <- OwnTab
    Spots = {s1, s2}
    ReservationIds = {r1, r2}
    MayBook <- OwnSpot
    Ticks = {k1}
    Lead = 2
    MaxTime = 3
    MaxReminders = 2
    Removals = FALSE
    Prompt = TRUE
    Faults = FALSE
    None = None
SPECIFICATION Spec
SYMMETRY RowSymmetry
INVARIANTS
    TypeOK
    NoDoubleBooking
    OneReminder
    RemindedInTime
CHECK_DEADLOCK FALSE
