\* A check dies between the notification and the flag.
CONSTANTS
    u1 = u1
    u2 = u2
    t1 = t1
    t2 = t2
    s1 = s1
    s2 = s2
    Users = {u1, u2}
    Tabs = {t1, t2}
    UserOf <- OwnTab
    Spots = {s1, s2}
    ReservationIds = {r1, r2}
    MayBook <- OwnSpot
    Ticks = {k1}
    Lead = 2
    MaxTime = 3
    MaxReminders = 2
    Removals = FALSE
    Prompt = FALSE
    Faults = TRUE
    None = None
SPECIFICATION Spec
SYMMETRY RowSymmetry
INVARIANTS
    OneReminder
CHECK_DEADLOCK FALSE
