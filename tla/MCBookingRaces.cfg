\* One citizen with two tabs over one spot, overlapping checks, removals and failures.
CONSTANTS
    u1 = u1
    u2 = u2
    t1 = t1
    t2 = t2
    s1 = s1
    s2 = s2
    Users = {u1}
    Tabs = {t1, t2}
    UserOf <- SameOne
    Spots = {s1}
    ReservationIds = {r1, r2}
    MayBook <- SameSpot
    Ticks = {k1, k2}
    Lead = 1
    MaxTime = 2
    MaxReminders = 1
    Removals = TRUE
    Prompt = FALSE
    Faults = TRUE
    None = None
SPECIFICATION Spec
SYMMETRY PairSymmetry
INVARIANTS
    FlagMeansSent
    CancelNoticeIsTrue
PROPERTIES
    CancelledByThoseAtWork
CHECK_DEADLOCK FALSE
