\* Two citizens, one spot: one session, one reservation, staff, a tick, a reminder check.
CONSTANTS
    u1 = u1
    u2 = u2
    t1 = t1
    t2 = t2
    s1 = s1
    Users = {u1, u2}
    Tabs = {t1, t2}
    UserOf <- OwnTab
    Spots = {s1}
    SessionIds = {i1}
    Staff = {w1}
    Edits = {"disabled"}
    Ticks = {k1}
    Bookable <- AnyBooking
    Watched = {}
    Faults = FALSE
    None = None
    ReservationIds = {r1}
    MayBook <- OneBooks
    Checks = {c1}
    Lead = 1
    MaxTime = 2
    MaxReminders = 1
    Prompt = FALSE
SPECIFICATION PlatformSpec
INVARIANTS
    ReservationsRespected
    NothingLeftBehind
PROPERTIES
    BookingSpec
    ParkingSpec
CHECK_DEADLOCK FALSE
