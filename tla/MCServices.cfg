CONSTANTS
    None = None
    d1 = d1  d2 = d2  e1 = e1  e2 = e2
    u1 = u1  t1 = t1  z1 = z1  z2 = z2  s1 = s1  b1 = b1
    Faults = TRUE
    People = {u1}
    Googlers = {u1}
    Seeded = {}
    Requests = {d1, d2}
    Links = {e1, e2}
    Callers = {d1, d2}
    Limit = 2
    WindowSec = 2
    MaxWindow = 1
    MaxCalls = 3
    Users = {e1, e2}
    Tabs = {t1}
    Slots = {d1, d2}
    TabOf <- MCTabOf
    ZoneIds = {z1, z2}
    SpotIds = {s1}
    Texts = {e1, e2}
    Jobs = {d1, d2}
    Blocks = {b1}
    Tallies <- MCTallies
    MinSpots = 3
    Critical = 90
    Warning = 75
    MaxChanges = 1
    Items = {d1, d2}
    Values = {e1, e2}
    PageSize = 1
    MaxSaves = 1
    Citizens = {d1, d2}
    Places = {s1}
    MaxSent = 2
SPECIFICATION Spec
SYMMETRY MCPairs
INVARIANTS
    TypesOK
    SignedOutStaysOut
    WithinLimit
    StoreIsOneSession
    SpotsHaveZones
    AlertsWereTrue
    StatsAddUp
    TableTrue
    PagesTrue
PROPERTIES
    UsedLinkRefused
    NeverLockedOut
    ShapesStick
    LabelsStick
CHECK_DEADLOCK FALSE
