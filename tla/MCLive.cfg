CONSTANTS
    None = None
    Faults = TRUE
    Staff = {a, b}
    FirstAdmins = {a}
    Given = {"citizen", "admin"}
    MapSpots = {p1, p2}
    Colours = {c1, c2}
    MaxWire = 2
    Readers = {r1, r2}
    NoteIds = {n1, n2}
SPECIFICATION Spec
INVARIANTS
    AuthorityDated
    ScreenTrue
    OwnRoomOnly
    BadgeTrue
PROPERTIES
    DemotionBites
CHECK_DEADLOCK FALSE
