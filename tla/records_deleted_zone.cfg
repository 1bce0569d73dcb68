\* A zone is deleted while an update of it is under way.
SPECIFICATION MCSpec
CONSTANTS
    Requests = {r1, r2, r3}
    ZoneIds = {work}
    HabitIds = {gym}
    Sleep = Sleep
    Texts = {label}
    Lists = {list}
    Unset = Unset
    MaxAttempts = 3
    MaxInFlight = 3
    MaxLost = 1
SYMMETRY Symmetry
CHECK_DEADLOCK FALSE
INVARIANTS DeletedZonesStayGone
