\* Free time and what began on the eve of the period.
SPECIFICATION Spec
CONSTANTS
    Day = 4
    Week = 3
    Labels = {"work", "gym", "cool-down", "wake-up"}
    Change = 6
    NoSleep = NoSleep
    NoTime = NoTime
    Asks <- ZoneAsks
CHECK_DEADLOCK FALSE
INVARIANTS FreeFromTheEveOn
