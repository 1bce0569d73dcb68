\* Every small constellation of zones, nights, overrides and events.
SPECIFICATION Spec
CONSTANTS
    Day = 4
    Week = 3
    Labels = {"work", "gym", "cool-down", "wake-up"}
    Change = 6
    NoSleep = NoSleep
    NoTime = NoTime
    Asks <- MCAsks
CHECK_DEADLOCK FALSE
INVARIANTS FreeIsTheRest SlotsFit FreeIsOpen CollisionsMatchFree
