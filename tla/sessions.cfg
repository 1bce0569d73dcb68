\* Habit sessions: tool calls, marks and the user's edits interleave.
SPECIFICATION CalmSpec
CONSTANTS
    Habits = {gym}
    Slots = {mon, tue}
    Fresh = {f1, f2}
    Calls = {c1, c2}
    Marks = {m1, m2}
    MaxAttempts = 4
    MaxEdits = 2
    NoHabit = NoHabit
    NoSlot = NoSlot
    NoCall = NoCall
SYMMETRY Symmetry
CHECK_DEADLOCK FALSE
INVARIANTS OneEventPerCall PlacedOnce CalmMarksSurvive CalmReviewIsFair
