SPECIFICATION ButtonSpec
CONSTANTS
    LEFT = LEFT
    NumSlots = 1
    MAX_TOUCHPOINTS = 10
    Buttons <- MCButtons
    Quirks <- MCNone
    MaxFdChanges = 0
    MaxTime = 4
    Horizon = 3
    INT_MAX = 1000
    Areas <- MCBothAreas
    EnterTimeout = 1
    LeaveTimeout = 2
    MaxUnderflow = 1
INVARIANTS
    FingersDownNotNegative
CHECK_DEADLOCK FALSE
