SPECIFICATION ButtonSpec
CONSTANTS
    LEFT = LEFT
    NumSlots = 1
    MAX_TOUCHPOINTS = 10
    Buttons <- MCButtons
    Quirks <- MCNone
    MaxFdChanges = 1
    MaxTime = 3
    Horizon = 3
    INT_MAX = 1000
    Areas <- MCBothAreas
    EnterTimeout = 1
    LeaveTimeout = 1
    MaxUnderflow = 1
INVARIANTS
    TimerMatchesState
    NoStalePressed
    RightNeedsArea
CHECK_DEADLOCK FALSE
