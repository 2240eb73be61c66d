SPECIFICATION TapFairSpec
CONSTANTS
    LEFT = LEFT
    NumSlots = 1
    MAX_TOUCHPOINTS = 10
    Buttons <- MCButtons
    Quirks <- MCNone
    MaxFdChanges = 0
    MaxTime = 4
    Horizon = 3
    INT_MAX = 1000
    TapTimeout = 0
PROPERTY
    TapIsReleased
CHECK_DEADLOCK FALSE
