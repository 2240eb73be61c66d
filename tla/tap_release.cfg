SPECIFICATION TapFairSpec
CONSTANTS
    LEFT = LEFT
    NumSlots = 1
    MAX_TOUCHPOINTS = 10
    Buttons <- MCButtons
    Quirks <- MCNone
    MaxFdChanges = 1
    MaxTime = 5
    Horizon = 3
    INT_MAX = 1000
    TapTimeout = 2
PROPERTY
    TapIsReleased
CHECK_DEADLOCK FALSE
