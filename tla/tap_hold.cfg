SPECIFICATION TapFairSpec
CONSTANTS
    LEFT = LEFT
    NumSlots = 1
    MAX_TOUCHPOINTS = 10
    Buttons <- MCButtons
    Quirks <- MCNone
    MaxFdChanges = 0
    MaxTime = 5
    Horizon = 4
    INT_MAX = 1000
    TapTimeout = 1
PROPERTY
    HoldBecomesDrag
CHECK_DEADLOCK FALSE
