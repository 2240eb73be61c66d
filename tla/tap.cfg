SPECIFICATION TapSpec
CONSTANTS
    LEFT = LEFT
    NumSlots = 4
    MAX_TOUCHPOINTS = 10
    Buttons <- MCButtons
    Quirks <- MCNone
    MaxFdChanges = 0
    MaxTime = 3
    Horizon = 3
    INT_MAX = 1000
    TapTimeout = 1
INVARIANTS
    TapTypeOK
    TapCountsFingers
    NoEventWithoutFinger
    NoExpiredDeadline
    DeadlineWakesHost
CHECK_DEADLOCK FALSE
