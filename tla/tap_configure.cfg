SPECIFICATION TapSpec
CONSTANTS
    LEFT = LEFT
    NumSlots = 3
    MAX_TOUCHPOINTS = 10
    Buttons <- MCButtons
    Quirks <- MCConfigure
    MaxFdChanges = 0
    MaxTime = 3
    Horizon = 2
    INT_MAX = 1000
    TapTimeout = 1
PROPERTY
    ButtonsAlternate
CHECK_DEADLOCK FALSE
