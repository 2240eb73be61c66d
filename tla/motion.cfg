SPECIFICATION Spec
CONSTANTS
    Positions <- MCPositions
    Margin = 1
    MAX_MOTION_HISTORY_SIZE = 4
    MaxConfig = 2
    MaxFdChanges = 1
INVARIANTS
    RingIsRecent
    DeltaIsAverage
    HasLastPoint
    WithinMargin
    JitterIsStill
