SPECIFICATION HistorySpec
CONSTANTS
    LEFT = LEFT
    NumSlots = 2
    MAX_TOUCHPOINTS = 10
    Buttons <- MCButtons
    Quirks <- MCNone
    MaxFdChanges = 0
    MaxTime = 3
    Horizon = 2
    INT_MAX = 1000
    Areas <- MCRightArea
    EnterTimeout = 1
    LeaveTimeout = 1
    MaxUnderflow = 1
INVARIANTS
    NoExpiredButtonTimer
    OutsideClicksLeft
    RightAreaClicksRight
PROPERTY
    ClicksAlternate
CHECK_DEADLOCK FALSE
