SPECIFICATION Spec
CONSTANTS
    Devices <- MCDevices
    Tools <- MCTools
    MaxFdChanges = 1
INVARIANTS
    FingersDownCount
    NoGhostTouch
    ArrivalsCounted
    SlotsAgree
CHECK_DEADLOCK FALSE
