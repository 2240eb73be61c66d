SPECIFICATION Spec
CONSTANTS
    Devices <- MCNoSlots
    Tools <- MCTripleTap
    MaxFdChanges = 0
INVARIANT
    HistoryNotMissing
CHECK_DEADLOCK FALSE
