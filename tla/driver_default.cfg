SPECIFICATION Spec
CONSTANTS
    AxisMin <- MCAxisMin
    AxisMax <- MCAxisMax
    INT_MAX = 5000
    MAX_MOTION_HISTORY_SIZE = 10
    Options <- MCOptions
    Motions <- MCMotions
    Calls <- MCCalls
    MaxPlugs = 2
    MaxSwitches = 4
    MaxScrolls = 3
    MaxOthers = 2
INVARIANT
    DefaultsAccepted
CHECK_DEADLOCK FALSE
