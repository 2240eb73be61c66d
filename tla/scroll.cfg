SPECIFICATION GesturesSpec
CONSTANTS
    NumSlots = 3
    MAX_TOUCHPOINTS = 10
    Buttons <- MCOneButton
    Quirks <- MCNone
    MaxFdChanges = 0
    MaxChanges = 1
    Heights <- MCFlat
    Units <- MCFineUnits
    Unit = 2
    MethodChoices <- MCOnOff
    MaxMethodChanges = 1
INVARIANTS
    ScrollHasTwoFingers
    NoMotionDuringScroll
PROPERTIES
    ScrollProtocol
