SPECIFICATION GesturesSpec
CONSTANTS
    NumSlots = 2
    MAX_TOUCHPOINTS = 10
    Buttons <- MCOneButton
    Quirks <- MCNone
    MaxFdChanges = 0
    MaxChanges = 1
    Heights <- MCHeights
    Units <- MCUnits
    Unit = 2
    MethodChoices <- MCVertical
    MaxMethodChanges = 0
INVARIANT PointerIsLive
