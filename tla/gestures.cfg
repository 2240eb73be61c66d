SPECIFICATION GesturesSpec
CONSTANTS
    NumSlots = 2
    MAX_TOUCHPOINTS = 10
    Buttons <- MCTwoButtons
    Quirks <- MCNone
    MaxFdChanges = 1
    MaxChanges = 1
    Heights <- MCHeights
    Units <- MCWholeUnits
    Unit = 2
    MethodChoices <- MCOff
    MaxMethodChanges = 0
INVARIANTS
    NoPinWithoutButton
    PointerIsOneFinger
PROPERTIES
    ButtonsFollow
    PointerStable
