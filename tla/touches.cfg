SPECIFICATION Spec
CONSTANTS
    LEFT = LEFT
    MaxFdChanges = 2
    NumSlots <- MCNumSlots
    MAX_TOUCHPOINTS <- MCMaxTouchpoints
    Buttons <- MCButtons
    Quirks <- MCQuirks
INVARIANTS
    TypeOK
    FingersDownCount
    KernelAgreement
    ChangesAreQueued
    SettledWhenIdle
