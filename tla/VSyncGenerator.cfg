CONSTANTS
    Callbacks = {a, b}
    Offsets = {0, 2}
    Modes <- MCModes
    ErrorThreshold = 2
    MaxDelay = 2
    DelayWeight = 4
    MaxTime = 14
SYMMETRY CallbackSymmetry
SPECIFICATION Spec
INVARIANTS TypeOK ModeSeen
PROPERTIES VSyncsInOrder
CHECK_DEADLOCK FALSE
