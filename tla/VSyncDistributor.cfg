CONSTANTS
    Connections = {c1, c2}
    Rates = {2}
    CountCycle = 2
    Capacity = 1
    HasController = TRUE
    MaxOwed = 2
SYMMETRY ConnectionSymmetry
SPECIFICATION Spec
INVARIANTS TypeOK RequestKept NoUnaskedVSync NoSleepOnRequest
CHECK_DEADLOCK FALSE
