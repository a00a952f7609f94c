CONSTANTS
    Connections = {c1, c2}
    Rates = {}
    CountCycle = 2
    Capacity = 1
    HasController = TRUE
    MaxOwed = 1
SPECIFICATION FairSpec
PROPERTIES RequestAnswered ThreadJoins
CHECK_DEADLOCK FALSE
