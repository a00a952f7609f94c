SPECIFICATION FairSpec
CONSTANTS
    a1 = a1
    a2 = a2
    a3 = a3
    n1 = n1
    Animations = {a1, a2, a3}
    Nodes = {n1}
    Root = Root
    NodeOf <- MCNodeOf
    Total <- MCTotal
    Endless = {a3}
    MaxInputs = 4
    MaxElapsed = 2
INVARIANTS TypeOK RunningIsAnimated NotStranded AgreeAtRest
PROPERTIES AllTold
CHECK_DEADLOCK FALSE
