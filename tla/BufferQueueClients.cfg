CONSTANTS
    p1 = p1
    q1 = q1
    c1 = c1
    c2 = c2
    Threads = {p1, q1}
    Producers = {p1}
    Consumers = {q1}
    Configs = {c1, c2}
    NoConfig = NoConfig
    MaxSeq = 2
    MaxQueueSize = 2
    DefaultQueueSize = 2
    MaxListLen = 2
    MaxSignals = 2
    MaxSilent = 1
SPECIFICATION CSpec
SYMMETRY ConfigSymmetry
INVARIANT Ownership
PROPERTIES GrowthWithinQueueSize ImplementsExchange
