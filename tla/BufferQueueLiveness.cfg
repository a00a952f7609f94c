CONSTANTS
    p1 = p1
    q1 = q1
    c1 = c1
    Threads = {p1, q1}
    Producers = {p1}
    Consumers = {q1}
    Configs = {c1}
    NoConfig = NoConfig
    MaxSeq = 2
    MaxQueueSize = 2
    DefaultQueueSize = 2
    MaxListLen = 2
    MaxSignals = 1
    MaxSilent = 1
SPECIFICATION FairCSpec
PROPERTIES FramesReachConsumer FreedEndsWait
