CONSTANTS
    t1 = t1
    t2 = t2
    c1 = c1
    Threads = {t1, t2}
    Configs = {c1}
    NoConfig = NoConfig
    MaxSeq = 1
    MaxQueueSize = 2
    DefaultQueueSize = 2
    MaxListLen = 2
SPECIFICATION Spec
SYMMETRY Symmetry
\* A null pointer ends the process.
CHECK_DEADLOCK FALSE
INVARIANTS TypeOK NoLostWakeup NullNeverHandedOut
