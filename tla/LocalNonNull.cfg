CONSTANTS
    t1 = t1
    t2 = t2
    t3 = t3
    srv = srv
    p1 = p1
    Threads = {t3}
    Pids = {srv}
    Proc <- ServerOnly
    Server = srv
    Seqs = {s1, s2, s3}
    NoPid = NoPid
    MaxAttached = 1
SYMMETRY SeqSymmetry
SPECIFICATION Spec
INVARIANTS LocalNonNull
CHECK_DEADLOCK FALSE
