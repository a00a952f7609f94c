CONSTANTS
    t1 = t1
    t2 = t2
    t3 = t3
    srv = srv
    p1 = p1
    Threads = {t1, t2, t3}
    Pids = {p1, srv}
    Proc <- ClientAndServer
    Server = srv
    Seqs = {s1, s2, s3}
    NoPid = NoPid
    MaxAttached = 1
SYMMETRY ThreadSymmetry
SPECIFICATION Spec
INVARIANTS TypeOK LeftOutIsCached
CHECK_DEADLOCK FALSE
