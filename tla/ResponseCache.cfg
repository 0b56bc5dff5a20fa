\* Two server processes, two results: one whole file fits the cache, two do not.
\* Liveness: no symmetry.
CONSTANTS
    Procs = {p1, p2}
    Names = {n1, n2}
    Files = {1, 2, 3, 4}
    FULL_SIZE = 2
    MAX_CACHE_SIZE = 3
    TARGET_SIZE = 2
    WORD = 8
    Mishaps = {"throw", "exit"}
    MaxMishaps = 1
    MaxRequests = 3
SPECIFICATION Spec
INVARIANTS TypeOK InUseIsNotPurged ReadersMeetNoBuilder IdleHoldsNothing
PROPERTY RequestsEnd
\* The requests come to an end.
CHECK_DEADLOCK FALSE
