CONSTANTS
    Threads = {t1, t2}
    Nobody = nobody
SPECIFICATION FairSpec
PROPERTY ReleaseReturns
CHECK_DEADLOCK FALSE
