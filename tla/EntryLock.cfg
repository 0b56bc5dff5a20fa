\* Four clients of one entry: two can read while one writes and one peeks.
CONSTANTS
    Threads = {t1, t2, t3, t4}
    Nobody = nobody
SPECIFICATION Spec
INVARIANTS ReaderCount  WriterWaitsForClients
PROPERTY ImplementsRWLock
\* A writer that waits for a reader keeps the interface the reader needs.
CHECK_DEADLOCK FALSE
