\* Two clients, two URLs, and two of: a failed read or write, a signal, a crash.
\* Block size 4: bodies of 7 and 11 take 8 and 12; the limit is 20, of which 2
\* for folders, so two bodies together exceed it, and the mark a collection
\* stops at leaves room for one.
CONSTANTS
    Threads = {t1, t2}
    Urls = {u1, u2}
    Names = {n1, n2, n3}
    Sizes = {7, 11}
    BlockSize = 4
    Null = null
    DUMP_FREQUENCY = 1
    MEGA = 1
    CACHE_TOTAL_SIZE = 20
    MIN_CACHE_TOTAL_SIZE = 5
    MAX_CACHE_ENTRY_SIZE = 12
    CACHE_FOLDER_PCT = 10
    CACHE_GC_PCT = 10
    TotalSizes = {}
    EntrySizes = {}
    Mishaps = {"io", "interrupt", "crash"}
    MaxMishaps = 2
    MaxHits = 1
    MaxLeaks = 2
SPECIFICATION Spec
SYMMETRY Symmetry
INVARIANTS  SizeIsAccurate OneEntryPerUrl 
\* A writer that waits for a reader keeps the interface the reader needs.
CHECK_DEADLOCK FALSE
