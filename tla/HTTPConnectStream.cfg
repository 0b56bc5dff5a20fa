\* Two threads fetch two URLs and nothing goes wrong; one purges the cache.
CONSTANTS
    Threads = {t1, t2}
    Urls = {u1, u2}
    Names = {n1, n2}
    Sizes = {11}
    BlockSize = 4
    Null = null
    DUMP_FREQUENCY = 1
    MEGA = 1
    CACHE_TOTAL_SIZE = 20
    MIN_CACHE_TOTAL_SIZE = 5
    MAX_CACHE_ENTRY_SIZE = 12
    CACHE_FOLDER_PCT = 10
    CACHE_GC_PCT = 10
    TotalSizes = {}
    EntrySizes = {}
    Mishaps = {}
    MaxMishaps = 0
    MaxHits = 0
    MaxLeaks = 2
SPECIFICATION FetchSpec
INVARIANT FetchReturnsStream
\* A writer that waits for a reader keeps the interface the reader needs.
CHECK_DEADLOCK FALSE
