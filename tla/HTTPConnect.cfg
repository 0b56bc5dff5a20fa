\* Two threads fetch one URL; one read or write fails.
\* Bodies of 7 and 11 take 8 and 12; the limit is 12, of which 1 for folders, so a
\* body of 12 is collected as soon as nobody reads it.
CONSTANTS
    Threads = {t1, t2}
    Urls = {u1}
    Names = {n1, n2}
    Sizes = {7, 11}
    BlockSize = 4
    Null = null
    DUMP_FREQUENCY = 1
    MEGA = 1
    CACHE_TOTAL_SIZE = 12
    MIN_CACHE_TOTAL_SIZE = 5
    MAX_CACHE_ENTRY_SIZE = 12
    CACHE_FOLDER_PCT = 10
    CACHE_GC_PCT = 10
    TotalSizes = {}
    EntrySizes = {}
    Mishaps = {"io"}
    MaxMishaps = 1
    MaxHits = 0
    MaxLeaks = 2
SPECIFICATION FetchSpec
INVARIANT StagesMatchCache
PROPERTIES FetchEnds CollectionEnds InterfaceGivenBack
\* A writer that waits for a reader keeps the interface the reader needs.
CHECK_DEADLOCK FALSE
