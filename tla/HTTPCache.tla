----------------------------- MODULE HTTPCache -----------------------------
(***************************************************************************)
(* The client-side HTTP cache (class HTTPCache): its public methods, the   *)
(* interface mutex they all hold from first to last line, the garbage      *)
(* collector, the interrupt handler and the restart from the index file.   *)
(*                                                                         *)
(* At most one thread is in a method, so a method that neither waits nor   *)
(* writes more than one file is one action.  cache_response and            *)
(* update_response, which do, take one action per thing a crash, a signal  *)
(* or a failure can come between.                                          *)
(*                                                                         *)
(* A client holds at most one response at a time, and holds none when it   *)
(* calls a method that waits for readers (as HTTPConnect does).            *)
(***************************************************************************)
EXTENDS HTTPCacheTable, Sequences

CONSTANTS
    Threads,
    DUMP_FREQUENCY, MEGA, CACHE_TOTAL_SIZE, MIN_CACHE_TOTAL_SIZE,
    MAX_CACHE_ENTRY_SIZE, CACHE_FOLDER_PCT, CACHE_GC_PCT,
    TotalSizes,     \* arguments of set_max_size
    EntrySizes,     \* arguments of set_max_entry_size
    Mishaps,        \* what may go wrong: "io", "release", "interrupt", "crash"
    MaxMishaps,     \* bound: how often, in a behaviour
    MaxLeaks        \* bound: a get does not throw with that many readers counted

ASSUME CacheAssumption ==
    /\ IsFiniteSet(Threads) /\ Null \notin Threads
    /\ {DUMP_FREQUENCY, MEGA, CACHE_TOTAL_SIZE, MIN_CACHE_TOTAL_SIZE,
        MAX_CACHE_ENTRY_SIZE, MaxMishaps, MaxLeaks} \subseteq Nat
    /\ {CACHE_FOLDER_PCT, CACHE_GC_PCT} \subseteq Nat \ {0}
    /\ TotalSizes \subseteq Nat /\ EntrySizes \subseteq Nat

VARIABLES
    up,             \* the process runs and has a cache
    d_cache_mutex,  \* the thread in a public method, or Null
    step,           \* where in the method it is
    job,            \* what the method works on
    d_open_files,   \* the stack of files being written
    limits,         \* d_total_size, d_folder_size, d_gc_buffer, d_max_entry_size
    mishaps         \* how many mishaps so far

callVars == <<d_cache_mutex, step, job>>
vars == <<tableVars, diskVars, callVars, up, d_open_files, limits, mishaps>>

NoJob == [url |-> Null, name |-> Null, line |-> Null, hits |-> 0]

(* The constructor's limits.  MEGA is missing from the second and third.   *)
DefaultLimits ==
    [total  |-> CACHE_TOTAL_SIZE * MEGA,
     folder |-> CACHE_TOTAL_SIZE \div CACHE_FOLDER_PCT,
     buffer |-> CACHE_TOTAL_SIZE \div CACHE_GC_PCT,
     entry  |-> MAX_CACHE_ENTRY_SIZE * MEGA]

Init ==
    /\ up = TRUE
    /\ d_cache_table = Empty /\ d_current_size = 0 /\ d_new_entries = 0
    /\ d_locked_entries = Empty
    /\ body = [n \in Names |-> "none"] /\ meta = [n \in Names |-> "none"]
    /\ index = Empty
    /\ d_cache_mutex = Null /\ step = "out" /\ job = NoJob
    /\ d_open_files = << >>
    /\ limits = DefaultLimits
    /\ mishaps = 0

Mishap(kind) ==
    /\ kind \in Mishaps /\ mishaps < MaxMishaps
    /\ mishaps' = mishaps + 1

Push(file) == d_open_files' = Append(d_open_files, file)
Pop == d_open_files' = SubSeq(d_open_files, 1, Len(d_open_files) - 1)

-----------------------------------------------------------------------------
(* Entering and leaving a method.                                          *)

Holds(t) == t \in DOMAIN d_locked_entries
Free == up /\ d_cache_mutex = Null
At(t, s) == up /\ d_cache_mutex = t /\ step = s

Enter(t, s, u) ==
    /\ d_cache_mutex' = t
    /\ step' = s
    /\ job' = [NoJob EXCEPT !.url = u]

ReturnLocked == UNCHANGED d_cache_mutex /\ step' = "out" /\ job' = NoJob
Return == d_cache_mutex' = Null /\ step' = "out" /\ job' = NoJob

Continue(s) == step' = s /\ UNCHANGED <<d_cache_mutex, job>>

(* A method that waits for a lock nobody will ever unlock keeps the        *)
(* interface.                                                              *)
Hang(t, u) ==
    /\ \E n \in EntriesOf(u) : ~CanReadLock(d_cache_table[n])
    /\ Enter(t, "hung", u)
    /\ UNCHANGED <<tableVars, diskVars, up, d_open_files, limits, mishaps>>

-----------------------------------------------------------------------------
(* Garbage collection.  d_current_size is compared with two marks.         *)

Above(size) == size + limits.folder > limits.total                     \* startGC
Below(size) == size + limits.folder < limits.total - limits.buffer     \* stopGC

SizeWithout(S) == Saturated(d_current_size - Freed(S))

Collect(S) ==
    /\ RemoveEntries(S)
    /\ UNCHANGED <<d_new_entries, d_locked_entries, index, up, d_open_files,
                   limits, mishaps>>

expired_gc(t) ==
    /\ At(t, "expired_gc")
    /\ \E S \in SUBSET Expired : Collect(S)
    /\ Continue("too_big_gc")

NoMoreGC(size) == "dump"
AfterTooBig(size) == IF Above(size) THEN "hits_gc" ELSE "dump"

too_big_gc(t) ==
    /\ At(t, "too_big_gc")
    /\ Collect(IF Above(d_current_size) THEN BiggerThan(limits.entry) ELSE {})
    /\ Continue(AfterTooBig(d_current_size'))

(* One turn of the loop: delete_by_hits(hits), hits++.  Past MaxHits no    *)
(* turn changes anything, and the loop spins until an int overflows.       *)
NextHits(hits) == IF hits < MaxHits THEN hits + 1 ELSE hits

hits_gc(t) ==
    /\ At(t, "hits_gc")
    /\ ~Below(d_current_size)
    /\ Collect(WithHits(job.hits))
    /\ job' = [job EXCEPT !.hits = NextHits(@)]
    /\ UNCHANGED <<d_cache_mutex, step>>

StopGC(t) ==
    /\ At(t, "hits_gc")
    /\ Below(d_current_size)
    /\ Continue("dump")
    /\ UNCHANGED <<tableVars, diskVars, up, d_open_files, limits, mishaps>>

(* cache_index_write truncates the file, then writes the lines.  A crash   *)
(* between the two is taken to leave no line.                              *)
OpenIndex(t) ==
    /\ At(t, "dump")
    /\ index' = Empty
    /\ Continue("write_index")
    /\ UNCHANGED <<tableVars, body, meta, up, d_open_files, limits, mishaps>>

cache_index_write(t) ==
    /\ At(t, "write_index")
    /\ index' = IndexLines
    /\ d_new_entries' = 0
    /\ Return
    /\ UNCHANGED <<d_cache_table, d_current_size, d_locked_entries, body, meta,
                   up, d_open_files, limits, mishaps>>

(* The file cannot be opened: the method throws after its work is done.    *)
IndexFails(t) ==
    /\ At(t, "dump") /\ Mishap("io")
    /\ Return
    /\ UNCHANGED <<tableVars, diskVars, up, d_open_files, limits>>

-----------------------------------------------------------------------------
(* cache_response: drop the old entry, make the body file and the .meta    *)
(* file, add the entry; every DUMP_FREQUENCY entries collect garbage and   *)
(* write the index.                                                        *)

cache_response(t, u) ==
    /\ Free /\ ~Holds(t)
    /\ Enter(t, "remove", u)
    /\ UNCHANGED <<tableVars, diskVars, up, d_open_files, limits, mishaps>>

(* Waits, with the interface, until nobody reads the old entry.            *)
remove_entry_from_cache_table(t) ==
    /\ At(t, "remove")
    /\ \A n \in Replaced(job.url) : CanWriteLock(d_cache_table[n])
    /\ RemoveEntries(Replaced(job.url))
    /\ Continue("create")
    /\ UNCHANGED <<d_new_entries, d_locked_entries, index, up, d_open_files,
                   limits, mishaps>>

(* parse_headers says no-cache, or mkstemp fails: the old entry is gone.   *)
NotCached(t) ==
    /\ At(t, "create")
    /\ Return
    /\ UNCHANGED <<tableVars, diskVars, up, d_open_files, limits, mishaps>>

create_location(t) ==
    /\ At(t, "create")
    /\ \E n \in FreshNames, size \in Sizes, stale \in BOOLEAN :
        /\ body' = [body EXCEPT ![n] = "partial"]
        /\ job' = [job EXCEPT !.name = n, !.line =
                      [url |-> job.url, size |-> size, hits |-> 0, stale |-> stale]]
    /\ step' = "open_body"
    /\ UNCHANGED <<d_cache_mutex, tableVars, meta, index, up, d_open_files,
                   limits, mishaps>>

OpenBody(t) ==
    /\ At(t, "open_body")
    /\ Push(<<"body", job.name>>)
    /\ Continue("write_body")
    /\ UNCHANGED <<tableVars, diskVars, up, limits, mishaps>>

Truncated == "partial"
(* What the copy leaves when neither stream is in error.                   *)
Transferred == "full"

write_body(t) ==
    /\ At(t, "write_body")
    /\ body' = [body EXCEPT ![job.name] = Transferred]
    /\ Pop
    /\ Continue("open_meta")
    /\ UNCHANGED <<tableVars, meta, index, up, limits, mishaps>>

(* The body is unlinked, but stays on d_open_files.                        *)
BodyFails(t) ==
    /\ At(t, "write_body") /\ Mishap("io")
    /\ body' = Unlink(body, {job.name})
    /\ Return
    /\ UNCHANGED <<tableVars, meta, index, up, d_open_files, limits>>

OpenMeta(t) ==
    /\ At(t, "open_meta")
    /\ Push(<<"meta", job.name>>)
    /\ meta' = [meta EXCEPT ![job.name] = "partial"]
    /\ Continue("write_meta")
    /\ UNCHANGED <<tableVars, body, index, up, limits, mishaps>>

write_metadata(t) ==
    /\ At(t, "write_meta")
    /\ meta' = [meta EXCEPT ![job.name] = "full"]
    /\ Pop
    /\ Continue("add")
    /\ UNCHANGED <<tableVars, body, index, up, limits, mishaps>>

(* Nobody unlinks the two files.                                           *)
MetaFails(t) ==
    /\ At(t, "write_meta") /\ Mishap("io")
    /\ Return
    /\ UNCHANGED <<tableVars, diskVars, up, d_open_files, limits>>

NeverDump(n) == FALSE
DumpDue(n) == n > DUMP_FREQUENCY

Add(t) ==
    /\ At(t, "add")
    /\ add_entry_to_cache_table(job.name, job.line)
    /\ IF DumpDue(d_new_entries')
       THEN Continue(IF Above(d_current_size') THEN "expired_gc" ELSE "dump")
       ELSE Return
    /\ UNCHANGED <<d_locked_entries, diskVars, up, d_open_files, limits, mishaps>>

-----------------------------------------------------------------------------
(* update_response: merge new headers into the .meta file, under the       *)
(* entry's write lock.                                                     *)

update_response(t, u) ==
    /\ Free /\ ~Holds(t)
    /\ EntriesOf(u) # {}        \* else it throws, and nothing has changed
    /\ Enter(t, "write_lock", u)
    /\ UNCHANGED <<tableVars, diskVars, up, d_open_files, limits, mishaps>>

(* Waits, with the interface, until nobody reads the entry.  parse_headers *)
(* and calculate_time settle whether the entry is stale.                   *)
get_write_locked_entry(t) ==
    /\ At(t, "write_lock")
    /\ \E n \in EntriesOf(job.url), stale \in BOOLEAN :
        /\ CanWriteLock(d_cache_table[n])
        /\ d_cache_table' = [d_cache_table EXCEPT ![n].writing = TRUE, ![n].stale = stale]
        /\ job' = [job EXCEPT !.name = n]
    /\ step' = "merge"
    /\ UNCHANGED <<d_cache_mutex, d_current_size, d_new_entries, d_locked_entries,
                   diskVars, up, d_open_files, limits, mishaps>>

(* read_metadata, then the start of write_metadata.                        *)
MergeMeta(t) ==
    /\ At(t, "merge")
    /\ meta[job.name] # "none"
    /\ Push(<<"meta", job.name>>)
    /\ meta' = [meta EXCEPT ![job.name] = "partial"]
    /\ Continue("rewrite")
    /\ UNCHANGED <<tableVars, body, index, up, limits, mishaps>>

RewriteMeta(t) ==
    /\ At(t, "rewrite")
    /\ meta' = [meta EXCEPT ![job.name] = "full"]
    /\ Pop
    /\ d_cache_table' = [d_cache_table EXCEPT ![job.name].writing = FALSE]
    /\ Return
    /\ UNCHANGED <<d_current_size, d_new_entries, d_locked_entries, body, index,
                   up, limits, mishaps>>

(* The handler calls unlock_read_response on an entry locked for writing:  *)
(* the count drops to -1 and both mutexes stay locked.                     *)
UpdateThrows ==
    /\ d_cache_table' = [d_cache_table EXCEPT ![job.name].readers = @ - 1]
    /\ Return
    /\ UNCHANGED <<d_current_size, d_new_entries, d_locked_entries, diskVars,
                   up, d_open_files, limits>>

NoMetaToMerge(t) ==
    /\ At(t, "merge") /\ meta[job.name] = "none"
    /\ UpdateThrows
    /\ UNCHANGED mishaps

UpdateFails(t) ==
    /\ At(t, "merge") \/ At(t, "rewrite")
    /\ Mishap("io")
    /\ UpdateThrows

-----------------------------------------------------------------------------
(* get_cached_response and release_cached_response.                        *)

HasFiles(n) == body[n] # "none" /\ meta[n] # "none"

get_cached_response(t, u) ==
    /\ Free /\ ~Holds(t)
    /\ \E n \in EntriesOf(u) :
        /\ CanReadLock(d_cache_table[n]) /\ HasFiles(n)
        /\ bind_entry_to_data(n, t)
    /\ UNCHANGED <<d_current_size, d_new_entries, diskVars, callVars, up,
                   d_open_files, limits, mishaps>>

(* read_metadata or open_body throws.  The handler unlocks the interface,  *)
(* not the entry.                                                          *)
GetThrows(n) ==
    /\ CanReadLock(d_cache_table[n]) /\ d_cache_table[n].readers < MaxLeaks
    /\ d_cache_table' = [d_cache_table EXCEPT ![n].readers = @ + 1]
    /\ UNCHANGED <<d_current_size, d_new_entries, d_locked_entries, diskVars,
                   callVars, up, d_open_files, limits>>

GetWithoutFiles(t, u) ==
    /\ Free /\ ~Holds(t)
    /\ \E n \in EntriesOf(u) : ~HasFiles(n) /\ GetThrows(n)
    /\ UNCHANGED mishaps

GetFails(t, u) ==
    /\ Free /\ ~Holds(t) /\ Mishap("io")
    /\ \E n \in EntriesOf(u) : HasFiles(n) /\ GetThrows(n)

release_cached_response(t) ==
    /\ Free /\ Holds(t)
    /\ uncouple_entry_from_data(t)
    /\ UNCHANGED <<d_current_size, d_new_entries, diskVars, callVars, up,
                   d_open_files, limits, mishaps>>

(* A stream that is not in the cache, or was already released: an Error.   *)
(* All such streams are Null here.                                         *)
ReleaseUnknown(t) ==
    /\ Free /\ ~Holds(t) /\ "release" \in Mishaps
    /\ uncouple_unknown(Null)
    /\ UNCHANGED <<d_cache_table, d_current_size, d_new_entries, diskVars,
                   callVars, up, d_open_files, limits, mishaps>>

-----------------------------------------------------------------------------
(* Methods that only look: is_url_valid and get_conditional_request_headers*)
(* lock the entry for reading and unlock it before they return.            *)

LookAtEntry(t, u) ==
    /\ Free
    /\ \A n \in EntriesOf(u) : CanReadLock(d_cache_table[n])
    /\ UNCHANGED vars

(* A look or a get that finds the entry's write lock locked for good.      *)
LookHangs(t, u) == Free /\ Hang(t, u)

-----------------------------------------------------------------------------
(* Administration.                                                         *)

purge_cache(t) ==
    /\ Free /\ ~is_locked_read_responses
    /\ \A n \in Bound : ~InUse(d_cache_table[n])
    /\ delete_all_entries
    /\ UNCHANGED <<d_locked_entries, callVars, up, d_open_files, limits, mishaps>>

(* remove_cache_entry throws at the first entry with readers; the ones     *)
(* before it are gone, the index file is as it was.                        *)
PurgeThrows(t) ==
    /\ Free /\ ~is_locked_read_responses
    /\ \E n \in Bound : InUse(d_cache_table[n])
    /\ \E S \in SUBSET Deletable : Collect(S)
    /\ UNCHANGED callVars

SettingCollects(t, smaller) ==
    IF smaller /\ d_current_size + limits'.folder > limits'.total
    THEN Enter(t, "expired_gc", Null)
    ELSE UNCHANGED callVars

set_max_size(t, megas) ==
    LET total == (IF megas < MIN_CACHE_TOTAL_SIZE THEN MIN_CACHE_TOTAL_SIZE
                                                  ELSE megas) * MEGA
    IN /\ Free /\ ~Holds(t)
       /\ limits' = [limits EXCEPT !.total = total,
                                   !.folder = total \div CACHE_FOLDER_PCT,
                                   !.buffer = total \div CACHE_GC_PCT]
       /\ SettingCollects(t, total < limits.total)
       /\ UNCHANGED <<tableVars, diskVars, up, d_open_files, mishaps>>

set_max_entry_size(t, megas) ==
    /\ Free /\ ~Holds(t)
    /\ megas * MEGA > 0 /\ megas * MEGA < limits.total - limits.folder
    /\ limits' = [limits EXCEPT !.entry = megas * MEGA]
    /\ SettingCollects(t, megas * MEGA < limits.entry)
    /\ UNCHANGED <<tableVars, diskVars, up, d_open_files, mishaps>>

(* Time makes an entry stale.                                              *)
BecomeStale(n) ==
    /\ up /\ n \in Bound /\ ~d_cache_table[n].stale
    /\ d_cache_table' = [d_cache_table EXCEPT ![n].stale = TRUE]
    /\ UNCHANGED <<d_current_size, d_new_entries, d_locked_entries, diskVars,
                   callVars, up, d_open_files, limits, mishaps>>

-----------------------------------------------------------------------------
(* The end of the process and the next one.                                *)

(* What perform_garbage_collection removes, all at once, when S is what    *)
(* expired_gc removes: the loop of hits_gc stops at the first hit count    *)
(* that brings the cache below the mark.                                   *)
Removals(S) ==
    LET big  == IF Above(SizeWithout(S)) THEN S \cup BiggerThan(limits.entry) ELSE S
        ends == {h \in -1 .. MaxHits : Below(SizeWithout(big \cup WithHits(h)))}
    IN IF Above(SizeWithout(big))
       THEN {big \cup WithHits(h) : h \in {e \in ends : \A f \in ends : e <= f}}
       ELSE {big}

ForgetProcess ==
    /\ up' = FALSE
    /\ d_cache_table' = Empty /\ d_current_size' = 0 /\ d_new_entries' = 0
    /\ d_locked_entries' = Empty
    /\ Return
    /\ d_open_files' = << >>
    /\ limits' = DefaultLimits

Unlinked(f, kind, files) ==
    Unlink(f, {n \in Names : <<kind, n>> \in files})

(* ~HTTPCache: collect garbage if the cache is too big and write the index.*)
(* It does not take the interface mutex.  The case in which the loop of    *)
(* hits_gc never ends is left out: the process then hangs as it exits.     *)
Destroy(unlinked) ==
    /\ \E S \in IF Above(d_current_size)
                 THEN UNION {Removals(E) : E \in SUBSET Expired} ELSE {{}} :
        /\ index' = [n \in Bound \ S |-> LineOf(d_cache_table[n])]
        /\ body' = Unlink(Unlinked(body, "body", unlinked), S)
        /\ meta' = Unlink(Unlinked(meta, "meta", unlinked), S)
    /\ ForgetProcess

(* exit() with no method running: atexit calls delete_instance.            *)
Exit == Free /\ Destroy({}) /\ UNCHANGED mishaps

OpenFiles(files) == {files[i] : i \in DOMAIN files}

(* SIGINT, between any two steps: HTTPCacheInterruptHandler unlinks the    *)
(* open files and deletes the instance, and the dispatcher then throws.    *)
(* The threads run no further.                                             *)
Interrupt == up /\ Mishap("interrupt") /\ Destroy(OpenFiles(d_open_files))

(* The process dies; so it does for the SIGPIPE and SIGTERM the handler is *)
(* registered for too, on its assertion that the signal is SIGINT.         *)
Crash == up /\ Mishap("crash") /\ ForgetProcess /\ UNCHANGED diskVars

(* HTTPCache::instance(root, force = true), as HTTPConnect calls it.       *)
Restart ==
    /\ ~up
    /\ up' = TRUE
    /\ cache_index_read
    /\ UNCHANGED <<diskVars, callVars, d_open_files, limits, mishaps>>

-----------------------------------------------------------------------------
(* The rest of a method that has been entered.                             *)
Method(t) ==
    \/ remove_entry_from_cache_table(t) \/ NotCached(t) \/ create_location(t)
    \/ OpenBody(t) \/ write_body(t) \/ BodyFails(t)
    \/ OpenMeta(t) \/ write_metadata(t) \/ MetaFails(t) \/ Add(t)
    \/ get_write_locked_entry(t) \/ MergeMeta(t) \/ RewriteMeta(t)
    \/ NoMetaToMerge(t) \/ UpdateFails(t)
    \/ expired_gc(t) \/ too_big_gc(t) \/ hits_gc(t) \/ StopGC(t)
    \/ OpenIndex(t) \/ cache_index_write(t) \/ IndexFails(t)

Client(t) ==
    \/ release_cached_response(t) \/ ReleaseUnknown(t)
    \/ purge_cache(t) \/ PurgeThrows(t)
    \/ \E u \in Urls :
        \/ cache_response(t, u) \/ update_response(t, u)
        \/ get_cached_response(t, u) \/ GetWithoutFiles(t, u) \/ GetFails(t, u)
        \/ LookAtEntry(t, u) \/ LookHangs(t, u)
    \/ \E m \in TotalSizes : set_max_size(t, m)
    \/ \E m \in EntrySizes : set_max_entry_size(t, m)

Next ==
    \/ \E t \in Threads : Client(t) \/ Method(t)
    \/ \E n \in Names : BecomeStale(n)
    \/ Exit \/ Interrupt \/ Crash \/ Restart

Spec == Init /\ [][Next]_vars

-----------------------------------------------------------------------------
(* Properties.                                                             *)

TableTypeOK ==
    /\ Bound \subseteq Names /\ d_cache_table \in [Bound -> Entry]
    /\ d_current_size \in Nat /\ d_new_entries \in Nat
    /\ DOMAIN d_locked_entries \subseteq Threads \cup {Null}
    /\ d_locked_entries \in [DOMAIN d_locked_entries -> Names \cup {Null}]
StoreTypeOK ==
    /\ body \in [Names -> FileStates] /\ meta \in [Names -> FileStates]
    /\ DOMAIN index \subseteq Names /\ index \in [DOMAIN index -> Line]
CallTypeOK ==
    /\ up \in BOOLEAN
    /\ d_cache_mutex \in Threads \cup {Null}
    /\ d_cache_mutex = Null <=> step = "out"
    /\ job \in [url : Urls \cup {Null}, name : Names \cup {Null}, line : Line \cup {Null},
               hits : 0 .. MaxHits]
    /\ limits \in [total : Nat, folder : Nat, buffer : Nat, entry : Nat]
    /\ mishaps \in 0 .. MaxMishaps

(* Every variable has its type; the interface is a thread's exactly while  *)
(* it is at a step of a method.                                            *)
TypeOK == TableTypeOK /\ StoreTypeOK /\ CallTypeOK

Held(t) == d_locked_entries[t]

(* A response a client holds is in the table, counted, and its body is on  *)
(* disk, complete, whatever other clients cache, update or purge, whatever *)
(* the garbage collector removes, and whatever an earlier process left.    *)
HeldResponsesStay ==
    \A t \in Threads : Holds(t) =>
        /\ Held(t) \in Bound
        /\ InUse(d_cache_table[Held(t)]) /\ ~d_cache_table[Held(t)].writing
        /\ body[Held(t)] = "full" /\ meta[Held(t)] # "none"

(* "it is locked so that updates and removal (e.g., by the garbage         *)
(* collector) are not possible" (release_cached_response): as long as a    *)
(* client holds a response, no step changes its files or its URL.          *)
HeldResponsesDoNotChange ==
    [][\A t \in Threads : Holds(t) /\ Holds(t)' =>
         /\ Held(t)' = Held(t)
         /\ body'[Held(t)] = body[Held(t)] /\ meta'[Held(t)] = meta[Held(t)]
         /\ d_cache_table'[Held(t)].url = d_cache_table[Held(t)].url]_vars

(* d_current_size, by which the garbage collector decides, is the space of *)
(* the entries in the table.                                               *)
SizeIsAccurate == d_current_size = Space(d_cache_table)

(* A URL has one entry: cache_response replaces, also after a restart and  *)
(* when two threads fetch the same URL.                                    *)
OneEntryPerUrl == \A m, n \in Bound : d_cache_table[m].url = d_cache_table[n].url => m = n

(* "The counter keeps track of how many clients are accessing a given      *)
(* entry" (HTTPCacheTable.h, struct CacheEntry).                           *)
ReadersAreHolders ==
    \A n \in Bound : d_cache_table[n].readers =
        Cardinality({t \in Threads : Holds(t) /\ Held(t) = n})

(* The store holds the files of the entries in the table and nothing else, *)
(* but for the entry a method is making or rewriting.                      *)
StoreIsTheTable ==
    up => \A n \in Names \ {job.name} :
        IF n \in Bound THEN body[n] = "full" /\ meta[n] = "full"
                       ELSE body[n] = "none" /\ meta[n] = "none"

(* A process that dies loses at most the last DUMP_FREQUENCY entries: those*)
(* not in the index are no more than d_new_entries counts.                 *)
IndexLagsLittle ==
    Free => /\ Cardinality(Bound \ DOMAIN index) <= d_new_entries
            /\ d_new_entries <= DUMP_FREQUENCY

(* A line of the index that survives a crash or a signal is of a body file *)
(* that is complete or gone: no partly written body is served later.       *)
IndexedBodiesAreComplete == \A n \in DOMAIN index : body[n] # "partial"

(* The index is written only when the cache is within its limit.           *)
DumpedCacheFits == step \in {"dump", "write_index"} => ~Above(d_current_size)

(* hits_gc waits for nothing but room: its loop ends if what cannot be     *)
(* deleted leaves the cache below the mark.                                *)
InUseSpace == Space(Restrict(d_cache_table, Bound \ Deletable))
CollectionEnds ==
    [](step = "hits_gc" /\ Below(InUseSpace) => <>(step # "hits_gc"))

(* What can keep the interface: a client that reads the entry to be        *)
(* replaced or updated, a collection whose room is in clients' hands, and  *)
(* an entry an update left locked.                                         *)
KeptBusy ==
    \/ step \in {"remove", "write_lock"} /\ \E n \in EntriesOf(job.url) : InUse(d_cache_table[n])
    \/ step = "hits_gc" /\ ~Below(InUseSpace)
    \/ step = "hung"

(* A thread gives the interface back, unless one of those keeps it.        *)
InterfaceGivenBack ==
    \A t \in Threads : d_cache_mutex = t ~> (d_cache_mutex # t \/ KeptBusy)
=============================================================================
