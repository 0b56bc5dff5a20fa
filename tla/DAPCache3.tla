----------------------------- MODULE DAPCache3 -----------------------------
(***************************************************************************)
(* A cache of files in a directory that several processes share            *)
(* (DAPCache3).  Each process has its own object; what they have in common *)
(* is the directory, the dap.cache.info file with the size of the cache,   *)
(* and the locks that fcntl keeps for them.                                *)
(*                                                                         *)
(* The locks are those of POSIX: a process, not a descriptor, holds a lock *)
(* on a file; closing any descriptor of the file gives up the lock; a wait *)
(* that would close a circle of processes waiting for each other is        *)
(* refused (EDEADLK).  A file is not its name: `file' is what open returned*)
(* (an inode), and stays when its name is gone.                            *)
(*                                                                         *)
(* The methods are actions from a step `at' of the caller to the step that *)
(* follows; ResponseCache makes the calls.                                 *)
(***************************************************************************)
EXTENDS Integers, Sequences, FiniteSets

CONSTANTS
    Procs,              \* processes
    Names,              \* names of cache files
    Files,              \* bound: files there can be at the same time
    FULL_SIZE,          \* of a file written to its end; one half-written has 1
    MAX_CACHE_SIZE, TARGET_SIZE,
    WORD                \* sizes are unsigned: they count modulo WORD

None == 0               \* no file
Info == -1              \* the cache info file

ASSUME CacheAssumption ==
    /\ Files \subseteq Nat \ {None} /\ None \notin Names
    /\ IsFiniteSet(Procs) /\ IsFiniteSet(Names)
    /\ {MAX_CACHE_SIZE, TARGET_SIZE} \subseteq Nat
    /\ {FULL_SIZE, WORD} \subseteq Nat \ {0}

VARIABLES
    dir,        \* the file of each name, or None
    content,    \* of each file: "empty", "partial" or "full"
    stale,      \* files last written before their dataset
    info,       \* the size in the info file, or NoInfo or ShortInfo
    locks,      \* locks[f][p]: what process p holds on file f
    blocked,    \* processes asleep in fcntl(F_SETLKW)
    at,         \* what each process does next
    target,     \* the name each process works on
    file,       \* the file it has opened
    d_locks,    \* its map from names to (files of) open descriptors
    saved,      \* the size it has computed
    sweep,      \* what update_and_purge has still to look at
    failed      \* processes in which a request has failed

diskVars == <<dir, content, stale, info>>
procVars == <<at, target, file, d_locks, saved, sweep>>
cacheVars == <<diskVars, procVars, locks, blocked, failed>>

NoInfo == -2        \* dap.cache.info does not exist
ShortInfo == -1     \* it is empty
LockTypes == {"none", "read", "write"}

SizeOf(f) == [empty |-> 0, partial |-> 1, full |-> FULL_SIZE][content[f]]
(* The name goes, and with it what nobody can see any more.                *)
unlink(n) ==
    /\ dir' = [dir EXCEPT ![n] = None]
    /\ content' = [content EXCEPT ![dir[n]] = "empty"]
    /\ stale' = stale \ {dir[n]}

Named == {n \in Names : dir[n] # None}

LessSigned(a, b) == a - b
Less(a, b) == (a - b) % WORD    \* unsigned

(* The sum of the sizes of the files: how many bytes there are.            *)
Bytes == {b \in Names \X (1 .. FULL_SIZE) : b[1] \in Named /\ b[2] <= SizeOf(dir[b[1]])}
Total == Cardinality(Bytes) % WORD

-----------------------------------------------------------------------------
(* fcntl.                                                                  *)

Conflict(a, b) == "none" \notin {a, b} /\ "write" \in {a, b}

FreeOfWriters(p, f, type) == \A q \in Procs \ {p} : locks[f][q] # "write"
Holders(p, f, type) == {q \in Procs \ {p} : Conflict(locks[f][q], type)}

Free(p, f, type) == Holders(p, f, type) = {}

(* What a process asks for at a step where it may have to wait.            *)
WritesInfo == {"init", "purge", "create", "update", "collect"}
ReadsInfo == {"read", "reread"}
ReadsFile == {"lock", "relock", "share"}
LockSteps == WritesInfo \cup ReadsInfo \cup ReadsFile \cup {"purge_file"}

WantedFile(p) == IF at[p] \in WritesInfo \cup ReadsInfo THEN Info ELSE file[p]
WantedType(p) == IF at[p] \in WritesInfo \cup {"purge_file"} THEN "write" ELSE "read"

WaitsFor(p) == Holders(p, WantedFile(p), WantedType(p))

(* The processes that p waits for wait for it.                             *)
ClosesCircle(p) ==
    \A S \in SUBSET Procs :
        WaitsFor(p) \subseteq S /\ (\A q \in S \cap blocked : WaitsFor(q) \subseteq S) => p \in S

(* fcntl succeeds, now or after a wait.                                    *)
Granted(p) == WaitsFor(p) = {} /\ blocked' = blocked \ {p}

(* fcntl puts the process to sleep.                                        *)
Block(p) ==
    /\ at[p] \in LockSteps /\ p \notin blocked
    /\ WaitsFor(p) # {} /\ ~ClosesCircle(p)
    /\ blocked' = blocked \cup {p}
    /\ UNCHANGED <<diskVars, procVars, failed, locks>>

SetLock(p, f, type) == locks' = [locks EXCEPT ![f][p] = type]
ReleaseBoth(p, f) == locks' = [locks EXCEPT ![Info][p] = "none", ![f][p] = "none"]

GoTo(p, step) == at' = [at EXCEPT ![p] = step]

-----------------------------------------------------------------------------
(* m_initialize_cache_info.                                                *)

create_info(p) ==
    /\ at[p] = "start" /\ info = NoInfo
    /\ info' = ShortInfo
    /\ GoTo(p, "init")
    /\ UNCHANGED <<dir, content, stale, target, file, d_locks, saved, sweep, failed, locks, blocked>>

open_info(p) ==
    /\ at[p] = "start" /\ info # NoInfo
    /\ GoTo(p, "idle")
    /\ UNCHANGED <<diskVars, target, file, d_locks, saved, sweep, failed, locks, blocked>>

write_info(p) ==
    /\ at[p] = "init" /\ Granted(p)
    /\ info' = 0
    /\ GoTo(p, "idle")
    /\ UNCHANGED <<dir, content, stale, target, file, d_locks, saved, sweep, failed, locks>>

-----------------------------------------------------------------------------
(* d_locks.insert leaves an old descriptor of that name where it is.       *)
m_record_descriptor(p, f) ==
    d_locks' = [d_locks EXCEPT ![p][target[p]] = IF @ = None THEN f ELSE @]

(* get_read_lock: with the cache locked for reading, find the file ...     *)
get_read_lock(p, here, lock, absent) ==
    /\ at[p] = here /\ Granted(p)
    /\ IF dir[target[p]] = None
       THEN GoTo(p, absent) /\ UNCHANGED <<file, locks>>
       ELSE /\ GoTo(p, lock)
            /\ file' = [file EXCEPT ![p] = dir[target[p]]]
            /\ SetLock(p, Info, "read")
    /\ UNCHANGED <<diskVars, target, d_locks, saved, sweep, failed>>

getSharedLockKeepingCache(p, here, found) ==
    /\ at[p] = here /\ Granted(p)
    /\ SetLock(p, file[p], "read")
    /\ m_record_descriptor(p, file[p])
    /\ GoTo(p, found)
    /\ UNCHANGED <<diskVars, target, file, saved, sweep, failed>>

(* ... and wait for it.                                                    *)
getSharedLock(p, here, found) ==
    /\ at[p] = here /\ Granted(p)
    /\ locks' = [locks EXCEPT ![file[p]][p] = "read", ![Info][p] = "none"]
    /\ m_record_descriptor(p, file[p])
    /\ GoTo(p, found)
    /\ UNCHANGED <<diskVars, target, file, saved, sweep, failed>>

Unused(f) == /\ \A n \in Names : dir[n] # f
             /\ \A p \in Procs : /\ locks[f][p] = "none"
                                 /\ \A n \in Names : d_locks[p][n] # f
                                 /\ file[p] # f

CreateReadable == "read"
CreateLock == "write"

(* create_and_lock: nobody opens a file without locking the cache, so that *)
(* a new file is locked before others see it.                              *)
create_and_lock(p, here, created, exists) ==
    /\ at[p] = here /\ Granted(p)
    /\ IF dir[target[p]] # None
       THEN GoTo(p, exists) /\ UNCHANGED <<dir, content, file, d_locks, locks>>
       ELSE \E f \in {f \in Files : Unused(f) /\ \A g \in Files : Unused(g) => f <= g} :
              /\ dir' = [dir EXCEPT ![target[p]] = f]
              /\ content' = [content EXCEPT ![f] = "empty"]
              /\ file' = [file EXCEPT ![p] = f]
              /\ SetLock(p, f, CreateLock)
              /\ m_record_descriptor(p, f)
              /\ GoTo(p, created)
    /\ UNCHANGED <<stale, info, target, saved, sweep, failed>>

exclusive_to_shared_lock(p, here, next) ==
    /\ at[p] = here /\ Granted(p)
    /\ SetLock(p, file[p], "read")
    /\ GoTo(p, next)
    /\ UNCHANGED <<diskVars, target, file, d_locks, saved, sweep, failed>>

(* unlock_and_close of the descriptor recorded under the name.             *)
unlock_and_close(p, here, next) ==
    /\ at[p] = here
    /\ SetLock(p, d_locks[p][target[p]], "none")
    /\ d_locks' = [d_locks EXCEPT ![p][target[p]] = None]
    /\ target' = [target EXCEPT ![p] = None]
    /\ GoTo(p, next)
    /\ UNCHANGED <<diskVars, file, saved, sweep, failed, blocked>>

-----------------------------------------------------------------------------
(* The size of the cache.                                                  *)

cache_too_big(size) == size > MAX_CACHE_SIZE

(* update_cache_info throws when the info file is short or the new file is *)
(* not there any more.                                                     *)
CanUpdate(p) == info # ShortInfo /\ dir[target[p]] # None

update_cache_info(p, here, fits, too_big) ==
    /\ at[p] = here /\ Granted(p) /\ CanUpdate(p)
    /\ info' = (info + SizeOf(dir[target[p]])) % WORD
    /\ IF cache_too_big(info')
       THEN GoTo(p, too_big) /\ UNCHANGED file
       ELSE GoTo(p, fits) /\ file' = [file EXCEPT ![p] = None]
    /\ UNCHANGED <<dir, content, stale, target, d_locks, saved, sweep, failed, locks>>

(* update_and_purge: the files by age, which any order may be, with their  *)
(* sizes.                                                                  *)
Orders == {s \in UNION {[1 .. k -> Named] : k \in 0 .. Cardinality(Names)} :
             \A n \in Named : \E i \in DOMAIN s : s[i] = n /\ \A j \in DOMAIN s : s[j] = n => i = j}

m_collect_cache_dir_info(p, here, next) ==
    /\ at[p] = here /\ Granted(p)
    /\ saved' = [saved EXCEPT ![p] = Total]
    /\ IF cache_too_big(Total)
       THEN \E s \in Orders :
              sweep' = [sweep EXCEPT ![p] = [i \in DOMAIN s |->
                                              [name |-> s[i], size |-> SizeOf(dir[s[i]])]]]
       ELSE UNCHANGED sweep
    /\ SetLock(p, Info, "write")
    /\ GoTo(p, next)
    /\ UNCHANGED <<diskVars, target, file, d_locks, failed>>

Sweeping(p) == sweep[p] # <<>> /\ saved[p] > TARGET_SIZE

(* The oldest file goes, unless it is the new one or another process has a *)
(* lock on it.  Closing it gives up a lock of this process either way.     *)
purge_oldest(p, here) ==
    /\ at[p] = here /\ Sweeping(p)
    /\ sweep' = [sweep EXCEPT ![p] = Tail(@)]
    /\ LET oldest == Head(sweep[p])
           f == dir[oldest.name]
       IN  IF oldest.name = target[p]
           THEN UNCHANGED <<dir, content, stale, locks, saved>>
           ELSE /\ SetLock(p, f, "none")
                /\ IF Free(p, f, "write")
                   THEN /\ unlink(oldest.name)
                        /\ saved' = [saved EXCEPT ![p] = Less(@, oldest.size)]
                   ELSE UNCHANGED <<dir, content, stale, saved>>
    /\ UNCHANGED <<info, at, target, file, d_locks, failed, blocked>>

update_and_purge_ends(p, here, next) ==
    /\ at[p] = here /\ ~Sweeping(p)
    /\ info' = saved[p]
    /\ sweep' = [sweep EXCEPT ![p] = <<>>] /\ saved' = [saved EXCEPT ![p] = 0]
    /\ file' = [file EXCEPT ![p] = None]
    /\ SetLock(p, Info, "none")
    /\ GoTo(p, next)
    /\ UNCHANGED <<dir, content, stale, target, d_locks, failed, blocked>>

(* purge_file: with the cache locked, find the file, ...                   *)
purge_file(p, here, lock, absent) ==
    /\ at[p] = here /\ Granted(p)
    /\ IF dir[target[p]] = None
       THEN GoTo(p, absent) /\ UNCHANGED <<file, locks>>
       ELSE /\ GoTo(p, lock)
            /\ file' = [file EXCEPT ![p] = dir[target[p]]]
            /\ SetLock(p, Info, "write")
    /\ UNCHANGED <<diskVars, target, d_locks, saved, sweep, failed>>

(* ... wait until nobody uses it, remove it and read the size of the cache *)
(* (get_cache_size unlocks the cache when it has read it), ...             *)
purge_unlink(p, here, next) ==
    /\ at[p] = here /\ Granted(p) /\ info # ShortInfo
    /\ unlink(target[p])
    /\ saved' = [saved EXCEPT ![p] = Less(info, SizeOf(file[p]))]
    /\ file' = [file EXCEPT ![p] = None]
    /\ ReleaseBoth(p, file[p])
    /\ GoTo(p, next)
    /\ UNCHANGED <<info, target, d_locks, sweep, failed>>

(* ... and write the size without the lock.                                *)
purge_write_size(p, here, next) ==
    /\ at[p] = here
    /\ info' = saved[p]
    /\ saved' = [saved EXCEPT ![p] = 0]
    /\ GoTo(p, next)
    /\ UNCHANGED <<dir, content, stale, target, file, d_locks, sweep, failed, locks, blocked>>

-----------------------------------------------------------------------------
(* An exception: the handlers unlock the cache, and nothing else.          *)
Throws(p) ==
    /\ failed' = failed \cup {p}
    /\ file' = [file EXCEPT ![p] = None]
    /\ sweep' = [sweep EXCEPT ![p] = <<>>]
    /\ target' = [target EXCEPT ![p] = None] /\ saved' = [saved EXCEPT ![p] = 0]
    /\ GoTo(p, "idle")
    /\ UNCHANGED d_locks

(* fcntl refuses to wait (EDEADLK).  Where the file was just opened, it is *)
(* closed again, which gives up any lock on it.                            *)
LockRefused(p) ==
    /\ at[p] \in LockSteps \ {"init"} /\ p \notin blocked
    /\ WaitsFor(p) # {} /\ ClosesCircle(p)
    /\ IF at[p] \in {"lock", "relock", "purge_file"}
       THEN ReleaseBoth(p, file[p])
       ELSE SetLock(p, Info, "none")
    /\ Throws(p)
    /\ UNCHANGED <<diskVars, blocked>>

(* update_cache_info cannot read the info file or the new file.            *)
UpdateThrows(p) ==
    /\ at[p] = "update" /\ Granted(p) /\ ~CanUpdate(p)
    /\ Throws(p)
    /\ UNCHANGED <<diskVars, locks>>

(* purge_file cannot read the info file when it has removed the file.      *)
PurgeThrows(p) ==
    /\ at[p] = "purge_file" /\ Granted(p) /\ info = ShortInfo
    /\ unlink(target[p])
    /\ ReleaseBoth(p, file[p])
    /\ Throws(p)
    /\ UNCHANGED info
=============================================================================
