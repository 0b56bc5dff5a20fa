--------------------------- MODULE ResponseCache ---------------------------
(***************************************************************************)
(* The results of server functions, kept by several server processes in one *)
(* DAPCache3: read_cached_dataset, the only caller of that cache, and the  *)
(* part of a request that runs before and after it (ResponseBuilder).      *)
(***************************************************************************)
EXTENDS DAPCache3

CONSTANTS
    Mishaps,        \* what may go wrong: "throw", "exit"
    MaxMishaps,     \* bound
    MaxRequests     \* bound

ASSUME RequestAssumption == MaxMishaps \in Nat

VARIABLES
    mishaps,        \* how often something went wrong
    requests        \* how many requests there were

vars == <<cacheVars, mishaps, requests>>

Init ==
    /\ dir = [n \in Names |-> None] /\ info = NoInfo
    /\ content = [f \in Files |-> "empty"]
    /\ locks = [f \in Files \cup {None, Info} |-> [p \in Procs |-> "none"]]
    /\ blocked = {} /\ failed = {} /\ stale = {} /\ mishaps = 0 /\ requests = 0
    /\ at = [p \in Procs |-> "start"]
    /\ target = [p \in Procs |-> None]
    /\ file = [p \in Procs |-> None]
    /\ d_locks = [p \in Procs |-> [n \in Names |-> None]]
    /\ saved = [p \in Procs |-> 0]
    /\ sweep = [p \in Procs |-> <<>>]

initialize(p) == create_info(p) \/ open_info(p) \/ write_info(p)

(* A request whose constraint calls functions: the name is made of the     *)
(* dataset and of the calls.                                               *)
Request(p) ==
    /\ at[p] = "idle"
    /\ requests < MaxRequests /\ requests' = requests + 1
    /\ \E n \in Names : target' = [target EXCEPT ![p] = n]
    /\ GoTo(p, "check")
    /\ UNCHANGED <<diskVars, file, d_locks, saved, sweep, failed, locks, blocked>>

(* No lock protects this look.                                             *)
is_valid(p) ==
    LET f == dir[target[p]] IN f # None /\ content[f] # "empty" /\ f \notin stale

Check(p) ==
    /\ at[p] = "check"
    /\ GoTo(p, IF is_valid(p) THEN "read" ELSE "purge")
    /\ UNCHANGED <<diskVars, target, file, d_locks, saved, sweep, failed, locks, blocked>>

purge(p) ==
    \/ purge_file(p, "purge", "purge_file", "read")
    \/ purge_unlink(p, "purge_file", "purge_size")
    \/ purge_write_size(p, "purge_size", "read")

get_cached_data(p) ==
    \/ get_read_lock(p, "read", "lock", "create")
    \/ getSharedLock(p, "lock", "parse")
    \/ get_read_lock(p, "reread", "relock", "lost")
    \/ getSharedLock(p, "relock", "parse")

(* get_cached_data_ddx: closing the stream gives up the lock.              *)
get_cached_data_ddx(p) ==
    /\ at[p] = "parse" /\ content[file[p]] = "full"
    /\ SetLock(p, file[p], "none")
    /\ file' = [file EXCEPT ![p] = None]
    /\ GoTo(p, "respond")
    /\ UNCHANGED <<diskVars, target, d_locks, saved, sweep, failed, blocked>>

(* The functions are called, and the first of the result is written.       *)
Build(p) ==
    /\ at[p] = "build"
    /\ content' = [content EXCEPT ![file[p]] = "partial"]
    /\ stale' = stale \ {file[p]}
    /\ GoTo(p, "write")
    /\ UNCHANGED <<dir, info, target, file, d_locks, saved, sweep, failed, locks, blocked>>

(* The rest is written and the stream closed, which gives up the lock.     *)
Write(p) ==
    /\ at[p] = "write"
    /\ content' = [content EXCEPT ![file[p]] = "full"]
    /\ stale' = stale \ {file[p]}
    /\ SetLock(p, file[p], "none")
    /\ GoTo(p, "share")
    /\ UNCHANGED <<dir, info, target, file, d_locks, saved, sweep, failed, blocked>>

Add(p) ==
    \/ create_and_lock(p, "create", "build", "reread")
    \/ exclusive_to_shared_lock(p, "share", "update")
    \/ update_cache_info(p, "update", "respond", "collect")
    \/ m_collect_cache_dir_info(p, "collect", "sweep")
    \/ purge_oldest(p, "sweep")
    \/ update_and_purge_ends(p, "sweep", "respond")

RespondKeepingLock(p) ==
    /\ at[p] = "respond"
    /\ target' = [target EXCEPT ![p] = None]
    /\ GoTo(p, "idle")
    /\ UNCHANGED <<diskVars, file, d_locks, saved, sweep, failed, blocked, locks>>

(* The response is sent from memory.                                       *)
Respond(p) == unlock_and_close(p, "respond", "idle")

(* Neither read nor created, or a file that does not parse, whose stream   *)
(* is not closed.                                                          *)
ReadThrows(p) ==
    /\ at[p] \in {"lost", "parse"}
    /\ at[p] = "parse" => content[file[p]] # "full"
    /\ Throws(p)
    /\ UNCHANGED <<diskVars, locks, blocked>>

Mishap(kind) ==
    /\ kind \in Mishaps /\ mishaps < MaxMishaps
    /\ mishaps' = mishaps + 1

(* A function, the writing or the sending throws.  The stream of the file  *)
(* is closed on the way out.                                               *)
RequestThrows(p) ==
    /\ Mishap("throw")
    /\ at[p] \in {"build", "write", "respond"}
    /\ IF at[p] = "write" THEN SetLock(p, file[p], "none") ELSE UNCHANGED locks
    /\ Throws(p)
    /\ UNCHANGED <<diskVars, blocked>>

(* The process ends or is killed, and the server starts another.           *)
Exit(p) ==
    /\ Mishap("exit")
    /\ locks' = [f \in DOMAIN locks |-> [locks[f] EXCEPT ![p] = "none"]]
    /\ blocked' = blocked \ {p} /\ failed' = failed \ {p}
    /\ d_locks' = [d_locks EXCEPT ![p] = [n \in Names |-> None]]
    /\ file' = [file EXCEPT ![p] = None]
    /\ target' = [target EXCEPT ![p] = None]
    /\ saved' = [saved EXCEPT ![p] = 0] /\ sweep' = [sweep EXCEPT ![p] = <<>>]
    /\ GoTo(p, "start")
    /\ UNCHANGED diskVars

(* The dataset is newer than what has been written.                        *)
DatasetChanges ==
    /\ stale' = {f \in Files : \E n \in Names : dir[n] = f}
    /\ UNCHANGED <<dir, content, info, procVars, failed, locks, blocked, mishaps, requests>>

Step(p) ==
    \/ initialize(p) \/ Check(p) \/ purge(p) \/ get_cached_data(p) \/ get_cached_data_ddx(p)
    \/ Build(p) \/ Write(p) \/ Add(p) \/ Respond(p)
    \/ LockRefused(p) \/ UpdateThrows(p) \/ PurgeThrows(p) \/ ReadThrows(p)

Next ==
    \/ \E p \in Procs :
         \/ (Step(p) \/ Block(p)) /\ UNCHANGED <<mishaps, requests>>
         \/ Request(p) /\ UNCHANGED mishaps
         \/ (RequestThrows(p) \/ Exit(p)) /\ UNCHANGED requests
    \/ DatasetChanges

(* fcntl wakes those who wait when it can: nobody is passed over for ever. *)
Fairness == \A p \in Procs : /\ SF_vars(Step(p) /\ UNCHANGED <<mishaps, requests>>)
                               /\ WF_vars(Block(p) /\ UNCHANGED <<mishaps, requests>>)

Spec == Init /\ [][Next]_vars /\ Fairness

-----------------------------------------------------------------------------
(* Properties.                                                             *)

Steps == {"start", "init", "idle", "check", "purge", "purge_file", "purge_size", "read",
          "lock", "reread", "relock", "lost", "parse", "create", "build", "write", "share",
          "update", "collect", "sweep", "respond"}

Entries == [name : Names, size : 0 .. FULL_SIZE]
Sweeps == [Procs -> Seq(Entries)]

(* Every variable has its type; sizes are words.                           *)
TypeOK ==
    /\ dir \in [Names -> Files \cup {None}]
    /\ content \in [Files -> {"empty", "partial", "full"}]
    /\ info \in 0 .. WORD - 1 \cup {NoInfo, ShortInfo}
    /\ locks \in [Files \cup {None, Info} -> [Procs -> LockTypes]]
    /\ blocked \subseteq Procs /\ failed \subseteq Procs
    /\ at \in [Procs -> Steps] /\ target \in [Procs -> Names \cup {None}]
    /\ file \in [Procs -> Files \cup {None}]
    /\ d_locks \in [Procs -> [Names -> Files \cup {None}]]
    /\ saved \in [Procs -> 0 .. WORD - 1]
    /\ sweep \in Sweeps
    /\ stale \subseteq Files /\ mishaps \in 0 .. MaxMishaps

(* A file that a process is building or reading keeps its name: neither a  *)
(* purge nor another request takes it away, whatever they looked at before *)
(* they had their locks.                                                   *)
InUseIsNotPurged ==
    \A p \in Procs : at[p] \in {"build", "write", "parse"} => dir[target[p]] = file[p]

(* Nobody reads a file that is being built, though readers find it in the  *)
(* directory from the moment it is created.                                *)
ReadersMeetNoBuilder ==
    \A p, q \in Procs : at[p] = "parse" /\ at[q] \in {"build", "write"} => file[p] # file[q]

(* Between requests a process that has had no failure holds no lock and has *)
(* no descriptor recorded: nobody waits for it.                            *)
IdleHoldsNothing ==
    \A p \in Procs : at[p] = "idle" /\ p \notin failed =>
        /\ \A f \in DOMAIN locks : locks[f][p] = "none"
        /\ \A n \in Names : d_locks[p][n] = None

(* A request that others have only delayed comes to its end: what waits    *)
(* with the cache locked waits for a process that is on its way to unlock. *)
(* (A failure leaves locks behind.)                                        *)
RequestsEnd ==
    \A p \in Procs : at[p] \notin {"start", "idle"} ~>
        at[p] = "idle" \/ failed # {} \/ mishaps > 0
=============================================================================
