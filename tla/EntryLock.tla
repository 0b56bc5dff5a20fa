----------------------------- MODULE EntryLock -----------------------------
(***************************************************************************)
(* The lock of one cache entry, HTTPCacheTable::CacheEntry, step by step,  *)
(* as the public methods of HTTPCache use it.  The lock is a counter of    *)
(* readers and two pthread mutexes: d_response_lock is held while the      *)
(* entry is read (by whoever came first: the last reader unlocks it) or    *)
(* written, d_response_write_lock while it is written.  The counter is not *)
(* atomic; every public method runs with the interface mutex               *)
(* d_cache_mutex, which is what serialises it.                             *)
(*                                                                         *)
(* A call is one of                                                        *)
(*   "read"    get_cached_response: lock for reading, stay locked          *)
(*   "release" release_cached_response: undo a "read"                      *)
(*   "peek"    is_url_valid, get_conditional_request_headers: lock for     *)
(*             reading, look, unlock, in one call                          *)
(*   "write"   update_response, cache_response's removal of an old entry:  *)
(*             lock for writing, change, unlock, in one call               *)
(* Every LOCK, UNLOCK and TRYLOCK, and the counter's update, is a step.    *)
(***************************************************************************)
EXTENDS Integers, FiniteSets

CONSTANTS Threads, Nobody

ASSUME ThreadsAssumption == IsFiniteSet(Threads) /\ Nobody \notin Threads

VARIABLES
    d_cache_mutex,          \* the thread that holds the interface, or Nobody
    d_response_lock,        \* TRUE when locked, whoever locked it
    d_response_write_lock,  \* TRUE when locked
    readers,                \* the entry's counter (a C++ int)
    op,                     \* op[t]: the call thread t is in, "none" outside
    pc                      \* pc[t]: where in the call it is

vars == <<d_cache_mutex, d_response_lock, d_response_write_lock, readers, op, pc>>

Ops == {"none", "read", "peek", "write", "release"}
PCs == {"client", "reading", "want", "trylock", "wait_writer", "pass_writer",
        "count", "uncount", "lock_response", "lock_write", "write",
        "unlock_response", "leave"}

Init ==
    /\ d_cache_mutex = Nobody
    /\ d_response_lock = FALSE
    /\ d_response_write_lock = FALSE
    /\ readers = 0
    /\ op = [t \in Threads |-> "none"]
    /\ pc = [t \in Threads |-> "client"]

Goto(t, where) == pc' = [pc EXCEPT ![t] = where]

-----------------------------------------------------------------------------
(* The client calls a method.  It releases what it reads, once.            *)

Call(t) ==
    /\ pc[t] = "client"
    /\ \E o \in {"read", "peek", "write"} : op' = [op EXCEPT ![t] = o]
    /\ Goto(t, "want")
    /\ UNCHANGED <<d_cache_mutex, d_response_lock, d_response_write_lock, readers>>

CallRelease(t) ==
    /\ pc[t] = "reading"
    /\ op' = [op EXCEPT ![t] = "release"]
    /\ Goto(t, "want")
    /\ UNCHANGED <<d_cache_mutex, d_response_lock, d_response_write_lock, readers>>

FirstStep(o) == IF o = "write" THEN "lock_response"
                ELSE IF o = "release" THEN "uncount" ELSE "trylock"

lock_cache_interface(t) ==
    /\ pc[t] = "want"
    /\ d_cache_mutex = Nobody
    /\ d_cache_mutex' = t
    /\ Goto(t, FirstStep(op[t]))
    /\ UNCHANGED <<d_response_lock, d_response_write_lock, readers, op>>

unlock_cache_interface(t) ==
    /\ pc[t] = "leave"
    /\ d_cache_mutex' = Nobody
    /\ op' = [op EXCEPT ![t] = "none"]
    /\ Goto(t, IF op[t] = "read" THEN "reading" ELSE "client")
    /\ UNCHANGED <<d_response_lock, d_response_write_lock, readers>>

-----------------------------------------------------------------------------
(* lock_read_response: TRYLOCK the response; if that fails wait for any    *)
(* writer by locking and unlocking the write lock; then count the reader.  *)

TryResponse(t) ==
    /\ pc[t] = "trylock"
    /\ d_response_lock' = TRUE
    /\ Goto(t, IF d_response_lock THEN "wait_writer" ELSE "count")
    /\ UNCHANGED <<d_cache_mutex, d_response_write_lock, readers, op>>

WaitForWriter(t) ==
    /\ pc[t] = "wait_writer"
    /\ ~d_response_write_lock
    /\ d_response_write_lock' = TRUE
    /\ Goto(t, "pass_writer")
    /\ UNCHANGED <<d_cache_mutex, d_response_lock, readers, op>>

PassWriter(t) ==
    /\ pc[t] = "pass_writer"
    /\ d_response_write_lock' = FALSE
    /\ Goto(t, "count")
    /\ UNCHANGED <<d_cache_mutex, d_response_lock, readers, op>>

LostCount(n) == n
Counted(n) == n + 1     \* readers++

CountReader(t) ==
    /\ pc[t] = "count"
    /\ readers' = Counted(readers)
    /\ Goto(t, IF op[t] = "peek" THEN "uncount" ELSE "leave")
    /\ UNCHANGED <<d_cache_mutex, d_response_lock, d_response_write_lock, op>>

NobodyIsLast(n) == FALSE
IsLast(n) == n = 0      \* readers == 0, after readers--

(* unlock_read_response: the last reader unlocks the response, whichever   *)
(* thread locked it.                                                       *)
UncountReader(t) ==
    /\ pc[t] = "uncount"
    /\ readers' = readers - 1
    /\ d_response_lock' = IF IsLast(readers') THEN FALSE ELSE d_response_lock
    /\ Goto(t, "leave")
    /\ UNCHANGED <<d_cache_mutex, d_response_write_lock, op>>

-----------------------------------------------------------------------------
(* lock_write_response, the change, and unlock_write_response.             *)

LockAnyway(locked) == TRUE
CanLock(locked) == ~locked   \* LOCK blocks while the mutex is locked

LockResponse(t) ==
    /\ pc[t] = "lock_response"
    /\ CanLock(d_response_lock)
    /\ d_response_lock' = TRUE
    /\ Goto(t, "lock_write")
    /\ UNCHANGED <<d_cache_mutex, d_response_write_lock, readers, op>>

LockWrite(t) ==
    /\ pc[t] = "lock_write"
    /\ ~d_response_write_lock
    /\ d_response_write_lock' = TRUE
    /\ Goto(t, "write")
    /\ UNCHANGED <<d_cache_mutex, d_response_lock, readers, op>>

KeepWrite(t) ==
    /\ pc[t] = "write"
    /\ Goto(t, "unlock_response")
    /\ UNCHANGED <<d_cache_mutex, d_response_lock, d_response_write_lock, readers, op>>

UnlockWrite(t) ==
    /\ pc[t] = "write"
    /\ d_response_write_lock' = FALSE
    /\ Goto(t, "unlock_response")
    /\ UNCHANGED <<d_cache_mutex, d_response_lock, readers, op>>

UnlockResponse(t) ==
    /\ pc[t] = "unlock_response"
    /\ d_response_lock' = FALSE
    /\ Goto(t, "leave")
    /\ UNCHANGED <<d_cache_mutex, d_response_write_lock, readers, op>>

-----------------------------------------------------------------------------
(* The steps of a method once called: none of them waits for the client.   *)
Method(t) ==
    \/ lock_cache_interface(t) \/ unlock_cache_interface(t)
    \/ TryResponse(t) \/ WaitForWriter(t) \/ PassWriter(t)
    \/ CountReader(t) \/ UncountReader(t)
    \/ LockResponse(t) \/ LockWrite(t) \/ UnlockWrite(t) \/ UnlockResponse(t)

Next == \E t \in Threads : Call(t) \/ CallRelease(t) \/ Method(t)

Spec == Init /\ [][Next]_vars

(* A running thread keeps running, a client does release what it reads,    *)
(* and a thread that waits for a mutex gets it if the mutex is unlocked    *)
(* again and again.  Strong fairness is more than pthread mutexes promise: *)
(* what fails under it fails under every scheduler.                        *)
Fairness == \A t \in Threads :
    /\ WF_vars(CallRelease(t) \/ Method(t))
    /\ SF_vars(lock_cache_interface(t))
    /\ SF_vars(LockResponse(t))

FairSpec == Spec /\ Fairness

-----------------------------------------------------------------------------
(* Who reads and who writes: the refinement mapping to RWLock.             *)

IsReading(t) ==
    \/ pc[t] \in {"reading", "uncount"}
    \/ op[t] = "read" /\ pc[t] = "leave"
    \/ op[t] = "release" /\ pc[t] = "want"

Reading == {t \in Threads : IsReading(t)}
Writing == {t \in Threads : pc[t] = "write"}

RW == INSTANCE RWLock WITH reading <- Reading, writing <- Writing

-----------------------------------------------------------------------------
(* Properties.                                                             *)

(* Every variable has its type; in particular the counter, a C++ int,      *)
(* never goes below zero.                                                  *)
TypeOK ==
    /\ d_cache_mutex \in Threads \cup {Nobody}
    /\ d_response_lock \in BOOLEAN
    /\ d_response_write_lock \in BOOLEAN
    /\ readers \in Nat
    /\ op \in [Threads -> Ops]
    /\ pc \in [Threads -> PCs]

(* CacheEntry::readers is the number of clients reading the entry, at every *)
(* step of every call (HTTPCacheTable.h: "The counter keeps track of how   *)
(* many clients are accessing a given entry").                             *)
ReaderCount == readers = Cardinality(Reading)

(* lock_read_response waits for a writer by locking the write lock.  It    *)
(* never has to: the writer would be inside a public method, which the     *)
(* interface mutex excludes.  So a reader that has the interface never     *)
(* keeps it waiting for the entry.                                         *)
ReaderNeverWaits ==
    \A t \in Threads : pc[t] = "wait_writer" => ~d_response_write_lock

(* A writer that has the interface waits, if it waits, for clients that    *)
(* read the entry outside any method: nothing else can keep the response   *)
(* locked.  (Those clients need the interface to release it: see           *)
(* ReleaseReturns.)                                                        *)
WriterWaitsForClients ==
    \A t \in Threads : pc[t] \in {"lock_response", "lock_write"} =>
        /\ ~d_response_write_lock
        /\ pc[t] = "lock_response" /\ d_response_lock =>
               \E c \in Threads \ {t} : IsReading(c) /\ pc[c] \in {"reading", "want"}

(* The two mutexes, the counter and the interface mutex together implement *)
(* a readers-writer lock.                                                  *)
ImplementsRWLock == RW!Spec

(* "Call this method to inform the cache that a particular response is no  *)
(* longer in use ... Calling this method frees that lock"                  *)
(* (release_cached_response): the call returns.                            *)
ReleaseReturns ==
    \A t \in Threads : op[t] = "release" ~> op[t] = "none"
=============================================================================
