---------------------------- MODULE HTTPConnect ----------------------------
(***************************************************************************)
(* Threads that dereference URLs through the cache: HTTPConnect's          *)
(* caching_fetch_url, each thread with an HTTPConnect of its own and all   *)
(* with the one HTTPCache.  Every step is a step of the cache or of the    *)
(* network, and the thread's stage says which call comes next.             *)
(*                                                                         *)
(*   get          look in the cache                                        *)
(*   validate     found: is it valid?                                      *)
(*   reading      the caller reads the cached response, then deletes it    *)
(*   fetch, store, storing   not found: from the network into the cache    *)
(*   release, conditional, revalidate     found, not valid: ask the server *)
(*   update, updating, reget    "304": new headers, then the cached body   *)
(*   null         a response without a stream                              *)
(*                                                                         *)
(* A redirect deletes the response and fetches another URL: it is the end  *)
(* of one fetch and the beginning of the next.                             *)
(***************************************************************************)
EXTENDS HTTPCache

VARIABLES
    stage,      \* stage[t]: the call thread t makes next, or is in
    target      \* target[t]: the URL it dereferences

fetchVars == <<stage, target>>
allVars == <<vars, fetchVars>>

Stages == {"idle", "get", "validate", "reading", "fetch", "store", "storing",
           "release", "conditional", "revalidate", "update", "updating",
           "reget", "null"}

FetchInit ==
    /\ Init
    /\ stage = [t \in Threads |-> "idle"]
    /\ target = [t \in Threads |-> Null]

Goto(t, s) ==
    /\ stage' = [stage EXCEPT ![t] = s]
    /\ target' = IF s = "idle" THEN [target EXCEPT ![t] = Null] ELSE target

InCache(t) == EntriesOf(target[t]) # {}

-----------------------------------------------------------------------------
Start(t, u) ==
    /\ up /\ stage[t] = "idle"
    /\ stage' = [stage EXCEPT ![t] = "get"]
    /\ target' = [target EXCEPT ![t] = u]
    /\ UNCHANGED vars

(* get_cached_response: a stream, NULL or an exception.  In "reget" the    *)
(* code does not look at what it got.                                      *)
Get(t) ==
    \/ stage[t] = "get" /\ get_cached_response(t, target[t]) /\ Goto(t, "validate")
    \/ stage[t] = "get" /\ Free /\ ~InCache(t) /\ Goto(t, "fetch") /\ UNCHANGED vars

Reget(t) ==
    \/ stage[t] = "reget" /\ get_cached_response(t, target[t]) /\ Goto(t, "reading")
    \/ stage[t] = "reget" /\ Free /\ ~InCache(t) /\ Goto(t, "null") /\ UNCHANGED vars

GetError(t) ==
    /\ stage[t] \in {"get", "reget"}
    /\ GetWithoutFiles(t, target[t]) \/ GetFails(t, target[t])
    /\ Goto(t, "idle")

IsValid(n) == ~d_cache_table[n].stale

Validate(t) ==
    /\ stage[t] = "validate"
    /\ LookAtEntry(t, target[t])
    /\ Goto(t, IF \A n \in EntriesOf(target[t]) : IsValid(n) THEN "reading" ELSE "release")

(* The caller has read the response; ~HTTPCacheResponse releases it.       *)
Done(t) ==
    /\ stage[t] = "reading"
    /\ release_cached_response(t)
    /\ Goto(t, "idle")

DropStale(t) ==
    /\ stage[t] = "release" /\ Free
    /\ Goto(t, "conditional")
    /\ UNCHANGED vars

ReleaseStale(t) ==
    /\ stage[t] = "release"
    /\ release_cached_response(t)
    /\ Goto(t, "conditional")

-----------------------------------------------------------------------------
(* plain_fetch_url, or read_url with conditional headers: the server       *)
(* answers, or the fetch ends with an exception.                           *)

PlainFetch(t) ==
    /\ up /\ stage[t] = "fetch"
    /\ Goto(t, "store") \/ Goto(t, "idle")
    /\ UNCHANGED vars

(* get_conditional_request_headers throws if the entry is gone.            *)
Conditional(t) ==
    /\ stage[t] = "conditional"
    /\ LookAtEntry(t, target[t])
    /\ Goto(t, IF InCache(t) THEN "revalidate" ELSE "idle")

Revalidate(t) ==
    /\ up /\ stage[t] = "revalidate"
    /\ \E s \in {"store", "update", "idle"} : Goto(t, s)   \* 200, 304, an error
    /\ UNCHANGED vars

Store(t) ==
    /\ stage[t] = "store"
    /\ cache_response(t, target[t])
    /\ Goto(t, "storing")

(* update_response throws if the entry is gone.                            *)
Update(t) ==
    \/ stage[t] = "update" /\ update_response(t, target[t]) /\ Goto(t, "updating")
    \/ stage[t] = "update" /\ Free /\ ~InCache(t) /\ Goto(t, "idle") /\ UNCHANGED vars

(* A step of cache_response or update_response, and its return.  A fetch   *)
(* ends with cache_response: what it returns is the network's response.    *)
InMethod(t) ==
    /\ Method(t)
    /\ IF d_cache_mutex' = t THEN UNCHANGED fetchVars
       ELSE Goto(t, IF step = "rewrite" /\ mishaps' = mishaps THEN "reget" ELSE "idle")

(* The call finds an entry that is locked for good.                        *)
Stuck(t) ==
    /\ stage[t] \in {"get", "validate", "conditional", "reget"}
    /\ LookHangs(t, target[t])
    /\ UNCHANGED fetchVars

(* The destructor of a response without a stream releases NULL, and throws.*)
ReleaseNull(t) ==
    /\ stage[t] = "null" /\ Free
    /\ uncouple_unknown(Null)
    /\ Goto(t, "idle")
    /\ UNCHANGED <<d_cache_table, d_current_size, d_new_entries, diskVars,
                   callVars, up, d_open_files, limits, mishaps>>

-----------------------------------------------------------------------------
FetchStep(t) ==
    \/ Get(t) \/ Reget(t) \/ GetError(t) \/ Validate(t) \/ Done(t) \/ ReleaseStale(t)
    \/ PlainFetch(t) \/ Conditional(t) \/ Revalidate(t) \/ Store(t) \/ Update(t)
    \/ Stuck(t) \/ ReleaseNull(t)

(* The rest of the program may also purge the cache, at any time.          *)
Purge(t) == purge_cache(t) /\ UNCHANGED fetchVars

Age(n) == BecomeStale(n) /\ UNCHANGED fetchVars

Process ==
    /\ Exit \/ Interrupt \/ Crash \/ Restart
    /\ stage' = [t \in Threads |-> "idle"] /\ target' = [t \in Threads |-> Null]

FetchNext ==
    \/ \E t \in Threads : FetchStep(t) \/ InMethod(t) \/ Purge(t) \/ \E u \in Urls : Start(t, u)
    \/ \E n \in Names : Age(n)
    \/ Process

(* A running thread goes on; one that waits for the interface gets it if   *)
(* it is free again and again.  Nothing makes a thread start a fetch.      *)
FetchSpec ==
    /\ FetchInit /\ [][FetchNext]_allVars
    /\ \A t \in Threads : WF_allVars(InMethod(t)) /\ SF_allVars(FetchStep(t))

-----------------------------------------------------------------------------
(* Properties.                                                             *)

(* The stages agree with the cache: a thread holds a stream exactly in the *)
(* stages in which caching_fetch_url has one to release, on every path     *)
(* through it, and has the interface only while it stores or updates or is *)
(* stuck.                                                                  *)
StagesMatchCache == \A t \in Threads :
    /\ stage[t] \in {"validate", "reading", "release"} <=> Holds(t)
    /\ Holds(t) => d_cache_table[Held(t)].url = target[t]
    /\ d_cache_mutex = t => stage[t] \in {"storing", "updating"} \/ step = "hung"

(* A fetch ends, with a response or an exception, unless the interface is  *)
(* kept (KeptBusy).                                                        *)
FetchEnds == \A t \in Threads : stage[t] # "idle" ~> (stage[t] = "idle" \/ KeptBusy)

(* "@return A pointer to the open stream" (caching_fetch_url): no response *)
(* without a stream.                                                       *)
FetchReturnsStream == \A t \in Threads : stage[t] # "null"
=============================================================================
