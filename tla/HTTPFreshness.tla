--------------------------- MODULE HTTPFreshness ---------------------------
(***************************************************************************)
(* When a cached response may be used: what HTTPCacheTable reads from the  *)
(* response's headers and computes from them (parse_headers,               *)
(* calculate_time), what HTTPCache::is_url_valid makes of it later, and    *)
(* what the garbage collector takes for expired.  HTTPCache has one bit    *)
(* in the place of all this, and relies on two facts shown here: nothing   *)
(* but a response makes an entry valid again, and what has expired is not  *)
(* valid.                                                                  *)
(*                                                                         *)
(* One entry, one clock (time(NULL)), which does not go back.  A restart   *)
(* is orderly: the index is written and read back.                         *)
(***************************************************************************)
EXTENDS Integers

CONSTANTS
    MaxTime,            \* bound: the clock stops
    LastDate,           \* parse_time refuses dates after 2020
    INT_MAX,
    NO_LM_EXPIRATION, MAX_LM_EXPIRATION,
    LM_PART,            \* the lifetime is the LM_PART-th part of the age
    Dates,              \* the dates in headers
    Deltas,             \* the numbers of seconds in headers
    Delays              \* how long a request takes

ASSUME FreshnessAssumption ==
    /\ {MaxTime, LastDate, INT_MAX, NO_LM_EXPIRATION, MAX_LM_EXPIRATION} \subseteq Nat
    /\ LM_PART \in Nat \ {0}
    /\ Dates \subseteq Nat /\ Deltas \subseteq Nat /\ Delays \subseteq Nat
    /\ MaxTime < INT_MAX /\ LastDate < INT_MAX      \* until 2038

VARIABLES
    now,    \* time(NULL)
    entry   \* the cache entry, or NoEntry

vars == <<now, entry>>

Absent == -1    \* no such header, no such directive

Headers == [lm : Dates \cup {Absent}, expires : Dates \cup {Absent},
            date : Dates \cup {Absent}, age : Deltas \cup {Absent},
            max_age : Deltas \cup {Absent}, must_revalidate : BOOLEAN]

NoEntry == [cached |-> FALSE]
NewEntry == [cached |-> TRUE, lm |-> Absent, expires |-> Absent, date |-> Absent,
             age |-> Absent, max_age |-> Absent, must_revalidate |-> FALSE,
             freshness_lifetime |-> 0, response_time |-> 0, corrected_initial_age |-> 0]

Entries == [cached : {TRUE}, lm : Int, expires : Int, date : Int, age : Int,
            max_age : {Absent, 0}, must_revalidate : BOOLEAN, freshness_lifetime : Nat,
            response_time : Nat, corrected_initial_age : Nat]

Larger(a, b) == IF a > b THEN a ELSE b
Smaller(a, b) == IF a < b THEN a ELSE b

(* static_cast<int> of a time_t.                                           *)
ToInt(t) == IF t \in -INT_MAX - 1 .. INT_MAX THEN t
            ELSE ((t + INT_MAX + 1) % (2 * INT_MAX + 2)) - INT_MAX - 1

-----------------------------------------------------------------------------
(* Headers.                                                                *)

(* parse_time returns 0 for a date it does not accept, and adds the clock  *)
(* to a number of seconds.                                                 *)
parse_date(d) == IF d <= LastDate THEN d ELSE 0
parse_seconds(n) == now + n

(* What parse_time makes of "max-age=n": value.find("=" + 1) looks for the *)
(* empty string, so the whole value is parsed, as a date.                  *)
parse_directive(n) == 0

Updated(old, h, new) == IF h = Absent THEN old ELSE new

parse_headers(e, h) ==
    [e EXCEPT !.lm = Updated(@, h.lm, parse_date(h.lm)),
              !.expires = Updated(@, h.expires, parse_date(h.expires)),
              !.date = Updated(@, h.date, parse_date(h.date)),
              !.age = Updated(@, h.age, parse_seconds(h.age)),
              !.max_age = Updated(@, h.max_age, parse_directive(h.max_age)),
              !.must_revalidate = @ \/ h.must_revalidate]

-----------------------------------------------------------------------------
(* calculate_time.                                                         *)

(* The code divides towards zero: it differs below zero only, where the    *)
(* lifetime is 0 either way.                                               *)
LM_EXPIRATION(t) == Smaller(MAX_LM_EXPIRATION, ToInt(t \div LM_PART))

Lifetime(e) ==
    IF e.max_age >= 0 THEN e.max_age
    ELSE IF e.expires >= 0 THEN e.expires - e.date
    ELSE IF e.lm >= 0 THEN LM_EXPIRATION(e.date - e.lm)
    ELSE NO_LM_EXPIRATION

StatedAge(e) == e.age
ReceivedAge(e) == Larger(Larger(0, ToInt(now - e.date)), e.age)

calculate_time(e, request_time) ==
    [e EXCEPT !.response_time = now,
              !.corrected_initial_age = ReceivedAge(e) + (now - request_time),
              !.freshness_lifetime = Larger(0, ToInt(Lifetime(e)))]

-----------------------------------------------------------------------------
(* is_url_valid and DeleteExpired.                                         *)

(* The directives of set_cache_control: absent, or, parsed as above, 0.    *)
Controls == [max_age : {Absent, 0}, max_stale : {Absent, 0}, min_fresh : {Absent, 0},
             always_validate : BOOLEAN]
NoControl == [max_age |-> Absent, max_stale |-> Absent, min_fresh |-> Absent,
              always_validate |-> FALSE]

UntilNow(e) == e.response_time - now
ResidentTime(e) == now - e.response_time

CurrentAge(e) == e.corrected_initial_age + ResidentTime(e)

is_url_valid(e, c) ==
    /\ ~c.always_validate /\ ~e.must_revalidate
    /\ c.max_age >= 0 => CurrentAge(e) <= c.max_age
    /\ c.min_fresh >= 0 => e.freshness_lifetime >= CurrentAge(e) + c.min_fresh
    /\ e.freshness_lifetime + Larger(0, c.max_stale) > CurrentAge(e)

ExpiredAtAge(e) == e.freshness_lifetime < e.corrected_initial_age + now
Expired(e) == e.freshness_lifetime < e.corrected_initial_age + (now - e.response_time)

-----------------------------------------------------------------------------
Init == now = 0 /\ entry = NoEntry

(* A request made delay ago is answered now.                               *)
Asked(delay) == delay <= now

cache_response(h, delay) ==
    /\ Asked(delay)
    /\ entry' = calculate_time(parse_headers(NewEntry, h), now - delay)
    /\ UNCHANGED now

update_response(h, delay) ==
    /\ Asked(delay) /\ entry.cached
    /\ entry' = calculate_time(parse_headers(entry, h), now - delay)
    /\ UNCHANGED now

(* What cache_index_parse_line finds of what WriteOneCacheEntry wrote.     *)
cache_index_parse_line(e) == [e EXCEPT !.date = Absent, !.age = Absent, !.max_age = Absent]

restart ==
    /\ entry.cached
    /\ entry' = cache_index_parse_line(entry)
    /\ UNCHANGED now

delete_expired_entries ==
    /\ entry.cached /\ Expired(entry)
    /\ entry' = NoEntry
    /\ UNCHANGED now

Tick ==
    /\ now < MaxTime
    /\ now' = now + 1
    /\ UNCHANGED entry

Next ==
    \/ \E h \in Headers, delay \in Delays : cache_response(h, delay) \/ update_response(h, delay)
    \/ delete_expired_entries \/ restart \/ Tick

Spec == Init /\ [][Next]_vars

-----------------------------------------------------------------------------
(* Properties.                                                             *)

(* The clock and the entry have their types.                               *)
TypeOK ==
    /\ now \in 0 .. MaxTime
    /\ entry \in Entries \cup {NoEntry}

(* DeleteExpired and is_url_valid compare the same two numbers each in its *)
(* own way: the collector never removes a response that is_url_valid would *)
(* still accept, under any cache control a client can set.                 *)
ExpiredIsInvalid ==
    entry.cached /\ Expired(entry) => \A c \in Controls : ~is_url_valid(entry, c)

(* A response is not used at or after the time its server gave in Expires, *)
(* whatever the delays, the other headers and later updates of the headers *)
(* (a Date that is missing or refused included).                           *)
NeverServedPastExpires ==
    entry.cached /\ entry.expires >= 0 /\ is_url_valid(entry, NoControl) => now < entry.expires

(* Only a response makes an entry valid: neither time nor a restart makes  *)
(* is_url_valid accept what it refused, under the same cache control.      *)
InvalidStaysInvalid ==
    [][(Tick \/ restart) /\ entry.cached =>
         \A c \in Controls : ~is_url_valid(entry, c) => ~is_url_valid(entry, c)']_vars
=============================================================================
