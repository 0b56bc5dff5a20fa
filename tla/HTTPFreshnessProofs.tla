------------------------ MODULE HTTPFreshnessProofs ------------------------
(***************************************************************************)
(* Proofs about HTTPFreshness, for any clock up to the last time an int    *)
(* holds, any dates, numbers of seconds and delays, and any of the three   *)
(* parameters of the lifetime.                                             *)
(***************************************************************************)
EXTENDS HTTPFreshness, TLAPS

(* The response came in the past, and an entry that has a lifetime at all  *)
(* was old enough then to run out of it by its Expires.                    *)
RunsOutInTime(e) ==
    /\ e.response_time <= now
    /\ e.expires >= 0 /\ e.freshness_lifetime > 0 =>
         e.response_time + e.freshness_lifetime - e.corrected_initial_age <= e.expires

(* What parse_time leaves in the dates.                                    *)
DatesParsed(e) == e.lm <= LastDate /\ e.expires <= LastDate /\ e.date <= LastDate /\
                  e.lm >= Absent /\ e.expires >= Absent /\ e.date >= Absent

IInv == TypeOK /\ (entry.cached => DatesParsed(entry) /\ RunsOutInTime(entry))

-----------------------------------------------------------------------------
(* The helpers.                                                            *)

(* The larger of two integers is one of them and at least each.            *)
LEMMA LargerBounds ==
    ASSUME NEW a \in Int, NEW b \in Int
    PROVE  Larger(a, b) \in {a, b} /\ Larger(a, b) >= a /\ Larger(a, b) >= b
  BY DEF Larger

(* The cast to int of what an int holds changes nothing.                   *)
LEMMA ToIntSmall ==
    ASSUME FreshnessAssumption, NEW t \in Int, -INT_MAX - 1 <= t, t <= INT_MAX
    PROVE  ToInt(t) = t
  BY DEF ToInt, FreshnessAssumption

(* The cast to int is an integer, whatever the time.                       *)
LEMMA ToIntType ==
    ASSUME FreshnessAssumption, NEW t \in Int
    PROVE  ToInt(t) \in Int
<1> DEFINE w == 2 * INT_MAX + 2
<1>1. w \in Int /\ w > 0 /\ INT_MAX \in Int
  BY DEF FreshnessAssumption
<1>2. (t + INT_MAX + 1) \in Int
  BY <1>1
<1> HIDE DEF w
<1>3. (t + INT_MAX + 1) % w \in Int
  BY <1>1, <1>2
<1> QED BY <1>1, <1>3 DEF ToInt, w

(* The lifetime that calculate_time casts to int is an integer.            *)
LEMMA LifetimeType ==
    ASSUME FreshnessAssumption, NEW e \in Entries
    PROVE  Lifetime(e) \in Int
<1>1. /\ e.max_age \in Int /\ e.expires \in Int /\ e.date \in Int /\ e.lm \in Int
      /\ NO_LM_EXPIRATION \in Int /\ MAX_LM_EXPIRATION \in Int
  BY DEF Entries, FreshnessAssumption, Absent
<1>2. (e.date - e.lm) \div LM_PART \in Int
  BY <1>1 DEF FreshnessAssumption
<1>3. LM_EXPIRATION(e.date - e.lm) \in Int
  BY <1>1, <1>2, ToIntType DEF LM_EXPIRATION, Smaller
<1> QED BY <1>1, <1>3 DEF Lifetime

(* parse_headers leaves dates that parse_time accepts, or none.            *)
LEMMA ParsedHeaders ==
    ASSUME FreshnessAssumption, now \in Nat, NEW e \in Entries, DatesParsed(e), NEW h \in Headers
    PROVE  parse_headers(e, h) \in Entries /\ DatesParsed(parse_headers(e, h))
<1>1. ASSUME NEW old \in Int, old >= Absent, old <= LastDate, NEW d \in Dates \cup {Absent}
      PROVE  /\ Updated(old, d, parse_date(d)) \in Int
             /\ Updated(old, d, parse_date(d)) >= Absent
             /\ Updated(old, d, parse_date(d)) <= LastDate
  BY <1>1 DEF Updated, parse_date, FreshnessAssumption, Absent
<1>2. Updated(e.age, h.age, parse_seconds(h.age)) \in Int
  <2>1. e.age \in Int /\ h.age \in Deltas \cup {Absent}
    BY DEF Entries, Headers
  <2>2. h.age # Absent => h.age \in Nat
    BY <2>1 DEF FreshnessAssumption
  <2> QED BY <2>1, <2>2 DEF Updated, parse_seconds
<1>3. Updated(e.max_age, h.max_age, parse_directive(h.max_age)) \in {Absent, 0}
  BY DEF Updated, parse_directive, Entries
<1>4. /\ h.lm \in Dates \cup {Absent} /\ h.expires \in Dates \cup {Absent}
      /\ h.date \in Dates \cup {Absent} /\ h.must_revalidate \in BOOLEAN
  BY DEF Headers
<1>5. e.lm \in Int /\ e.expires \in Int /\ e.date \in Int /\ e.must_revalidate \in BOOLEAN
  BY DEF Entries
<1>6. (e.must_revalidate \/ h.must_revalidate) \in BOOLEAN
  BY <1>4, <1>5
<1>7. parse_headers(e, h) \in Entries
  BY <1>1, <1>2, <1>3, <1>4, <1>5, <1>6 DEF parse_headers, Entries, DatesParsed
<1>8. DatesParsed(parse_headers(e, h))
  BY <1>1, <1>4, <1>5 DEF parse_headers, Entries, DatesParsed
<1> QED BY <1>7, <1>8

(* A response that has just come runs out of its lifetime by its Expires.  *)
LEMMA CalculatedTime ==
    ASSUME FreshnessAssumption, now \in 0 .. MaxTime, NEW e \in Entries, DatesParsed(e),
           NEW delay \in Nat
    PROVE  LET c == calculate_time(e, now - delay)
           IN  c \in Entries /\ DatesParsed(c) /\ RunsOutInTime(c)
<1> DEFINE received == ReceivedAge(e)
           lifetime == Larger(0, ToInt(Lifetime(e)))
           c == calculate_time(e, now - delay)
<1>1. /\ e.date \in Int /\ e.expires \in Int /\ e.age \in Int
      /\ e.date >= -1 /\ e.expires >= -1 /\ e.expires <= LastDate /\ e.date <= LastDate
      /\ now \in Nat /\ now < INT_MAX /\ INT_MAX \in Nat /\ LastDate \in Nat /\ LastDate < INT_MAX
  BY DEF Entries, DatesParsed, FreshnessAssumption, Absent
<1>2. ToInt(now - e.date) = now - e.date
  BY <1>1, ToIntSmall
<1>3. received \in Nat /\ received >= now - e.date
  BY <1>1, <1>2 DEF ReceivedAge, Larger
<1>4. lifetime \in Nat
  BY LifetimeType, ToIntType DEF Larger
<1>5. e.expires >= 0 /\ lifetime > 0 => lifetime <= e.expires - e.date
  <2> SUFFICES ASSUME e.expires >= 0, lifetime > 0
               PROVE  lifetime <= e.expires - e.date
    OBVIOUS
  <2>1. CASE e.max_age >= 0
    <3>1. Lifetime(e) = 0
      BY <2>1 DEF Lifetime, Entries, Absent
    <3>2. lifetime = 0
      BY <1>1, <3>1, ToIntSmall DEF Larger
    <3> QED BY <3>2
  <2>2. CASE ~(e.max_age >= 0)
    <3>1. Lifetime(e) = e.expires - e.date
      BY <2>2 DEF Lifetime
    <3>2. ToInt(Lifetime(e)) = e.expires - e.date
      BY <1>1, <3>1, ToIntSmall
    <3> QED BY <1>1, <3>2 DEF Larger
  <2> QED BY <2>1, <2>2
<1>6. received + (now - (now - delay)) \in Nat
  BY <1>1, <1>3
<1> HIDE DEF received, lifetime
<1>7. c = [e EXCEPT !.response_time = now,
                    !.corrected_initial_age = received + (now - (now - delay)),
                    !.freshness_lifetime = lifetime]
  BY DEF calculate_time, received, lifetime
<1>8. /\ c.response_time = now /\ c.freshness_lifetime = lifetime /\ c.expires = e.expires
      /\ c.corrected_initial_age = received + (now - (now - delay))
      /\ c.lm = e.lm /\ c.date = e.date
  BY <1>7 DEF Entries
<1>9. c \in Entries
  BY <1>1, <1>4, <1>6, <1>7 DEF Entries
<1>10. DatesParsed(c)
  BY <1>8 DEF DatesParsed
<1>11. RunsOutInTime(c)
  BY <1>1, <1>3, <1>4, <1>5, <1>8 DEF RunsOutInTime
<1> QED BY <1>9, <1>10, <1>11

-----------------------------------------------------------------------------
(* The inductive invariant.                                                *)

(* At first there is no entry.                                             *)
LEMMA InitIInv ==
    ASSUME FreshnessAssumption, Init
    PROVE  IInv
  BY DEF FreshnessAssumption, Init, IInv, TypeOK, NoEntry

(* A new entry has no dates yet.                                           *)
LEMMA NewEntryParsed ==
    ASSUME FreshnessAssumption
    PROVE  NewEntry \in Entries /\ DatesParsed(NewEntry)
  BY DEF FreshnessAssumption, NewEntry, Entries, DatesParsed, Absent

(* Every step keeps it: a response by CalculatedTime, and time and a       *)
(* restart because they leave the numbers it compares alone.               *)
LEMMA NextIInv ==
    ASSUME FreshnessAssumption, IInv, [Next]_vars
    PROVE  IInv'
<1> USE DEF IInv, TypeOK
<1>1. now \in Nat
  BY DEF FreshnessAssumption
<1>2. entry.cached => entry \in Entries /\ DatesParsed(entry)
  BY DEF NoEntry
<1>3. ASSUME NEW e \in Entries, DatesParsed(e), NEW h \in Headers, NEW delay \in Delays,
             entry' = calculate_time(parse_headers(e, h), now - delay), now' = now
      PROVE  IInv'
  <2>1. delay \in Nat
    BY DEF FreshnessAssumption
  <2>2. parse_headers(e, h) \in Entries /\ DatesParsed(parse_headers(e, h))
    BY <1>1, <1>3, ParsedHeaders
  <2>3. entry' \in Entries /\ DatesParsed(entry') /\ RunsOutInTime(entry')
    BY <1>3, <2>1, <2>2, CalculatedTime
  <2>4. RunsOutInTime(entry)'
    BY <1>3, <2>3 DEF RunsOutInTime
  <2> QED BY <1>3, <2>3, <2>4 DEF DatesParsed
<1>4. ASSUME NEW h \in Headers, NEW delay \in Delays, cache_response(h, delay)
      PROVE  IInv'
  BY <1>3, <1>4, NewEntryParsed DEF cache_response
<1>5. ASSUME NEW h \in Headers, NEW delay \in Delays, update_response(h, delay)
      PROVE  IInv'
  BY <1>2, <1>3, <1>5 DEF update_response
<1>6. CASE delete_expired_entries
  BY <1>6 DEF delete_expired_entries, NoEntry
<1>7. CASE restart
  <2>1. entry \in Entries /\ DatesParsed(entry) /\ RunsOutInTime(entry) /\ now' = now
    BY <1>2, <1>7 DEF restart
  <2>2. entry' = [entry EXCEPT !.date = Absent, !.age = Absent, !.max_age = Absent]
    BY <1>7 DEF restart, cache_index_parse_line
  <2>3. entry' \in Entries
    <3>1. Absent \in Int /\ Absent \in {Absent, 0}
      BY DEF Absent
    <3> QED BY <2>1, <2>2, <3>1 DEF Entries
  <2>4. /\ entry'.lm = entry.lm /\ entry'.expires = entry.expires /\ entry'.date = Absent
        /\ entry'.response_time = entry.response_time
        /\ entry'.freshness_lifetime = entry.freshness_lifetime
        /\ entry'.corrected_initial_age = entry.corrected_initial_age
    BY <2>1, <2>2 DEF Entries
  <2>5. DatesParsed(entry)'
    BY <2>1, <2>4 DEF DatesParsed, Absent, FreshnessAssumption
  <2>6. RunsOutInTime(entry)'
    BY <2>1, <2>4 DEF RunsOutInTime
  <2> QED BY <2>1, <2>3, <2>5, <2>6
<1>8. CASE Tick
  <2>1. now' \in 0 .. MaxTime /\ now' > now /\ entry' = entry
    BY <1>1, <1>8 DEF Tick, FreshnessAssumption
  <2>2. entry.cached => RunsOutInTime(entry)'
    BY <1>1, <1>2, <2>1 DEF RunsOutInTime, Entries
  <2> QED BY <2>1, <2>2 DEF DatesParsed
<1>9. CASE UNCHANGED vars
  BY <1>9 DEF vars, DatesParsed, RunsOutInTime
<1> QED BY <1>4, <1>5, <1>6, <1>7, <1>8, <1>9 DEF Next

(* The inductive invariant holds in every reachable state.                 *)
THEOREM Invariance ==
    Spec => []IInv
<1>1. Init => IInv
  BY InitIInv, FreshnessAssumption
<1>2. IInv /\ [Next]_vars => IInv'
  BY NextIInv, FreshnessAssumption
<1> QED BY <1>1, <1>2, PTL DEF Spec

-----------------------------------------------------------------------------
(* What follows from it.                                                   *)

(* Ages, lifetimes and times are never negative, and max_age is read as 0  *)
(* or not at all: the types of calculate_time's results.                   *)
THEOREM TypeCorrect ==
    Spec => []TypeOK
<1>1. IInv => TypeOK
  BY DEF IInv
<1> QED BY <1>1, Invariance, PTL

(* The collector never removes a response that is_url_valid would accept.  *)
THEOREM CollectorTakesInvalid ==
    Spec => []ExpiredIsInvalid
<1>1. TypeOK => ExpiredIsInvalid
  <2> SUFFICES ASSUME TypeOK, entry.cached, Expired(entry), NEW c \in Controls,
                      is_url_valid(entry, c)
               PROVE  FALSE
    BY DEF ExpiredIsInvalid
  <2>1. entry \in Entries /\ now \in Int
    BY DEF TypeOK, NoEntry
  <2>2. Larger(0, c.max_stale) = 0
    BY DEF Controls, Larger, Absent
  <2> QED BY <2>1, <2>2 DEF Expired, is_url_valid, CurrentAge, ResidentTime, Entries
<1> QED BY <1>1, TypeCorrect, PTL

(* No cached response is used at or after the time in its Expires header.  *)
THEOREM ExpiresIsKept ==
    Spec => []NeverServedPastExpires
<1>1. IInv => NeverServedPastExpires
  <2> SUFFICES ASSUME IInv, entry.cached, entry.expires >= 0, is_url_valid(entry, NoControl)
               PROVE  now < entry.expires
    BY DEF NeverServedPastExpires
  <2>1. entry \in Entries /\ now \in Int /\ RunsOutInTime(entry)
    BY DEF IInv, TypeOK, NoEntry
  <2>2. entry.freshness_lifetime > CurrentAge(entry)
    BY <2>1 DEF is_url_valid, NoControl, Larger, Absent, Entries
  <2> QED BY <2>1, <2>2 DEF RunsOutInTime, CurrentAge, ResidentTime, Entries
<1> QED BY <1>1, Invariance, PTL

(* Neither time nor a restart makes an entry valid that was not.           *)
THEOREM OnlyResponsesValidate ==
    Spec => InvalidStaysInvalid
<1>1. ASSUME TypeOK, Tick \/ restart, entry.cached, NEW c \in Controls,
             is_url_valid(entry, c)'
      PROVE  is_url_valid(entry, c)
  <2>1. entry \in Entries /\ now \in Int
    BY <1>1 DEF TypeOK, NoEntry
  <2>2. /\ entry'.response_time = entry.response_time
        /\ entry'.freshness_lifetime = entry.freshness_lifetime
        /\ entry'.corrected_initial_age = entry.corrected_initial_age
        /\ entry'.must_revalidate = entry.must_revalidate
    BY <1>1, <2>1 DEF Tick, restart, cache_index_parse_line, Entries
  <2>3. now' \in Int /\ now <= now'
    BY <1>1, <2>1 DEF Tick, restart
  <2>4. /\ CurrentAge(entry) \in Int /\ CurrentAge(entry)' \in Int
        /\ CurrentAge(entry) <= CurrentAge(entry)'
    BY <2>1, <2>2, <2>3 DEF CurrentAge, ResidentTime, Entries
  <2>5. /\ c.max_age \in Int /\ c.min_fresh \in Int /\ Larger(0, c.max_stale) \in Int
        /\ entry.freshness_lifetime \in Int
    BY <2>1 DEF Controls, Larger, Absent, Entries
  <2> HIDE DEF CurrentAge
  <2> QED BY <1>1, <2>2, <2>4, <2>5 DEF is_url_valid
<1>2. TypeOK /\ [Next]_vars =>
        [entry.cached /\ (Tick \/ restart) =>
           \A c \in Controls : ~is_url_valid(entry, c) => ~is_url_valid(entry, c)']_vars
  BY <1>1
<1> QED BY <1>2, TypeCorrect, PTL DEF Spec, InvalidStaysInvalid
=============================================================================
