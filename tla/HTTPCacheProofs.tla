-------------------------- MODULE HTTPCacheProofs --------------------------
(***************************************************************************)
(* Proofs about HTTPCache, for any threads, URLs, names and sizes, any     *)
(* limits and any number of mishaps: the inductive invariant IInv and what *)
(* follows from it; and, for a cache to which no mishap happens, a second  *)
(* invariant, Orderly, under which the table, the store and the counts of  *)
(* readers agree exactly.  The last part is about HTTPConnect: threads that*)
(* fetch use the cache as HTTPCache lets them, and release what they get.  *)
(***************************************************************************)
EXTENDS HTTPConnect, FiniteSetTheorems, TLAPS

(* The steps of cache_response and update_response.                        *)
MakesBody == {"open_body", "write_body"}
MakesMeta == {"open_meta", "write_meta", "add"}
Making == MakesBody \cup MakesMeta
Updating == {"merge", "rewrite"}
Collecting == {"expired_gc", "too_big_gc", "hits_gc", "dump", "write_index"}
Waiting == {"remove", "write_lock"}
MethodSteps == Making \cup Updating \cup Collecting \cup Waiting \cup {"create", "hung"}

StepOK == step \in MethodSteps \cup {"out"}

(* Without a process there is no table and nobody in a method.             *)
DownIsEmpty == ~up => step = "out" /\ Bound = {} /\ DOMAIN d_locked_entries = {}

OutHasNoJob == step = "out" => job = NoJob

(* A method with a URL; cache_response has removed that URL's entry.       *)
JobUrl ==
    /\ step \in {"remove", "create"} \cup Making => job.url \in Urls
    /\ step \in {"create"} \cup Making => EntriesOf(job.url) = {}

(* The entry being made has a name nobody else knows, and its body file is *)
(* complete before the entry is added.                                     *)
JobIsNew ==
    step \in Making =>
        /\ job.name \in Names \ (Bound \cup DOMAIN index)
        /\ job.line \in Line /\ job.line.url = job.url
        /\ step \in MakesMeta => body[job.name] = "full"

(* The entry being updated is locked.                                      *)
JobIsLocked ==
    step \in Updating =>
        /\ job.name \in Bound
        /\ d_cache_table[job.name].writing /\ d_cache_table[job.name].readers = 0

HoldersOf(n) == {t \in Threads : Holds(t) /\ Held(t) = n}

(* The counter of an entry counts at least the clients that hold it.       *)
HeldAreCounted ==
    \A n \in Bound : ~d_cache_table[n].writing =>
        d_cache_table[n].readers >= Cardinality(HoldersOf(n))

HeldAreComplete ==
    \A t \in Threads : Holds(t) =>
        /\ Held(t) \in Bound /\ ~d_cache_table[Held(t)].writing
        /\ body[Held(t)] = "full" /\ meta[Held(t)] # "none"

(* What the table and the index name has no partly written body, and one   *)
(* entry for each URL.                                                     *)
NoPartialBodies ==
    /\ \A n \in Bound : body[n] # "partial"
    /\ IndexedBodiesAreComplete
OneLinePerUrl == \A m, n \in DOMAIN index : index[m].url = index[n].url => m = n

IInv == /\ TypeOK /\ StepOK /\ DownIsEmpty /\ OutHasNoJob /\ JobUrl /\ JobIsNew /\ JobIsLocked
        /\ HeldAreCounted /\ HeldAreComplete /\ NoPartialBodies
        /\ OneLinePerUrl /\ OneEntryPerUrl /\ SizeIsAccurate /\ DumpedCacheFits

-----------------------------------------------------------------------------
(* Without mishaps.                                                        *)

(* Only the thread that updates an entry has it locked for writing.        *)
LockedIsJob ==
    \A n \in Bound : d_cache_table[n].writing => step \in Updating /\ n = job.name

FilesOf(n, b, m) == body[n] = b /\ meta[n] = m
Stored(n, S) == IF n \in S THEN FilesOf(n, "full", "full") ELSE FilesOf(n, "none", "none")

(* The store holds the files of the entries, or of the index when there is *)
(* no process; the files of the job are as far as the method has come.     *)
StoreAgrees ==
    /\ up => \A n \in Names \ {job.name} : Stored(n, Bound)
    /\ ~up => \A n \in Names : Stored(n, DOMAIN index)
JobFiles ==
    /\ step \in MakesBody => FilesOf(job.name, "partial", "none")
    /\ step = "open_meta" => FilesOf(job.name, "full", "none")
    /\ step \in {"write_meta", "rewrite"} => FilesOf(job.name, "full", "partial")
    /\ step \in {"add", "merge"} => FilesOf(job.name, "full", "full")
    /\ step \in Collecting /\ job.name \in Names => Stored(job.name, Bound)
    /\ step \in Waiting \cup {"create", "hung", "out"} => job.name = Null

(* The index lags behind the table by what d_new_entries counts.           *)
IndexLag ==
    /\ step # "write_index" => Cardinality(Bound \ DOMAIN index) <= d_new_entries
    /\ step \notin Collecting => d_new_entries <= DUMP_FREQUENCY

Orderly == ReadersAreHolders /\ LockedIsJob /\ StoreAgrees /\ JobFiles /\ IndexLag

-----------------------------------------------------------------------------
(* Space on disk.                                                          *)

(* entry_disk_space of a size is a number of bytes.                        *)
LEMMA DiskSpaceType ==
    ASSUME NEW size \in Nat
    PROVE  DiskSpace(size) \in Nat
<1>1. BlockSize \in Nat /\ BlockSize > 0 BY TableAssumption
<1>2. (size + BlockSize) \div BlockSize \in Nat BY <1>1
<1>3. ASSUME NEW a \in Nat PROVE a * BlockSize \in Nat BY <1>1, <1>3
<1> QED BY <1>2, <1>3 DEF DiskSpace

LEMMA BytesCount ==
    ASSUME NEW n, NEW bytes \in Nat
    PROVE  IsFiniteSet(Bytes(n, bytes)) /\ Cardinality(Bytes(n, bytes)) = bytes
<1>1. IsFiniteSet({n}) /\ Cardinality({n}) = 1 BY FS_Singleton
<1>2. IsFiniteSet(1 .. bytes) /\ Cardinality(1 .. bytes) = bytes BY FS_Interval
<1>3. /\ IsFiniteSet({n} \X (1 .. bytes))
      /\ Cardinality({n} \X (1 .. bytes)) = Cardinality({n}) * Cardinality(1 .. bytes)
  BY <1>1, <1>2, FS_Product
<1>4. 1 * bytes = bytes OBVIOUS
<1> QED BY <1>1, <1>2, <1>3, <1>4 DEF Bytes

(* A table of finitely many sizes.                                         *)
Sized(table) == IsFiniteSet(DOMAIN table) /\ \A n \in DOMAIN table : table[n].size \in Nat

LEMMA BytesFinite ==
    ASSUME NEW table, Sized(table)
    PROVE  IsFiniteSet(BytesOf(table)) /\ Space(table) \in Nat
<1> DEFINE B(n) == Bytes(n, DiskSpace(table[n].size))
           f == [n \in DOMAIN table |-> B(n)]
           All == {B(n) : n \in DOMAIN table}
<1>1. \A n \in DOMAIN table : IsFiniteSet(B(n))
  BY DiskSpaceType, BytesCount DEF Sized
<1>2. f \in Surjection(DOMAIN table, All) BY DEF Surjection
<1>3. IsFiniteSet(All) BY <1>2, FS_Surjection DEF Sized
<1>4. IsFiniteSet(UNION All) BY <1>1, <1>3, FS_UNION
<1>5. UNION All = BytesOf(table) BY DEF BytesOf
<1> QED BY <1>4, <1>5, FS_CardinalityType DEF Space

(* Two tables with the same sizes take the same space.                     *)
LEMMA SpaceOfSizes ==
    ASSUME NEW f, NEW g, DOMAIN f = DOMAIN g, \A n \in DOMAIN f : f[n].size = g[n].size
    PROVE  Space(f) = Space(g)
<1>1. BytesOf(f) = BytesOf(g) BY DEF BytesOf
<1> QED BY <1>1 DEF Space

LEMMA SpaceOfNothing ==
    ASSUME NEW f, DOMAIN f = {}
    PROVE  Space(f) = 0
<1>1. BytesOf(f) = {} BY DEF BytesOf
<1> QED BY <1>1, FS_EmptySet DEF Space

(* The space of a table is that of its parts.                              *)
LEMMA SpaceOfParts ==
    ASSUME NEW f, NEW g, NEW h, Sized(f), Sized(g), Sized(h),
           DOMAIN f = DOMAIN g \cup DOMAIN h, DOMAIN g \cap DOMAIN h = {},
           \A n \in DOMAIN g : f[n].size = g[n].size,
           \A n \in DOMAIN h : f[n].size = h[n].size
    PROVE  Space(f) = Space(g) + Space(h)
<1>1. BytesOf(f) = BytesOf(g) \cup BytesOf(h)
  BY DEF BytesOf
<1>2. BytesOf(g) \cap BytesOf(h) = {}
  <2>1. \A b \in BytesOf(g) : b[1] \in DOMAIN g BY DEF BytesOf, Bytes
  <2>2. \A b \in BytesOf(h) : b[1] \in DOMAIN h BY DEF BytesOf, Bytes
  <2> QED BY <2>1, <2>2
<1>3. IsFiniteSet(BytesOf(g)) /\ IsFiniteSet(BytesOf(h)) BY BytesFinite
<1>4. Cardinality(BytesOf(g) \cup BytesOf(h)) =
        Cardinality(BytesOf(g)) + Cardinality(BytesOf(h)) - Cardinality(BytesOf(g) \cap BytesOf(h))
  BY <1>3, FS_Union
<1>5. Cardinality(BytesOf(g) \cap BytesOf(h)) = 0 BY <1>2, FS_EmptySet
<1>6. Space(g) \in Nat /\ Space(h) \in Nat BY BytesFinite
<1> QED BY <1>1, <1>4, <1>5, <1>6 DEF Space

LEMMA SpaceOfOne ==
    ASSUME NEW f, NEW n, DOMAIN f = {n}, f[n].size \in Nat
    PROVE  Space(f) = DiskSpace(f[n].size)
<1>1. BytesOf(f) = Bytes(n, DiskSpace(f[n].size)) BY DEF BytesOf
<1> QED BY <1>1, DiskSpaceType, BytesCount DEF Space

-----------------------------------------------------------------------------
(* What the operators of the table do.                                     *)

LEMMA TableSized == ASSUME TypeOK PROVE Sized(d_cache_table) /\ Sized(index)
<1>1. IsFiniteSet(Bound) /\ IsFiniteSet(DOMAIN index)
  BY TableAssumption, FS_Subset DEF TypeOK, TableTypeOK, StoreTypeOK
<1>2. \A n \in Bound : d_cache_table[n].size \in Nat
  BY TableAssumption DEF TypeOK, TableTypeOK, StoreTypeOK, Entry
<1>3. \A n \in DOMAIN index : index[n].size \in Nat
  BY TableAssumption DEF TypeOK, TableTypeOK, StoreTypeOK, Line
<1> QED BY <1>1, <1>2, <1>3 DEF Sized, Bound

LEMMA LineEntry ==
    /\ \A line \in Line : /\ EntryOf(line) \in Entry
                          /\ EntryOf(line).url = line.url /\ EntryOf(line).size = line.size
                          /\ ~EntryOf(line).writing /\ EntryOf(line).readers = 0
    /\ \A e \in Entry : LineOf(e) \in Line /\ LineOf(e).url = e.url /\ LineOf(e).size = e.size
  BY DEF Line, Entry, EntryOf, LineOf

(* REMOVE of files: those of S are gone, the others are as they were.      *)
LEMMA Unlinking ==
    ASSUME NEW f \in [Names -> FileStates], NEW S
    PROVE  /\ Unlink(f, S) \in [Names -> FileStates]
           /\ \A n \in Names : Unlink(f, S)[n] = IF n \in S THEN "none" ELSE f[n]
  BY DEF Unlink, FileStates

(* What is freed is what the size was too much.                            *)
LEMMA FreedIsSpace ==
    ASSUME TypeOK, NEW S \in SUBSET Bound
    PROVE  /\ Space(d_cache_table) = Space(Restrict(d_cache_table, Bound \ S)) + Freed(S)
           /\ Space(Restrict(d_cache_table, Bound \ S)) \in Nat /\ Freed(S) \in Nat
<1> DEFINE g == Restrict(d_cache_table, Bound \ S)
           h == Restrict(d_cache_table, S)
<1>0. Sized(d_cache_table) BY TableSized
<1>1. DOMAIN g = Bound \ S /\ \A n \in DOMAIN g : d_cache_table[n] = g[n] BY DEF Restrict
<1>2. DOMAIN h = S /\ \A n \in DOMAIN h : d_cache_table[n] = h[n] BY DEF Restrict
<1>3. IsFiniteSet(Bound \ S) /\ IsFiniteSet(S) BY <1>0, FS_Subset DEF Sized, Bound
<1>4. Sized(g) BY <1>0, <1>1, <1>3 DEF Sized, Bound
<1>5. Sized(h) BY <1>0, <1>2, <1>3 DEF Sized, Bound
<1> HIDE DEF g, h
<1>6. Space(d_cache_table) = Space(g) + Space(h)
  BY <1>0, <1>1, <1>2, <1>4, <1>5, SpaceOfParts DEF Bound
<1>7. Space(g) \in Nat /\ Space(h) \in Nat BY <1>4, <1>5, BytesFinite
<1> QED BY <1>6, <1>7 DEF g, h, Freed

LEMMA Removal ==
    ASSUME TypeOK, NEW S \in SUBSET Bound, RemoveEntries(S)
    PROVE  /\ Bound' = Bound \ S
           /\ d_cache_table' \in [Bound' -> Entry]
           /\ \A n \in Bound \ S : d_cache_table'[n] = d_cache_table[n]
           /\ d_current_size' \in Nat
           /\ SizeIsAccurate => SizeIsAccurate'
           /\ body' \in [Names -> FileStates] /\ meta' \in [Names -> FileStates]
           /\ \A n \in Names \ S : body'[n] = body[n] /\ meta'[n] = meta[n]
           /\ \A n \in S : body'[n] = "none" /\ meta'[n] = "none"
<1>1. d_cache_table' = [n \in Bound \ S |-> d_cache_table[n]] BY DEF RemoveEntries, Restrict
<1>2. Bound' = Bound \ S BY <1>1 DEF Bound
<1>3. \A n \in Bound \ S : d_cache_table'[n] = d_cache_table[n] BY <1>1
<1>4. d_cache_table' \in [Bound' -> Entry] BY <1>1, <1>2 DEF TypeOK, TableTypeOK, StoreTypeOK
<1>5. d_current_size' = Saturated(d_current_size - Freed(S)) BY DEF RemoveEntries
<1>6. d_current_size' \in Nat
  <2>1. Freed(S) \in Nat BY FreedIsSpace
  <2> QED BY <1>5, <2>1 DEF TypeOK, TableTypeOK, Saturated
<1>7. ASSUME SizeIsAccurate PROVE SizeIsAccurate'
  <2>1. d_cache_table' = Restrict(d_cache_table, Bound \ S) BY DEF RemoveEntries
  <2>2. d_current_size - Freed(S) = Space(d_cache_table') /\ Space(d_cache_table') \in Nat
    BY <1>7, <2>1, FreedIsSpace DEF SizeIsAccurate
  <2>3. d_current_size' = Space(d_cache_table') BY <1>5, <2>2 DEF Saturated
  <2> QED BY <2>3 DEF SizeIsAccurate, Space, BytesOf
<1>8. body' = Unlink(body, S) /\ meta' = Unlink(meta, S) BY DEF RemoveEntries
<1>9. body \in [Names -> FileStates] /\ meta \in [Names -> FileStates] /\ S \subseteq Names
  BY DEF TypeOK, TableTypeOK, StoreTypeOK
<1> QED BY <1>2, <1>3, <1>4, <1>6, <1>7, <1>8, <1>9, Unlinking

-----------------------------------------------------------------------------
(* The steps, by what they do to the table and the store.                  *)

(* Nothing.                                                                *)
Idle(t) ==
    \/ StopGC(t) \/ IndexFails(t) \/ NotCached(t) \/ OpenBody(t) \/ MetaFails(t)
    \/ \E u \in Urls : \/ cache_response(t, u) \/ update_response(t, u)
                       \/ LookAtEntry(t, u) \/ LookHangs(t, u)
    \/ \E m \in TotalSizes : set_max_size(t, m)
    \/ \E m \in EntrySizes : set_max_entry_size(t, m)

(* They change one file.                                                   *)
Writes(t) ==
    \/ create_location(t) \/ write_body(t) \/ BodyFails(t)
    \/ OpenMeta(t) \/ write_metadata(t) \/ MergeMeta(t) \/ OpenIndex(t)

(* They remove entries.                                                    *)
Removes(t) ==
    \/ expired_gc(t) \/ too_big_gc(t) \/ hits_gc(t)
    \/ PurgeThrows(t) \/ remove_entry_from_cache_table(t)

(* They fail with the entry locked.                                        *)
UpdateLost(t) == NoMetaToMerge(t) \/ UpdateFails(t)
GetLost(t) == \E u \in Urls : GetWithoutFiles(t, u) \/ GetFails(t, u)

LEMMA NextIs ==
    ASSUME [Next]_vars
    PROVE  \/ \E t \in Threads :
                \/ Idle(t) \/ Writes(t) \/ Removes(t) \/ UpdateLost(t) \/ GetLost(t)
                \/ cache_index_write(t) \/ Add(t) \/ get_write_locked_entry(t) \/ RewriteMeta(t)
                \/ release_cached_response(t) \/ ReleaseUnknown(t) \/ purge_cache(t)
                \/ \E u \in Urls : get_cached_response(t, u)
           \/ \E n \in Names : BecomeStale(n)
           \/ Exit \/ Interrupt \/ Crash \/ Restart \/ UNCHANGED vars
  BY DEF Next, Client, Method, Idle, Writes, Removes, UpdateLost, GetLost

LEMMA IdleKeeps == ASSUME NEW t \in Threads, Idle(t)
                   PROVE  UNCHANGED <<tableVars, diskVars, up>>
  BY DEF Idle, StopGC, IndexFails, NotCached, OpenBody, MetaFails, cache_response, update_response,
         LookAtEntry, LookHangs, Hang, set_max_size, set_max_entry_size, vars

LEMMA WritesKeep == ASSUME NEW t \in Threads, Writes(t)
                    PROVE  UNCHANGED <<tableVars, up>>
  BY DEF Writes, create_location, write_body, BodyFails, OpenMeta, write_metadata, MergeMeta,
         OpenIndex

(* Only entries without readers are removed, and by whoever is at a step   *)
(* that is not about an entry.                                             *)
LEMMA RemovesDeletable ==
    ASSUME NEW t \in Threads, Removes(t)
    PROVE  /\ \E S \in SUBSET Deletable : Collect(S)
           /\ step \in Collecting \cup {"remove", "out"} \/ d_cache_mutex = Null
<1>1. CASE expired_gc(t) BY <1>1 DEF expired_gc, Expired, At, Collecting
<1>2. CASE too_big_gc(t) BY <1>2 DEF too_big_gc, BiggerThan, At, Collecting
<1>3. CASE hits_gc(t) BY <1>3 DEF hits_gc, WithHits, At, Collecting
<1>4. CASE PurgeThrows(t) BY <1>4 DEF PurgeThrows, Free
<1>5. CASE remove_entry_from_cache_table(t)
  <2>1. Replaced(job.url) \in SUBSET Deletable
    BY <1>5 DEF remove_entry_from_cache_table, Replaced, EntriesOf, CanWriteLock, Deletable, InUse
  <2> QED BY <1>5, <2>1 DEF remove_entry_from_cache_table, Collect, At
<1> QED BY <1>1, <1>2, <1>3, <1>4, <1>5 DEF Removes

(* The cache that is deleted leaves some of its entries in the index, and  *)
(* some of the files.                                                      *)
LEMMA DestroyKeeps ==
    ASSUME TypeOK, Exit \/ Interrupt
    PROVE  /\ ForgetProcess
           /\ \E S \in SUBSET Bound : index' = [n \in Bound \ S |-> LineOf(d_cache_table[n])]
           /\ body' \in [Names -> FileStates] /\ meta' \in [Names -> FileStates]
           /\ \A n \in Names : body'[n] \in {body[n], "none"}
<1>1. PICK files : Destroy(files) BY DEF Exit, Interrupt
<1>2. ASSUME NEW E \in SUBSET Expired, NEW S \in Removals(E)
      PROVE  S \in SUBSET Bound
  BY <1>2 DEF Removals, Expired, Deletable, BiggerThan, WithHits
<1>3. PICK S \in SUBSET Bound :
         /\ index' = [n \in Bound \ S |-> LineOf(d_cache_table[n])]
         /\ body' = Unlink(Unlinked(body, "body", files), S)
         /\ meta' = Unlink(Unlinked(meta, "meta", files), S)
  BY <1>1, <1>2 DEF Destroy
<1>4. body \in [Names -> FileStates] /\ meta \in [Names -> FileStates]
  BY DEF TypeOK, StoreTypeOK
<1>5. /\ Unlinked(body, "body", files) \in [Names -> FileStates]
      /\ Unlinked(meta, "meta", files) \in [Names -> FileStates]
      /\ \A n \in Names : Unlinked(body, "body", files)[n] \in {body[n], "none"}
  BY <1>4, Unlinking DEF Unlinked
<1>6. ForgetProcess BY <1>1 DEF Destroy
<1> QED BY <1>3, <1>5, <1>6, Unlinking

-----------------------------------------------------------------------------
(* Types.                                                                  *)

LEMMA TableTypeStep ==
    ASSUME IInv, [Next]_vars
    PROVE  TableTypeOK'
<1> USE DEF Bound
<1>0. TableTypeOK BY DEF IInv, TypeOK
<1>k. ASSUME UNCHANGED tableVars PROVE TableTypeOK'
  BY <1>0, <1>k DEF TableTypeOK, tableVars
<1>r. ASSUME NEW S \in SUBSET Bound, RemoveEntries(S), UNCHANGED d_locked_entries,
             d_new_entries' \in Nat
      PROVE  TableTypeOK'
  BY <1>0, <1>r, Removal DEF TableTypeOK, IInv, TypeOK
<1>e. ASSUME DOMAIN d_cache_table' = Bound, d_cache_table' \in [Bound -> Entry],
             UNCHANGED <<d_current_size, d_new_entries, d_locked_entries>>
      PROVE  TableTypeOK'
  BY <1>0, <1>e DEF TableTypeOK
<1>1. ASSUME NEW t \in Threads, Idle(t) \/ Writes(t) PROVE TableTypeOK'
  BY <1>1, <1>k, IdleKeeps, WritesKeep
<1>2. ASSUME NEW t \in Threads, Removes(t) PROVE TableTypeOK'
  <2>1. PICK S \in SUBSET Deletable : Collect(S) BY <1>2, RemovesDeletable
  <2>2. S \in SUBSET Bound BY <2>1 DEF Deletable
  <2> QED BY <1>0, <1>r, <2>1, <2>2 DEF Collect, TableTypeOK
<1>3. ASSUME NEW t \in Threads, UpdateLost(t) PROVE TableTypeOK'
  <2>1. UpdateThrows /\ step \in Updating
    BY <1>3 DEF UpdateLost, NoMetaToMerge, UpdateFails, At, Updating
  <2>2. job.name \in Bound BY <2>1 DEF IInv, JobIsLocked
  <2> QED BY <1>0, <1>e, <2>1, <2>2 DEF UpdateThrows, TableTypeOK, Entry
<1>4. ASSUME NEW t \in Threads, GetLost(t) PROVE TableTypeOK'
  <2>1. PICK n \in Bound : GetThrows(n)
    BY <1>4 DEF GetLost, GetWithoutFiles, GetFails, EntriesOf
  <2> QED BY <1>0, <1>e, <2>1 DEF GetThrows, TableTypeOK, Entry
<1>5. ASSUME NEW t \in Threads, cache_index_write(t) PROVE TableTypeOK'
  BY <1>0, <1>5 DEF cache_index_write, TableTypeOK
<1>6. ASSUME NEW t \in Threads, Add(t) PROVE TableTypeOK'
  <2>1. job.name \in Names \ Bound /\ job.line \in Line
    BY <1>6 DEF IInv, JobIsNew, Add, At, Making, MakesMeta
  <2>2. DOMAIN d_cache_table' = Bound \cup {job.name} /\ d_cache_table' \in [DOMAIN d_cache_table' -> Entry]
    BY <1>0, <1>6, <2>1, LineEntry DEF Add, add_entry_to_cache_table, With, TableTypeOK
  <2>3. job.line.size \in Nat BY <2>1, TableAssumption DEF Line
  <2>4. d_current_size' \in Nat /\ d_new_entries' \in Nat
    BY <1>0, <1>6, <2>3, DiskSpaceType DEF Add, add_entry_to_cache_table, TableTypeOK
  <2> QED BY <1>0, <1>6, <2>1, <2>2, <2>4 DEF Add, TableTypeOK
<1>7. ASSUME NEW t \in Threads, get_write_locked_entry(t) PROVE TableTypeOK'
  <2>1. PICK n \in Bound, stale \in BOOLEAN :
          d_cache_table' = [d_cache_table EXCEPT ![n].writing = TRUE, ![n].stale = stale]
    BY <1>7 DEF get_write_locked_entry, EntriesOf
  <2>2. UNCHANGED <<d_current_size, d_new_entries, d_locked_entries>>
    BY <1>7 DEF get_write_locked_entry
  <2>3. d_cache_table \in [Bound -> Entry] BY <1>0 DEF TableTypeOK
  <2>4. d_cache_table' \in [Bound -> Entry] /\ DOMAIN d_cache_table' = Bound
    BY <2>1, <2>3 DEF Entry
  <2> QED BY <1>e, <2>2, <2>4
<1>8. ASSUME NEW t \in Threads, RewriteMeta(t) PROVE TableTypeOK'
  BY <1>0, <1>e, <1>8 DEF RewriteMeta, TableTypeOK, Entry
<1>9. ASSUME NEW t \in Threads, release_cached_response(t) PROVE TableTypeOK'
  <2>1. Held(t) \in Bound BY <1>9 DEF IInv, HeldAreComplete, release_cached_response
  <2>2. DOMAIN d_cache_table' = Bound /\ d_cache_table' \in [Bound -> Entry]
    BY <1>0, <1>9, <2>1 DEF release_cached_response, uncouple_entry_from_data, Held, TableTypeOK, Entry
  <2> QED BY <1>0, <1>9, <2>2
          DEF release_cached_response, uncouple_entry_from_data, EraseStream, Restrict, TableTypeOK
<1>10. ASSUME NEW t \in Threads, ReleaseUnknown(t) PROVE TableTypeOK'
  BY <1>0, <1>10 DEF ReleaseUnknown, uncouple_unknown, With, TableTypeOK
<1>11. ASSUME NEW t \in Threads, purge_cache(t) PROVE TableTypeOK'
  BY <1>r, <1>11 DEF purge_cache, delete_all_entries
<1>12. ASSUME NEW t \in Threads, NEW u \in Urls, get_cached_response(t, u) PROVE TableTypeOK'
  <2>1. PICK n \in Bound : bind_entry_to_data(n, t) BY <1>12 DEF get_cached_response, EntriesOf
  <2>2. DOMAIN d_cache_table' = Bound /\ d_cache_table' \in [Bound -> Entry]
    <3>1. d_cache_table \in [Bound -> Entry] BY <1>0 DEF TableTypeOK
    <3>2. \A h \in 0 .. MaxHits : NextHit(h) \in 0 .. MaxHits BY TableAssumption DEF NextHit
    <3>3. d_cache_table' = [d_cache_table EXCEPT ![n].readers = @ + 1, ![n].hits = NextHit(@)]
      BY <2>1 DEF bind_entry_to_data
    <3>4. d_cache_table[n] \in Entry BY <2>1, <3>1
    <3>5. /\ d_cache_table[n].readers + 1 \in Int
          /\ NextHit(d_cache_table[n].hits) \in 0 .. MaxHits
      BY <3>2, <3>4 DEF Entry
    <3>6. [d_cache_table[n] EXCEPT !.readers = @ + 1, !.hits = NextHit(@)] \in Entry
      BY <3>4, <3>5 DEF Entry
    <3>7. d_cache_table' = [d_cache_table EXCEPT ![n] =
                              [d_cache_table[n] EXCEPT !.readers = @ + 1, !.hits = NextHit(@)]]
      BY <3>3
    <3> QED BY <3>1, <3>6, <3>7
  <2> QED BY <1>0, <1>12, <2>1, <2>2 DEF get_cached_response, bind_entry_to_data, With, TableTypeOK
<1>13. ASSUME NEW n \in Names, BecomeStale(n) PROVE TableTypeOK'
  BY <1>0, <1>e, <1>13 DEF BecomeStale, TableTypeOK, Entry
<1>f. ASSUME ForgetProcess PROVE TableTypeOK'
  BY <1>f DEF ForgetProcess, Empty, TableTypeOK
<1>14. ASSUME Exit \/ Interrupt PROVE TableTypeOK'
  BY <1>f, <1>14, DestroyKeeps DEF IInv
<1>15. ASSUME Crash PROVE TableTypeOK' BY <1>f, <1>15 DEF Crash
<1>16. ASSUME Restart PROVE TableTypeOK'
  <2>1. DOMAIN index \subseteq Names /\ index \in [DOMAIN index -> Line]
    BY DEF IInv, TypeOK, StoreTypeOK
  <2>2. Space(index) \in Nat BY TableSized, BytesFinite DEF IInv
  <2> QED BY <1>16, <2>1, <2>2, LineEntry DEF Restart, cache_index_read, Empty, TableTypeOK
<1>17. ASSUME UNCHANGED vars PROVE TableTypeOK' BY <1>k, <1>17 DEF vars
<1> QED BY <1>1, <1>2, <1>3, <1>4, <1>5, <1>6, <1>7, <1>8, <1>9, <1>10, <1>11, <1>12, <1>13,
           <1>14, <1>15, <1>16, <1>17, NextIs

LEMMA StoreTypeStep ==
    ASSUME IInv, [Next]_vars
    PROVE  StoreTypeOK'
<1> USE DEF StoreTypeOK
<1>0. StoreTypeOK BY DEF IInv, TypeOK
<1>k. ASSUME UNCHANGED diskVars PROVE StoreTypeOK'
  BY <1>0, <1>k DEF diskVars
<1>1. ASSUME NEW t \in Threads, Idle(t) PROVE StoreTypeOK'
  BY <1>1, <1>k, IdleKeeps
<1>2. ASSUME NEW t \in Threads, Writes(t) PROVE StoreTypeOK'
  <2>1. CASE create_location(t) BY <1>0, <2>1 DEF create_location, FileStates
  <2>2. CASE write_body(t) BY <1>0, <2>2 DEF write_body, Transferred, FileStates
  <2>3. CASE BodyFails(t) BY <1>0, <2>3, Unlinking DEF BodyFails
  <2>4. CASE OpenMeta(t) BY <1>0, <2>4 DEF OpenMeta, FileStates
  <2>5. CASE write_metadata(t) BY <1>0, <2>5 DEF write_metadata, FileStates
  <2>6. CASE MergeMeta(t) BY <1>0, <2>6 DEF MergeMeta, FileStates
  <2>7. CASE OpenIndex(t) BY <1>0, <2>7 DEF OpenIndex, Empty
  <2> QED BY <1>2, <2>1, <2>2, <2>3, <2>4, <2>5, <2>6, <2>7 DEF Writes
<1>3. ASSUME NEW t \in Threads, Removes(t) PROVE StoreTypeOK'
  <2>1. PICK S \in SUBSET Deletable : Collect(S) BY <1>3, RemovesDeletable
  <2>2. S \in SUBSET Bound BY <2>1 DEF Deletable
  <2> QED BY <1>0, <2>1, <2>2, Removal DEF Collect, IInv
<1>4. ASSUME NEW t \in Threads, UpdateLost(t) PROVE StoreTypeOK'
  BY <1>k, <1>4 DEF UpdateLost, NoMetaToMerge, UpdateFails, UpdateThrows
<1>5. ASSUME NEW t \in Threads, GetLost(t) PROVE StoreTypeOK'
  BY <1>k, <1>5 DEF GetLost, GetWithoutFiles, GetFails, GetThrows
<1>l. ASSUME NEW S \in SUBSET Bound, index' = [n \in S |-> LineOf(d_cache_table[n])]
      PROVE  DOMAIN index' \subseteq Names /\ index' \in [DOMAIN index' -> Line]
  BY <1>l, LineEntry DEF IInv, TypeOK, TableTypeOK
<1>6. ASSUME NEW t \in Threads, cache_index_write(t) PROVE StoreTypeOK'
  <2> HIDE DEF StoreTypeOK
  <2>1. DOMAIN index' \subseteq Names /\ index' \in [DOMAIN index' -> Line]
    BY <1>6, <1>l DEF cache_index_write, IndexLines
  <2> QED BY <1>0, <1>6, <2>1 DEF StoreTypeOK, cache_index_write
<1>7. ASSUME NEW t \in Threads, Add(t) PROVE StoreTypeOK' BY <1>k, <1>7 DEF Add
<1>8. ASSUME NEW t \in Threads, get_write_locked_entry(t) PROVE StoreTypeOK'
  BY <1>k, <1>8 DEF get_write_locked_entry
<1>9. ASSUME NEW t \in Threads, RewriteMeta(t) PROVE StoreTypeOK'
  BY <1>0, <1>9 DEF RewriteMeta, FileStates
<1>10. ASSUME NEW t \in Threads, release_cached_response(t) \/ ReleaseUnknown(t)
       PROVE  StoreTypeOK'
  BY <1>k, <1>10 DEF release_cached_response, ReleaseUnknown
<1>11. ASSUME NEW t \in Threads, purge_cache(t) PROVE StoreTypeOK'
  BY <1>0, <1>11, Removal DEF purge_cache, delete_all_entries, Empty, IInv
<1>12. ASSUME NEW t \in Threads, NEW u \in Urls, get_cached_response(t, u) PROVE StoreTypeOK'
  BY <1>k, <1>12 DEF get_cached_response
<1>13. ASSUME NEW n \in Names, BecomeStale(n) PROVE StoreTypeOK'
  BY <1>k, <1>13 DEF BecomeStale
<1>14. ASSUME Exit \/ Interrupt PROVE StoreTypeOK'
  <2> HIDE DEF StoreTypeOK
  <2>1. PICK S \in SUBSET Bound : index' = [n \in Bound \ S |-> LineOf(d_cache_table[n])]
    BY <1>14, DestroyKeeps DEF IInv
  <2>2. DOMAIN index' \subseteq Names /\ index' \in [DOMAIN index' -> Line] BY <1>l, <2>1
  <2> QED BY <1>14, <2>2, DestroyKeeps DEF StoreTypeOK, IInv
<1>15. ASSUME Crash \/ Restart \/ UNCHANGED vars PROVE StoreTypeOK'
  BY <1>k, <1>15 DEF Crash, Restart, vars
<1> QED BY <1>1, <1>2, <1>3, <1>4, <1>5, <1>6, <1>7, <1>8, <1>9, <1>10, <1>11, <1>12, <1>13,
           <1>14, <1>15, NextIs

LEMMA TimesType == ASSUME NEW a \in Nat, NEW b \in Nat PROVE a * b \in Nat
  OBVIOUS

LEMMA DivType == ASSUME NEW a \in Nat, NEW b \in Nat \ {0} PROVE a \div b \in Nat
  OBVIOUS

Limits == [total : Nat, folder : Nat, buffer : Nat, entry : Nat]

LEMMA DefaultLimitsType == DefaultLimits \in Limits
<1>1. CACHE_TOTAL_SIZE * MEGA \in Nat /\ MAX_CACHE_ENTRY_SIZE * MEGA \in Nat
  BY CacheAssumption, TimesType
<1>2. CACHE_TOTAL_SIZE \div CACHE_FOLDER_PCT \in Nat /\ CACHE_TOTAL_SIZE \div CACHE_GC_PCT \in Nat
  BY CacheAssumption, DivType
<1> QED BY <1>1, <1>2 DEF DefaultLimits, Limits

(* Who is in a method, and where.                                          *)
CallOK == CallTypeOK /\ StepOK /\ DownIsEmpty /\ OutHasNoJob

LEMMA CallStep ==
    ASSUME IInv, [Next]_vars
    PROVE  CallOK'
<1> DEFINE Jobs == [url : Urls \cup {Null}, name : Names \cup {Null}, line : Line \cup {Null},
                    hits : 0 .. MaxHits]
           Rest == up' = TRUE /\ limits' \in Limits /\ mishaps' \in 0 .. MaxMishaps
<1>0. CallOK BY DEF IInv, TypeOK, CallOK
<1>t. /\ up \in BOOLEAN /\ job \in Jobs /\ limits \in Limits /\ mishaps \in 0 .. MaxMishaps
      /\ Null \notin Threads
  BY <1>0, CacheAssumption DEF CallOK, CallTypeOK, Limits
<1>j. NoJob \in Jobs BY TableAssumption DEF NoJob
<1>m. ASSUME NEW kind, Mishap(kind) PROVE mishaps' \in 0 .. MaxMishaps
  BY <1>t, <1>m, CacheAssumption DEF Mishap
<1>r. ASSUME Return, Rest PROVE CallOK'
  BY <1>r, <1>j DEF Return, CallOK, CallTypeOK, StepOK, DownIsEmpty, OutHasNoJob, Limits
<1>s. ASSUME NEW t \in Threads, d_cache_mutex' = t, step' \in MethodSteps, job' \in Jobs, Rest
      PROVE  CallOK'
  <2>1. step' # "out"
    BY <1>s DEF MethodSteps, Making, MakesBody, MakesMeta, Updating, Collecting, Waiting
  <2> QED BY <1>s, <1>t, <2>1 DEF CallOK, CallTypeOK, StepOK, DownIsEmpty, OutHasNoJob, Limits
<1>c. ASSUME NEW t \in Threads, d_cache_mutex = t, NEW s \in MethodSteps, Continue(s), Rest
      PROVE  CallOK'
  BY <1>c, <1>s, <1>t DEF Continue
<1>e. ASSUME NEW t \in Threads, NEW s \in MethodSteps, NEW u \in Urls \cup {Null},
             Enter(t, s, u), Rest
      PROVE  CallOK'
  <2>1. job' \in Jobs BY <1>e, <1>j DEF Enter, NoJob
  <2> QED BY <1>e, <1>s, <2>1 DEF Enter
<1>k. ASSUME UNCHANGED callVars, Rest PROVE CallOK'
  BY <1>0, <1>k DEF callVars, CallOK, CallTypeOK, StepOK, DownIsEmpty, OutHasNoJob, Limits
<1> USE <1>t DEF MethodSteps, Making, MakesBody, MakesMeta, Updating, Collecting, Waiting, At, Free
<1>1. ASSUME NEW t \in Threads, Idle(t) PROVE CallOK'
  <2>1. CASE StopGC(t) BY <1>c, <2>1 DEF StopGC
  <2>2. CASE IndexFails(t) BY <1>r, <1>m, <2>2 DEF IndexFails
  <2>3. CASE NotCached(t) BY <1>r, <2>3 DEF NotCached
  <2>4. CASE OpenBody(t) BY <1>c, <2>4 DEF OpenBody
  <2>5. CASE MetaFails(t) BY <1>r, <1>m, <2>5 DEF MetaFails
  <2>6. ASSUME NEW u \in Urls, cache_response(t, u) PROVE CallOK' BY <1>e, <2>6 DEF cache_response
  <2>7. ASSUME NEW u \in Urls, update_response(t, u) PROVE CallOK'
    BY <1>e, <2>7 DEF update_response
  <2>8. ASSUME NEW u \in Urls, LookAtEntry(t, u) PROVE CallOK'
    BY <1>k, <2>8 DEF LookAtEntry, vars
  <2>9. ASSUME NEW u \in Urls, LookHangs(t, u) PROVE CallOK'
    BY <1>e, <2>9 DEF LookHangs, Hang
  <2>c. ASSUME Enter(t, "expired_gc", Null) \/ UNCHANGED callVars, Rest PROVE CallOK'
    BY <1>e, <1>k, <2>c
  <2>10. ASSUME NEW m \in TotalSizes, set_max_size(t, m) PROVE CallOK'
    <3> DEFINE total == (IF m < MIN_CACHE_TOTAL_SIZE THEN MIN_CACHE_TOTAL_SIZE ELSE m) * MEGA
    <3>1. total \in Nat
      <4>1. (IF m < MIN_CACHE_TOTAL_SIZE THEN MIN_CACHE_TOTAL_SIZE ELSE m) \in Nat /\ MEGA \in Nat
        BY <2>10, CacheAssumption
      <4> QED BY <4>1, TimesType
    <3>2. Enter(t, "expired_gc", Null) \/ UNCHANGED callVars
      BY <2>10 DEF set_max_size, SettingCollects
    <3>3. limits' = [limits EXCEPT !.total = total,
                                   !.folder = total \div CACHE_FOLDER_PCT,
                                   !.buffer = total \div CACHE_GC_PCT]
      BY <2>10 DEF set_max_size
    <3>4. up' = TRUE /\ mishaps' = mishaps BY <2>10 DEF set_max_size
    <3> HIDE DEF total
    <3>5. total \div CACHE_FOLDER_PCT \in Nat /\ total \div CACHE_GC_PCT \in Nat
      BY <3>1, CacheAssumption, DivType
    <3>6. limits' \in Limits BY <3>1, <3>3, <3>5 DEF Limits
    <3> QED BY <2>c, <3>2, <3>4, <3>6
  <2>11. ASSUME NEW m \in EntrySizes, set_max_entry_size(t, m) PROVE CallOK'
    <3>1. m * MEGA \in Nat BY <2>11, CacheAssumption, TimesType
    <3>2. Enter(t, "expired_gc", Null) \/ UNCHANGED callVars
      BY <2>11 DEF set_max_entry_size, SettingCollects
    <3>3. limits' = [limits EXCEPT !.entry = m * MEGA] BY <2>11 DEF set_max_entry_size
    <3>4. up' = TRUE /\ mishaps' = mishaps BY <2>11 DEF set_max_entry_size
    <3>5. limits' \in Limits BY <3>1, <3>3 DEF Limits
    <3> QED BY <2>c, <3>2, <3>4, <3>5
  <2> QED BY <1>1, <2>1, <2>2, <2>3, <2>4, <2>5, <2>6, <2>7, <2>8, <2>9, <2>10, <2>11 DEF Idle
<1>2. ASSUME NEW t \in Threads, Writes(t) PROVE CallOK'
  <2>1. CASE create_location(t)
    <3>1. job' \in Jobs
      <4>1. PICK n \in FreshNames, size \in Sizes, stale \in BOOLEAN :
              job' = [job EXCEPT !.name = n, !.line =
                       [url |-> job.url, size |-> size, hits |-> 0, stale |-> stale]]
        BY <2>1 DEF create_location
      <4>2. job.url \in Urls BY <2>1 DEF IInv, JobUrl, create_location
      <4>3. [url |-> job.url, size |-> size, hits |-> 0, stale |-> stale] \in Line
        BY <4>2, TableAssumption DEF Line
      <4> QED BY <4>1, <4>3 DEF FreshNames
    <3>2. d_cache_mutex' = t /\ step' = "open_body" /\ Rest
      BY <2>1 DEF create_location
    <3> QED BY <1>s, <3>1, <3>2
  <2>2. CASE write_body(t) BY <1>c, <2>2 DEF write_body
  <2>3. CASE BodyFails(t) BY <1>r, <1>m, <2>3 DEF BodyFails
  <2>4. CASE OpenMeta(t) BY <1>c, <2>4 DEF OpenMeta
  <2>5. CASE write_metadata(t) BY <1>c, <2>5 DEF write_metadata
  <2>6. CASE MergeMeta(t) BY <1>c, <2>6 DEF MergeMeta
  <2>7. CASE OpenIndex(t) BY <1>c, <2>7 DEF OpenIndex
  <2> QED BY <1>2, <2>1, <2>2, <2>3, <2>4, <2>5, <2>6, <2>7 DEF Writes
<1>3. ASSUME NEW t \in Threads, Removes(t) PROVE CallOK'
  <2>1. CASE expired_gc(t) BY <1>c, <2>1 DEF expired_gc, Collect
  <2>2. CASE too_big_gc(t) BY <1>c, <2>2 DEF too_big_gc, AfterTooBig, Collect
  <2>3. CASE hits_gc(t)
    <3>1. job' \in Jobs BY <2>3, TableAssumption DEF hits_gc, NextHits
    <3> QED BY <1>s, <2>3, <3>1 DEF hits_gc, Collect
  <2>4. CASE PurgeThrows(t) BY <1>k, <2>4 DEF PurgeThrows, Collect
  <2>5. CASE remove_entry_from_cache_table(t) BY <1>c, <2>5 DEF remove_entry_from_cache_table
  <2> QED BY <1>3, <2>1, <2>2, <2>3, <2>4, <2>5 DEF Removes
<1>4. ASSUME NEW t \in Threads, UpdateLost(t) PROVE CallOK'
  BY <1>r, <1>m, <1>4 DEF UpdateLost, NoMetaToMerge, UpdateFails, UpdateThrows
<1>5. ASSUME NEW t \in Threads, GetLost(t) PROVE CallOK'
  BY <1>k, <1>m, <1>5 DEF GetLost, GetWithoutFiles, GetFails, GetThrows
<1>6. ASSUME NEW t \in Threads, cache_index_write(t) PROVE CallOK'
  BY <1>r, <1>6 DEF cache_index_write
<1>7. ASSUME NEW t \in Threads, Add(t) PROVE CallOK' BY <1>r, <1>c, <1>7 DEF Add
<1>8. ASSUME NEW t \in Threads, get_write_locked_entry(t) PROVE CallOK'
  <2>1. job' \in Jobs BY <1>8 DEF get_write_locked_entry, EntriesOf, IInv, TypeOK, TableTypeOK
  <2> QED BY <1>s, <1>8, <2>1 DEF get_write_locked_entry
<1>9. ASSUME NEW t \in Threads, RewriteMeta(t) PROVE CallOK' BY <1>r, <1>9 DEF RewriteMeta
<1>10. ASSUME NEW t \in Threads,
              release_cached_response(t) \/ ReleaseUnknown(t) \/ purge_cache(t)
       PROVE  CallOK'
  BY <1>k, <1>10 DEF release_cached_response, ReleaseUnknown, purge_cache
<1>11. ASSUME NEW t \in Threads, NEW u \in Urls, get_cached_response(t, u) PROVE CallOK'
  BY <1>k, <1>11 DEF get_cached_response
<1>12. ASSUME NEW n \in Names, BecomeStale(n) PROVE CallOK' BY <1>k, <1>12 DEF BecomeStale
<1>f. ASSUME ForgetProcess, mishaps' \in 0 .. MaxMishaps PROVE CallOK'
  BY <1>f, <1>j, DefaultLimitsType
     DEF ForgetProcess, Return, Empty, Bound, CallOK, CallTypeOK, StepOK, DownIsEmpty, OutHasNoJob, Limits
<1>13. ASSUME Exit \/ Interrupt PROVE CallOK'
  <2>1. mishaps' \in 0 .. MaxMishaps BY <1>m, <1>13 DEF Exit, Interrupt
  <2> QED BY <1>f, <1>13, <2>1, DestroyKeeps DEF IInv
<1>14. ASSUME Crash PROVE CallOK' BY <1>f, <1>m, <1>14 DEF Crash
<1>15. ASSUME Restart PROVE CallOK' BY <1>k, <1>15 DEF Restart
<1>16. ASSUME UNCHANGED vars PROVE CallOK'
  BY <1>0, <1>16
     DEF vars, callVars, tableVars, Bound, CallOK, CallTypeOK, StepOK, DownIsEmpty, OutHasNoJob
<1> QED BY <1>1, <1>2, <1>3, <1>4, <1>5, <1>6, <1>7, <1>8, <1>9, <1>10, <1>11, <1>12, <1>13,
           <1>14, <1>15, <1>16, NextIs

-----------------------------------------------------------------------------
(* The entries and the space they take.                                    *)

SameEntries ==
    /\ Bound' = Bound
    /\ \A n \in Bound : /\ d_cache_table'[n].url = d_cache_table[n].url
                        /\ d_cache_table'[n].size = d_cache_table[n].size

(* A step keeps the entries' URLs and sizes, or removes entries, or adds   *)
(* one, or is the end or the start of a process.                           *)
LEMMA TableSteps ==
    ASSUME IInv, [Next]_vars
    PROVE  \/ SameEntries /\ UNCHANGED d_current_size
           \/ \E S \in SUBSET Bound : RemoveEntries(S)
           \/ \E t \in Threads : Add(t)
           \/ ForgetProcess
           \/ Restart
<1> DEFINE Same == SameEntries /\ UNCHANGED d_current_size
<1>b. d_cache_table \in [Bound -> Entry] BY DEF IInv, TypeOK, TableTypeOK
<1>k. ASSUME UNCHANGED <<d_cache_table, d_current_size>> PROVE Same
  BY <1>k DEF SameEntries, Bound
<1>1. ASSUME NEW t \in Threads, Idle(t) \/ Writes(t) PROVE Same
  BY <1>1, <1>k, IdleKeeps, WritesKeep DEF tableVars
<1>2. ASSUME NEW t \in Threads, Removes(t) PROVE \E S \in SUBSET Bound : RemoveEntries(S)
  BY <1>2, RemovesDeletable DEF Collect, Deletable
<1> USE DEF SameEntries, Bound, Entry
<1>3. ASSUME NEW t \in Threads, UpdateLost(t) PROVE Same
  BY <1>b, <1>3 DEF UpdateLost, NoMetaToMerge, UpdateFails, UpdateThrows
<1>4. ASSUME NEW t \in Threads, GetLost(t) PROVE Same
  BY <1>b, <1>4 DEF GetLost, GetWithoutFiles, GetFails, GetThrows
<1>5. ASSUME NEW t \in Threads, cache_index_write(t) \/ ReleaseUnknown(t) PROVE Same
  BY <1>k, <1>5 DEF cache_index_write, ReleaseUnknown
<1>6. ASSUME NEW t \in Threads, get_write_locked_entry(t) PROVE Same
  <2>1. PICK n \in Bound, stale \in BOOLEAN :
          d_cache_table' = [d_cache_table EXCEPT ![n].writing = TRUE, ![n].stale = stale]
    BY <1>6 DEF get_write_locked_entry, EntriesOf
  <2>2. UNCHANGED d_current_size BY <1>6 DEF get_write_locked_entry
  <2> QED BY <1>b, <2>1, <2>2
<1>7. ASSUME NEW t \in Threads, RewriteMeta(t) PROVE Same
  BY <1>b, <1>7 DEF RewriteMeta
<1>8. ASSUME NEW t \in Threads, release_cached_response(t) PROVE Same
  BY <1>b, <1>8 DEF release_cached_response, uncouple_entry_from_data
<1>9. ASSUME NEW t \in Threads, purge_cache(t) PROVE \E S \in SUBSET Bound : RemoveEntries(S)
  BY <1>9 DEF purge_cache, delete_all_entries
<1>10. ASSUME NEW t \in Threads, NEW u \in Urls, get_cached_response(t, u) PROVE Same
  <2>1. PICK n \in Bound : bind_entry_to_data(n, t) BY <1>10 DEF get_cached_response, EntriesOf
  <2>2. UNCHANGED d_current_size BY <1>10 DEF get_cached_response
  <2>3. d_cache_table' = [d_cache_table EXCEPT ![n].readers = @ + 1, ![n].hits = NextHit(@)]
    BY <2>1 DEF bind_entry_to_data
  <2> QED BY <1>b, <2>2, <2>3
<1>11. ASSUME NEW n \in Names, BecomeStale(n) PROVE Same
  BY <1>b, <1>11 DEF BecomeStale
<1>12. ASSUME Exit \/ Interrupt \/ Crash PROVE ForgetProcess
  BY <1>12, DestroyKeeps DEF IInv, Crash
<1>13. ASSUME UNCHANGED vars PROVE Same BY <1>k, <1>13 DEF vars, tableVars
<1> QED BY <1>1, <1>2, <1>3, <1>4, <1>5, <1>6, <1>7, <1>8, <1>9, <1>10, <1>11, <1>12, <1>13, NextIs

LEMMA SizeStep ==
    ASSUME IInv, [Next]_vars
    PROVE  SizeIsAccurate'
<1>0. TypeOK /\ SizeIsAccurate BY DEF IInv
<1>1. CASE SameEntries /\ UNCHANGED d_current_size
  <2>1. DOMAIN d_cache_table' = DOMAIN d_cache_table BY <1>1 DEF SameEntries, Bound
  <2>2. Space(d_cache_table') = Space(d_cache_table)
    BY <1>1, <2>1, SpaceOfSizes DEF SameEntries, Bound
  <2> QED BY <1>0, <1>1, <2>2 DEF SizeIsAccurate, Space, BytesOf
<1>2. ASSUME NEW S \in SUBSET Bound, RemoveEntries(S) PROVE SizeIsAccurate'
  BY <1>0, <1>2, Removal
<1>3. ASSUME NEW t \in Threads, Add(t) PROVE SizeIsAccurate'
  <2> DEFINE g == d_cache_table'
             h == [n \in {job.name} |-> EntryOf(job.line)]
  <2>1. job.name \in Names \ Bound /\ job.line \in Line
    BY <1>3 DEF IInv, JobIsNew, Add, At, Making, MakesMeta
  <2>2. g = With(d_cache_table, job.name, EntryOf(job.line))
    BY <1>3 DEF Add, add_entry_to_cache_table
  <2>3. h[job.name].size = job.line.size /\ job.line.size \in Nat
    BY <2>1, LineEntry, TableAssumption DEF Line
  <2>4. Sized(d_cache_table) BY <1>0, TableSized
  <2>5. Sized(h) BY <2>3, FS_Singleton DEF Sized
  <2>h. DOMAIN h = {job.name} /\ h[job.name] = EntryOf(job.line) OBVIOUS
  <2>9. Space(h) = DiskSpace(job.line.size) BY <2>3, SpaceOfOne
  <2> HIDE DEF g, h
  <2>w. /\ DOMAIN g = DOMAIN d_cache_table \cup {job.name} /\ g[job.name] = EntryOf(job.line)
        /\ \A n \in DOMAIN d_cache_table \ {job.name} : g[n] = d_cache_table[n]
    BY <2>2 DEF With
  <2>6. DOMAIN g = DOMAIN d_cache_table \cup DOMAIN h /\ DOMAIN d_cache_table \cap DOMAIN h = {}
    BY <2>1, <2>h, <2>w DEF Bound
  <2>7. /\ \A n \in DOMAIN d_cache_table : g[n].size = d_cache_table[n].size
        /\ \A n \in DOMAIN h : g[n].size = h[n].size
    BY <2>1, <2>h, <2>w DEF Bound
  <2>8. Sized(g)
    <3>1. IsFiniteSet(DOMAIN g) BY <2>4, <2>5, <2>6, FS_Union DEF Sized
    <3> QED BY <2>4, <2>5, <2>6, <2>7, <3>1 DEF Sized
  <2>10. Space(g) = Space(d_cache_table) + Space(h)
    BY <2>4, <2>5, <2>6, <2>7, <2>8, SpaceOfParts
  <2>11. d_current_size' = d_current_size + DiskSpace(job.line.size)
    BY <1>3 DEF Add, add_entry_to_cache_table
  <2> QED BY <1>0, <2>9, <2>10, <2>11 DEF g, SizeIsAccurate, Space, BytesOf
<1>4. CASE ForgetProcess
  <2>1. Space(d_cache_table') = 0 BY <1>4, SpaceOfNothing DEF ForgetProcess, Empty
  <2> QED BY <1>4, <2>1 DEF ForgetProcess, SizeIsAccurate, Space, BytesOf
<1>5. CASE Restart
  <2>1. d_cache_table' = [n \in DOMAIN index |-> EntryOf(index[n])] /\ d_current_size' = Space(index)
    BY <1>5 DEF Restart, cache_index_read
  <2>2. index \in [DOMAIN index -> Line] BY <1>0 DEF TypeOK, StoreTypeOK
  <2>3. \A n \in DOMAIN index : d_cache_table'[n].size = index[n].size
    BY <2>1, <2>2, LineEntry
  <2>4. Space(d_cache_table') = Space(index) BY <2>1, <2>3, SpaceOfSizes
  <2> QED BY <2>1, <2>4 DEF SizeIsAccurate, Space, BytesOf
<1> QED BY <1>1, <1>2, <1>3, <1>4, <1>5, TableSteps

(* One entry for each URL: a response is added when its URL has none.      *)
LEMMA EntryStep ==
    ASSUME IInv, [Next]_vars
    PROVE  OneEntryPerUrl'
<1> USE DEF OneEntryPerUrl
<1>0. TypeOK /\ OneEntryPerUrl BY DEF IInv
<1>1. CASE SameEntries /\ UNCHANGED d_current_size BY <1>0, <1>1 DEF SameEntries
<1>2. ASSUME NEW S \in SUBSET Bound, RemoveEntries(S) PROVE OneEntryPerUrl'
  <2>1. Bound' = Bound \ S /\ \A n \in Bound \ S : d_cache_table'[n] = d_cache_table[n]
    BY <1>0, <1>2, Removal
  <2> QED BY <1>0, <2>1
<1>3. ASSUME NEW t \in Threads, Add(t) PROVE OneEntryPerUrl'
  <2>1. step = "add" BY <1>3 DEF Add, At
  <2>2. /\ job.name \in Names \ Bound /\ job.line \in Line /\ job.line.url = job.url
        /\ EntriesOf(job.url) = {}
    BY <2>1 DEF IInv, JobIsNew, JobUrl, Making, MakesMeta
  <2>3. EntryOf(job.line).url = job.url BY <2>2, LineEntry
  <2>4. /\ Bound' = Bound \cup {job.name}
        /\ d_cache_table'[job.name] = EntryOf(job.line)
        /\ \A n \in Bound : d_cache_table'[n] = d_cache_table[n]
    BY <1>3, <2>2 DEF Add, add_entry_to_cache_table, With, Bound
  <2>5. \A n \in Bound : d_cache_table[n].url # job.url BY <2>2 DEF EntriesOf
  <2> QED BY <1>0, <2>3, <2>4, <2>5
<1>4. CASE ForgetProcess BY <1>4 DEF ForgetProcess, Empty, Bound
<1>5. CASE Restart
  <2>1. d_cache_table' = [n \in DOMAIN index |-> EntryOf(index[n])]
    BY <1>5 DEF Restart, cache_index_read
  <2>2. index \in [DOMAIN index -> Line] BY <1>0 DEF TypeOK, StoreTypeOK
  <2>3. Bound' = DOMAIN index /\ \A n \in DOMAIN index : d_cache_table'[n].url = index[n].url
    BY <2>1, <2>2, LineEntry DEF Bound
  <2>4. OneLinePerUrl BY DEF IInv
  <2> QED BY <2>3, <2>4 DEF OneLinePerUrl
<1> QED BY <1>1, <1>2, <1>3, <1>4, <1>5, TableSteps

(* The lines of the index are kept, or dropped, or those of entries.       *)
LEMMA IndexSteps ==
    ASSUME IInv, [Next]_vars
    PROVE  \/ index' = index
           \/ index' = Empty
           \/ \E S \in SUBSET Bound : index' = [n \in S |-> LineOf(d_cache_table[n])]
<1>1. ASSUME NEW t \in Threads, Idle(t) PROVE index' = index
  BY <1>1, IdleKeeps DEF diskVars
<1>2. ASSUME NEW t \in Threads, Writes(t) PROVE index' \in {index, Empty}
  BY <1>2 DEF Writes, create_location, write_body, BodyFails, OpenMeta, write_metadata,
              MergeMeta, OpenIndex
<1>3. ASSUME NEW t \in Threads, Removes(t) PROVE index' = index
  BY <1>3, RemovesDeletable DEF Collect
<1>4. ASSUME NEW t \in Threads, UpdateLost(t) \/ GetLost(t) PROVE index' = index
  BY <1>4 DEF UpdateLost, NoMetaToMerge, UpdateFails, UpdateThrows,
              GetLost, GetWithoutFiles, GetFails, GetThrows, diskVars
<1>5. ASSUME NEW t \in Threads, cache_index_write(t)
      PROVE  index' = [n \in Bound |-> LineOf(d_cache_table[n])]
  BY <1>5 DEF cache_index_write, IndexLines
<1>6. ASSUME NEW t \in Threads,
             \/ Add(t) \/ get_write_locked_entry(t) \/ RewriteMeta(t)
             \/ release_cached_response(t) \/ ReleaseUnknown(t)
      PROVE  index' = index
  BY <1>6 DEF Add, get_write_locked_entry, RewriteMeta, release_cached_response, ReleaseUnknown,
              diskVars
<1>7. ASSUME NEW t \in Threads, purge_cache(t) PROVE index' = Empty
  BY <1>7 DEF purge_cache, delete_all_entries
<1>8. ASSUME NEW t \in Threads, NEW u \in Urls, get_cached_response(t, u) PROVE index' = index
  BY <1>8 DEF get_cached_response, diskVars
<1>9. ASSUME NEW n \in Names, BecomeStale(n) PROVE index' = index
  BY <1>9 DEF BecomeStale, diskVars
<1>10. ASSUME Exit \/ Interrupt
       PROVE  \E S \in SUBSET Bound : index' = [n \in S |-> LineOf(d_cache_table[n])]
  <2>1. PICK S \in SUBSET Bound : index' = [n \in Bound \ S |-> LineOf(d_cache_table[n])]
    BY <1>10, DestroyKeeps DEF IInv
  <2> QED BY <2>1
<1>11. ASSUME Crash \/ Restart \/ UNCHANGED vars PROVE index' = index
  BY <1>11 DEF Crash, Restart, vars, diskVars
<1> QED BY <1>1, <1>2, <1>3, <1>4, <1>5, <1>6, <1>7, <1>8, <1>9, <1>10, <1>11, NextIs

LEMMA LineStep ==
    ASSUME IInv, [Next]_vars
    PROVE  OneLinePerUrl'
<1> USE DEF OneLinePerUrl
<1>1. OneLinePerUrl BY DEF IInv
<1>2. CASE index' = index BY <1>1, <1>2
<1>3. CASE index' = Empty BY <1>3 DEF Empty
<1>4. ASSUME NEW S \in SUBSET Bound, index' = [n \in S |-> LineOf(d_cache_table[n])]
      PROVE  OneLinePerUrl'
  <2>1. d_cache_table \in [Bound -> Entry] BY DEF IInv, TypeOK, TableTypeOK
  <2>2. \A n \in S : index'[n].url = d_cache_table[n].url BY <1>4, <2>1, LineEntry
  <2> QED BY <1>4, <2>2 DEF IInv, OneEntryPerUrl
<1> QED BY <1>2, <1>3, <1>4, IndexSteps

-----------------------------------------------------------------------------
(* The store.                                                              *)

(* A file of the table or the index is never truncated: only a new one is. *)
LEMMA BodySteps ==
    ASSUME IInv, [Next]_vars
    PROVE  \/ \A n \in Names : body'[n] = "partial" => body[n] = "partial"
           \/ \E new \in Names \ (Bound \cup DOMAIN index) :
                /\ UNCHANGED <<d_cache_table, index>>
                /\ \A n \in Names \ {new} : body'[n] = body[n]
<1> DEFINE NoNew == \A n \in Names : body'[n] = "partial" => body[n] = "partial"
<1>b. TypeOK /\ body \in [Names -> FileStates] BY DEF IInv, TypeOK, StoreTypeOK
<1>k. ASSUME body' = body PROVE NoNew BY <1>k
<1>1. ASSUME NEW t \in Threads, Idle(t) PROVE NoNew BY <1>1, <1>k, IdleKeeps DEF diskVars
<1>2. ASSUME NEW t \in Threads, create_location(t)
      PROVE  \E new \in Names \ (Bound \cup DOMAIN index) :
                /\ UNCHANGED <<d_cache_table, index>>
                /\ \A n \in Names \ {new} : body'[n] = body[n]
  BY <1>b, <1>2 DEF create_location, FreshNames, tableVars
<1>3. ASSUME NEW t \in Threads, write_body(t) PROVE NoNew
  BY <1>b, <1>3 DEF write_body, Transferred
<1>4. ASSUME NEW t \in Threads, BodyFails(t) PROVE NoNew
  BY <1>b, <1>4, Unlinking DEF BodyFails
<1>5. ASSUME NEW t \in Threads,
             OpenMeta(t) \/ write_metadata(t) \/ MergeMeta(t) \/ OpenIndex(t)
      PROVE  NoNew
  BY <1>k, <1>5 DEF OpenMeta, write_metadata, MergeMeta, OpenIndex
<1>6. ASSUME NEW S \in SUBSET Bound, RemoveEntries(S) PROVE NoNew
  BY <1>b, <1>6, Removal
<1>7. ASSUME NEW t \in Threads, Removes(t) PROVE NoNew
  BY <1>6, <1>7, RemovesDeletable DEF Collect, Deletable
<1>8. ASSUME NEW t \in Threads, UpdateLost(t) \/ GetLost(t) PROVE NoNew
  BY <1>k, <1>8 DEF UpdateLost, NoMetaToMerge, UpdateFails, UpdateThrows,
              GetLost, GetWithoutFiles, GetFails, GetThrows, diskVars
<1>9. ASSUME NEW t \in Threads,
             \/ cache_index_write(t) \/ Add(t) \/ get_write_locked_entry(t) \/ RewriteMeta(t)
             \/ release_cached_response(t) \/ ReleaseUnknown(t)
      PROVE  NoNew
  BY <1>k, <1>9 DEF cache_index_write, Add, get_write_locked_entry, RewriteMeta,
                    release_cached_response, ReleaseUnknown, diskVars
<1>10. ASSUME NEW t \in Threads, purge_cache(t) PROVE NoNew
  BY <1>6, <1>10 DEF purge_cache, delete_all_entries
<1>11. ASSUME NEW t \in Threads, NEW u \in Urls, get_cached_response(t, u) PROVE NoNew
  BY <1>k, <1>11 DEF get_cached_response, diskVars
<1>12. ASSUME NEW n \in Names, BecomeStale(n) PROVE NoNew BY <1>k, <1>12 DEF BecomeStale, diskVars
<1>13. ASSUME Exit \/ Interrupt PROVE NoNew
  <2>1. \A n \in Names : body'[n] \in {body[n], "none"} BY <1>b, <1>13, DestroyKeeps
  <2> QED BY <2>1
<1>14. ASSUME Crash \/ Restart \/ UNCHANGED vars PROVE NoNew
  BY <1>k, <1>14 DEF Crash, Restart, vars, diskVars
<1> HIDE DEF NoNew
<1>15. \/ NoNew
       \/ \E new \in Names \ (Bound \cup DOMAIN index) :
                /\ UNCHANGED <<d_cache_table, index>>
                /\ \A n \in Names \ {new} : body'[n] = body[n]
  BY <1>1, <1>2, <1>3, <1>4, <1>5, <1>7, <1>8, <1>9, <1>10, <1>11, <1>12, <1>13, <1>14, NextIs
     DEF Writes
<1> QED BY <1>15 DEF NoNew

LEMMA PartialStep ==
    ASSUME IInv, [Next]_vars
    PROVE  NoPartialBodies'
<1> USE DEF NoPartialBodies, IndexedBodiesAreComplete
<1>0. /\ TypeOK /\ Bound \subseteq Names /\ DOMAIN index \subseteq Names
      /\ \A n \in Bound : body[n] # "partial"
      /\ \A n \in DOMAIN index : body[n] # "partial"
  BY DEF IInv, TypeOK, TableTypeOK, StoreTypeOK
<1>1. ASSUME NEW new \in Names \ (Bound \cup DOMAIN index), UNCHANGED <<d_cache_table, index>>,
             \A n \in Names \ {new} : body'[n] = body[n]
      PROVE  NoPartialBodies'
  <2>1. Bound' = Bound BY <1>1 DEF Bound
  <2> QED BY <1>0, <1>1, <2>1
<1>2. ASSUME \A n \in Names : body'[n] = "partial" => body[n] = "partial"
      PROVE  NoPartialBodies'
  <2>1. ASSUME NEW n \in DOMAIN index' PROVE body'[n] # "partial"
    <3>1. DOMAIN index' \subseteq DOMAIN index \cup Bound
      BY IndexSteps DEF Empty
    <3> QED BY <1>0, <1>2, <2>1, <3>1
  <2>2. ASSUME NEW n \in Bound' PROVE body'[n] # "partial"
    <3>1. CASE n \in Bound \cup DOMAIN index BY <1>0, <1>2, <3>1
    <3>2. CASE n \notin Bound \cup DOMAIN index
      <4>1. \/ Bound' \subseteq Bound \cup DOMAIN index \/ \E t \in Threads : Add(t)
        <5>1. ASSUME NEW S \in SUBSET Bound, RemoveEntries(S) PROVE Bound' = Bound \ S
          BY <1>0, <5>1, Removal
        <5>2. ASSUME ForgetProcess \/ Restart PROVE Bound' \subseteq DOMAIN index
          BY <5>2 DEF ForgetProcess, Restart, cache_index_read, Empty, Bound
        <5> QED BY <5>1, <5>2, TableSteps DEF SameEntries
      <4>2. PICK t \in Threads : Add(t) BY <2>2, <3>2, <4>1
      <4>3. Bound' = Bound \cup {job.name} /\ body' = body
        BY <4>2 DEF Add, add_entry_to_cache_table, With, Bound, diskVars
      <4>4. body[job.name] = "full"
        BY <4>2 DEF Add, At, IInv, JobIsNew, Making, MakesMeta
      <4> QED BY <2>2, <3>2, <4>3, <4>4
    <3> QED BY <3>1, <3>2
  <2> QED BY <2>1, <2>2
<1> QED BY <1>1, <1>2, BodySteps

-----------------------------------------------------------------------------
(* The work of a method.                                                   *)

JobOK == JobUrl /\ JobIsNew /\ JobIsLocked

LEMMA JobStep ==
    ASSUME IInv, [Next]_vars
    PROVE  JobOK'
<1> USE DEF MethodSteps, Making, MakesBody, MakesMeta, Updating, Collecting, Waiting
<1>0. /\ JobOK /\ TypeOK
      /\ Bound \subseteq Names /\ d_cache_table \in [Bound -> Entry]
      /\ body \in [Names -> FileStates]
      /\ Free => step = "out"
  BY DEF IInv, JobOK, TypeOK, TableTypeOK, StoreTypeOK, CallTypeOK, Free
<1>f. ASSUME step' \in Collecting \cup {"out", "write_lock", "hung"} PROVE JobOK'
  BY <1>f DEF JobOK, JobUrl, JobIsNew, JobIsLocked
<1>u. ASSUME UNCHANGED callVars, step = "out" PROVE JobOK'
  BY <1>f, <1>u DEF callVars
<1>r. ASSUME Return PROVE JobOK' BY <1>f, <1>r DEF Return
<1>m. ASSUME step \in Making, step' \in Making, step \in MakesMeta \/ step' \in MakesBody,
             UNCHANGED <<job, d_cache_table, body, index>>
      PROVE  JobOK'
  BY <1>0, <1>m DEF JobOK, JobUrl, JobIsNew, JobIsLocked, EntriesOf, Bound
<1>1. ASSUME NEW t \in Threads, Idle(t) PROVE JobOK'
  <2>1. CASE StopGC(t) BY <1>f, <2>1 DEF StopGC, Continue
  <2>2. CASE IndexFails(t) \/ NotCached(t) \/ MetaFails(t)
    BY <1>r, <2>2 DEF IndexFails, NotCached, MetaFails
  <2>3. CASE OpenBody(t)
    <3>1. step = "open_body" /\ step' = "write_body" /\ UNCHANGED <<job, d_cache_table, body, index>>
      BY <2>3 DEF OpenBody, At, Continue, tableVars, diskVars
    <3> QED BY <1>m, <3>1
  <2>4. ASSUME NEW u \in Urls, cache_response(t, u) PROVE JobOK'
    BY <2>4 DEF cache_response, Enter, NoJob, JobOK, JobUrl, JobIsNew, JobIsLocked
  <2>5. ASSUME NEW u \in Urls, update_response(t, u) \/ LookHangs(t, u) PROVE JobOK'
    BY <1>f, <2>5 DEF update_response, LookHangs, Hang, Enter
  <2>6. ASSUME NEW u \in Urls, LookAtEntry(t, u) PROVE JobOK'
    BY <1>0, <1>u, <2>6 DEF LookAtEntry, vars
  <2>7. ASSUME NEW m \in TotalSizes, set_max_size(t, m) PROVE JobOK'
    <3>1. step = "out" /\ (Enter(t, "expired_gc", Null) \/ UNCHANGED callVars)
      BY <1>0, <2>7 DEF set_max_size, SettingCollects
    <3> QED BY <1>f, <1>u, <3>1 DEF Enter
  <2>8. ASSUME NEW m \in EntrySizes, set_max_entry_size(t, m) PROVE JobOK'
    <3>1. step = "out" /\ (Enter(t, "expired_gc", Null) \/ UNCHANGED callVars)
      BY <1>0, <2>8 DEF set_max_entry_size, SettingCollects
    <3> QED BY <1>f, <1>u, <3>1 DEF Enter
  <2> QED BY <1>1, <2>1, <2>2, <2>3, <2>4, <2>5, <2>6, <2>7, <2>8 DEF Idle
<1>2. ASSUME NEW t \in Threads, Writes(t) PROVE JobOK'
  <2>1. CASE create_location(t)
    <3>1. PICK n \in FreshNames, size \in Sizes, stale \in BOOLEAN :
            job' = [job EXCEPT !.name = n, !.line =
                     [url |-> job.url, size |-> size, hits |-> 0, stale |-> stale]]
      BY <2>1 DEF create_location
    <3>2. /\ step = "create" /\ step' = "open_body" /\ UNCHANGED <<d_cache_table, index>>
      BY <2>1 DEF create_location, At, tableVars
    <3>3. job.url \in Urls /\ EntriesOf(job.url) = {}
      BY <1>0, <3>2 DEF JobOK, JobUrl
    <3>4. /\ job'.name = n /\ job'.url = job.url
          /\ job'.line = [url |-> job.url, size |-> size, hits |-> 0, stale |-> stale]
      BY <3>1 DEF IInv, TypeOK, CallTypeOK
    <3>5. job'.line \in Line /\ job'.line.url = job'.url
      BY <3>3, <3>4, TableAssumption DEF Line
    <3>6. n \in Names \ (Bound \cup DOMAIN index) BY DEF FreshNames
    <3>7. JobUrl' BY <3>2, <3>3, <3>4 DEF JobUrl, EntriesOf, Bound
    <3>8. JobIsNew' BY <3>2, <3>4, <3>5, <3>6 DEF JobIsNew, Bound
    <3> QED BY <3>2, <3>7, <3>8 DEF JobOK, JobIsLocked
  <2>2. CASE write_body(t)
    BY <1>0, <2>2 DEF write_body, Transferred, At, Continue, tableVars,
                      JobOK, JobUrl, JobIsNew, JobIsLocked, EntriesOf, Bound
  <2>3. CASE BodyFails(t) BY <1>r, <2>3 DEF BodyFails
  <2>4. CASE OpenMeta(t) \/ write_metadata(t)
    <3>1. /\ step \in MakesMeta /\ step' \in MakesMeta
          /\ UNCHANGED <<job, d_cache_table, body, index>>
      BY <2>4 DEF OpenMeta, write_metadata, At, Continue, tableVars
    <3> QED BY <1>m, <3>1
  <2>5. CASE MergeMeta(t)
    <3>1. step = "merge" /\ step' = "rewrite" /\ UNCHANGED <<job, d_cache_table>>
      BY <2>5 DEF MergeMeta, At, Continue, tableVars
    <3> QED BY <1>0, <3>1 DEF JobOK, JobUrl, JobIsNew, JobIsLocked, Bound
  <2>6. CASE OpenIndex(t) BY <1>f, <2>6 DEF OpenIndex, Continue
  <2> QED BY <1>2, <2>1, <2>2, <2>3, <2>4, <2>5, <2>6 DEF Writes
<1>3. ASSUME NEW t \in Threads, Removes(t) PROVE JobOK'
  <2>1. CASE expired_gc(t) \/ too_big_gc(t)
    BY <1>f, <2>1 DEF expired_gc, too_big_gc, AfterTooBig, Continue
  <2>2. CASE hits_gc(t) BY <1>f, <2>2 DEF hits_gc, At
  <2>3. CASE PurgeThrows(t) BY <1>0, <1>u, <2>3 DEF PurgeThrows
  <2>4. CASE remove_entry_from_cache_table(t)
    <3>1. step = "remove" /\ step' = "create" /\ job' = job /\ RemoveEntries(EntriesOf(job.url))
      BY <2>4 DEF remove_entry_from_cache_table, Replaced, At, Continue
    <3>2. /\ Bound' = Bound \ EntriesOf(job.url)
          /\ \A n \in Bound' : d_cache_table'[n] = d_cache_table[n]
      BY <1>0, <3>1, Removal DEF EntriesOf
    <3>3. EntriesOf(job.url)' = {} BY <3>1, <3>2 DEF EntriesOf
    <3> QED BY <1>0, <3>1, <3>3 DEF JobOK, JobUrl, JobIsNew, JobIsLocked
  <2> QED BY <1>3, <2>1, <2>2, <2>3, <2>4 DEF Removes
<1>4. ASSUME NEW t \in Threads,
             UpdateLost(t) \/ cache_index_write(t) \/ RewriteMeta(t)
      PROVE  JobOK'
  BY <1>r, <1>4 DEF UpdateLost, NoMetaToMerge, UpdateFails, UpdateThrows, cache_index_write, RewriteMeta
<1>5. ASSUME NEW t \in Threads,
             \/ GetLost(t) \/ release_cached_response(t) \/ ReleaseUnknown(t) \/ purge_cache(t)
             \/ \E u \in Urls : get_cached_response(t, u)
      PROVE  JobOK'
  BY <1>0, <1>u, <1>5 DEF GetLost, GetWithoutFiles, GetFails, GetThrows, release_cached_response,
                          ReleaseUnknown, purge_cache, get_cached_response
<1>6. ASSUME NEW t \in Threads, Add(t) PROVE JobOK'
  <2>1. step' \in {"expired_gc", "dump", "out"} BY <1>6 DEF Add, Continue, Return
  <2> QED BY <1>f, <2>1
<1>7. ASSUME NEW t \in Threads, get_write_locked_entry(t) PROVE JobOK'
  <2>1. PICK n \in Bound, stale \in BOOLEAN :
          /\ CanWriteLock(d_cache_table[n])
          /\ d_cache_table' = [d_cache_table EXCEPT ![n].writing = TRUE, ![n].stale = stale]
          /\ job' = [job EXCEPT !.name = n]
    BY <1>7 DEF get_write_locked_entry, EntriesOf
  <2>2. step' = "merge" BY <1>7 DEF get_write_locked_entry
  <2>3. job'.name = n BY <2>1 DEF IInv, TypeOK, CallTypeOK
  <2>4. /\ Bound' = Bound /\ d_cache_table'[n].writing
        /\ d_cache_table'[n].readers = d_cache_table[n].readers
    BY <1>0, <2>1 DEF Bound, Entry
  <2>5. d_cache_table[n].readers = 0 BY <2>1 DEF CanWriteLock
  <2> QED BY <2>2, <2>3, <2>4, <2>5 DEF JobOK, JobUrl, JobIsNew, JobIsLocked
<1>8. ASSUME NEW n \in Names, BecomeStale(n) PROVE JobOK'
  <2>1. UNCHANGED <<step, job, body, index>> BY <1>8 DEF BecomeStale, callVars, diskVars
  <2>2. /\ Bound' = Bound
        /\ \A m \in Bound : /\ d_cache_table'[m].url = d_cache_table[m].url
                            /\ d_cache_table'[m].writing = d_cache_table[m].writing
                            /\ d_cache_table'[m].readers = d_cache_table[m].readers
    BY <1>0, <1>8 DEF BecomeStale, Bound, Entry
  <2>3. \A u : EntriesOf(u)' = EntriesOf(u) BY <2>2 DEF EntriesOf
  <2> QED BY <1>0, <2>1, <2>2, <2>3 DEF JobOK, JobUrl, JobIsNew, JobIsLocked
<1>9. ASSUME Exit \/ Interrupt \/ Crash PROVE JobOK'
  BY <1>r, <1>9, DestroyKeeps DEF IInv, Crash, ForgetProcess
<1>10. ASSUME Restart PROVE JobOK' BY <1>u, <1>10 DEF Restart, IInv, DownIsEmpty
<1>11. ASSUME UNCHANGED vars PROVE JobOK'
  BY <1>0, <1>11 DEF vars, callVars, tableVars, diskVars, JobOK, JobUrl, JobIsNew, JobIsLocked,
                     EntriesOf, Bound
<1> QED BY <1>1, <1>2, <1>3, <1>4, <1>5, <1>6, <1>7, <1>8, <1>9, <1>10, <1>11, NextIs

-----------------------------------------------------------------------------
(* The responses in clients' hands.                                        *)

LEMMA HoldersFinite ==
    ASSUME NEW n
    PROVE  IsFiniteSet(HoldersOf(n)) /\ Cardinality(HoldersOf(n)) \in Nat
  BY CacheAssumption, FS_Subset, FS_CardinalityType DEF HoldersOf

(* A response that is held is counted, so nobody may delete or lock it.    *)
LEMMA HeldIsInUse ==
    ASSUME IInv, NEW t \in Threads, Holds(t)
    PROVE  /\ Held(t) \in Bound \ Deletable
           /\ d_cache_table[Held(t)].readers >= 1
           /\ ~CanWriteLock(d_cache_table[Held(t)])
           /\ step \in Making \cup Updating => Held(t) # job.name
<1>1. Held(t) \in Bound /\ ~d_cache_table[Held(t)].writing BY DEF IInv, HeldAreComplete
<1>2. t \in HoldersOf(Held(t)) BY DEF HoldersOf
<1>3. Cardinality(HoldersOf(Held(t))) # 0 BY <1>2, HoldersFinite, FS_EmptySet
<1>4. Cardinality(HoldersOf(Held(t))) \in Nat BY HoldersFinite
<1>5. d_cache_table[Held(t)].readers >= Cardinality(HoldersOf(Held(t)))
  BY <1>1 DEF IInv, HeldAreCounted
<1>6. d_cache_table[Held(t)].readers \in Int
  BY <1>1 DEF IInv, TypeOK, TableTypeOK, Entry
<1>7. d_cache_table[Held(t)].readers >= 1 BY <1>3, <1>4, <1>5, <1>6
<1>8. Held(t) \notin Deletable BY <1>6, <1>7 DEF Deletable, InUse
<1>9. step \in Making \cup Updating => Held(t) # job.name
  BY <1>1 DEF IInv, JobIsNew, JobIsLocked
<1> QED BY <1>1, <1>7, <1>8, <1>9 DEF CanWriteLock

HeldOK == HeldAreCounted /\ HeldAreComplete

(* A step that leaves the clients' streams, and what it does to a response *)
(* in somebody's hands is no more than count another reader.               *)
LEMMA HeldKept ==
    ASSUME IInv, UNCHANGED d_locked_entries,
           \A t \in Threads : Holds(t) =>
             /\ Held(t) \in Bound' /\ ~d_cache_table'[Held(t)].writing
             /\ d_cache_table'[Held(t)].readers \in Int
             /\ d_cache_table'[Held(t)].readers >= d_cache_table[Held(t)].readers
             /\ body'[Held(t)] = body[Held(t)]
             /\ meta'[Held(t)] = meta[Held(t)] \/ meta'[Held(t)] # "none",
           \A n \in Bound' : d_cache_table'[n].writing \/ d_cache_table'[n].readers >= 0
    PROVE  HeldOK'
<1>1. HeldAreComplete' BY DEF IInv, HeldAreComplete, Holds, Held
<1>2. \A n : HoldersOf(n)' = HoldersOf(n) BY DEF HoldersOf, Holds, Held
<1>3. ASSUME NEW n \in Bound', ~d_cache_table'[n].writing
      PROVE  d_cache_table'[n].readers >= Cardinality(HoldersOf(n))
  <2>1. CASE HoldersOf(n) = {} BY <1>3, <2>1, FS_EmptySet
  <2>2. CASE HoldersOf(n) # {}
    <3>1. PICK t \in Threads : Holds(t) /\ Held(t) = n BY <2>2 DEF HoldersOf
    <3>2. n \in Bound /\ ~d_cache_table[n].writing BY <3>1 DEF IInv, HeldAreComplete
    <3>3. d_cache_table[n].readers >= Cardinality(HoldersOf(n)) BY <3>2 DEF IInv, HeldAreCounted
    <3>4. d_cache_table[n].readers \in Int BY <3>2 DEF IInv, TypeOK, TableTypeOK, Entry
    <3>5. d_cache_table'[n].readers \in Int /\ d_cache_table'[n].readers >= d_cache_table[n].readers
      BY <3>1
    <3>6. Cardinality(HoldersOf(n)) \in Nat BY HoldersFinite
    <3> QED BY <3>3, <3>4, <3>5, <3>6
  <2> QED BY <2>1, <2>2
<1>4. HeldAreCounted' BY <1>2, <1>3 DEF HeldAreCounted
<1> QED BY <1>1, <1>4 DEF HeldOK

(* An entry that is not locked for writing counts no less than nobody.     *)
LEMMA ReadersCount ==
    ASSUME IInv, NEW n \in Bound
    PROVE  /\ d_cache_table[n] \in Entry
           /\ d_cache_table[n].writing \/ d_cache_table[n].readers >= 0
<1>1. d_cache_table[n] \in Entry BY DEF IInv, TypeOK, TableTypeOK
<1>2. Cardinality(HoldersOf(n)) \in Nat BY HoldersFinite
<1>3. d_cache_table[n].writing \/ d_cache_table[n].readers >= Cardinality(HoldersOf(n))
  BY DEF IInv, HeldAreCounted
<1>4. d_cache_table[n].readers \in Int BY <1>1 DEF Entry
<1> QED BY <1>1, <1>2, <1>3, <1>4

(* Nobody holds anything: every count will do.                             *)
LEMMA NobodyHolds ==
    ASSUME \A t \in Threads : t \notin DOMAIN d_locked_entries',
           \A n \in Bound' : d_cache_table'[n].readers = 0
    PROVE  HeldOK'
<1>1. \A n : HoldersOf(n)' = {} BY DEF HoldersOf, Holds
<1>2. Cardinality({}) = 0 BY FS_EmptySet
<1>3. HeldAreCounted' BY <1>1, <1>2 DEF HeldAreCounted
<1> QED BY <1>3 DEF HeldOK, HeldAreComplete, Holds

LEMMA HeldStep ==
    ASSUME IInv, [Next]_vars
    PROVE  HeldOK'
<1> USE DEF MethodSteps, Making, MakesBody, MakesMeta, Updating
<1>0. /\ TypeOK /\ HeldOK /\ Bound \subseteq Names /\ d_cache_table \in [Bound -> Entry]
      /\ body \in [Names -> FileStates] /\ meta \in [Names -> FileStates]
  BY DEF IInv, HeldOK, TypeOK, TableTypeOK, StoreTypeOK
(* The table is as it was.                                                 *)
<1>k. ASSUME UNCHANGED <<d_cache_table, d_locked_entries>>,
             \A t \in Threads : Holds(t) =>
               body'[Held(t)] = body[Held(t)] /\ (meta'[Held(t)] = meta[Held(t)] \/ meta'[Held(t)] # "none")
      PROVE  HeldOK'
  <2>1. Bound' = Bound BY <1>k DEF Bound
  <2>2. \A n \in Bound : /\ d_cache_table[n].readers \in Int
                         /\ d_cache_table[n].writing \/ d_cache_table[n].readers >= 0
    BY ReadersCount DEF Entry
  <2>3. \A t \in Threads : Holds(t) => Held(t) \in Bound /\ ~d_cache_table[Held(t)].writing
    BY <1>0 DEF HeldOK, HeldAreComplete
  <2>4. \A t \in Threads : Holds(t) => d_cache_table[Held(t)].readers >= d_cache_table[Held(t)].readers
    BY <2>2, <2>3
  <2> QED BY <1>k, <2>1, <2>2, <2>3, <2>4, HeldKept
<1>1. ASSUME NEW t \in Threads, Idle(t) PROVE HeldOK'
  BY <1>1, <1>k, IdleKeeps DEF tableVars, diskVars
<1>2. ASSUME NEW t \in Threads, Writes(t) PROVE HeldOK'
  <2>1. UNCHANGED <<d_cache_table, d_locked_entries>> BY <1>2, WritesKeep DEF tableVars
  <2>2. \A s \in Threads : Holds(s) =>
           /\ Held(s) \in Names /\ body[Held(s)] = "full"
           /\ step \in Making \cup Updating => Held(s) # job.name
    BY <1>0, HeldIsInUse DEF HeldOK, HeldAreComplete
  <2>3. CASE create_location(t)
    <3>1. PICK n \in Names : body[n] = "none" /\ body' = [body EXCEPT ![n] = "partial"]
      BY <2>3 DEF create_location, FreshNames
    <3>2. meta' = meta BY <2>3 DEF create_location
    <3> QED BY <1>0, <1>k, <2>1, <2>2, <3>1, <3>2
  <2>4. CASE write_body(t)
    BY <1>0, <1>k, <2>1, <2>2, <2>4 DEF write_body, At
  <2>5. CASE BodyFails(t)
    BY <1>0, <1>k, <2>1, <2>2, <2>5, Unlinking DEF BodyFails, At
  <2>6. CASE OpenMeta(t) \/ write_metadata(t) \/ MergeMeta(t)
    BY <1>0, <1>k, <2>1, <2>2, <2>6 DEF OpenMeta, write_metadata, MergeMeta, At
  <2>7. CASE OpenIndex(t) BY <1>k, <2>1, <2>7 DEF OpenIndex
  <2> QED BY <1>2, <2>3, <2>4, <2>5, <2>6, <2>7 DEF Writes
<1>3. ASSUME NEW t \in Threads, Removes(t) PROVE HeldOK'
  <2>1. PICK S \in SUBSET Deletable : Collect(S) BY <1>3, RemovesDeletable
  <2>2. S \in SUBSET Bound /\ RemoveEntries(S) /\ UNCHANGED d_locked_entries
    BY <2>1 DEF Deletable, Collect
  <2>3. /\ Bound' = Bound \ S
        /\ \A n \in Bound \ S : d_cache_table'[n] = d_cache_table[n]
        /\ \A n \in Names \ S : body'[n] = body[n] /\ meta'[n] = meta[n]
    BY <1>0, <2>2, Removal
  <2>4. \A s \in Threads : Holds(s) =>
          Held(s) \in Bound \ S /\ ~d_cache_table[Held(s)].writing
    BY <1>0, <2>1, HeldIsInUse DEF HeldOK, HeldAreComplete
  <2>5. \A n \in Bound : /\ d_cache_table[n].readers \in Int
                         /\ d_cache_table[n].writing \/ d_cache_table[n].readers >= 0
    BY ReadersCount DEF Entry
  <2>6. \A s \in Threads : Holds(s) => d_cache_table'[Held(s)].readers >= d_cache_table[Held(s)].readers
    BY <2>3, <2>4, <2>5
  <2> QED BY <1>0, <2>2, <2>3, <2>4, <2>5, <2>6, HeldKept
(* One entry has changed: its readers, or who may write it.                *)
<1>e. ASSUME NEW n \in Bound, NEW e \in Entry, d_cache_table' = [d_cache_table EXCEPT ![n] = e],
             UNCHANGED <<d_locked_entries, body>>,
             \A m \in Names : meta'[m] = meta[m] \/ meta'[m] # "none",
             e.writing \/ (e.readers >= d_cache_table[n].readers /\ e.readers >= 0),
             e.writing => \A t \in Threads : Holds(t) => Held(t) # n
      PROVE  HeldOK'
  <2>1. Bound' = Bound /\ d_cache_table'[n] = e
    BY <1>0, <1>e DEF Bound
  <2>2. \A m \in Bound \ {n} : d_cache_table'[m] = d_cache_table[m] BY <1>0, <1>e
  <2>3. \A m \in Bound : /\ d_cache_table[m].readers \in Int
                         /\ d_cache_table[m].writing \/ d_cache_table[m].readers >= 0
    BY ReadersCount DEF Entry
  <2>4. e.readers \in Int BY DEF Entry
  <2>5. ASSUME NEW t \in Threads, Holds(t)
        PROVE  /\ Held(t) \in Bound' /\ ~d_cache_table'[Held(t)].writing
               /\ d_cache_table'[Held(t)].readers \in Int
               /\ d_cache_table'[Held(t)].readers >= d_cache_table[Held(t)].readers
               /\ body'[Held(t)] = body[Held(t)]
               /\ meta'[Held(t)] = meta[Held(t)] \/ meta'[Held(t)] # "none"
    <3>1. Held(t) \in Bound /\ ~d_cache_table[Held(t)].writing
      BY <1>0, <2>5 DEF HeldOK, HeldAreComplete
    <3>2. CASE Held(t) = n BY <1>0, <1>e, <2>1, <2>4, <2>5, <3>1, <3>2
    <3>3. CASE Held(t) # n BY <1>0, <1>e, <2>1, <2>2, <2>3, <3>1, <3>3
    <3> QED BY <3>2, <3>3
  <2>6. \A m \in Bound' : d_cache_table'[m].writing \/ d_cache_table'[m].readers >= 0
    BY <1>e, <2>1, <2>2, <2>3
  <2> QED BY <1>e, <2>5, <2>6, HeldKept
<1>4. ASSUME NEW t \in Threads, UpdateLost(t) PROVE HeldOK'
  <2> DEFINE e == [d_cache_table[job.name] EXCEPT !.readers = @ - 1]
  <2>1. UpdateThrows /\ step \in Updating
    BY <1>4 DEF UpdateLost, NoMetaToMerge, UpdateFails, At
  <2>2. job.name \in Bound /\ d_cache_table[job.name].writing BY <2>1 DEF IInv, JobIsLocked
  <2>3. d_cache_table[job.name] \in Entry BY <1>0, <2>2
  <2>4. e \in Entry /\ e.writing BY <2>2, <2>3 DEF Entry
  <2>5. /\ d_cache_table' = [d_cache_table EXCEPT ![job.name] = e]
        /\ UNCHANGED <<d_locked_entries, body, meta>>
    BY <2>1 DEF UpdateThrows, diskVars
  <2>6. \A s \in Threads : Holds(s) => Held(s) # job.name BY <2>1, HeldIsInUse
  <2> HIDE DEF e
  <2> QED BY <1>e, <2>2, <2>4, <2>5, <2>6
<1>5. ASSUME NEW t \in Threads, GetLost(t) PROVE HeldOK'
  <2>1. PICK n \in Bound : GetThrows(n)
    BY <1>5 DEF GetLost, GetWithoutFiles, GetFails, EntriesOf
  <2> DEFINE e == [d_cache_table[n] EXCEPT !.readers = @ + 1]
  <2>2. /\ d_cache_table[n] \in Entry /\ ~d_cache_table[n].writing
        /\ d_cache_table[n].readers >= 0
    BY <2>1, ReadersCount DEF GetThrows, CanReadLock
  <2>3. e \in Entry /\ e.readers >= d_cache_table[n].readers /\ e.readers >= 0 /\ ~e.writing
    BY <2>2 DEF Entry
  <2>4. /\ d_cache_table' = [d_cache_table EXCEPT ![n] = e]
        /\ UNCHANGED <<d_locked_entries, body, meta>>
    BY <2>1 DEF GetThrows, diskVars
  <2> HIDE DEF e
  <2> QED BY <1>e, <2>3, <2>4
<1>6. ASSUME NEW t \in Threads, cache_index_write(t) PROVE HeldOK'
  BY <1>k, <1>6 DEF cache_index_write
<1>7. ASSUME NEW t \in Threads, Add(t) PROVE HeldOK'
  <2>1. job.name \in Names \ Bound /\ job.line \in Line
    BY <1>7 DEF IInv, JobIsNew, Add, At
  <2>2. /\ Bound' = Bound \cup {job.name} /\ d_cache_table'[job.name] = EntryOf(job.line)
        /\ \A n \in Bound : d_cache_table'[n] = d_cache_table[n]
        /\ UNCHANGED <<d_locked_entries, body, meta>>
    BY <1>7, <2>1 DEF Add, add_entry_to_cache_table, With, Bound, diskVars
  <2>3. EntryOf(job.line).readers = 0 BY <2>1, LineEntry
  <2>4. \A s \in Threads : Holds(s) => Held(s) \in Bound /\ ~d_cache_table[Held(s)].writing
    BY <1>0 DEF HeldOK, HeldAreComplete
  <2>5. \A n \in Bound : /\ d_cache_table[n].readers \in Int
                         /\ d_cache_table[n].writing \/ d_cache_table[n].readers >= 0
    BY ReadersCount DEF Entry
  <2>6. \A s \in Threads : Holds(s) => d_cache_table'[Held(s)].readers >= d_cache_table[Held(s)].readers
    BY <2>2, <2>4, <2>5
  <2>7. \A n \in Bound' : d_cache_table'[n].writing \/ d_cache_table'[n].readers >= 0
    BY <2>2, <2>3, <2>5
  <2> QED BY <2>2, <2>4, <2>5, <2>6, <2>7, HeldKept
<1>8. ASSUME NEW t \in Threads, get_write_locked_entry(t) PROVE HeldOK'
  <2>1. PICK n \in Bound, stale \in BOOLEAN :
          /\ CanWriteLock(d_cache_table[n])
          /\ d_cache_table' = [d_cache_table EXCEPT ![n].writing = TRUE, ![n].stale = stale]
    BY <1>8 DEF get_write_locked_entry, EntriesOf
  <2> DEFINE e == [d_cache_table[n] EXCEPT !.writing = TRUE, !.stale = stale]
  <2>2. e \in Entry /\ e.writing BY ReadersCount DEF Entry
  <2>3. d_cache_table' = [d_cache_table EXCEPT ![n] = e] BY <1>0, <2>1
  <2>4. UNCHANGED <<d_locked_entries, body, meta>> BY <1>8 DEF get_write_locked_entry, diskVars
  <2>5. \A s \in Threads : Holds(s) => Held(s) # n BY <2>1, HeldIsInUse
  <2> HIDE DEF e
  <2> QED BY <1>e, <2>2, <2>3, <2>4, <2>5
<1>9. ASSUME NEW t \in Threads, RewriteMeta(t) PROVE HeldOK'
  <2> DEFINE e == [d_cache_table[job.name] EXCEPT !.writing = FALSE]
  <2>1. job.name \in Bound /\ d_cache_table[job.name].readers = 0
    BY <1>9 DEF IInv, JobIsLocked, RewriteMeta, At
  <2>2. d_cache_table[job.name] \in Entry BY <1>0, <2>1
  <2>3. e \in Entry /\ e.readers = 0 /\ ~e.writing BY <2>1, <2>2 DEF Entry
  <2>4. d_cache_table' = [d_cache_table EXCEPT ![job.name] = e] BY <1>9 DEF RewriteMeta
  <2>5. UNCHANGED <<d_locked_entries, body>> /\ \A m \in Names : meta'[m] = meta[m] \/ meta'[m] # "none"
    BY <1>0, <1>9 DEF RewriteMeta
  <2>6. e.readers >= d_cache_table[job.name].readers /\ e.readers >= 0 BY <2>1, <2>3
  <2> HIDE DEF e
  <2> QED BY <1>e, <2>1, <2>3, <2>4, <2>5, <2>6
<1>10. ASSUME NEW t \in Threads, release_cached_response(t) PROVE HeldOK'
  <2>1. Holds(t) /\ UNCHANGED <<body, meta>> BY <1>10 DEF release_cached_response, diskVars
  <2>n. PICK n : n = Held(t) OBVIOUS
  <2> DEFINE e == [d_cache_table[n] EXCEPT !.readers = @ - 1]
  <2>2. /\ d_locked_entries' = Restrict(d_locked_entries, DOMAIN d_locked_entries \ {t})
        /\ d_cache_table' = [d_cache_table EXCEPT ![n] = e]
    BY <1>10, <2>n DEF release_cached_response, uncouple_entry_from_data, EraseStream, Held
  <2>3. \A s \in Threads : /\ Holds(s)' <=> Holds(s) /\ s # t
                           /\ Holds(s)' => Held(s)' = Held(s)
    BY <2>2 DEF Holds, Held, Restrict
  <2>4. n \in Bound /\ d_cache_table[n] \in Entry /\ ~d_cache_table[n].writing
    BY <1>0, <2>n, <2>1 DEF HeldOK, HeldAreComplete
  <2>5. e \in Entry /\ ~e.writing /\ e.readers = d_cache_table[n].readers - 1
    BY <2>4 DEF Entry
  <2> HIDE DEF e
  <2>6. /\ Bound' = Bound /\ d_cache_table'[n] = e
        /\ \A m \in Bound \ {n} : d_cache_table'[m] = d_cache_table[m]
    BY <1>0, <2>2, <2>4 DEF Bound
  <2>7. HeldAreComplete'
    BY <1>0, <2>1, <2>3, <2>5, <2>6 DEF HeldOK, HeldAreComplete
  <2>8. HoldersOf(n)' = HoldersOf(n) \ {t} /\ t \in HoldersOf(n)
    BY <2>n, <2>1, <2>3 DEF HoldersOf
  <2>9. \A m \in Bound \ {n} : HoldersOf(m)' = HoldersOf(m) BY <2>n, <2>3 DEF HoldersOf
  <2>10. Cardinality(HoldersOf(n)') = Cardinality(HoldersOf(n)) - 1
    BY <2>8, HoldersFinite, FS_RemoveElement
  <2>11. d_cache_table[n].readers >= Cardinality(HoldersOf(n))
    BY <1>0, <2>4 DEF HeldOK, HeldAreCounted
  <2>12. e.readers >= Cardinality(HoldersOf(n)')
    BY <2>4, <2>5, <2>10, <2>11, HoldersFinite DEF Entry
  <2>13. HeldAreCounted' BY <1>0, <2>6, <2>9, <2>12 DEF HeldOK, HeldAreCounted
  <2> QED BY <2>7, <2>13 DEF HeldOK
<1>11. ASSUME NEW t \in Threads, ReleaseUnknown(t) PROVE HeldOK'
  <2>1. d_locked_entries' = With(d_locked_entries, Null, Null) /\ Null \notin Threads
    BY <1>11, CacheAssumption DEF ReleaseUnknown, uncouple_unknown
  <2>2. \A s \in Threads : (Holds(s)' <=> Holds(s)) /\ (Holds(s) => Held(s)' = Held(s))
    BY <2>1 DEF Holds, Held, With
  <2>3. UNCHANGED <<d_cache_table, body, meta>> BY <1>11 DEF ReleaseUnknown, diskVars
  <2>4. \A n : HoldersOf(n)' = HoldersOf(n) BY <2>2 DEF HoldersOf
  <2> QED BY <1>0, <2>2, <2>3, <2>4 DEF HeldOK, HeldAreCounted, HeldAreComplete, Bound
<1>12. ASSUME NEW t \in Threads, purge_cache(t) PROVE HeldOK'
  <2>1. DOMAIN d_locked_entries' = {} BY <1>12 DEF purge_cache, is_locked_read_responses
  <2>2. Bound' = {} BY <1>0, <1>12, Removal DEF purge_cache, delete_all_entries
  <2> QED BY <2>1, <2>2, NobodyHolds
<1>13. ASSUME NEW t \in Threads, NEW u \in Urls, get_cached_response(t, u) PROVE HeldOK'
  <2>1. PICK n \in Bound : ~d_cache_table[n].writing /\ HasFiles(n) /\ bind_entry_to_data(n, t)
    BY <1>13 DEF get_cached_response, EntriesOf, CanReadLock
  <2>2. ~Holds(t) /\ UNCHANGED <<body, meta>> BY <1>13 DEF get_cached_response, diskVars
  <2>3. d_cache_table[n] \in Entry BY ReadersCount
  <2>4. d_locked_entries' = With(d_locked_entries, t, n) BY <2>1 DEF bind_entry_to_data
  <2>5. d_cache_table' = [d_cache_table EXCEPT ![n].readers = @ + 1, ![n].hits = NextHit(@)]
    BY <2>1 DEF bind_entry_to_data
  <2>6. /\ Bound' = Bound /\ ~d_cache_table'[n].writing
        /\ d_cache_table'[n].readers = d_cache_table[n].readers + 1
        /\ \A m \in Bound \ {n} : d_cache_table'[m] = d_cache_table[m]
    BY <1>0, <2>1, <2>3, <2>5 DEF Bound, Entry
  <2>7. \A s \in Threads : /\ Holds(s)' <=> Holds(s) \/ s = t
                           /\ Holds(s)' => Held(s)' = IF s = t THEN n ELSE Held(s)
    BY <2>4 DEF Holds, Held, With
  <2>8. HoldersOf(n)' = HoldersOf(n) \cup {t} /\ t \notin HoldersOf(n)
    BY <2>2, <2>7 DEF HoldersOf
  <2>9. \A m \in Bound \ {n} : HoldersOf(m)' = HoldersOf(m) BY <2>2, <2>7 DEF HoldersOf
  <2>10. Cardinality(HoldersOf(n)') = Cardinality(HoldersOf(n)) + 1
    BY <2>8, HoldersFinite, FS_AddElement
  <2>11. d_cache_table[n].readers >= Cardinality(HoldersOf(n))
    BY <1>0, <2>1 DEF HeldOK, HeldAreCounted
  <2>12. d_cache_table'[n].readers >= Cardinality(HoldersOf(n)')
    BY <2>3, <2>6, <2>10, <2>11, HoldersFinite DEF Entry
  <2>13. HeldAreCounted' BY <1>0, <2>6, <2>9, <2>12 DEF HeldOK, HeldAreCounted
  <2>14. body[n] = "full" /\ meta[n] # "none"
    BY <1>0, <2>1 DEF HasFiles, IInv, NoPartialBodies, FileStates
  <2>15. HeldAreComplete'
    BY <1>0, <2>1, <2>2, <2>6, <2>7, <2>14 DEF HeldOK, HeldAreComplete
  <2> QED BY <2>13, <2>15 DEF HeldOK
<1>14. ASSUME NEW n \in Names, BecomeStale(n) PROVE HeldOK'
  <2> DEFINE e == [d_cache_table[n] EXCEPT !.stale = TRUE]
  <2>1. n \in Bound BY <1>14 DEF BecomeStale
  <2>2. /\ d_cache_table[n] \in Entry
        /\ d_cache_table[n].writing \/ d_cache_table[n].readers >= 0
    BY <2>1, ReadersCount
  <2>3. /\ e \in Entry /\ e.readers = d_cache_table[n].readers /\ e.readers \in Int
        /\ e.writing = d_cache_table[n].writing
    BY <2>2 DEF Entry
  <2>4. /\ d_cache_table' = [d_cache_table EXCEPT ![n] = e]
        /\ UNCHANGED <<d_locked_entries, body, meta>>
    BY <1>14 DEF BecomeStale, diskVars
  <2>5. e.writing => \A t \in Threads : Holds(t) => Held(t) # n
    BY <1>0, <2>3 DEF HeldOK, HeldAreComplete
  <2>6. e.writing \/ (e.readers >= d_cache_table[n].readers /\ e.readers >= 0) BY <2>2, <2>3
  <2> HIDE DEF e
  <2> QED BY <1>e, <2>1, <2>3, <2>4, <2>5, <2>6
<1>15. ASSUME ForgetProcess PROVE HeldOK'
  BY <1>15, NobodyHolds DEF ForgetProcess, Empty, Bound
<1>16. ASSUME Exit \/ Interrupt \/ Crash PROVE HeldOK'
  BY <1>0, <1>15, <1>16, DestroyKeeps DEF Crash
<1>17. ASSUME Restart PROVE HeldOK'
  <2>1. DOMAIN d_locked_entries' = {} BY <1>17 DEF Restart, cache_index_read, Empty
  <2>2. index \in [DOMAIN index -> Line] BY <1>0 DEF TypeOK, StoreTypeOK
  <2>3. \A n \in Bound' : d_cache_table'[n].readers = 0
    BY <1>17, <2>2, LineEntry DEF Restart, cache_index_read, Bound
  <2> QED BY <2>1, <2>3, NobodyHolds
<1>18. ASSUME UNCHANGED vars PROVE HeldOK' BY <1>k, <1>18 DEF vars, tableVars, diskVars
<1> QED BY <1>1, <1>2, <1>3, <1>4, <1>5, <1>6, <1>7, <1>8, <1>9, <1>10, <1>11, <1>12, <1>13, <1>14,
           <1>16, <1>17, <1>18, NextIs

-----------------------------------------------------------------------------
(* The size of the cache when the index is written.                        *)

LEMMA StopIsFit ==
    ASSUME TypeOK, Below(d_current_size)
    PROVE  ~Above(d_current_size)
<1>1. /\ d_current_size \in Nat
      /\ limits.total \in Nat /\ limits.folder \in Nat /\ limits.buffer \in Nat
  BY DEF TypeOK, TableTypeOK, CallTypeOK
<1> QED BY <1>1 DEF Above, Below

LEMMA DumpStep ==
    ASSUME IInv, [Next]_vars
    PROVE  DumpedCacheFits'
<1> DEFINE Dumping == {"dump", "write_index"}
<1>0. TypeOK /\ DumpedCacheFits /\ (Free => step = "out")
  BY DEF IInv, TypeOK, CallTypeOK, Free
<1>n. ASSUME step' \notin Dumping PROVE DumpedCacheFits' BY <1>n DEF DumpedCacheFits
<1>u. ASSUME step = "out", UNCHANGED callVars PROVE DumpedCacheFits'
  BY <1>n, <1>u DEF callVars
<1>k. ASSUME UNCHANGED <<d_current_size, limits>>, step' \in Dumping => ~Above(d_current_size)
      PROVE  DumpedCacheFits'
  BY <1>k DEF DumpedCacheFits, Above
<1>1. ASSUME NEW t \in Threads, Idle(t) PROVE DumpedCacheFits'
  <2>1. CASE StopGC(t) BY <1>0, <1>k, <2>1, StopIsFit DEF StopGC, tableVars
  <2>2. CASE IndexFails(t) \/ NotCached(t) \/ MetaFails(t)
    BY <1>n, <2>2 DEF IndexFails, NotCached, MetaFails, Return
  <2>3. CASE OpenBody(t) BY <1>n, <2>3 DEF OpenBody, Continue
  <2>4. ASSUME NEW u \in Urls, cache_response(t, u) \/ update_response(t, u) \/ LookHangs(t, u)
        PROVE  DumpedCacheFits'
    BY <1>n, <2>4 DEF cache_response, update_response, LookHangs, Hang, Enter
  <2>5. ASSUME NEW u \in Urls, LookAtEntry(t, u) PROVE DumpedCacheFits'
    BY <1>0, <1>u, <2>5 DEF LookAtEntry, vars
  <2>6. ASSUME NEW m \in TotalSizes, set_max_size(t, m) PROVE DumpedCacheFits'
    <3>1. step = "out" /\ (Enter(t, "expired_gc", Null) \/ UNCHANGED callVars)
      BY <1>0, <2>6 DEF set_max_size, SettingCollects
    <3> QED BY <1>n, <1>u, <3>1 DEF Enter
  <2>7. ASSUME NEW m \in EntrySizes, set_max_entry_size(t, m) PROVE DumpedCacheFits'
    <3>1. step = "out" /\ (Enter(t, "expired_gc", Null) \/ UNCHANGED callVars)
      BY <1>0, <2>7 DEF set_max_entry_size, SettingCollects
    <3> QED BY <1>n, <1>u, <3>1 DEF Enter
  <2> QED BY <1>1, <2>1, <2>2, <2>3, <2>4, <2>5, <2>6, <2>7 DEF Idle
<1>2. ASSUME NEW t \in Threads, Writes(t) PROVE DumpedCacheFits'
  <2>1. CASE OpenIndex(t)
    BY <1>0, <1>k, <2>1 DEF OpenIndex, At, tableVars, DumpedCacheFits
  <2>2. CASE ~OpenIndex(t)
    BY <1>2, <1>n, <2>2 DEF Writes, create_location, write_body, BodyFails, OpenMeta,
                            write_metadata, MergeMeta, Continue, Return
  <2> QED BY <2>1, <2>2
<1>3. ASSUME NEW t \in Threads, Removes(t) PROVE DumpedCacheFits'
  <2>1. CASE too_big_gc(t)
    <3>1. step' = AfterTooBig(d_current_size') /\ limits' = limits
      BY <2>1 DEF too_big_gc, Collect, Continue
    <3> QED BY <3>1 DEF DumpedCacheFits, AfterTooBig, Above
  <2>2. CASE expired_gc(t) \/ hits_gc(t) \/ remove_entry_from_cache_table(t)
    BY <1>n, <2>2 DEF expired_gc, hits_gc, remove_entry_from_cache_table, At, Continue
  <2>3. CASE PurgeThrows(t) BY <1>0, <1>u, <2>3 DEF PurgeThrows
  <2> QED BY <1>3, <2>1, <2>2, <2>3 DEF Removes
<1>4. ASSUME NEW t \in Threads,
             UpdateLost(t) \/ cache_index_write(t) \/ RewriteMeta(t) \/ get_write_locked_entry(t)
      PROVE  DumpedCacheFits'
  BY <1>n, <1>4 DEF UpdateLost, NoMetaToMerge, UpdateFails, UpdateThrows, cache_index_write,
                    RewriteMeta, get_write_locked_entry, Return
<1>5. ASSUME NEW t \in Threads,
             \/ GetLost(t) \/ release_cached_response(t) \/ ReleaseUnknown(t) \/ purge_cache(t)
             \/ \E u \in Urls : get_cached_response(t, u)
      PROVE  DumpedCacheFits'
  BY <1>0, <1>u, <1>5 DEF GetLost, GetWithoutFiles, GetFails, GetThrows, release_cached_response,
                          ReleaseUnknown, purge_cache, get_cached_response
<1>6. ASSUME NEW t \in Threads, Add(t) PROVE DumpedCacheFits'
  <2>1. /\ step' \in Dumping => ~Above(d_current_size')
        /\ limits' = limits
    BY <1>6 DEF Add, Continue, Return
  <2> QED BY <2>1 DEF DumpedCacheFits, Above
<1>7. ASSUME NEW n \in Names, BecomeStale(n) PROVE DumpedCacheFits'
  BY <1>0, <1>k, <1>7 DEF BecomeStale, callVars, DumpedCacheFits
<1>8. ASSUME Exit \/ Interrupt \/ Crash PROVE DumpedCacheFits'
  BY <1>0, <1>n, <1>8, DestroyKeeps DEF Crash, ForgetProcess, Return
<1>9. ASSUME Restart PROVE DumpedCacheFits' BY <1>u, <1>9 DEF Restart, IInv, DownIsEmpty
<1>10. ASSUME UNCHANGED vars PROVE DumpedCacheFits'
  BY <1>0, <1>k, <1>10 DEF vars, callVars, tableVars, DumpedCacheFits
<1> QED BY <1>1, <1>2, <1>3, <1>4, <1>5, <1>6, <1>7, <1>8, <1>9, <1>10, NextIs

-----------------------------------------------------------------------------
(* The inductive invariant.                                                *)

LEMMA InitIInv == Init => IInv
<1> SUFFICES ASSUME Init PROVE IInv OBVIOUS
<1> USE DEF Init, Empty
<1>1. Bound = {} BY DEF Bound
<1>2. TypeOK
  <2>1. TableTypeOK BY <1>1 DEF TableTypeOK
  <2>2. StoreTypeOK BY DEF StoreTypeOK, FileStates
  <2>3. CallTypeOK
    <3>1. job \in [url : Urls \cup {Null}, name : Names \cup {Null}, line : Line \cup {Null},
                   hits : 0 .. MaxHits]
      BY TableAssumption DEF NoJob
    <3>2. mishaps \in 0 .. MaxMishaps BY CacheAssumption
    <3> QED BY <3>1, <3>2, DefaultLimitsType, CacheAssumption DEF CallTypeOK, Limits
  <2> QED BY <2>1, <2>2, <2>3 DEF TypeOK
<1>3. StepOK /\ DownIsEmpty /\ OutHasNoJob BY <1>1 DEF StepOK, DownIsEmpty, OutHasNoJob
<1>4. JobUrl /\ JobIsNew /\ JobIsLocked
  BY DEF JobUrl, JobIsNew, JobIsLocked, Making, MakesBody, MakesMeta, Updating
<1>5. HeldAreCounted /\ HeldAreComplete
  BY <1>1 DEF HeldAreCounted, HeldAreComplete, Holds
<1>6. NoPartialBodies /\ OneLinePerUrl /\ OneEntryPerUrl
  BY <1>1 DEF NoPartialBodies, IndexedBodiesAreComplete, OneLinePerUrl, OneEntryPerUrl
<1>7. SizeIsAccurate BY <1>1, SpaceOfNothing DEF SizeIsAccurate, Bound
<1>8. DumpedCacheFits BY DEF DumpedCacheFits
<1> QED BY <1>2, <1>3, <1>4, <1>5, <1>6, <1>7, <1>8 DEF IInv

LEMMA NextIInv == IInv /\ [Next]_vars => IInv'
<1> SUFFICES ASSUME IInv, [Next]_vars PROVE IInv' OBVIOUS
<1>1. TypeOK' BY TableTypeStep, StoreTypeStep, CallStep DEF TypeOK, CallOK
<1>2. StepOK' /\ DownIsEmpty' /\ OutHasNoJob' BY CallStep DEF CallOK
<1>3. JobUrl' /\ JobIsNew' /\ JobIsLocked' BY JobStep DEF JobOK
<1>4. HeldAreCounted' /\ HeldAreComplete' BY HeldStep DEF HeldOK
<1> QED BY <1>1, <1>2, <1>3, <1>4, PartialStep, LineStep, EntryStep, SizeStep, DumpStep DEF IInv

(* Every reachable state satisfies the inductive invariant.                *)
THEOREM Invariant == Spec => []IInv
<1>1. Init => IInv BY InitIInv
<1>2. IInv /\ [Next]_vars => IInv' BY NextIInv
<1> QED BY <1>1, <1>2, PTL DEF Spec

(* The variables have their types, and the interface mutex is a thread's   *)
(* exactly while it is at a step of a method (HTTPCache.cc).               *)
THEOREM TypeCorrect == Spec => []TypeOK
<1>1. IInv => TypeOK BY DEF IInv
<1> QED BY <1>1, Invariant, PTL

(* A response between get_cached_response and release_cached_response is   *)
(* in the table, counted and on disk, complete.                            *)
THEOREM HeldAreSafe == Spec => []HeldResponsesStay
<1>1. ASSUME IInv PROVE HeldResponsesStay
  <2> SUFFICES ASSUME NEW t \in Threads, Holds(t)
               PROVE  /\ Held(t) \in Bound
                      /\ InUse(d_cache_table[Held(t)]) /\ ~d_cache_table[Held(t)].writing
                      /\ body[Held(t)] = "full" /\ meta[Held(t)] # "none"
    BY DEF HeldResponsesStay
  <2>1. /\ Held(t) \in Bound /\ ~d_cache_table[Held(t)].writing
        /\ body[Held(t)] = "full" /\ meta[Held(t)] # "none"
    BY <1>1 DEF IInv, HeldAreComplete
  <2>2. InUse(d_cache_table[Held(t)]) BY <1>1, <2>1, HeldIsInUse DEF InUse
  <2> QED BY <2>1, <2>2
<1> QED BY <1>1, Invariant, PTL

(* The size by which the garbage collector decides (d_current_size) is the *)
(* space the entries take, whatever is added, removed, purged or read back.*)
THEOREM SizeCorrect == Spec => []SizeIsAccurate
<1>1. IInv => SizeIsAccurate BY DEF IInv
<1> QED BY <1>1, Invariant, PTL

(* A URL never has two entries: cache_response replaces, and the index an  *)
(* earlier process wrote has one line for each URL.                        *)
THEOREM OneEntry == Spec => []OneEntryPerUrl
<1>1. IInv => OneEntryPerUrl BY DEF IInv
<1> QED BY <1>1, Invariant, PTL

(* No line of the index is of a partly written body, also after a crash or *)
(* a signal between two steps of cache_response.                           *)
THEOREM IndexIsComplete == Spec => []IndexedBodiesAreComplete
<1>1. IInv => IndexedBodiesAreComplete BY DEF IInv, NoPartialBodies
<1> QED BY <1>1, Invariant, PTL

(* The garbage collector hands over to the index writer only when the      *)
(* cache is within its limit.                                              *)
THEOREM DumpFits == Spec => []DumpedCacheFits
<1>1. IInv => DumpedCacheFits BY DEF IInv
<1> QED BY <1>1, Invariant, PTL

-----------------------------------------------------------------------------
(* What a step may do to a response that is held.                          *)

LEMMA MetaSteps ==
    ASSUME IInv, [Next]_vars, NEW n \in Names
    PROVE  \/ meta'[n] \in {meta[n], "none"}
           \/ step \in Making \cup Updating /\ n = job.name
<1> DEFINE OK == \/ meta'[n] \in {meta[n], "none"}
                 \/ step \in Making \cup Updating /\ n = job.name
<1>b. TypeOK /\ meta \in [Names -> FileStates] BY DEF IInv, TypeOK, StoreTypeOK
<1>k. ASSUME UNCHANGED meta PROVE OK BY <1>k
<1>r. ASSUME NEW S \in SUBSET Bound, RemoveEntries(S) PROVE OK BY <1>b, <1>r, Removal
<1>1. ASSUME NEW t \in Threads, Idle(t) PROVE OK BY <1>1, <1>k, IdleKeeps DEF diskVars
<1>2. ASSUME NEW t \in Threads, Writes(t) PROVE OK
  <2>1. CASE OpenMeta(t) \/ write_metadata(t) \/ MergeMeta(t)
    BY <1>b, <2>1 DEF OpenMeta, write_metadata, MergeMeta, At, Making, MakesMeta, Updating
  <2>2. CASE create_location(t) \/ write_body(t) \/ BodyFails(t) \/ OpenIndex(t)
    BY <1>k, <2>2 DEF create_location, write_body, BodyFails, OpenIndex
  <2> QED BY <1>2, <2>1, <2>2 DEF Writes
<1>3. ASSUME NEW t \in Threads, Removes(t) PROVE OK
  BY <1>3, <1>r, RemovesDeletable DEF Collect, Deletable
<1>4. ASSUME NEW t \in Threads, UpdateLost(t) \/ GetLost(t) PROVE OK
  BY <1>k, <1>4 DEF UpdateLost, NoMetaToMerge, UpdateFails, UpdateThrows,
              GetLost, GetWithoutFiles, GetFails, GetThrows, diskVars
<1>5. ASSUME NEW t \in Threads,
             \/ cache_index_write(t) \/ Add(t) \/ get_write_locked_entry(t)
             \/ release_cached_response(t) \/ ReleaseUnknown(t)
             \/ \E u \in Urls : get_cached_response(t, u)
      PROVE  OK
  BY <1>k, <1>5 DEF cache_index_write, Add, get_write_locked_entry, get_cached_response,
                    release_cached_response, ReleaseUnknown, diskVars
<1>6. ASSUME NEW t \in Threads, RewriteMeta(t) PROVE OK
  BY <1>b, <1>6 DEF RewriteMeta, At, Updating
<1>7. ASSUME NEW t \in Threads, purge_cache(t) PROVE OK
  BY <1>7, <1>r DEF purge_cache, delete_all_entries
<1>8. ASSUME NEW m \in Names, BecomeStale(m) PROVE OK BY <1>k, <1>8 DEF BecomeStale, diskVars
<1>9. ASSUME Exit \/ Interrupt PROVE OK
  <2>1. PICK files, S : meta' = Unlink(Unlinked(meta, "meta", files), S)
    BY <1>9 DEF Exit, Interrupt, Destroy
  <2>2. /\ Unlinked(meta, "meta", files) \in [Names -> FileStates]
        /\ Unlinked(meta, "meta", files)[n] \in {meta[n], "none"}
    BY <1>b, Unlinking DEF Unlinked
  <2> QED BY <2>1, <2>2, Unlinking
<1>10. ASSUME Crash \/ Restart \/ UNCHANGED vars PROVE OK
  BY <1>k, <1>10 DEF Crash, Restart, vars, diskVars
<1> HIDE DEF OK
<1>11. OK BY <1>1, <1>2, <1>3, <1>4, <1>5, <1>6, <1>7, <1>8, <1>9, <1>10, NextIs
<1> QED BY <1>11 DEF OK

(* A client that holds a response before and after a step holds the same.  *)
LEMMA StreamSteps ==
    ASSUME IInv, [Next]_vars, NEW s \in Threads, Holds(s), Holds(s)'
    PROVE  Held(s)' = Held(s)
<1> USE DEF Holds, Held
<1>k. ASSUME UNCHANGED d_locked_entries PROVE Held(s)' = Held(s) BY <1>k
<1>1. ASSUME NEW t \in Threads, Idle(t) \/ Writes(t) \/ Removes(t) PROVE Held(s)' = Held(s)
  BY <1>1, <1>k, IdleKeeps, WritesKeep, RemovesDeletable DEF tableVars, Collect
<1>2. ASSUME NEW t \in Threads, UpdateLost(t) \/ GetLost(t) PROVE Held(s)' = Held(s)
  BY <1>k, <1>2 DEF UpdateLost, NoMetaToMerge, UpdateFails, UpdateThrows,
              GetLost, GetWithoutFiles, GetFails, GetThrows
<1>3. ASSUME NEW t \in Threads,
             \/ cache_index_write(t) \/ Add(t) \/ get_write_locked_entry(t)
             \/ RewriteMeta(t) \/ purge_cache(t)
      PROVE  Held(s)' = Held(s)
  BY <1>k, <1>3 DEF cache_index_write, Add, get_write_locked_entry, RewriteMeta, purge_cache
<1>4. ASSUME NEW t \in Threads, release_cached_response(t) PROVE Held(s)' = Held(s)
  BY <1>4 DEF release_cached_response, uncouple_entry_from_data, EraseStream, Restrict
<1>5. ASSUME NEW t \in Threads, ReleaseUnknown(t) PROVE Held(s)' = Held(s)
  BY <1>5, CacheAssumption DEF ReleaseUnknown, uncouple_unknown, With
<1>6. ASSUME NEW t \in Threads, NEW u \in Urls, get_cached_response(t, u) PROVE Held(s)' = Held(s)
  BY <1>6 DEF get_cached_response, bind_entry_to_data, With
<1>7. ASSUME NEW n \in Names, BecomeStale(n) PROVE Held(s)' = Held(s)
  BY <1>k, <1>7 DEF BecomeStale
<1>8. ASSUME Exit \/ Interrupt \/ Crash \/ Restart PROVE FALSE
  BY <1>8, DestroyKeeps DEF IInv, Crash, ForgetProcess, Restart, cache_index_read, Empty
<1>9. ASSUME UNCHANGED vars PROVE Held(s)' = Held(s) BY <1>k, <1>9 DEF vars, tableVars
<1> HIDE DEF Holds, Held
<1> QED BY <1>1, <1>2, <1>3, <1>4, <1>5, <1>6, <1>7, <1>8, <1>9, NextIs

Untouched(t) ==
    /\ Held(t)' = Held(t)
    /\ body'[Held(t)] = body[Held(t)] /\ meta'[Held(t)] = meta[Held(t)]
    /\ d_cache_table'[Held(t)].url = d_cache_table[Held(t)].url

LEMMA HeldStays ==
    ASSUME IInv, [Next]_vars, NEW t \in Threads, Holds(t), Holds(t)'
    PROVE  Untouched(t)
<1>1. Held(t)' = Held(t) BY StreamSteps
<1>2. IInv' BY NextIInv
<1>3. /\ Held(t) \in Bound /\ Held(t) \in Names
      /\ body[Held(t)] = "full" /\ meta[Held(t)] # "none"
  BY DEF IInv, HeldAreComplete, TypeOK, TableTypeOK
<1>4. /\ Held(t) \in Bound' /\ body'[Held(t)] = "full" /\ meta'[Held(t)] # "none"
  BY <1>1, <1>2 DEF IInv, HeldAreComplete
<1>5. meta'[Held(t)] = meta[Held(t)]
  <2>1. step \in Making \cup Updating => Held(t) # job.name BY HeldIsInUse
  <2> QED BY <1>3, <1>4, <2>1, MetaSteps
<1>6. d_cache_table'[Held(t)].url = d_cache_table[Held(t)].url
  <2>1. CASE SameEntries BY <1>3, <2>1 DEF SameEntries
  <2>2. ASSUME NEW S \in SUBSET Bound, RemoveEntries(S)
        PROVE  d_cache_table'[Held(t)] = d_cache_table[Held(t)]
    BY <1>4, <2>2, Removal DEF IInv
  <2>3. ASSUME NEW s \in Threads, Add(s) PROVE d_cache_table'[Held(t)] = d_cache_table[Held(t)]
    <3>1. Held(t) # job.name BY <2>3, HeldIsInUse DEF Add, At, Making, MakesMeta
    <3> QED BY <1>3, <2>3, <3>1 DEF Add, add_entry_to_cache_table, With, Bound
  <2>4. ASSUME ForgetProcess \/ Restart PROVE FALSE
    BY <2>4 DEF ForgetProcess, Restart, cache_index_read, Empty, Holds
  <2> QED BY <2>1, <2>2, <2>3, <2>4, TableSteps
<1> QED BY <1>1, <1>3, <1>4, <1>5, <1>6 DEF Untouched

(* "updates and removal ... are not possible" of a response that is locked *)
(* (HTTPCache::release_cached_response): no step of anybody's changes its  *)
(* body, its headers or the URL it is the response of.                     *)
THEOREM HeldUntouched == Spec => HeldResponsesDoNotChange
<1>1. IInv /\ [Next]_vars => [\A t \in Threads : Holds(t) /\ Holds(t)' => Untouched(t)]_vars
  BY HeldStays
<1> QED BY <1>1, Invariant, PTL DEF Spec, HeldResponsesDoNotChange, Untouched

-----------------------------------------------------------------------------
(* A cache to which no mishap happens.                                     *)

LEMMA NoMishaps ==
    ASSUME TypeOK, MaxMishaps = 0
    PROVE  \A kind : ~Mishap(kind)
<1>1. mishaps \in 0 .. 0 BY DEF TypeOK, CallTypeOK
<1> QED BY <1>1 DEF Mishap

(* Nothing is being made or rewritten: every file is where it belongs.     *)
Settled == Collecting \cup Waiting \cup {"create", "hung", "out"}
AllStored == \A n \in Names : Stored(n, Bound)

LEMMA SettledIsStored ==
    ASSUME IInv, Orderly, up, step \in Settled
    PROVE  AllStored
<1>1. \A n \in Names \ {job.name} : Stored(n, Bound) BY DEF Orderly, StoreAgrees
<1>2. job.name \in Names => Stored(job.name, Bound)
  <2>1. CASE step \in Collecting BY <2>1 DEF Orderly, JobFiles
  <2>2. CASE step \notin Collecting
    BY <2>2, TableAssumption DEF Settled, Orderly, JobFiles
  <2> QED BY <2>1, <2>2
<1> QED BY <1>1, <1>2 DEF AllStored

LEMMA FreeIsSettled ==
    ASSUME IInv, Free
    PROVE  step = "out" /\ step \in Settled /\ job = NoJob /\ up
  BY DEF IInv, TypeOK, CallTypeOK, OutHasNoJob, Free, Settled

(* Then no update and no get fails with the entry locked.                  *)
LEMMA OrderlyNextIs ==
    ASSUME IInv, Orderly, [Next]_vars, MaxMishaps = 0
    PROVE  \/ \E t \in Threads :
                \/ Idle(t) /\ ~IndexFails(t) /\ ~MetaFails(t)
                \/ Writes(t) /\ ~BodyFails(t)
                \/ Removes(t) \/ cache_index_write(t) \/ Add(t)
                \/ get_write_locked_entry(t) \/ RewriteMeta(t)
                \/ release_cached_response(t) \/ ReleaseUnknown(t) \/ purge_cache(t)
                \/ \E u \in Urls : get_cached_response(t, u)
           \/ \E n \in Names : BecomeStale(n)
           \/ Exit \/ Restart \/ UNCHANGED vars
<1>1. \A kind : ~Mishap(kind) BY NoMishaps DEF IInv
<1>2. ASSUME NEW t \in Threads, UpdateLost(t) PROVE FALSE
  <2>1. step = "merge" /\ meta[job.name] = "none"
    BY <1>1, <1>2 DEF UpdateLost, NoMetaToMerge, UpdateFails, At
  <2> QED BY <2>1 DEF Orderly, JobFiles, FilesOf
<1>3. ASSUME NEW t \in Threads, GetLost(t) PROVE FALSE
  <2>1. Free /\ \E n \in Bound : ~HasFiles(n)
    BY <1>1, <1>3 DEF GetLost, GetWithoutFiles, GetFails, EntriesOf
  <2>2. AllStored BY <2>1, FreeIsSettled, SettledIsStored
  <2>3. Bound \subseteq Names BY DEF IInv, TypeOK, TableTypeOK
  <2> QED BY <2>1, <2>2, <2>3 DEF AllStored, Stored, FilesOf, HasFiles
<1>4. ~Interrupt /\ ~Crash BY <1>1 DEF Interrupt, Crash
<1>5. \A t \in Threads : ~IndexFails(t) /\ ~MetaFails(t) /\ ~BodyFails(t)
  BY <1>1 DEF IndexFails, MetaFails, BodyFails
<1> QED BY <1>2, <1>3, <1>4, <1>5, NextIs

(* Readers and writers.                                                    *)
Counts == ReadersAreHolders /\ LockedIsJob

LEMMA CountStep ==
    ASSUME IInv, Orderly, [Next]_vars, MaxMishaps = 0
    PROVE  Counts'
<1> DEFINE Quiet ==
      /\ UNCHANGED d_locked_entries
      /\ \A n \in Bound' : /\ n \in Bound
                           /\ d_cache_table'[n].readers = d_cache_table[n].readers
                           /\ d_cache_table'[n].writing => d_cache_table[n].writing
<1> USE DEF Updating
<1>0. /\ TypeOK /\ LockedIsJob /\ Bound \subseteq Names /\ d_cache_table \in [Bound -> Entry]
      /\ \A n \in Bound : d_cache_table[n].readers = Cardinality(HoldersOf(n))
  BY DEF IInv, TypeOK, TableTypeOK, Orderly, ReadersAreHolders, HoldersOf
<1>r. ASSUME \A n \in Bound' : d_cache_table'[n].readers = Cardinality(HoldersOf(n)')
      PROVE  ReadersAreHolders'
  BY <1>r DEF ReadersAreHolders, HoldersOf
<1>a. ASSUME UNCHANGED d_locked_entries,
             \A n \in Bound' : n \in Bound /\ d_cache_table'[n].readers = d_cache_table[n].readers
      PROVE  ReadersAreHolders'
  <2>1. \A n : HoldersOf(n)' = HoldersOf(n) BY <1>a DEF HoldersOf, Holds, Held
  <2> QED BY <1>0, <1>a, <1>r, <2>1
<1>w. ASSUME step \notin Updating,
             \A n \in Bound' : d_cache_table'[n].writing => n \in Bound /\ d_cache_table[n].writing
      PROVE  LockedIsJob'
  BY <1>0, <1>w DEF LockedIsJob
<1>q. ASSUME Quiet, step \notin Updating PROVE Counts' BY <1>a, <1>q, <1>w DEF Counts
<1>f. Free => step = "out" BY FreeIsSettled
<1>s. ASSUME UNCHANGED <<d_cache_table, d_locked_entries>> PROVE Quiet BY <1>s DEF Bound
<1>1. ASSUME NEW t \in Threads, Idle(t), ~IndexFails(t), ~MetaFails(t) PROVE Counts'
  <2>1. Quiet BY <1>1, <1>s, IdleKeeps DEF tableVars
  <2>2. CASE UNCHANGED vars
    BY <1>0, <1>a, <2>1, <2>2 DEF Counts, LockedIsJob, vars, callVars, tableVars, Bound
  <2>3. CASE ~UNCHANGED vars
    <3>1. step \notin Updating
      BY <1>1, <1>f, <2>3 DEF Idle, StopGC, NotCached, OpenBody, cache_response, update_response,
         LookAtEntry, LookHangs, set_max_size, set_max_entry_size, At
    <3> QED BY <1>q, <2>1, <3>1
  <2> QED BY <2>2, <2>3
<1>2. ASSUME NEW t \in Threads, Writes(t) PROVE Counts'
  <2>1. Quiet BY <1>2, <1>s, WritesKeep DEF tableVars
  <2>2. CASE MergeMeta(t)
    <3>1. step = "merge" /\ step' = "rewrite" /\ job' = job BY <2>2 DEF MergeMeta, At, Continue
    <3>2. LockedIsJob' BY <1>0, <2>1, <3>1 DEF LockedIsJob
    <3> QED BY <1>a, <2>1, <3>2 DEF Counts
  <2>3. CASE ~MergeMeta(t)
    <3>1. step \notin Updating
      BY <1>2, <2>3 DEF Writes, create_location, write_body, BodyFails, OpenMeta, write_metadata,
                        OpenIndex, At
    <3> QED BY <1>q, <2>1, <3>1
  <2> QED BY <2>2, <2>3
<1>3. ASSUME NEW S \in SUBSET Bound, RemoveEntries(S), UNCHANGED d_locked_entries, step \notin Updating
      PROVE  Counts'
  BY <1>0, <1>3, <1>q, Removal
<1>4. ASSUME NEW t \in Threads, Removes(t) PROVE Counts'
  <2>1. PICK S \in SUBSET Bound : RemoveEntries(S) /\ UNCHANGED d_locked_entries
    BY <1>4, RemovesDeletable DEF Collect, Deletable
  <2>2. step \notin Updating
    BY <1>4, <1>f DEF Removes, expired_gc, too_big_gc, hits_gc, PurgeThrows,
                      remove_entry_from_cache_table, At
  <2> QED BY <1>3, <2>1, <2>2
<1>5. ASSUME NEW t \in Threads, cache_index_write(t) PROVE Counts'
  BY <1>5, <1>q, <1>s DEF cache_index_write, At
<1>6. ASSUME NEW t \in Threads, Add(t) PROVE Counts'
  <2>1. step = "add" BY <1>6 DEF Add, At
  <2>2. job.name \in Names \ Bound /\ job.line \in Line
    BY <2>1 DEF IInv, JobIsNew, Making, MakesMeta
  <2>3. /\ Bound' = Bound \cup {job.name} /\ d_cache_table'[job.name] = EntryOf(job.line)
        /\ \A n \in Bound : d_cache_table'[n] = d_cache_table[n]
        /\ UNCHANGED d_locked_entries
    BY <1>6, <2>2 DEF Add, add_entry_to_cache_table, With, Bound
  <2>4. EntryOf(job.line).readers = 0 /\ ~EntryOf(job.line).writing BY <2>2, LineEntry
  <2>5. \A n : HoldersOf(n)' = HoldersOf(n) BY <2>3 DEF HoldersOf, Holds, Held
  <2>6. HoldersOf(job.name) = {} BY <2>2 DEF HoldersOf, IInv, HeldAreComplete
  <2>7. ReadersAreHolders' BY <1>0, <1>r, <2>3, <2>4, <2>5, <2>6, FS_EmptySet
  <2> QED BY <1>w, <2>1, <2>3, <2>4, <2>7 DEF Counts
<1>7. ASSUME NEW t \in Threads, get_write_locked_entry(t) PROVE Counts'
  <2>1. PICK n \in Bound, stale \in BOOLEAN :
          /\ d_cache_table' = [d_cache_table EXCEPT ![n].writing = TRUE, ![n].stale = stale]
          /\ job' = [job EXCEPT !.name = n]
    BY <1>7 DEF get_write_locked_entry, EntriesOf
  <2>2. step = "write_lock" /\ step' = "merge" /\ UNCHANGED d_locked_entries
    BY <1>7 DEF get_write_locked_entry, At
  <2>3. job'.name = n BY <2>1 DEF IInv, TypeOK, CallTypeOK
  <2>4. /\ Bound' = Bound
        /\ \A m \in Bound : d_cache_table'[m].readers = d_cache_table[m].readers
        /\ \A m \in Bound \ {n} : d_cache_table'[m] = d_cache_table[m]
    BY <1>0, <2>1 DEF Bound, Entry
  <2>5. LockedIsJob' BY <1>0, <2>2, <2>3, <2>4 DEF LockedIsJob
  <2> QED BY <1>a, <2>2, <2>4, <2>5 DEF Counts
<1>8. ASSUME NEW t \in Threads, RewriteMeta(t) PROVE Counts'
  <2>1. UNCHANGED d_locked_entries BY <1>8 DEF RewriteMeta
  <2>2. job.name \in Bound BY <1>8 DEF IInv, JobIsLocked, RewriteMeta, At
  <2>3. d_cache_table' = [d_cache_table EXCEPT ![job.name].writing = FALSE] BY <1>8 DEF RewriteMeta
  <2>4. /\ Bound' = Bound /\ ~d_cache_table'[job.name].writing
        /\ \A n \in Bound : d_cache_table'[n].readers = d_cache_table[n].readers
        /\ \A n \in Bound \ {job.name} : d_cache_table'[n] = d_cache_table[n]
    BY <1>0, <2>2, <2>3 DEF Bound, Entry
  <2>5. LockedIsJob' BY <1>0, <2>4 DEF LockedIsJob
  <2> QED BY <1>a, <2>1, <2>4, <2>5 DEF Counts
<1>9. ASSUME NEW t \in Threads, release_cached_response(t) PROVE Counts'
  <2>1. Holds(t) /\ step = "out" BY <1>9, <1>f DEF release_cached_response
  <2>n. PICK n : n = Held(t) OBVIOUS
  <2>2. /\ d_locked_entries' = Restrict(d_locked_entries, DOMAIN d_locked_entries \ {t})
        /\ d_cache_table' = [d_cache_table EXCEPT ![n].readers = @ - 1]
    BY <1>9, <2>n DEF release_cached_response, uncouple_entry_from_data, EraseStream, Held
  <2>3. \A s \in Threads : /\ Holds(s)' <=> Holds(s) /\ s # t
                           /\ Holds(s)' => Held(s)' = Held(s)
    BY <2>2 DEF Holds, Held, Restrict
  <2>4. n \in Bound BY <2>n, <2>1 DEF IInv, HeldAreComplete
  <2>5. /\ Bound' = Bound
        /\ d_cache_table'[n].readers = d_cache_table[n].readers - 1
        /\ \A m \in Bound : d_cache_table'[m].writing = d_cache_table[m].writing
        /\ \A m \in Bound \ {n} : d_cache_table'[m] = d_cache_table[m]
    BY <1>0, <2>2, <2>4 DEF Bound, Entry
  <2>6. HoldersOf(n)' = HoldersOf(n) \ {t} /\ t \in HoldersOf(n)
    BY <2>n, <2>1, <2>3 DEF HoldersOf
  <2>7. \A m \in Bound \ {n} : HoldersOf(m)' = HoldersOf(m) BY <2>n, <2>3 DEF HoldersOf
  <2>8. Cardinality(HoldersOf(n)') = Cardinality(HoldersOf(n)) - 1
    BY <2>6, HoldersFinite, FS_RemoveElement
  <2>9. ReadersAreHolders' BY <1>0, <1>r, <2>4, <2>5, <2>7, <2>8
  <2> QED BY <1>w, <2>1, <2>5, <2>9 DEF Counts
<1>10. ASSUME NEW t \in Threads, ReleaseUnknown(t) PROVE Counts'
  <2>1. /\ d_locked_entries' = With(d_locked_entries, Null, Null) /\ Null \notin Threads
        /\ UNCHANGED d_cache_table /\ step = "out"
    BY <1>10, <1>f, CacheAssumption DEF ReleaseUnknown, uncouple_unknown
  <2>2. \A s \in Threads : (Holds(s)' <=> Holds(s)) /\ (Holds(s) => Held(s)' = Held(s))
    BY <2>1 DEF Holds, Held, With
  <2>3. \A n : HoldersOf(n)' = HoldersOf(n) BY <2>2 DEF HoldersOf
  <2>4. Bound' = Bound BY <2>1 DEF Bound
  <2> QED BY <1>0, <1>r, <1>w, <2>1, <2>3, <2>4 DEF Counts
<1>11. ASSUME NEW t \in Threads, purge_cache(t) PROVE Counts'
  BY <1>3, <1>11, <1>f DEF purge_cache, delete_all_entries
<1>12. ASSUME NEW t \in Threads, NEW u \in Urls, get_cached_response(t, u) PROVE Counts'
  <2>1. PICK n \in Bound : bind_entry_to_data(n, t)
    BY <1>12 DEF get_cached_response, EntriesOf
  <2>2. ~Holds(t) /\ step = "out" BY <1>12, <1>f DEF get_cached_response
  <2>3. /\ d_locked_entries' = With(d_locked_entries, t, n)
        /\ d_cache_table' = [d_cache_table EXCEPT ![n].readers = @ + 1, ![n].hits = NextHit(@)]
    BY <2>1 DEF bind_entry_to_data
  <2>4. /\ Bound' = Bound
        /\ d_cache_table'[n].readers = d_cache_table[n].readers + 1
        /\ \A m \in Bound : d_cache_table'[m].writing = d_cache_table[m].writing
        /\ \A m \in Bound \ {n} : d_cache_table'[m] = d_cache_table[m]
    BY <1>0, <2>1, <2>3 DEF Bound, Entry
  <2>5. \A s \in Threads : /\ Holds(s)' <=> Holds(s) \/ s = t
                           /\ Holds(s)' => Held(s)' = IF s = t THEN n ELSE Held(s)
    BY <2>3 DEF Holds, Held, With
  <2>6. HoldersOf(n)' = HoldersOf(n) \cup {t} /\ t \notin HoldersOf(n)
    BY <2>2, <2>5 DEF HoldersOf
  <2>7. \A m \in Bound \ {n} : HoldersOf(m)' = HoldersOf(m) BY <2>2, <2>5 DEF HoldersOf
  <2>8. Cardinality(HoldersOf(n)') = Cardinality(HoldersOf(n)) + 1
    BY <2>6, HoldersFinite, FS_AddElement
  <2>9. ReadersAreHolders' BY <1>0, <1>r, <2>1, <2>4, <2>7, <2>8
  <2> QED BY <1>w, <2>2, <2>4, <2>9 DEF Counts
<1>13. ASSUME NEW n \in Names, BecomeStale(n) PROVE Counts'
  <2>1. UNCHANGED <<d_locked_entries, step, job>> BY <1>13 DEF BecomeStale, callVars
  <2>2. /\ Bound' = Bound
        /\ \A m \in Bound : /\ d_cache_table'[m].readers = d_cache_table[m].readers
                            /\ d_cache_table'[m].writing = d_cache_table[m].writing
    BY <1>0, <1>13 DEF BecomeStale, Bound, Entry
  <2>3. LockedIsJob' BY <1>0, <2>1, <2>2 DEF LockedIsJob
  <2> QED BY <1>a, <2>1, <2>2, <2>3 DEF Counts
<1>14. ASSUME Exit PROVE Counts'
  <2>1. Bound' = {} BY <1>0, <1>14, DestroyKeeps DEF ForgetProcess, Empty, Bound
  <2> QED BY <2>1 DEF Counts, ReadersAreHolders, LockedIsJob
<1>15. ASSUME Restart PROVE Counts'
  <2>1. step = "out" /\ Bound = {} BY <1>15 DEF Restart, IInv, DownIsEmpty
  <2>2. d_cache_table' = [n \in DOMAIN index |-> EntryOf(index[n])] /\ DOMAIN d_locked_entries' = {}
    BY <1>15 DEF Restart, cache_index_read, Empty
  <2>3. index \in [DOMAIN index -> Line] BY <1>0 DEF TypeOK, StoreTypeOK
  <2>4. Bound' = DOMAIN index BY <2>2 DEF Bound
  <2>5. \A n \in Bound' : d_cache_table'[n].readers = 0 /\ ~d_cache_table'[n].writing
    BY <2>2, <2>3, <2>4, LineEntry
  <2>6. \A n : HoldersOf(n)' = {} BY <2>2 DEF HoldersOf, Holds
  <2>7. ReadersAreHolders' BY <1>r, <2>5, <2>6, FS_EmptySet
  <2>8. LockedIsJob' BY <2>5 DEF LockedIsJob
  <2> QED BY <2>7, <2>8 DEF Counts
<1>16. ASSUME UNCHANGED vars PROVE Counts'
  <2>1. Quiet /\ UNCHANGED <<step, job>> BY <1>16, <1>s DEF vars, tableVars, callVars
  <2> QED BY <1>0, <1>a, <2>1 DEF Counts, LockedIsJob
<1> QED BY <1>1, <1>2, <1>4, <1>5, <1>6, <1>7, <1>8, <1>9, <1>10, <1>11, <1>12, <1>13, <1>14,
           <1>15, <1>16, OrderlyNextIs

(* The files of the store.                                                 *)
FilesOK == StoreAgrees /\ JobFiles

LEMMA FilesStep ==
    ASSUME IInv, Orderly, [Next]_vars, MaxMishaps = 0
    PROVE  FilesOK'
<1> USE DEF Making, MakesBody, MakesMeta, Updating, Collecting, Waiting
<1>0. /\ TypeOK /\ FilesOK /\ Bound \subseteq Names
      /\ body \in [Names -> FileStates] /\ meta \in [Names -> FileStates]
  BY DEF IInv, TypeOK, TableTypeOK, StoreTypeOK, Orderly, FilesOK
<1>f. Free => step = "out" /\ job = NoJob /\ AllStored
  BY FreeIsSettled, SettledIsStored
<1>a. up /\ step \in Settled => AllStored BY SettledIsStored
(* After a step nothing is being made or rewritten ...                     *)
<1>s. ASSUME up', AllStored', step' \in Settled, step' \notin Collecting => job'.name = Null
      PROVE  FilesOK'
  BY <1>s DEF FilesOK, StoreAgrees, JobFiles, AllStored, Settled
<1>n. NoJob.name = Null BY DEF NoJob
(* ... or the files of one entry are on their way.                         *)
<1>m. ASSUME up', \A n \in Names \ {job'.name} : Stored(n, Bound)', step' \notin Settled, JobFiles'
      PROVE  FilesOK'
  BY <1>m DEF FilesOK, StoreAgrees
<1>u. ASSUME UNCHANGED <<d_cache_table, body, meta>> PROVE AllStored' <=> AllStored
  BY <1>u DEF AllStored, Stored, FilesOf, Bound
<1>k. ASSUME UNCHANGED <<body, meta, step, job, up, index>>, Bound' = Bound PROVE FilesOK'
  BY <1>0, <1>k DEF FilesOK, StoreAgrees, JobFiles, Stored, FilesOf
<1>v. ASSUME Free, up', AllStored', UNCHANGED callVars PROVE FilesOK'
  BY <1>f, <1>n, <1>s, <1>v DEF callVars, Settled
<1>1. ASSUME NEW t \in Threads, Idle(t), ~IndexFails(t), ~MetaFails(t) PROVE FilesOK'
  <2>1. UNCHANGED <<d_cache_table, body, meta, index, up>>
    BY <1>1, IdleKeeps DEF tableVars, diskVars
  <2>2. CASE StopGC(t)
    <3>1. up /\ step \in Settled /\ step' = "dump" BY <2>2 DEF StopGC, At, Continue, Settled
    <3> QED BY <1>a, <1>s, <1>u, <2>1, <3>1 DEF Settled
  <2>3. CASE NotCached(t)
    <3>1. up /\ step \in Settled /\ step' = "out" /\ job' = NoJob
      BY <2>3 DEF NotCached, At, Return, Settled
    <3> QED BY <1>a, <1>n, <1>s, <1>u, <2>1, <3>1 DEF Settled
  <2>4. CASE OpenBody(t)
    <3>1. up /\ step = "open_body" /\ step' = "write_body" /\ job' = job
      BY <2>4 DEF OpenBody, At, Continue
    <3>2. JobFiles' BY <1>0, <2>1, <3>1 DEF FilesOK, JobFiles, FilesOf
    <3>3. \A n \in Names \ {job'.name} : Stored(n, Bound)'
      BY <1>0, <2>1, <3>1 DEF FilesOK, StoreAgrees, Stored, FilesOf, Bound
    <3> QED BY <1>m, <2>1, <3>1, <3>2, <3>3 DEF Settled
  <2>5. ASSUME NEW u \in Urls, NEW s \in Settled \ {"out"}, Free, Enter(t, s, u) PROVE FilesOK'
    BY <1>f, <1>n, <1>s, <1>u, <2>1, <2>5 DEF Enter, NoJob, Free
  <2>6. ASSUME NEW u \in Urls, cache_response(t, u) \/ update_response(t, u) \/ LookHangs(t, u)
        PROVE  FilesOK'
    BY <2>5, <2>6 DEF cache_response, update_response, LookHangs, Hang, Settled
  <2>7. ASSUME NEW u \in Urls, LookAtEntry(t, u) PROVE FilesOK'
    BY <1>f, <1>u, <1>v, <2>1, <2>7 DEF LookAtEntry, vars, Free
  <2>8. ASSUME Free, Enter(t, "expired_gc", Null) \/ UNCHANGED callVars PROVE FilesOK'
    BY <1>f, <1>s, <1>u, <1>v, <2>1, <2>8 DEF Enter, Free, Settled
  <2>9. ASSUME NEW m \in TotalSizes, set_max_size(t, m) PROVE FilesOK'
    BY <2>8, <2>9 DEF set_max_size, SettingCollects
  <2>10. ASSUME NEW m \in EntrySizes, set_max_entry_size(t, m) PROVE FilesOK'
    BY <2>8, <2>10 DEF set_max_entry_size, SettingCollects
  <2> QED BY <1>1, <2>2, <2>3, <2>4, <2>6, <2>7, <2>9, <2>10 DEF Idle
<1>2. ASSUME NEW t \in Threads, Writes(t), ~BodyFails(t) PROVE FilesOK'
  <2>1. UNCHANGED <<d_cache_table, up>> /\ Bound' = Bound
    BY <1>2, WritesKeep DEF tableVars, Bound
  <2>2. CASE create_location(t)
    <3>1. PICK n \in FreshNames : /\ body' = [body EXCEPT ![n] = "partial"]
                                  /\ job'.name = n
      BY <2>2 DEF create_location, IInv, TypeOK, CallTypeOK
    <3>2. up /\ step = "create" /\ step' = "open_body" /\ meta' = meta
      BY <2>2 DEF create_location, At
    <3>3. AllStored BY <1>a, <3>2 DEF Settled
    <3>4. n \in Names \ Bound BY DEF FreshNames
    <3>5. FilesOf(n, "none", "none") BY <3>3, <3>4 DEF AllStored, Stored
    <3>6. FilesOf(n, "partial", "none")' BY <1>0, <3>1, <3>2, <3>4, <3>5 DEF FilesOf
    <3>7. JobFiles' BY <3>1, <3>2, <3>6 DEF JobFiles, FilesOf
    <3>8. \A m \in Names \ {n} : Stored(m, Bound)'
      BY <1>0, <2>1, <3>1, <3>2, <3>3 DEF AllStored, Stored, FilesOf
    <3> QED BY <1>m, <2>1, <3>1, <3>2, <3>7, <3>8 DEF Settled
  <2>o. ASSUME up, job' = job, NEW b \in FileStates, NEW m \in FileStates, job.name \in Names,
               \/ body' = [body EXCEPT ![job.name] = b] /\ meta' = meta /\ meta[job.name] = m
               \/ meta' = [meta EXCEPT ![job.name] = m] /\ body' = body /\ body[job.name] = b
        PROVE  /\ FilesOf(job.name, b, m)'
               /\ \A n \in Names \ {job'.name} : Stored(n, Bound)'
    <3>1. FilesOf(job.name, b, m)' BY <1>0, <2>o DEF FilesOf
    <3>2. \A n \in Names \ {job.name} : body'[n] = body[n] /\ meta'[n] = meta[n]
      BY <1>0, <2>o
    <3>3. \A n \in Names \ {job.name} : Stored(n, Bound)
      BY <1>0, <2>o DEF FilesOK, StoreAgrees
    <3>4. \A n \in Names \ {job.name} : Stored(n, Bound)'
      BY <2>1, <3>2, <3>3 DEF Stored, FilesOf
    <3> QED BY <2>o, <3>1, <3>4
  <2>j. step \in Making \cup Updating => job.name \in Names
    BY <1>0 DEF IInv, JobIsNew, JobIsLocked
  <2>3. CASE write_body(t)
    <3>1. /\ up /\ step = "write_body" /\ step' = "open_meta" /\ job' = job /\ meta' = meta
          /\ body' = [body EXCEPT ![job.name] = "full"]
      BY <2>3 DEF write_body, Transferred, At, Continue
    <3>2. meta[job.name] = "none" BY <1>0, <3>1 DEF FilesOK, JobFiles, FilesOf
    <3>3. /\ FilesOf(job.name, "full", "none")'
          /\ \A n \in Names \ {job'.name} : Stored(n, Bound)'
      BY <2>j, <2>o, <3>1, <3>2 DEF FileStates
    <3>4. JobFiles' BY <3>1, <3>3 DEF JobFiles, FilesOf
    <3> QED BY <1>m, <2>1, <3>1, <3>3, <3>4 DEF Settled
  <2>4. CASE OpenMeta(t) \/ MergeMeta(t)
    <3>1. /\ up /\ step \in {"open_meta", "merge"} /\ step' \in {"write_meta", "rewrite"}
          /\ job' = job /\ body' = body /\ meta' = [meta EXCEPT ![job.name] = "partial"]
      BY <2>4 DEF OpenMeta, MergeMeta, At, Continue
    <3>2. body[job.name] = "full" BY <1>0, <3>1 DEF FilesOK, JobFiles, FilesOf
    <3>3. /\ FilesOf(job.name, "full", "partial")'
          /\ \A n \in Names \ {job'.name} : Stored(n, Bound)'
      BY <2>j, <2>o, <3>1, <3>2 DEF FileStates
    <3>4. JobFiles' BY <3>1, <3>3 DEF JobFiles, FilesOf
    <3> QED BY <1>m, <2>1, <3>1, <3>3, <3>4 DEF Settled
  <2>5. CASE write_metadata(t)
    <3>1. /\ up /\ step = "write_meta" /\ step' = "add" /\ job' = job /\ body' = body
          /\ meta' = [meta EXCEPT ![job.name] = "full"]
      BY <2>5 DEF write_metadata, At, Continue
    <3>2. body[job.name] = "full" BY <1>0, <3>1 DEF FilesOK, JobFiles, FilesOf
    <3>3. /\ FilesOf(job.name, "full", "full")'
          /\ \A n \in Names \ {job'.name} : Stored(n, Bound)'
      BY <2>j, <2>o, <3>1, <3>2 DEF FileStates
    <3>4. JobFiles' BY <3>1, <3>3 DEF JobFiles, FilesOf
    <3> QED BY <1>m, <2>1, <3>1, <3>3, <3>4 DEF Settled
  <2>6. CASE OpenIndex(t)
    <3>1. /\ up /\ step = "dump" /\ step' = "write_index" /\ UNCHANGED <<body, meta>>
      BY <2>6 DEF OpenIndex, At, Continue
    <3> QED BY <1>a, <1>s, <1>u, <2>1, <3>1 DEF Settled
  <2> QED BY <1>2, <2>2, <2>3, <2>4, <2>5, <2>6 DEF Writes
<1>3. ASSUME NEW S \in SUBSET Bound, RemoveEntries(S), AllStored PROVE AllStored'
  BY <1>0, <1>3, Removal DEF AllStored, Stored, FilesOf
<1>4. ASSUME NEW t \in Threads, Removes(t) PROVE FilesOK'
  <2>1. PICK S \in SUBSET Bound : RemoveEntries(S) /\ up' = up
    BY <1>4, RemovesDeletable DEF Collect, Deletable
  <2>2. CASE expired_gc(t) \/ too_big_gc(t) \/ hits_gc(t)
    <3>1. up /\ step \in Settled /\ step' \in Collecting
      BY <2>2 DEF expired_gc, too_big_gc, AfterTooBig, hits_gc, At, Continue, Settled
    <3> QED BY <1>3, <1>a, <1>s, <2>1, <3>1 DEF Settled
  <2>3. CASE PurgeThrows(t)
    BY <1>3, <1>f, <1>v, <2>1, <2>3 DEF PurgeThrows, Free
  <2>4. CASE remove_entry_from_cache_table(t)
    <3>1. up /\ step = "remove" /\ step' = "create" /\ job' = job
      BY <2>4 DEF remove_entry_from_cache_table, At, Continue
    <3>2. job.name = Null BY <1>0, <3>1 DEF FilesOK, JobFiles
    <3> QED BY <1>3, <1>a, <1>s, <2>1, <3>1, <3>2 DEF Settled
  <2> QED BY <1>4, <2>2, <2>3, <2>4 DEF Removes
<1>5. ASSUME NEW t \in Threads, cache_index_write(t) PROVE FilesOK'
  <2>1. /\ up /\ up' /\ step \in Settled /\ Return /\ UNCHANGED <<d_cache_table, body, meta>>
    BY <1>5 DEF cache_index_write, At, Settled
  <2> QED BY <1>a, <1>n, <1>s, <1>u, <2>1 DEF Return, Settled
<1>6. ASSUME NEW t \in Threads, Add(t) PROVE FilesOK'
  <2>1. up /\ up' /\ step = "add" /\ UNCHANGED <<body, meta>>
    BY <1>6 DEF Add, At, diskVars
  <2>2. step' \in Collecting \/ (step' = "out" /\ job' = NoJob) BY <1>6 DEF Add, Continue, Return
  <2>3. Bound' = Bound \cup {job.name}
    BY <1>6 DEF Add, add_entry_to_cache_table, With, Bound
  <2>4. FilesOf(job.name, "full", "full") BY <1>0, <2>1 DEF FilesOK, JobFiles
  <2>5. \A n \in Names \ {job.name} : Stored(n, Bound) BY <1>0, <2>1 DEF FilesOK, StoreAgrees
  <2>6. AllStored' BY <2>1, <2>3, <2>4, <2>5 DEF AllStored, Stored, FilesOf
  <2> QED BY <1>n, <1>s, <2>1, <2>2, <2>6 DEF Settled
<1>7. ASSUME NEW t \in Threads, get_write_locked_entry(t) PROVE FilesOK'
  <2>1. PICK n \in Bound, stale \in BOOLEAN :
          /\ d_cache_table' = [d_cache_table EXCEPT ![n].writing = TRUE, ![n].stale = stale]
          /\ job'.name = n
    BY <1>7 DEF get_write_locked_entry, EntriesOf, IInv, TypeOK, CallTypeOK
  <2>2. up /\ up' /\ step = "write_lock" /\ step' = "merge" /\ UNCHANGED <<body, meta>>
    BY <1>7 DEF get_write_locked_entry, At, diskVars
  <2>3. Bound' = Bound BY <2>1 DEF Bound
  <2>4. AllStored BY <1>a, <2>2 DEF Settled
  <2>5. FilesOf(n, "full", "full")' BY <1>0, <2>2, <2>4 DEF AllStored, Stored, FilesOf
  <2>6. JobFiles' BY <2>1, <2>2, <2>5 DEF JobFiles, FilesOf
  <2>7. \A m \in Names : Stored(m, Bound)' BY <2>2, <2>3, <2>4 DEF AllStored, Stored, FilesOf
  <2> QED BY <1>m, <2>2, <2>6, <2>7 DEF Settled
<1>8. ASSUME NEW t \in Threads, RewriteMeta(t) PROVE FilesOK'
  <2>1. /\ up /\ up' /\ step = "rewrite" /\ Return
        /\ body' = body /\ meta' = [meta EXCEPT ![job.name] = "full"] /\ Bound' = Bound
    BY <1>8 DEF RewriteMeta, At, Bound
  <2>2. job.name \in Bound BY <2>1 DEF IInv, JobIsLocked
  <2>3. body[job.name] = "full" BY <1>0, <2>1 DEF FilesOK, JobFiles, FilesOf
  <2>4. \A n \in Names \ {job.name} : Stored(n, Bound) BY <1>0, <2>1 DEF FilesOK, StoreAgrees
  <2>5. AllStored' BY <1>0, <2>1, <2>2, <2>3, <2>4 DEF AllStored, Stored, FilesOf
  <2> QED BY <1>n, <1>s, <2>1, <2>5 DEF Return, Settled
<1>9. ASSUME NEW t \in Threads, release_cached_response(t) \/ ReleaseUnknown(t) PROVE FilesOK'
  <2>1. Free /\ up' /\ UNCHANGED <<body, meta, callVars>>
    BY <1>9 DEF release_cached_response, ReleaseUnknown, diskVars, Free
  <2>2. Bound' = Bound
    BY <1>9 DEF release_cached_response, uncouple_entry_from_data, ReleaseUnknown, Bound
  <2>3. AllStored' BY <1>f, <2>1, <2>2 DEF AllStored, Stored, FilesOf
  <2> QED BY <1>v, <2>1, <2>3
<1>10. ASSUME NEW t \in Threads, purge_cache(t) PROVE FilesOK'
  <2>1. Free /\ up' /\ UNCHANGED callVars /\ RemoveEntries(Bound)
    BY <1>10 DEF purge_cache, delete_all_entries, Free
  <2> QED BY <1>3, <1>f, <1>v, <2>1
<1>11. ASSUME NEW t \in Threads, NEW u \in Urls, get_cached_response(t, u) PROVE FilesOK'
  <2>1. Free /\ up' /\ UNCHANGED <<body, meta, callVars>>
    BY <1>11 DEF get_cached_response, diskVars, Free
  <2>2. Bound' = Bound BY <1>11 DEF get_cached_response, bind_entry_to_data, Bound
  <2>3. AllStored' BY <1>f, <2>1, <2>2 DEF AllStored, Stored, FilesOf
  <2> QED BY <1>v, <2>1, <2>3
<1>12. ASSUME NEW n \in Names, BecomeStale(n) PROVE FilesOK'
  BY <1>12, <1>k DEF BecomeStale, callVars, diskVars, Bound
<1>13. ASSUME Exit PROVE FilesOK'
  <2>1. AllStored BY <1>13, <1>f DEF Exit
  <2>2. PICK S \in SUBSET Names :
          /\ DOMAIN index' = Bound \ S
          /\ body' = Unlink(Unlinked(body, "body", {}), S)
          /\ meta' = Unlink(Unlinked(meta, "meta", {}), S)
    <3>1. \A E \in SUBSET Expired : \A S \in Removals(E) : S \in SUBSET Names
      BY <1>0 DEF Removals, Expired, Deletable, BiggerThan, WithHits
    <3> QED BY <1>13, <3>1 DEF Exit, Destroy
  <2>3. /\ Unlinked(body, "body", {}) \in [Names -> FileStates]
        /\ Unlinked(meta, "meta", {}) \in [Names -> FileStates]
        /\ \A n \in Names : /\ Unlinked(body, "body", {})[n] = body[n]
                            /\ Unlinked(meta, "meta", {})[n] = meta[n]
    BY <1>0, Unlinking DEF Unlinked
  <2>4. \A n \in Names : /\ body'[n] = IF n \in S THEN "none" ELSE body[n]
                         /\ meta'[n] = IF n \in S THEN "none" ELSE meta[n]
    BY <2>2, <2>3, Unlinking
  <2>5. ASSUME NEW n \in Names PROVE Stored(n, DOMAIN index)'
    <3>1. Stored(n, Bound) BY <2>1 DEF AllStored
    <3> QED BY <2>2, <2>4, <3>1 DEF Stored, FilesOf
  <2>6. ~up' /\ step' = "out" /\ job' = NoJob
    BY <1>0, <1>13, DestroyKeeps DEF ForgetProcess, Return
  <2> QED BY <1>n, <2>5, <2>6 DEF FilesOK, StoreAgrees, JobFiles
<1>14. ASSUME Restart PROVE FilesOK'
  <2>1. ~up /\ up' /\ UNCHANGED <<body, meta, index, callVars>>
    BY <1>14 DEF Restart, diskVars
  <2>2. Bound' = DOMAIN index BY <1>14 DEF Restart, cache_index_read, Bound
  <2>3. AllStored' BY <1>0, <2>1, <2>2 DEF FilesOK, StoreAgrees, AllStored, Stored, FilesOf
  <2>4. step = "out" /\ job = NoJob BY <2>1 DEF IInv, DownIsEmpty, OutHasNoJob
  <2> QED BY <1>n, <1>s, <2>1, <2>3, <2>4 DEF callVars, Settled
<1>15. ASSUME UNCHANGED vars PROVE FilesOK'
  BY <1>15, <1>k DEF vars, callVars, tableVars, diskVars, Bound
<1> QED BY <1>1, <1>2, <1>4, <1>5, <1>6, <1>7, <1>8, <1>9, <1>10, <1>11, <1>12, <1>13, <1>14,
           <1>15, OrderlyNextIs

(* How far the index lags behind.                                          *)
Lag == Cardinality(Bound \ DOMAIN index)

LEMMA LagStep ==
    ASSUME IInv, Orderly, [Next]_vars, MaxMishaps = 0
    PROVE  IndexLag'
<1> USE DEF Making, MakesBody, MakesMeta, Updating, Collecting, Waiting
<1>0. /\ TypeOK /\ IndexLag /\ IsFiniteSet(Bound \ DOMAIN index) /\ Lag \in Nat
      /\ d_new_entries \in Nat /\ DUMP_FREQUENCY \in Nat
  <2>1. IsFiniteSet(Bound \ DOMAIN index)
    BY TableAssumption, FS_Subset DEF IInv, TypeOK, TableTypeOK
  <2> QED BY <2>1, CacheAssumption, FS_CardinalityType DEF IInv, TypeOK, TableTypeOK, Orderly, Lag
<1>f. Free => step = "out" BY FreeIsSettled
<1>k. ASSUME UNCHANGED <<index, d_new_entries>>, Bound' \subseteq Bound,
             step = "write_index" => step' = "write_index",
             step' \notin Collecting => step \notin Collecting
      PROVE  IndexLag'
  <2>1. Cardinality((Bound \ DOMAIN index)') <= Lag
    <3>1. (Bound \ DOMAIN index)' \subseteq Bound \ DOMAIN index BY <1>k
    <3> QED BY <1>0, <3>1, FS_Subset DEF Lag
  <2>2. Cardinality((Bound \ DOMAIN index)') \in Nat
    BY <1>0, <1>k, FS_Subset, FS_CardinalityType
  <2> QED BY <1>0, <1>k, <2>1, <2>2 DEF IndexLag, Lag
<1>z. ASSUME d_new_entries' = 0, Bound' = {} \/ Bound' = DOMAIN index' PROVE IndexLag'
  <2>1. (Bound \ DOMAIN index)' = {} BY <1>z
  <2>2. Cardinality((Bound \ DOMAIN index)') = 0 BY <2>1, FS_EmptySet
  <2> QED BY <1>0, <1>z, <2>2 DEF IndexLag
<1>1. ASSUME NEW t \in Threads, Idle(t), ~IndexFails(t), ~MetaFails(t) PROVE IndexLag'
  <2>1. UNCHANGED <<index, d_new_entries>> /\ Bound' = Bound
    BY <1>1, IdleKeeps DEF tableVars, diskVars, Bound
  <2>2. CASE UNCHANGED step BY <1>k, <2>1, <2>2
  <2>3. CASE ~UNCHANGED step
    <3>1. step # "write_index" /\ (step \notin Collecting \/ step' = "dump")
      BY <1>1, <1>f, <2>3 DEF Idle, StopGC, NotCached, OpenBody, cache_response, update_response,
         LookAtEntry, LookHangs, set_max_size, set_max_entry_size, At, Continue, vars, callVars
    <3> QED BY <1>k, <2>1, <3>1
  <2> QED BY <2>2, <2>3
<1>2. ASSUME NEW t \in Threads, Writes(t), ~BodyFails(t) PROVE IndexLag'
  <2>1. UNCHANGED d_new_entries /\ Bound' = Bound BY <1>2, WritesKeep DEF tableVars, Bound
  <2>2. CASE OpenIndex(t) BY <2>2 DEF OpenIndex, Continue, IndexLag
  <2>3. CASE ~OpenIndex(t)
    <3>1. index' = index /\ step \notin Collecting
      BY <1>2, <2>3 DEF Writes, create_location, write_body, OpenMeta, write_metadata, MergeMeta, At
    <3> QED BY <1>k, <2>1, <3>1
  <2> QED BY <2>2, <2>3
<1>3. ASSUME NEW t \in Threads, Removes(t) PROVE IndexLag'
  <2>1. PICK S \in SUBSET Bound :
          RemoveEntries(S) /\ UNCHANGED <<index, d_new_entries>>
    BY <1>3, RemovesDeletable DEF Collect, Deletable
  <2>2. Bound' \subseteq Bound BY <1>0, <2>1, Removal
  <2>3. step # "write_index" /\ (step \in Collecting => step' \in Collecting)
    BY <1>3, <1>f DEF Removes, expired_gc, too_big_gc, AfterTooBig, hits_gc, PurgeThrows,
                      remove_entry_from_cache_table, At, Continue
  <2> QED BY <1>k, <2>1, <2>2, <2>3
<1>4. ASSUME NEW t \in Threads, cache_index_write(t) PROVE IndexLag'
  BY <1>4, <1>z DEF cache_index_write, IndexLines, Bound
<1>5. ASSUME NEW t \in Threads, Add(t) PROVE IndexLag'
  <2>1. step = "add" /\ index' = index /\ d_new_entries' = d_new_entries + 1
    BY <1>5 DEF Add, At, add_entry_to_cache_table, diskVars
  <2>2. /\ step' \in Collecting \/ ~DumpDue(d_new_entries')
        /\ step' # "write_index"
    BY <1>5 DEF Add, Continue, Return
  <2>3. job.name \notin Bound \cup DOMAIN index BY <2>1 DEF IInv, JobIsNew
  <2>4. (Bound \ DOMAIN index)' = (Bound \ DOMAIN index) \cup {job.name}
    BY <1>5, <2>1, <2>3 DEF Add, add_entry_to_cache_table, With, Bound
  <2>5. Cardinality((Bound \ DOMAIN index)') = Lag + 1
    BY <1>0, <2>3, <2>4, FS_AddElement DEF Lag
  <2>6. Lag <= d_new_entries BY <1>0, <2>1 DEF IndexLag, Lag
  <2>7. Cardinality((Bound \ DOMAIN index)') <= d_new_entries' BY <1>0, <2>1, <2>5, <2>6
  <2>8. step' \notin Collecting => d_new_entries' <= DUMP_FREQUENCY
    BY <1>0, <2>1, <2>2 DEF DumpDue
  <2> QED BY <2>7, <2>8 DEF IndexLag
<1>6. ASSUME NEW t \in Threads,
             \/ get_write_locked_entry(t) \/ RewriteMeta(t) \/ release_cached_response(t)
             \/ ReleaseUnknown(t) \/ \E u \in Urls : get_cached_response(t, u)
      PROVE  IndexLag'
  <2>1. UNCHANGED <<index, d_new_entries>>
    BY <1>6 DEF get_write_locked_entry, RewriteMeta, release_cached_response, ReleaseUnknown,
                get_cached_response, diskVars
  <2>2. Bound' = Bound
    BY <1>6 DEF get_write_locked_entry, RewriteMeta, release_cached_response,
                uncouple_entry_from_data, ReleaseUnknown, get_cached_response,
                bind_entry_to_data, Bound
  <2>3. step \notin Collecting
    BY <1>6, <1>f DEF get_write_locked_entry, RewriteMeta, release_cached_response, ReleaseUnknown,
                      get_cached_response, At
  <2> QED BY <1>k, <2>1, <2>2, <2>3
<1>7. ASSUME NEW t \in Threads, purge_cache(t) PROVE IndexLag'
  <2>1. d_new_entries' = 0 /\ RemoveEntries(Bound) BY <1>7 DEF purge_cache, delete_all_entries
  <2>2. Bound' = {} BY <1>0, <2>1, Removal
  <2> QED BY <1>z, <2>1, <2>2
<1>8. ASSUME NEW n \in Names, BecomeStale(n) PROVE IndexLag'
  <2>1. UNCHANGED <<index, d_new_entries, step>> /\ Bound' = Bound
    BY <1>8 DEF BecomeStale, callVars, diskVars, Bound
  <2> QED BY <1>k, <2>1
<1>9. ASSUME Exit PROVE IndexLag'
  <2>1. d_new_entries' = 0 /\ Bound' = {}
    BY <1>0, <1>9, DestroyKeeps DEF ForgetProcess, Empty, Bound
  <2> QED BY <1>z, <2>1
<1>10. ASSUME Restart PROVE IndexLag'
  BY <1>10, <1>z DEF Restart, cache_index_read, diskVars, Bound
<1>11. ASSUME UNCHANGED vars PROVE IndexLag'
  BY <1>k, <1>11 DEF vars, tableVars, callVars, diskVars, Bound
<1> QED BY <1>1, <1>2, <1>3, <1>4, <1>5, <1>6, <1>7, <1>8, <1>9, <1>10, <1>11, OrderlyNextIs

-----------------------------------------------------------------------------
(* The second invariant, and what follows from it.                         *)

LEMMA InitOrderly == Init => Orderly
<1> SUFFICES ASSUME Init PROVE Orderly OBVIOUS
<1> USE DEF Init, Empty
<1>1. Bound = {} BY DEF Bound
<1>2. ReadersAreHolders /\ LockedIsJob BY <1>1 DEF ReadersAreHolders, LockedIsJob
<1>3. StoreAgrees BY <1>1 DEF StoreAgrees, Stored, FilesOf
<1>4. JobFiles
  BY DEF JobFiles, NoJob, MakesBody, Collecting, Waiting
<1>5. IndexLag
  <2>1. Bound \ DOMAIN index = {} BY <1>1
  <2>2. Cardinality(Bound \ DOMAIN index) = 0 BY <2>1, FS_EmptySet
  <2> QED BY <2>2, CacheAssumption DEF IndexLag
<1> QED BY <1>2, <1>3, <1>4, <1>5 DEF Orderly

THEOREM OrderlyInvariant ==
    ASSUME MaxMishaps = 0
    PROVE  Spec => [](IInv /\ Orderly)
<1>1. Init => IInv /\ Orderly BY InitIInv, InitOrderly
<1>2. IInv /\ Orderly /\ [Next]_vars => (IInv /\ Orderly)'
  BY NextIInv, CountStep, FilesStep, LagStep DEF Orderly, Counts, FilesOK
<1> QED BY <1>1, <1>2, PTL DEF Spec

(* "The counter keeps track of how many clients are accessing a given      *)
(* entry" (HTTPCacheTable.h): without mishaps it is exactly the number of  *)
(* clients that hold the entry, also when streams are released twice.      *)
THEOREM CountIsExact ==
    ASSUME MaxMishaps = 0
    PROVE  Spec => []ReadersAreHolders
<1>1. IInv /\ Orderly => ReadersAreHolders BY DEF Orderly
<1> QED BY <1>1, OrderlyInvariant, PTL

(* Without mishaps the store holds a body and a .meta file for each entry  *)
(* of the table, complete, and no other file.                              *)
THEOREM StoreIsExact ==
    ASSUME MaxMishaps = 0
    PROVE  Spec => []StoreIsTheTable
<1>1. IInv /\ Orderly => StoreIsTheTable
  BY DEF Orderly, StoreAgrees, Stored, FilesOf, StoreIsTheTable
<1> QED BY <1>1, OrderlyInvariant, PTL

(* Between methods the index lacks at most DUMP_FREQUENCY entries, no more *)
(* than d_new_entries counts: what a process that dies may lose.           *)
THEOREM IndexLags ==
    ASSUME MaxMishaps = 0
    PROVE  Spec => []IndexLagsLittle
<1>1. IInv /\ Orderly => IndexLagsLittle
  BY FreeIsSettled DEF Orderly, IndexLag, IndexLagsLittle, Collecting
<1> QED BY <1>1, OrderlyInvariant, PTL

-----------------------------------------------------------------------------
(* Threads that fetch (HTTPConnect).                                       *)

(* What the stage of a thread says about the cache.                        *)
StageMatches(t) ==
    /\ stage[t] \in {"validate", "reading", "release"} <=> Holds(t)
    /\ Holds(t) => d_cache_table[Held(t)].url = target[t]
    /\ d_cache_mutex = t => stage[t] \in {"storing", "updating"} \/ step = "hung"

FetchTypeOK ==
    /\ stage \in [Threads -> Stages] /\ target \in [Threads -> Urls \cup {Null}]
    /\ \A t \in Threads : stage[t] # "idle" => target[t] \in Urls

FetchIInv == IInv /\ FetchTypeOK /\ \A t \in Threads : StageMatches(t)

(* The client makes no other calls than HTTPCache allows, but releases     *)
(* NULL whether or not that may go wrong.                                  *)
LEMMA FetchIsNext ==
    ASSUME FetchIInv, [FetchNext]_allVars
    PROVE  [Next]_vars \/ \E t \in Threads : ReleaseNull(t)
<1>1. ASSUME NEW t \in Threads, FetchStep(t), ~ReleaseNull(t) PROVE [Next]_vars
  <2>1. ASSUME stage[t] # "idle" PROVE target[t] \in Urls BY <2>1 DEF FetchIInv, FetchTypeOK
  <2>2. CASE Get(t) \/ Reget(t) BY <2>1, <2>2 DEF Get, Reget, Next, Client
  <2>3. CASE GetError(t) BY <2>1, <2>3 DEF GetError, Next, Client
  <2>4. CASE Validate(t) \/ Conditional(t) BY <2>4 DEF Validate, Conditional, LookAtEntry
  <2>5. CASE Done(t) \/ ReleaseStale(t) BY <2>5 DEF Done, ReleaseStale, Next, Client
  <2>6. CASE PlainFetch(t) \/ Revalidate(t) BY <2>6 DEF PlainFetch, Revalidate
  <2>7. CASE Store(t) BY <2>1, <2>7 DEF Store, Next, Client
  <2>8. CASE Update(t) BY <2>1, <2>8 DEF Update, Next, Client
  <2>9. CASE Stuck(t) BY <2>1, <2>9 DEF Stuck, Next, Client
  <2> QED BY <1>1, <2>2, <2>3, <2>4, <2>5, <2>6, <2>7, <2>8, <2>9 DEF FetchStep
<1>2. ASSUME NEW t \in Threads, InMethod(t) \/ Purge(t) \/ \E u \in Urls : Start(t, u)
      PROVE  [Next]_vars
  BY <1>2 DEF InMethod, Purge, Start, Next, Client
<1>3. ASSUME NEW n \in Names, Age(n) PROVE [Next]_vars BY <1>3 DEF Age, Next
<1>4. CASE Process BY <1>4 DEF Process, Next
<1>5. CASE UNCHANGED allVars BY <1>5 DEF allVars
<1> QED BY <1>1, <1>2, <1>3, <1>4, <1>5 DEF FetchNext

(* A stream that is nobody's does not concern the cache.                   *)
LEMMA NullIsNobodys ==
    ASSUME IInv, NEW t \in Threads, ReleaseNull(t)
    PROVE  /\ IInv'
           /\ \A s \in Threads : Holds(s)' = Holds(s) /\ (Holds(s) => Held(s)' = Held(s))
<1>1. /\ d_locked_entries' = With(d_locked_entries, Null, Null)
      /\ UNCHANGED <<d_cache_table, d_current_size, d_new_entries, diskVars, callVars, up, limits,
                     mishaps, d_open_files>>
      /\ Free
  BY DEF ReleaseNull, uncouple_unknown
<1>2. /\ DOMAIN d_locked_entries' = DOMAIN d_locked_entries \cup {Null}
      /\ d_locked_entries' \in [DOMAIN d_locked_entries' -> Names \cup {Null}]
  BY <1>1 DEF With, IInv, TypeOK, TableTypeOK
<1>3. \A s \in Threads : Holds(s)' = Holds(s) /\ (Holds(s) => Held(s)' = Held(s))
  BY <1>1, <1>2, CacheAssumption DEF Holds, Held, With
<1>4. TypeOK'
  <2>1. TableTypeOK' BY <1>1, <1>2 DEF IInv, TypeOK, TableTypeOK, Bound
  <2>2. StoreTypeOK' BY <1>1 DEF diskVars, IInv, TypeOK, StoreTypeOK
  <2>3. CallTypeOK' BY <1>1 DEF callVars, IInv, TypeOK, CallTypeOK
  <2> QED BY <2>1, <2>2, <2>3 DEF TypeOK
<1>5. \A n : HoldersOf(n)' = HoldersOf(n) BY <1>3 DEF HoldersOf
<1>6. HeldAreCounted' BY <1>1, <1>5 DEF IInv, HeldAreCounted, Bound
<1>7. HeldAreComplete' BY <1>1, <1>3 DEF IInv, HeldAreComplete, Bound, diskVars
<1>8. StepOK' /\ DownIsEmpty' /\ OutHasNoJob'
  BY <1>1 DEF IInv, StepOK, DownIsEmpty, OutHasNoJob, callVars, Free
<1>9. JobUrl' /\ JobIsNew' /\ JobIsLocked'
  BY <1>1 DEF IInv, JobUrl, JobIsNew, JobIsLocked, callVars, diskVars, EntriesOf, Bound
<1>10. NoPartialBodies' /\ OneLinePerUrl' /\ OneEntryPerUrl'
  BY <1>1 DEF IInv, NoPartialBodies, IndexedBodiesAreComplete, OneLinePerUrl, OneEntryPerUrl,
             diskVars, Bound
<1>11. SizeIsAccurate' /\ DumpedCacheFits'
  BY <1>1 DEF IInv, SizeIsAccurate, DumpedCacheFits, callVars, Above
<1> QED BY <1>3, <1>4, <1>6, <1>7, <1>8, <1>9, <1>10, <1>11 DEF IInv

LEMMA FetchKeepsCache == ASSUME FetchIInv, [FetchNext]_allVars PROVE IInv'
<1>1. IInv BY DEF FetchIInv
<1> QED BY <1>1, FetchIsNext, NullIsNobodys, NextIInv

-----------------------------------------------------------------------------
(* A thread that is inside a method has no stream, and gets none.          *)
LEMMA MethodsOfOthers ==
    ASSUME IInv, NEW t \in Threads, Method(t)
    PROVE  /\ d_cache_mutex = t /\ step # "hung"
           /\ d_cache_mutex' \in {t, Null}
           /\ UNCHANGED d_locked_entries
<1> USE DEF At, Return, Continue
<1>1. CASE NotCached(t) \/ create_location(t) \/ OpenBody(t) \/ write_body(t) \/ BodyFails(t)
  BY <1>1 DEF NotCached, create_location, OpenBody, write_body, BodyFails, tableVars, callVars
<1>2. CASE OpenMeta(t) \/ write_metadata(t) \/ MetaFails(t) \/ Add(t)
  BY <1>2 DEF OpenMeta, write_metadata, MetaFails, Add, tableVars
<1>3. CASE get_write_locked_entry(t) \/ MergeMeta(t) \/ RewriteMeta(t)
  BY <1>3 DEF get_write_locked_entry, MergeMeta, RewriteMeta, tableVars
<1>4. CASE NoMetaToMerge(t) \/ UpdateFails(t)
  BY <1>4 DEF NoMetaToMerge, UpdateFails, UpdateThrows
<1>5. CASE expired_gc(t) \/ too_big_gc(t) \/ hits_gc(t) \/ remove_entry_from_cache_table(t)
  BY <1>5 DEF expired_gc, too_big_gc, hits_gc, remove_entry_from_cache_table, Collect
<1>6. CASE StopGC(t) \/ OpenIndex(t) \/ cache_index_write(t) \/ IndexFails(t)
  BY <1>6 DEF StopGC, OpenIndex, cache_index_write, IndexFails, tableVars
<1> QED BY <1>1, <1>2, <1>3, <1>4, <1>5, <1>6 DEF Method

(* A response that is held before and after a step is for the same URL.    *)
LEMMA HeldUrl ==
    ASSUME FetchIInv, [FetchNext]_allVars, NEW s \in Threads, Holds(s), Holds(s)'
    PROVE  /\ Held(s)' = Held(s)
           /\ d_cache_table'[Held(s)].url = d_cache_table[Held(s)].url
<1>1. IInv BY DEF FetchIInv
<1>2. CASE [Next]_vars BY <1>1, <1>2, HeldStays DEF Untouched
<1>3. CASE \E t \in Threads : ReleaseNull(t) BY <1>1, <1>3, NullIsNobodys DEF ReleaseNull
<1> QED BY <1>2, <1>3, FetchIsNext

(* A thread that does nothing in a step agrees with the cache as before.   *)
LEMMA OthersMatch ==
    ASSUME FetchIInv, [FetchNext]_allVars, NEW s \in Threads,
           stage'[s] = stage[s], target'[s] = target[s], Holds(s)' = Holds(s),
           d_cache_mutex' = s => d_cache_mutex = s /\ step' = step
    PROVE  StageMatches(s)'
<1>1. StageMatches(s) BY DEF FetchIInv
<1>2. Holds(s)' => Holds(s) /\ d_cache_table'[Held(s)'].url = d_cache_table[Held(s)].url BY HeldUrl
<1> QED BY <1>1, <1>2 DEF StageMatches

(* The type of stages, and how a thread's own calls move it.               *)
LEMMA FetchTypeStep == ASSUME FetchIInv, [FetchNext]_allVars PROVE FetchTypeOK'
<1> USE DEF FetchIInv, FetchTypeOK, Stages
<1>g. ASSUME NEW t \in Threads, stage[t] # "idle", NEW s \in Stages, Goto(t, s) PROVE FetchTypeOK'
  BY <1>g DEF Goto
<1>1. ASSUME NEW t \in Threads, FetchStep(t) PROVE FetchTypeOK'
  <2>1. CASE Get(t) \/ Reget(t) \/ GetError(t) BY <1>g, <2>1 DEF Get, Reget, GetError
  <2>2. CASE Validate(t) \/ Done(t) \/ ReleaseStale(t)
    BY <1>g, <2>2 DEF Validate, Done, ReleaseStale
  <2>3. CASE PlainFetch(t) \/ Conditional(t) \/ Revalidate(t)
    BY <1>g, <2>3 DEF PlainFetch, Conditional, Revalidate
  <2>4. CASE Store(t) \/ Update(t) \/ ReleaseNull(t)
    BY <1>g, <2>4 DEF Store, Update, ReleaseNull, fetchVars
  <2>5. CASE Stuck(t) BY <2>5 DEF Stuck, fetchVars
  <2> QED BY <1>1, <2>1, <2>2, <2>3, <2>4, <2>5 DEF FetchStep
<1>2. ASSUME NEW t \in Threads, InMethod(t) PROVE FetchTypeOK'
  <2>1. stage[t] # "idle" \/ step = "hung"
    BY <1>2, MethodsOfOthers DEF InMethod, StageMatches
  <2>2. stage[t] # "idle" BY <1>2, <2>1, MethodsOfOthers DEF InMethod
  <2> QED BY <1>2, <1>g, <2>2 DEF InMethod, fetchVars
<1>3. ASSUME NEW t \in Threads, NEW u \in Urls, Start(t, u) PROVE FetchTypeOK'
  BY <1>3 DEF Start
<1>4. ASSUME (\E t \in Threads : Purge(t)) \/ (\E n \in Names : Age(n)) \/ UNCHANGED allVars
      PROVE  FetchTypeOK'
  BY <1>4 DEF Purge, Age, allVars, fetchVars
<1>5. CASE Process BY <1>5 DEF Process
<1> QED BY <1>1, <1>2, <1>3, <1>4, <1>5 DEF FetchNext

(* The interface, during the step of thread t.                             *)
Passed(t) == (d_cache_mutex' = d_cache_mutex /\ step' = step) \/ d_cache_mutex' \in {t, Null}

(* It is enough to look at the thread that acts.                           *)
LEMMA ActorMatches ==
    ASSUME FetchIInv, [FetchNext]_allVars, NEW t \in Threads,
           \A s \in Threads \ {t} :
             stage'[s] = stage[s] /\ target'[s] = target[s] /\ Holds(s)' = Holds(s),
           Passed(t), StageMatches(t)'
    PROVE  \A s \in Threads : StageMatches(s)'
<1> SUFFICES ASSUME NEW s \in Threads \ {t} PROVE StageMatches(s)' OBVIOUS
<1>1. d_cache_mutex' = s => d_cache_mutex = s /\ step' = step BY CacheAssumption DEF Passed
<1> QED BY <1>1, OthersMatch

LEMMA GotoStage ==
    ASSUME FetchIInv, NEW t \in Threads, NEW st \in Stages, Goto(t, st)
    PROVE  /\ stage'[t] = st /\ (st # "idle" => target'[t] = target[t])
           /\ \A s \in Threads \ {t} : stage'[s] = stage[s] /\ target'[s] = target[s]
  BY DEF Goto, FetchIInv, FetchTypeOK

(* A call without an effect on streams or the interface.                   *)
LEMMA QuietMatches ==
    ASSUME FetchIInv, [FetchNext]_allVars, NEW t \in Threads, NEW st \in Stages, Goto(t, st),
           UNCHANGED <<d_locked_entries, callVars>>, Free,
           st \in {"validate", "reading", "release"} <=> Holds(t)
    PROVE  \A s \in Threads : StageMatches(s)'
<1>1. \A s \in Threads : Holds(s)' = Holds(s) BY DEF Holds
<1>2. Passed(t) /\ d_cache_mutex' # t BY CacheAssumption DEF Passed, callVars, Free
<1>3. /\ stage'[t] = st /\ (st # "idle" => target'[t] = target[t])
      /\ \A s \in Threads \ {t} : stage'[s] = stage[s] /\ target'[s] = target[s]
  BY GotoStage
<1>4. Holds(t)' => d_cache_table'[Held(t)'].url = target'[t]
  <2> SUFFICES ASSUME Holds(t) PROVE d_cache_table'[Held(t)'].url = target'[t] BY <1>1
  <2>1. d_cache_table'[Held(t)'].url = d_cache_table[Held(t)].url BY <1>1, HeldUrl
  <2>2. d_cache_table[Held(t)].url = target[t] BY DEF FetchIInv, StageMatches
  <2> QED BY <1>3, <2>1, <2>2
<1>5. StageMatches(t)' BY <1>1, <1>2, <1>3, <1>4 DEF StageMatches
<1> QED BY <1>1, <1>2, <1>3, <1>5, ActorMatches

LEMMA GetMatches ==
    ASSUME FetchIInv, [FetchNext]_allVars, NEW t \in Threads, NEW st \in {"validate", "reading"},
           Goto(t, st), stage[t] # "idle", get_cached_response(t, target[t])
    PROVE  \A s \in Threads : StageMatches(s)'
<1>1. PICK n \in EntriesOf(target[t]) : bind_entry_to_data(n, t) BY DEF get_cached_response
<1>2. /\ n \in Bound /\ d_cache_table[n].url = target[t]
      /\ d_cache_table \in [Bound -> Entry]
  BY DEF EntriesOf, FetchIInv, IInv, TypeOK, TableTypeOK
<1>3. d_cache_table'[n].url = target[t]
  BY <1>1, <1>2 DEF bind_entry_to_data, Entry
<1>4. Holds(t)' /\ Held(t)' = n /\ \A s \in Threads \ {t} : Holds(s)' = Holds(s)
  BY <1>1 DEF bind_entry_to_data, With, Holds, Held
<1>5. Passed(t) /\ d_cache_mutex' # t
  BY CacheAssumption DEF get_cached_response, Passed, callVars, Free
<1>6. /\ stage'[t] = st /\ target'[t] = target[t]
      /\ \A s \in Threads \ {t} : stage'[s] = stage[s] /\ target'[s] = target[s]
  BY GotoStage DEF Stages
<1>7. StageMatches(t)' BY <1>3, <1>4, <1>5, <1>6 DEF StageMatches
<1> QED BY <1>4, <1>5, <1>6, <1>7, ActorMatches

LEMMA ReleaseMatches ==
    ASSUME FetchIInv, [FetchNext]_allVars, NEW t \in Threads, NEW st \in {"idle", "conditional"},
           Goto(t, st), release_cached_response(t)
    PROVE  \A s \in Threads : StageMatches(s)'
<1>1. ~Holds(t)' /\ \A s \in Threads \ {t} : Holds(s)' = Holds(s)
  BY DEF release_cached_response, uncouple_entry_from_data, EraseStream, Restrict, Holds
<1>2. Passed(t) /\ d_cache_mutex' # t
  BY CacheAssumption DEF release_cached_response, Passed, callVars, Free
<1>3. /\ stage'[t] = st
      /\ \A s \in Threads \ {t} : stage'[s] = stage[s] /\ target'[s] = target[s]
  BY GotoStage DEF Stages
<1>4. StageMatches(t)' BY <1>1, <1>2, <1>3 DEF StageMatches
<1> QED BY <1>1, <1>2, <1>3, <1>4, ActorMatches

(* A thread enters a method.                                               *)
LEMMA EnterMatches ==
    ASSUME FetchIInv, [FetchNext]_allVars, NEW t \in Threads, ~Holds(t),
           NEW st \in {"storing", "updating"}, Goto(t, st), UNCHANGED d_locked_entries,
           d_cache_mutex' = t
    PROVE  \A s \in Threads : StageMatches(s)'
<1>1. \A s \in Threads : Holds(s)' = Holds(s) BY DEF Holds
<1>2. /\ stage'[t] = st
      /\ \A s \in Threads \ {t} : stage'[s] = stage[s] /\ target'[s] = target[s]
  BY GotoStage DEF Stages
<1>3. StageMatches(t)' BY <1>1, <1>2 DEF StageMatches
<1> QED BY <1>1, <1>2, <1>3, ActorMatches DEF Passed

LEMMA FetchStepMatches ==
    ASSUME FetchIInv, [FetchNext]_allVars, NEW t \in Threads, FetchStep(t)
    PROVE  \A s \in Threads : StageMatches(s)'
<1> USE DEF Stages
<1>0. StageMatches(t) BY DEF FetchIInv
<1>v. UNCHANGED vars => UNCHANGED <<d_locked_entries, callVars>> BY DEF vars, tableVars
<1>1. CASE Get(t)
  <2>1. CASE get_cached_response(t, target[t]) /\ Goto(t, "validate")
    BY <1>1, <2>1, GetMatches DEF Get
  <2>2. CASE ~(get_cached_response(t, target[t]) /\ Goto(t, "validate"))
    BY <1>0, <1>1, <1>v, <2>2, QuietMatches DEF Get, StageMatches
  <2> QED BY <2>1, <2>2
<1>2. CASE Reget(t)
  <2>1. CASE get_cached_response(t, target[t]) /\ Goto(t, "reading")
    BY <1>2, <2>1, GetMatches DEF Reget
  <2>2. CASE ~(get_cached_response(t, target[t]) /\ Goto(t, "reading"))
    BY <1>0, <1>2, <1>v, <2>2, QuietMatches DEF Reget, StageMatches
  <2> QED BY <2>1, <2>2
<1>3. CASE GetError(t)
  <2>1. UNCHANGED <<d_locked_entries, callVars>> /\ Free
    BY <1>3 DEF GetError, GetWithoutFiles, GetFails, GetThrows
  <2> QED BY <1>0, <1>3, <2>1, QuietMatches DEF GetError, StageMatches
<1>4. CASE Validate(t)
  <2>1. PICK st \in {"reading", "release"} : Goto(t, st) BY <1>4 DEF Validate
  <2> QED BY <1>0, <1>4, <1>v, <2>1, QuietMatches DEF Validate, LookAtEntry, StageMatches
<1>5. CASE Done(t) \/ ReleaseStale(t) BY <1>5, ReleaseMatches DEF Done, ReleaseStale
<1>6. CASE PlainFetch(t) \/ Revalidate(t)
  <2>1. PICK st \in {"store", "update", "idle"} : Goto(t, st) BY <1>6 DEF PlainFetch, Revalidate
  <2>2. UNCHANGED vars /\ stage[t] \in {"fetch", "revalidate"} BY <1>6 DEF PlainFetch, Revalidate
  <2>3. \A s \in Threads : Holds(s)' = Holds(s) BY <1>v, <2>2 DEF Holds
  <2>4. /\ stage'[t] = st
        /\ \A s \in Threads \ {t} : stage'[s] = stage[s] /\ target'[s] = target[s]
    BY <2>1, GotoStage
  <2>5. Passed(t) /\ d_cache_mutex' = d_cache_mutex /\ step' = step
    BY <1>v, <2>2 DEF Passed, callVars
  <2>6. StageMatches(t)' BY <1>0, <2>2, <2>3, <2>4, <2>5 DEF StageMatches
  <2> QED BY <2>3, <2>4, <2>5, <2>6, ActorMatches
<1>7. CASE Conditional(t)
  <2>1. PICK st \in {"revalidate", "idle"} : Goto(t, st) BY <1>7 DEF Conditional
  <2> QED BY <1>0, <1>7, <1>v, <2>1, QuietMatches DEF Conditional, LookAtEntry, StageMatches
<1>8. CASE Store(t)
  BY <1>8, EnterMatches DEF Store, cache_response, Enter, tableVars
<1>9. CASE Update(t)
  <2>1. CASE update_response(t, target[t]) /\ Goto(t, "updating")
    BY <1>9, <2>1, EnterMatches DEF update_response, Enter, tableVars
  <2>2. CASE ~(update_response(t, target[t]) /\ Goto(t, "updating"))
    BY <1>0, <1>9, <1>v, <2>2, QuietMatches DEF Update, StageMatches
  <2> QED BY <2>1, <2>2
<1>10. CASE Stuck(t)
  <2>1. /\ d_cache_mutex' = t /\ step' = "hung"
        /\ UNCHANGED <<d_locked_entries, d_cache_table, fetchVars>>
    BY <1>10 DEF Stuck, LookHangs, Hang, Enter, tableVars
  <2>2. \A s \in Threads : Holds(s)' = Holds(s) BY <2>1 DEF Holds
  <2>3. StageMatches(t)' BY <1>0, <2>1, <2>2 DEF StageMatches, Held, fetchVars
  <2> QED BY <2>1, <2>2, <2>3, ActorMatches DEF fetchVars, Passed
<1>11. CASE ReleaseNull(t)
  <2>1. UNCHANGED callVars /\ Free /\ stage[t] = "null" /\ Goto(t, "idle") BY <1>11 DEF ReleaseNull
  <2>2. \A s \in Threads : Holds(s)' = Holds(s) BY <1>11, NullIsNobodys DEF FetchIInv
  <2>3. Passed(t) /\ d_cache_mutex' # t BY <2>1, CacheAssumption DEF Passed, callVars, Free
  <2>4. /\ stage'[t] = "idle"
        /\ \A s \in Threads \ {t} : stage'[s] = stage[s] /\ target'[s] = target[s]
    BY <2>1, GotoStage
  <2>5. StageMatches(t)' BY <1>0, <2>1, <2>2, <2>3, <2>4 DEF StageMatches
  <2> QED BY <2>2, <2>3, <2>4, <2>5, ActorMatches
<1> QED BY <1>1, <1>2, <1>3, <1>4, <1>5, <1>6, <1>7, <1>8, <1>9, <1>10, <1>11 DEF FetchStep

LEMMA StagesStep ==
    ASSUME FetchIInv, [FetchNext]_allVars
    PROVE  \A s \in Threads : StageMatches(s)'
<1>0. IInv /\ TypeOK /\ \A s \in Threads : StageMatches(s) BY DEF FetchIInv, IInv
<1>1. ASSUME NEW t \in Threads, FetchStep(t) PROVE \A s \in Threads : StageMatches(s)'
  BY <1>1, FetchStepMatches
<1>2. ASSUME NEW t \in Threads, InMethod(t) PROVE \A s \in Threads : StageMatches(s)'
  <2>1. /\ d_cache_mutex = t /\ step # "hung" /\ d_cache_mutex' \in {t, Null}
        /\ UNCHANGED d_locked_entries
    BY <1>0, <1>2, MethodsOfOthers DEF InMethod
  <2>2. stage[t] \in {"storing", "updating"} /\ ~Holds(t) BY <1>0, <2>1 DEF StageMatches
  <2>3. \A s \in Threads : Holds(s)' = Holds(s) BY <2>1 DEF Holds
  <2>4. CASE d_cache_mutex' = t
    <3>1. UNCHANGED fetchVars BY <1>2, <2>4 DEF InMethod
    <3>2. StageMatches(t)' BY <2>2, <2>3, <3>1 DEF StageMatches, fetchVars
    <3> QED BY <2>3, <2>4, <3>1, <3>2, ActorMatches DEF fetchVars, Passed
  <2>5. CASE d_cache_mutex' # t
    <3>1. PICK st \in {"reget", "idle"} : Goto(t, st) BY <1>2, <2>5 DEF InMethod
    <3>2. /\ stage'[t] = st
          /\ \A s \in Threads \ {t} : stage'[s] = stage[s] /\ target'[s] = target[s]
      BY <3>1, GotoStage DEF Stages
    <3>3. StageMatches(t)' BY <2>2, <2>3, <2>5, <3>2 DEF StageMatches
    <3> QED BY <2>1, <2>3, <2>5, <3>2, <3>3, ActorMatches DEF Passed
  <2> QED BY <2>4, <2>5
<1>3. ASSUME NEW t \in Threads, NEW u \in Urls, Start(t, u)
      PROVE  \A s \in Threads : StageMatches(s)'
  <2>1. UNCHANGED <<d_locked_entries, callVars>> BY <1>3 DEF Start, vars, tableVars
  <2>2. \A s \in Threads : Holds(s)' = Holds(s) BY <2>1 DEF Holds
  <2>3. /\ stage[t] = "idle" /\ stage'[t] = "get"
        /\ \A s \in Threads \ {t} : stage'[s] = stage[s] /\ target'[s] = target[s]
    BY <1>3 DEF Start, FetchIInv, FetchTypeOK
  <2>4. StageMatches(t)' BY <1>0, <2>1, <2>2, <2>3 DEF StageMatches, callVars
  <2> QED BY <2>1, <2>2, <2>3, <2>4, ActorMatches DEF callVars, Passed
<1>4. ASSUME (\E t \in Threads : Purge(t)) \/ (\E n \in Names : Age(n)) \/ UNCHANGED allVars
      PROVE  \A s \in Threads : StageMatches(s)'
  <2>1. UNCHANGED <<d_locked_entries, callVars, fetchVars>>
    BY <1>4 DEF Purge, purge_cache, Age, BecomeStale, allVars, vars, tableVars
  <2>2. \A s \in Threads : Holds(s)' = Holds(s) BY <2>1 DEF Holds
  <2> QED BY <2>1, <2>2, OthersMatch DEF callVars, fetchVars
<1>5. CASE Process
  <2>1. d_cache_mutex' = Null /\ d_locked_entries' = Empty
    <3>1. CASE Exit \/ Interrupt \/ Crash
      BY <1>0, <3>1, DestroyKeeps DEF Crash, ForgetProcess, Return
    <3>2. CASE Restart
      BY <1>0, <3>2 DEF IInv, DownIsEmpty, TypeOK, CallTypeOK, Restart, cache_index_read, callVars
    <3> QED BY <1>5, <3>1, <3>2 DEF Process
  <2>2. \A s \in Threads : ~Holds(s)' /\ d_cache_mutex' # s /\ stage'[s] = "idle"
    BY <1>5, <2>1, CacheAssumption DEF Process, Holds, Empty
  <2> QED BY <2>2 DEF StageMatches
<1> QED BY <1>1, <1>2, <1>3, <1>4, <1>5 DEF FetchNext

LEMMA InitFetchIInv == FetchInit => FetchIInv
<1> SUFFICES ASSUME FetchInit PROVE FetchIInv OBVIOUS
<1>1. IInv BY InitIInv DEF FetchInit
<1>2. FetchTypeOK BY DEF FetchInit, FetchTypeOK, Stages
<1>3. \A t \in Threads : StageMatches(t)
  BY CacheAssumption DEF FetchInit, Init, Empty, StageMatches, Holds
<1> QED BY <1>1, <1>2, <1>3 DEF FetchIInv

LEMMA NextFetchIInv == FetchIInv /\ [FetchNext]_allVars => FetchIInv'
<1> SUFFICES ASSUME FetchIInv, [FetchNext]_allVars PROVE FetchIInv' OBVIOUS
<1>1. IInv' BY FetchKeepsCache
<1>2. FetchTypeOK' BY FetchTypeStep
<1>3. \A t \in Threads : StageMatches(t)' BY StagesStep
<1> QED BY <1>1, <1>2, <1>3 DEF FetchIInv

(* Every reachable state of threads that fetch satisfies the invariant of  *)
(* the cache, and each thread's stage matches it (HTTPConnect.cc:767-851). *)
THEOREM FetchInvariant == FetchSpec => []FetchIInv
<1> QED BY InitFetchIInv, NextFetchIInv, PTL DEF FetchSpec

(* Every path through caching_fetch_url releases a stream exactly once: a  *)
(* thread has one exactly in the stages in which the code has one to       *)
(* release, and it is a response for the URL that is dereferenced.         *)
THEOREM StagesMatch == FetchSpec => []StagesMatchCache
<1>1. FetchIInv => StagesMatchCache BY DEF FetchIInv, StageMatches, StagesMatchCache
<1> QED BY <1>1, FetchInvariant, PTL

(* caching_fetch_url, in any number of threads, uses the cache only in     *)
(* ways that HTTPCache lets a client use it, once one may release a stream *)
(* that is not the cache's: whatever holds of the cache holds here.        *)
THEOREM FetchImplementsCache ==
    ASSUME "release" \in Mishaps
    PROVE  FetchSpec => Spec
<1>1. FetchInit => Init BY DEF FetchInit
<1>2. ASSUME FetchIInv, [FetchNext]_allVars PROVE [Next]_vars
  <2>1. ASSUME NEW t \in Threads, ReleaseNull(t) PROVE [Next]_vars
    <3>1. ~Holds(t) BY <1>2, <2>1 DEF ReleaseNull, FetchIInv, StageMatches
    <3>2. ReleaseUnknown(t) BY <2>1, <3>1 DEF ReleaseNull, ReleaseUnknown
    <3> QED BY <3>2 DEF Next, Client
  <2> QED BY <1>2, <2>1, FetchIsNext
<1>3. FetchIInv /\ [FetchNext]_allVars => [Next]_vars BY <1>2
<1> QED BY <1>1, <1>3, FetchInvariant, PTL DEF FetchSpec, Spec
=============================================================================
