--------------------------- MODULE HTTPCacheTable ---------------------------
(***************************************************************************)
(* The table of the client-side HTTP cache (class HTTPCacheTable): the     *)
(* entries in memory, the map of the streams in clients' hands, and the    *)
(* persistent store: a body file and a .meta file for each entry and the   *)
(* .index file.  The operators are the table's methods; HTTPCache calls    *)
(* them.                                                                   *)
(*                                                                         *)
(* An entry is known by its cachename.  The hash slots of d_cache_table    *)
(* only speed up the search for a URL and are left out.  Time is one bit   *)
(* of an entry: stale when is_url_valid would refuse it.  A stale entry    *)
(* may have expired or only have to be revalidated, so the garbage         *)
(* collector's delete_expired_entries takes some stale ones.               *)
(***************************************************************************)
EXTENDS Integers, FiniteSets, Functions

CONSTANTS
    Urls,       \* the URLs clients ask for
    Names,      \* the names mkstemp can make
    Sizes,      \* the body sizes of responses
    BlockSize,  \* d_block_size
    MaxHits,    \* bound: an entry's hits are counted up to here
    Null        \* the NULL entry, and the NULL stream

ASSUME TableAssumption ==
    /\ IsFiniteSet(Names) /\ Null \notin Names
    /\ Sizes \subseteq Nat
    /\ BlockSize \in Nat \ {0} /\ MaxHits \in Nat

VARIABLES
    d_cache_table,      \* entries in memory, by cachename
    d_current_size,     \* disk space the table thinks it uses
    d_new_entries,      \* entries added since the index was written
    d_locked_entries,   \* streams handed out -> cachename (or Null)
    body, meta,         \* what each name's two files hold
    index               \* the lines of .index, by cachename

tableVars == <<d_cache_table, d_current_size, d_new_entries, d_locked_entries>>
diskVars == <<body, meta, index>>

FileStates == {"none", "partial", "full"}

Line == [url : Urls, size : Sizes, hits : 0 .. MaxHits, stale : BOOLEAN]
Entry == [url : Urls, size : Sizes, hits : 0 .. MaxHits, stale : BOOLEAN,
          readers : Int, writing : BOOLEAN]

Empty == [n \in {} |-> Null]
Bound == DOMAIN d_cache_table   \* the names with an entry in the table
With(f, x, y) == [z \in DOMAIN f \cup {x} |-> IF z = x THEN y ELSE f[z]]

EntryOf(line) == [url |-> line.url, size |-> line.size, hits |-> line.hits,
                  stale |-> line.stale, readers |-> 0, writing |-> FALSE]
LineOf(e) == [url |-> e.url, size |-> e.size, hits |-> e.hits, stale |-> e.stale]

-----------------------------------------------------------------------------
(* Space on disk.                                                          *)

(* entry_disk_space: whole blocks, and one more for an exact multiple.     *)
DiskSpace(size) == ((size + BlockSize) \div BlockSize) * BlockSize

(* The space the entries of a table take: the sum, as the number of bytes. *)
Bytes(n, bytes) == {n} \X (1 .. bytes)
BytesOf(table) == UNION {Bytes(n, DiskSpace(table[n].size)) : n \in DOMAIN table}
Space(table) == Cardinality(BytesOf(table))

(* remove_cache_entry's subtraction stops at zero.                         *)
Saturated(n) == IF n < 0 THEN 0 ELSE n

-----------------------------------------------------------------------------
(* The lock of an entry: EntryLock shows that under the interface mutex it *)
(* is one reader count and one writer.                                     *)

CanReadLock(e) == ~e.writing
LockDespiteReaders(e) == ~e.writing
CanWriteLock(e) == ~e.writing /\ e.readers = 0

EntriesOf(url) == {n \in Bound : d_cache_table[n].url = url}

KeepOld(url) == {}
(* What remove_entry_from_cache_table finds to delete.                     *)
Replaced(url) == EntriesOf(url)

NeverInUse(e) == FALSE
(* The test of e->readers in remove_cache_entry and the Delete functors.   *)
InUse(e) == e.readers # 0

-----------------------------------------------------------------------------
(* Adding and removing entries.                                            *)

Forgotten(f, S) == f
(* REMOVE of the entry's two files.                                        *)
Unlink(f, S) == [n \in Names |-> IF n \in S THEN "none" ELSE f[n]]

FreedNothing(S) == 0
FreedBytes(S) == Cardinality(UNION {Bytes(n, d_cache_table[n].size) : n \in S})
Freed(S) == Space(Restrict(d_cache_table, S))

(* remove_cache_entry for every entry of S, and its erasure from the table *)
RemoveEntries(S) ==
    /\ d_cache_table' = Restrict(d_cache_table, Bound \ S)
    /\ d_current_size' = Saturated(d_current_size - Freed(S))
    /\ body' = Unlink(body, S)
    /\ meta' = Unlink(meta, S)

add_entry_to_cache_table(n, line) ==
    /\ d_cache_table' = With(d_cache_table, n, EntryOf(line))
    /\ d_current_size' = d_current_size + DiskSpace(line.size)
    /\ d_new_entries' = d_new_entries + 1

(* mkstemp makes a file that did not exist; that it is not the name of a   *)
(* file some line of the index or entry still refers to is only likely     *)
(* (six random characters), and assumed here.                              *)
FreshNames == {n \in Names : body[n] = "none"} \ (Bound \cup DOMAIN index)

-----------------------------------------------------------------------------
(* What the three garbage collections may delete.                          *)

Deletable == {n \in Bound : ~InUse(d_cache_table[n])}
Expired == {n \in Deletable : d_cache_table[n].stale}
WithHits(hits) == {n \in Deletable : d_cache_table[n].hits <= hits}
BiggerThan(size) == {n \in Deletable : d_cache_table[n].size > size}

-----------------------------------------------------------------------------
(* The streams in clients' hands.                                          *)

KeepStream(s) == d_locked_entries
(* d_locked_entries.erase(body)                                            *)
EraseStream(s) == Restrict(d_locked_entries, DOMAIN d_locked_entries \ {s})

NextHit(hits) == IF hits < MaxHits THEN hits + 1 ELSE hits

(* lock_read_response, then bind_entry_to_data                             *)
bind_entry_to_data(n, s) ==
    /\ d_locked_entries' = With(d_locked_entries, s, n)
    /\ d_cache_table' = [d_cache_table EXCEPT ![n].readers = @ + 1, ![n].hits = NextHit(@)]

uncouple_entry_from_data(s) ==
    /\ d_locked_entries' = EraseStream(s)
    /\ d_cache_table' = [d_cache_table EXCEPT ![d_locked_entries[s]].readers = @ - 1]

(* uncouple_entry_from_data of a stream that has no entry throws, but the  *)
(* look-up, operator[], has inserted the stream with a NULL entry.         *)
uncouple_unknown(s) == d_locked_entries' = With(d_locked_entries, s, Null)

is_locked_read_responses == DOMAIN d_locked_entries # {}

-----------------------------------------------------------------------------
(* The index file.                                                         *)

IndexLines == [n \in Bound |-> LineOf(d_cache_table[n])]

(* cache_index_read, in the constructor: every line becomes an entry.      *)
cache_index_read ==
    /\ d_cache_table' = [n \in DOMAIN index |-> EntryOf(index[n])]
    /\ d_current_size' = Space(index)
    /\ d_new_entries' = 0
    /\ d_locked_entries' = Empty

(* delete_all_entries, which ends with cache_index_delete                  *)
delete_all_entries ==
    /\ RemoveEntries(Bound)
    /\ index' = Empty
    /\ d_new_entries' = 0
=============================================================================
