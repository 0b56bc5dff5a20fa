# libdap in TLA+

libdap is the C++ implementation of the Data Access Protocol: clients
dereference URLs and parse what comes back into variables and attributes,
servers parse a constraint and send the data it selects. These modules model the
parts of the library in which order matters. They were written from the source;
every definition that stands for code is listed with its lines in the "map" of
PROJECT.json.

Modelled are the client-side HTTP cache, the one part of the library that
several threads and several runs of a program share (`HTTPCacheTable`,
`HTTPCache`, the interrupt handler, the caching path of `HTTPConnect`, and the
arithmetic of ages and lifetimes); the cache of results that server processes
share (`DAPCache3`, `ResponseCache`); the signal dispatcher; the parser of DDX
documents; what the projection of a constraint does to a dataset; and nested
Sequences on their way from a server to a client.

## The system

| component | state it keeps | operations | what is hard |
|---|---|---|---|
| Entry lock (`HTTPCacheTable.h`, `CacheEntry`) | a reader count and two mutexes per entry | lock and unlock for reading and for writing | the count is not atomic, the last reader unlocks what the first locked, a writer waits while it has the interface |
| Cache table (`HTTPCacheTable.cc`) | entries by URL, space used, streams handed out, the index and two files per entry on disk | add, find and lock, remove, collect by age, size and hits, bind and release streams, read and write the index, parse headers, compute freshness | three views of one store (table, files, index) that crashes pull apart; size accounting |
| HTTP cache (`HTTPCache.cc`) | one instance per process, the interface mutex, files being written, limits | cache, update, get, release, validate, conditional headers, purge, limits; destructor; signal handler | threads, I/O errors half-way, exit, SIGINT, crash and restart, a collector that may not end |
| HTTP client (`HTTPConnect.cc`, `HTTPCacheResponse.h`) | one libcurl handle each, the cache shared | fetch: from the cache, from the network, or revalidate; delete a response | several cache calls per fetch with nothing locked in between |
| Signals (`SignalHandler.cc`) | handlers and saved actions per signal | register, override, remove, dispatch | order of registrations; a signal inside any of them; handlers deleted by others |
| File-lock cache (`DAPCache3.cc`), response cache (`ResponseCache.cc`, `ResponseBuilder.cc`) | files under a directory shared by processes, a size file, fcntl locks | create and lock, read-lock, share, purge, update size | processes in between any two system calls, locks dropped by `close`, waits in a circle |
| DDX and DAP4 parsers (`DDXParserSAX2.cc`, `D4ParserSax2.cc`) | stacks of states, containers and attribute tables | start and end of elements, text, errors | stacks in step on every document, errors in the middle |
| Sequences (`Sequence.cc`) and marshalling (`XDR*`, `DAP4Stream*`) | rows, row numbers, which row has been sent | serialise, intern, read back, nested | rows held back until the leaf selects one; sender and receiver agree on markers; row numbers restart at every level |
| Arrays and vectors (`Array.cc`, `Vector.cc`) | shape, projection | constrain, reset, dimension sizes | start, stride, stop arithmetic; a second clause about the same Array |
| Constraints (`ConstraintEvaluator.cc`, `Clause.cc`, `RValue.cc`, `ce_expr.yy`, functions) | clauses, projection marks | parse, evaluate | marks on nested variables; Grids and their Maps |
| Variables (`BaseType`, `Structure`, `Grid`, `DDS`, simple types) | the tree, `send_p`, `read_p` | build, mark, look up, transform | flags that must agree up and down the tree |
| Attributes (`AttrTable.cc`, `DAS.cc`, `AIS*`) | nested tables, aliases | add, find, merge, delete | aliases to deleted tables |
| DAP4 containers (`D4Group.cc`, ...) | groups, dimensions, enumerations | look-up by path | scoping |
| Connection, server helpers, configuration, utilities | little | requests, MIME headers, strings | mostly conversions |

A fetch runs like this. `Connect` calls `HTTPConnect::fetch_url`, which looks in
the cache (`get_cached_response` hands out an open file and leaves the entry
locked for reading), asks it whether the response is valid, and either returns
it, or releases it and asks the server again with conditional headers. A 304
ends in `update_response` and a second `get_cached_response`, a 200 in
`cache_response`. Deleting the response releases the stream. All public methods
of the cache take `d_cache_mutex` first and keep it to the end, including while
they write files, wait for the readers of an entry, or collect garbage. The
exceptions are the destructor, run by `atexit` and by the signal handler, which
takes no lock, and trivial getters.

A server that calls functions in a constraint keeps their results
(`ResponseBuilder::send_das` and its like call
`ResponseCache::read_cached_dataset`): a process looks for the file of its
request, and reads it under a shared lock, or creates it under an exclusive one,
writes it, makes the lock a shared one, adds its size to the cache's, and, if
that is too much now, purges the oldest files that nobody has locked. A request
without functions has its constraint parsed (`ce_expr.yy`), which marks
variables and sets their dimensions, and then each marked variable writes
itself; a Sequence reads its rows one by one as it does.

What each part must guarantee is stated as properties below for the modules that
exist, and in the plan for the others. PROJECT.json lists the hazards at their
lines.

## The modules

- **RWLock** is what the comment on `HTTPCacheTable` promises of an entry: many
  readers or one writer. **EntryLock** is the code: each `TRYLOCK`, `LOCK`,
  `UNLOCK` and counter update is an action, and a method of the cache is a path
  through them (`get_cached_response` stays locked after it returns,
  `is_url_valid` unlocks, `update_response` locks for writing).
  `ImplementsRWLock` is the refinement: a thread reads from the moment it is
  counted to the moment it is discounted, and writes while it holds
  `d_response_write_lock`. **EntryLockProofs** holds the theorems.
- **HTTPCacheTable** is the table's state and its methods as operators: entries
  by cachename, `d_current_size`, `d_new_entries`, `d_locked_entries`, and on
  disk the body file and the .meta file of each name (none, partial, full) and
  the lines of .index. The lock of an entry is the reader count and the writer
  that EntryLock justifies.
- **HTTPCache** extends it with the public methods. Since the interface mutex
  admits one thread, a method that neither waits nor writes more than one file
  is one action. `cache_response` and `update_response`, the collector and the
  writing of the index are broken at every point where a crash, a signal or a
  failure tells the halves apart. `step` is where the thread with the interface
  is, `job` what it works on. `ReturnLocked`, `NeverDump` and the like are
  broken variants of one definition each, used only to see that the properties
  notice.
- **MCHTTPCache** adds symmetry for TLC. **HTTPCacheProofs** holds the theorems,
  also those about HTTPConnect.
- **HTTPConnect** extends HTTPCache: `stage[t]` is the call that
  `caching_fetch_url` makes next in thread t, and each of its actions is one
  action of HTTPCache, or a step of the network, plus the move to the next
  stage.

`HTTPCache` lets its clients make any call in any order; `HTTPConnect` lets them
make those that the program makes.

- **HTTPFreshness** is what HTTPCache abstracts to the bit "stale": one entry
  and one clock, with the dates and numbers of its headers, what `parse_headers`
  and `calculate_time` make of them, what `is_url_valid` concludes later, what
  an update or a restart changes, and the collector's test. Absent headers are
  -1 and refused dates 0, as in the code; `ToInt` is its cast.
  **HTTPFreshnessProofs** holds the theorems.
- **DDXParser** is on its own: each callback that libxml2 makes is an operator
  on the three stacks of the parser (states, variables, attribute tables), and
  the document is made up as it is read: any element may begin, the innermost
  may end. `id`s stand for the objects: the variable of an element, its
  attribute table or its value. `vars_added` and `attrs_added` are the calls of
  `add_var`, `append_attr`, `append_container` and `attr_alias`; `doc_vars` and
  `doc_attrs` are what the document says, noted from the open elements and not
  from the parser. **MCDDXParser** lists the start tags that TLC tries,
  **DDXParserProofs** holds the theorems.
- **DAPCache3** is the cache directory, the size file and the locks of `fcntl`:
  `locks[f][p]` is what a process holds on a file, `blocked` who sleeps in
  F_SETLKW, and a wait that closes a circle is refused as POSIX says. A file
  (`Files`) is not its name (`dir`): it stays for those who have it open when
  its name goes. A method is a run of actions, one per system call that others
  can see, from one value of `at` to the next. **ResponseCache** makes the
  calls: `read_cached_dataset` with what `ResponseBuilder` does before and
  after, as a path through those steps for each process, with failures and
  exits. **ResponseCacheProofs** holds the theorems.
- **SignalHandler** is one signal: the two tables' entries for it, what the
  system does with it (`action`), and the call that is under way. The signal may
  come between any two steps; `running` is the stack of functions it has called.
  The callers are those in the library (`builder` and `destructor` of
  ResponseBuilder, `cache`) and a program that does as it likes: `Deleted` says
  which of them delete the handler they get back. `host` is what the program has
  last arranged by itself. **SignalHandlerProofs** holds the theorems.
- **Projection** is what one clause after the other does to `send_p`, the
  dimensions of Arrays and the row numbers of Sequences: a name, a name with
  indices (on an Array, a Grid, or a Sequence), a name that does not exist, or
  no clause at all (everything is sent). `asked` notes the variables named.
  **MCProjection** gives TLC a dataset, **ProjectionProofs** holds the theorems.
- **Sequence** is one call of `serialize`, with the client that deserializes
  what it writes, or one of `intern_data`. `level` is the Sequence whose method
  runs, `i`, `d_row_number` and the flags are its fields at each level; the
  client is in the actions that write: a start marker puts a row in the Sequence
  at the top of `values`, an end marker pops. The data are a table of leaf rows,
  each saying which levels begin a new row there. **MCSequence** lists the row
  limits, **SequenceProofs** holds the theorems.

### What the code does and the modules keep

- `cache_response` removes the old entry before anything else, so a response
  that turns out not to be cacheable, or fails, leaves nothing behind.
- The handler of `get_cached_response` unlocks the interface only, that of
  `update_response` undoes the wrong lock (`UpdateThrows`).
- `hits_gc` compares with the mark that leaves room (`stopGC`), `too_big_gc` and
  the others with the limit (`startGC`).
- `release_cached_response` of an unknown stream throws, and still leaves the
  stream in the map.
- The collector runs in the destructor and then the index is written, also from
  the signal handler and whatever a method had half done.
- A restart believes the index: it does not look whether the files exist.
- `check_required_attribute` of the parser reports an error and returns true:
  states are pushed above `parser_error`, and the DDS goes on growing, until the
  element that was at fault ends.
- An Alias ends with whatever ends, a simple type with any simple type.
- `factory` returns 0 for the types of DAP4; the null pointer is pushed and
  dereferenced (`DereferenceNull`).
- `purge_file` unlocks the info file before it writes it (DAPCache3.cc:977), so
  the size can be overwritten by an older one, and can go below zero; it is
  unsigned.
- `is_valid` looks at a file without a lock; a file that is being written is
  found in the directory; a failed request leaves its locks to the process.
- `register_handler` installs the dispatcher before it saves what it replaced;
  an `AlarmHandler` throws through whatever it interrupts.
- `remove_handler` forgets the EventHandler and leaves the dispatcher installed.
- A clause `a[i]` marks after it has constrained, and an Array that is marked
  refuses other indices, but not a star.
- Marking a Grid's indices copies them to all its Maps; marking a Sequence by
  brackets marks all that is in it.
- Only the leaf Sequence evaluates the selection, and row numbers of the leaf
  count selected rows only; the row of a level around it is written by the leaf,
  when its first selected row has been found, and an inner instance in which
  none is found leaves nothing behind, not even a marker.

### Abstractions

- *Time* in HTTPCache is a bit: an entry is stale or not, `BecomeStale` sets it,
  a new response may be born stale. The collector deletes some stale entries
  without readers (a stale entry may only need revalidation). HTTPFreshness
  shows that this is sound: only a response makes an entry valid again
  (`InvalidStaysInvalid`), and what the collector calls expired is not valid
  (`ExpiredIsInvalid`).
- *Headers* in HTTPCache are not modelled. That a response is too big or
  `no-cache` is a choice (`NotCached`). In HTTPFreshness the text of a date is
  the time it means; the clock does not go back, and stops before an int
  overflows (2038).
- *Hash slots* are left out: a URL always hashes to the same slot.
- *File names* come from `mkstemp`; `FreshNames` assumes that it does not pick
  the name of a file a stale index line still names (one in 62^6).
- *Streams* are named after the thread that holds them: a thread holds at most
  one. All streams unknown to the cache are one value, `Null`.
- *The index file* is written in two steps, truncated and complete. A crash in
  the middle leaves no line; `fopen` failing is `IndexFails`.
- *Threads that a signal interrupts* do not run on: the handler deletes the
  cache they would use and the dispatcher throws. A signal that finds the
  handler's assertion (SIGPIPE, SIGTERM) is a crash.
- *Another process* with the same cache root is not modelled.
- *Names and text* in DDX documents are left out, and with them the errors that
  AttrTable throws for names that clash. Tags that libxml2 rejects end the
  document (`NotWellFormed`); one document per parser object.
- *Sizes* in DAPCache3: a file is empty, partly or fully written, and that is
  its size. Times of access are left out: the files that `update_and_purge`
  visits come in any order. Threads within a process are left out, because fcntl
  locks do not tell them apart and the code has no other lock.
- *Constraints*: names are complete (a short name finds one variable first), a
  clause has brackets in one place, indices are below `INT_MAX`, functions are
  left out. The selection in Sequence is a choice for each leaf row.
- *read()* of a Sequence belongs to the server that uses the library. It is
  modelled by what Sequence.cc asks of it and by tests/TestSequence.cc: it
  returns one row after the other, each instance of an inner Sequence has at
  least one, and it may (`resets`) or may not set the row numbers of inner
  Sequences back at a new outer row.

## The runs

| run | what it asks | instance | states |
|---|---|---|---|
| EntryLock | type, count, who waits for whom, refinement of RWLock | 4 threads | 13 thousand |
| EntryLockRelease | does a release return? **No** | 2 threads | |
| HTTPCache | table, files, index and streams agree; held responses do not change; the index is fresh and the cache fits when it is written | 2 threads, 2 URLs, 3 names, hits to 2, limits changing | 1 million |
| HTTPCacheMishaps | what survives I/O errors, signals, crashes and restarts | the same, any two mishaps | 3 million |
| HTTPConnect | one release per stream on every path; every fetch ends; the collector ends | 2 threads, 1 URL, 2 names, one I/O error | 160 thousand |
| HTTPConnectStream | does a fetch return a stream? **Not always** | 2 threads, 2 URLs, a purge | |
| HTTPFreshness | the collector and `is_url_valid` agree; nothing is used past its Expires; nothing becomes valid by itself | times 0 to 5, all headers | 17 thousand |
| DDXParser | stacks in step, errors kept, the DDS is the document | 17 start tags, 6 elements | 6 million |
| Projection | what is marked is what was named; counts are exact; Grids stay Grids; a hyperslab stays | 9 variables, 5 kinds of indices, 4 of them named | 136 thousand |
| Sequence | the client, or intern_data, gets the selected rows in their places | 3 levels, 4 leaf rows, 4 limits at each level | 3 million |
| SignalHandler | hooks are alive, the dispatcher does not call itself, the old action is done | 3 handlers (one throws), 2 functions (one chains), 5 calls deep | 3.4 million |
| ResponseCache | what is in use keeps its name, nobody reads what is being built, nothing is kept between requests, requests end | 2 processes, 2 results, 3 requests, 1 mishap | 289 thousand |

The runs check deadlock nowhere: a writer that waits for a client that will not
come back is a state this code can really stop in, and EntryLockRelease is about
it; the clock of HTTPFreshness stops at its last value; a parse, a constraint, a
transmission and the requests of ResponseCache end; a program may have used up
its handlers, or have exited.

**Bounds.** Two threads are enough for every conflict over one entry (reader and
writer, client and collector); EntryLock takes four so that two readers, a
writer and a look meet. Two URLs and three names let one entry be replaced and
another be collected. The sizes are chosen for the arithmetic: with blocks of 4,
bodies of 7 and 11 take 8 and 12 bytes; with a limit of 20, of which 2 for
folders, one body fits, two exceed the limit, and the collector stops after one
or after both, according to their hits. Setting the limit to 10 makes a single
large body too much. `DUMP_FREQUENCY` is 1 where the code has 10, `MEGA` is 1,
the percentages are the code's. `MaxHits` caps the hit count (the collector's
loop then spins where the code's would run on to the overflow of an int).
`MaxLeaks` caps how many throwing gets are counted, `MaxMishaps` how much goes
wrong in one behaviour: a crash followed by an error, or two errors, show how
the recovery from the first meets the second. HTTPConnect has one URL, because
its threads interfere only over the same entry, and a limit of 12, so that a
large body makes the collector run. The clock of HTTPFreshness goes from 0 to 5
and `INT_MAX` is 6: dates lie before, at and after the moments of a response and
of its use, one is later than the last that `parse_time` accepts, and seconds
added to the clock exceed `INT_MAX`. In DDXParser `MaxElements` is 6: enough for
a Grid with its Array, a Map, their types and a dimension, for attribute
containers three deep with a value, and for an OtherXML inside an OtherXML;
after the parser has stopped one more element is read, which shows what the
callbacks do then. `UINT_MAX` is 3, so that `other_xml_depth` decremented below
0 is seen.

The dataset of Projection has each kind of variable that a clause treats in its
own way, a variable inside another twice over, and a Grid of two dimensions so
that Maps differ. The indices are one element, a stride that the stop is no
multiple of, a stop before the start, one beyond the Array, and a star.
`MaxNames` bounds the variables named, not the clauses: a variable can be
constrained again and again. Three levels in Sequence make one that is neither
the outermost nor the leaf, four rows let each level end or go on while another
begins, and the limits begin, step, end and (with a stride of 0) stop between
rows. Two processes in ResponseCache are enough for each conflict over a file or
the cache; one whole file fits and two do not, so that every second result makes
the cache purge; there are more files than names because a file lives on without
its name. `MaxRequests` is 3 so that one process can meet what two requests of
the other have left. In SignalHandler `MaxCalls` lets the dispatcher, a chaining
function and the dispatcher again be on the stack, with room for one more round.

**Fairness.** A thread inside a method runs on (weak fairness of `Method`):
nothing in a method waits for a client except for an entry's readers, and the
properties say so (`KeptBusy`). Nothing forces a client to call, or a held
response to be released, in HTTPCache. In HTTPConnect a fetch in progress is
driven by the program and the caller deletes the response in the end; strong
fairness of `FetchStep` says that a thread waiting for a mutex that is free
again and again gets it. In EntryLock strong fairness of the two `LOCK` calls is
more than pthreads promise: it is assumed for the run that *fails*, so the
failure is not the scheduler's. In ResponseCache a process runs on, and one that
waits in `fcntl` gets the lock if it is free again and again (Linux wakes all
who wait; the cache lock is held for short); nobody has to make a request.
`RequestsEnd` excuses all after a failure, because a failed request keeps its
locks.

### What the failing runs show

- *EntryLockRelease*: a thread reads an entry, another updates or replaces it
  and waits in `lock_write_response` with the interface mutex; the release the
  first thread then calls waits for that mutex. Both wait for ever, and with
  them every other user of the cache. The comment at HTTPCache.cc:104 says the
  cache is MT-safe.
- *HTTPConnectStream*: the entry disappears between `update_response` and the
  second `get_cached_response`; the response has a NULL stream, and its
  destructor throws.

### Seen while modelling, without a run

*HTTP cache.* `value.find("=" + 1)` (HTTPCacheTable.cc:833) searches for the
empty string, so a `max-age` is parsed from its first letter and comes out as 0:
a response its server calls fresh is revalidated every time. A signal while
`update_response` rewrites a .meta file leaves a truncated one; a crash can
leave an index line without files, the next `get_cached_response` then throws
and leaves the entry locked, and `purge_cache` throws an InternalErr half-way.
`d_folder_size` and `d_gc_buffer` lack `MEGA` in the constructor
(HTTPCache.cc:230) and come out as 2 bytes; `parse_time` refuses years after
2020, so that the Date of every response is now the epoch; an `Age` header is
parsed as an absolute time (HTTPCacheTable.cc:814); the 304 path appends the
cached headers to those of the 304 response; `size > ULONG_MAX`
(HTTPCache.cc:711) is never true; the FILE of a released response is not closed
(HTTPCache.cc:1557), though the comment at HTTPConnect.cc:801 says it is; two
processes can both find no lock file (HTTPCache.cc:460) and both use the cache.

*Signals.* A saved SIG_DFL is not done: the dispatcher throws an Error
(SignalHandler.cc:107-123), where SignalHandler.h:48-52 speaks of the original
action. After a registration with override, a later one without it keeps
SIG_IGN. An AlarmHandler whose signal comes between `sigaction` and the
assignment to `d_old_handlers` leaves with an exception and the program's action
is lost (`lost`). `~ResponseBuilder` removes whatever handler is registered for
SIGALRM, its own or not, and never calls `alarm(0)`. ResponseBuilder.cc:107 says
that the registration deletes the old handler; `establish_timeout` does, and
what it deletes may be another's. HTTPCacheInterruptHandler is registered for
SIGPIPE and SIGTERM too and asserts SIGINT; it returns, though its comment says
it never does, and a second signal finds a null `_instance`.

*File-lock cache.* `ResponseCache.cc:302-304` says "Change the exclusive lock on
the new file to a shared lock. This keeps other processes from purging the new
file". It does not, because closing the stream at line 300 has given up the lock
already: one process creates a file; another looks, without a lock, before
anything is in it and decides to purge it; the first writes the file and closes
the stream; the second gets the exclusive lock and unlinks it; the first goes on
to share a file that has no name, and `update_cache_info` throws when it looks
for its size. (`InUseIsNotPurged` therefore leaves out the steps "share" and
"update"; with them TLC shows this in 16 states.) The recorded size and the
directory part company: through the unlocked write at line 977, through a
subtraction of a size that was never added, and through files that failed
half-written. The cache stays above its limit while files are in use. A process
that keeps a shared lock and waits for the cache's is in a circle with a
`purge_file` that waits for it: fcntl refuses one of them (EDEADLK), and the
request fails. A failed request keeps its locks until the process exits.

*Projections.* `a[0:1],a[0:*]` passes the test for equal hyperslabs, and the
star wins. A stop before the start is accepted (`c_size` is 0 or less).
`a,a[0:1]` throws and `a[0:1],a` does not. `g.m[1:1],g[0:0]` resets the Map
without a word. `q[0:3].f` sends all the fields of q. Of repeated indices on a
Sequence the last win, and `q[0:*]` throws. `a.x` on an Array of a simple type
is accepted for any x and marks the template only.

*Sequences.* Sequence.cc:636-639 and BaseType.cc:901-906 say that `read()`
returns true when there is more to read; line 695 takes true for the end. Levels
above the leaf assume that each instance has a row. The parser accepts a stride
of 0: the leaf then stops at its row again, and if `read()` does not reset row
numbers it takes the first row of every later instance for that one and sends
nothing (`StopsShort`); with a stop within the rows the same server gets the
error "Trying to back up". A nested `serialize` from a parent ignores `ce_eval`.
A Sequence from the response cache has no rows to read and cannot be serialised
again.

In the DDX parser: an Attribute of the root's namespace inside an OtherXML
attribute ends that attribute at its own end tag and leaves `other_xml_depth` at
1, which DDXParserSAX2.h:124 calls the depth of the nesting; a second OtherXML
inside the first then swallows an end tag and the document is accepted with the
attribute split in two. An Attribute inside an Attribute that is no container
overwrites the name under which the outer one's later values are filed.
`DDSIsTheDocument` therefore speaks of documents without such nesting
(`nested`). When the document has no namespace, the comparison of `root_ns` with
a null `URI` (DDXParserSAX2.cc:877) is undefined. An Array element with two
variables keeps the last; a Map before the Array of a Grid becomes the array.
After an error the variables on the stack leak.

## The proofs

`EntryLockProofs` proves, for every finite set of threads, the type invariant,
the three invariants of the EntryLock run, and the refinement of RWLock. The
only assumption is `ThreadsAssumption`: the threads are a finite set and the
value that stands for "nobody" is none of them.

None of the properties is inductive. What makes them so (`IInv`) is that the
interface mutex is held exactly by the thread that is inside a method beyond its
first lock, so that at most one thread is between two steps that touch the
entry; that `d_response_lock` is locked exactly when somebody reads, or when the
thread inside is on its way to count itself or to write; that
`d_response_write_lock` is locked exactly while the thread inside writes or
passes a writer; and that the counter is the cardinality of the readers. The
proof goes by kinds of steps: steps that leave the set of readers alone
(`QuietReading`, `QuietIInv`), the step that adds a thread to it
(`CountReading`, `CountIInv`) and the one that removes a thread
(`UncountReading`, `UncountIInv`); the theorems on cardinality of the library do
the arithmetic. `StepSimulation` maps each step to a step of RWLock or a
stutter: counting is AcquireRead, and needs that nobody writes, which IInv gives
because the writer would have the interface.

`HTTPFreshnessProofs` proves its three properties for every clock, every
`INT_MAX` and all headers. `FreshnessAssumption` says that the constants are
natural numbers, that `LM_PART` is not 0, and that the clock and the accepted
dates stay below `INT_MAX` (until 2038). `IInv` adds to the types that the dates
kept are absent, refused or at most the last accepted one (`DatesParsed`), and
that an entry with an Expires and a lifetime was old enough when it came to run
out of it by then (`RunsOutInTime`); `InvalidStaysInvalid` and
`ExpiredIsInvalid` need no more than the types, because the age of a response
grows with the clock.

`DDXParserProofs` proves that the types are right, that the three stacks stay in
step (`StacksStayInStep`) and that no later callback forgets an error
(`ErrorsAreFinal`), for documents of any length, any set of start tags and any
`UINT_MAX` (`DDXAssumption`). `ParserInv` counts: there are as many tables and
variables on the stacks as states that push one, less what the innermost element
has already popped; `parser_start` lies at the bottom and nowhere else; an error
that was reported has a state on the stack. The counts change by one with a push
or a pop (the lemmas on counting), and there is one lemma per callback.

The same module proves that the DDS is the document (`AcceptedIsTheDocument`,
which states `DDSIsTheDocument`). `InDocument` says, while no error has been
reported and nothing is nested where nothing may be, that the states above
`parser_start` are those of the open elements (`ShapeOf`; elements inside an
OtherXML have none, and `other_xml_depth` is at most their number), that
elements are numbered as they open (`NumberedOf`), that the tops of the two
other stacks are the innermost open variable and table (`NamesOf`), and that
what the document says and the DDS lacks is what is on `bt_stack` and the value
under way (`Added`). Once an error has been reported it stays (`ErrorsStay`), so
nothing is claimed of what comes after. `DDXAssumption` says of the start tags
that a type belongs to an Attribute and to nothing else. `Faithful`, the whole
invariant, was evaluated by TLC on the run's instance first.

`SignalHandlerProofs` proves its four theorems for any number of EventHandlers
and functions and deliveries of any depth (`SignalAssumption`: the values of
different kinds differ). `IInv` adds to the types that an EventHandler in a
caller's hands is alive and is no longer the one in the table (`OldIsFree`; what
goes wrong otherwise is that the caller deletes it), that the system's action is
the program's or the dispatcher (`ActionIsKnown`), that what `sigaction` has
handed over and is about to be saved is the program's (`SaveKnowsHost`), and
that only a function of the program that got the dispatcher from `sigaction`
calls it (`CalledByHost`).

`ProjectionProofs` proves the four properties for every dataset in which a
variable is inside another transitively and Grids are what
`Grid::check_semantics` asks for (`ProjectionAssumption`, `GridAssumption`), for
any indices and any number of clauses. Behind them is `CountIsExact`, on the
integer division of `add_constraint`. `IInv` says that the marks are what the
names asked for (`MarkedIsNamed`), that counts are exact, and that the Maps of a
Grid that no clause named alone have the dimensions of its Array (`MapsInStep`);
`GridStaysGrid` needs all three.

`HTTPCacheProofs` proves the safety properties of the cache for any finite set
of threads, any URLs, names and sizes, any limits and any number of mishaps
(`CacheAssumption`, `TableAssumption`: the sets that are counted are finite, the
numbers are natural, the block size and the two percentages are not 0). `IInv`
says in addition to the types where the thread with the interface is and what it
works on (`StepOK`, `OutHasNoJob`, `JobUrl`, `JobIsNew`, `JobIsLocked`): between
`create` and `add` the new entry's name is nobody else's and its URL has no
entry, which is why a crash there leaves the table and the index alone; an
update has the entry locked for writing, without readers. `HeldAreCounted` is the
heart: a counter is never less than the number of clients that hold the entry
(after a failure it may be more), so the collector and the updater, which want 0,
pass over it. `HeldAreComplete` and `NoPartialBodies` say which files are whole.
The steps are sorted by what they do to the table (`Idle`, `Writes`, `Removes`,
`UpdateLost`, `GetLost`, and the rest by name; `NextIs`), and each conjunct is
proved over those kinds. `SizeIsAccurate` rests on a lemma on the space of a
table that is split, since the model counts space by bytes (`BytesOf`) and not
with a fold.

`ReadersAreHolders`, `StoreIsTheTable` and `IndexLagsLittle` hold while nothing
goes wrong: the run says `MaxMishaps = 0`, and so do the theorems. `Orderly` is
what they need on top of `IInv`: the counter is exact, only the entry under
update is locked for writing, the files of the entry under way are as far as the
method has come (`JobFiles`) and those of the others agree with the table.

The last part is about HTTPConnect. `FetchIInv` ties a thread's stage to what it
holds and to the step it is at (`StageMatches`). `FetchImplementsCache` says that
every behaviour of HTTPConnect is one of HTTPCache: a fetch uses the cache as
HTTPCache lets its clients use it. It assumes that "release" is among the
`Mishaps`: the destructor of a response without a stream releases NULL, and
HTTPCache allows the release of a stream that is not the cache's only then.

`ResponseCacheProofs` proves the safety properties of the cache that processes
share, for any finite number of processes and results, any sizes and any number
of mishaps (`CacheAssumption` of DAPCache3, `RequestAssumption`). `IInv` ties
`at`, `file` and `locks`: at which steps a process has opened a file
(`FileAtStep`), has the size file locked (`CacheLockAtStep`), has its file locked
for writing or reading (`FileLockAtStep`); that the file a process works on still
has the name under which it was found (`FoundIsNamed`), which is why a purge
that finds the lock free cannot hit it; and that who has had no failure has
nothing else (`HoldsOnlyRecorded`), which is what `IdleHoldsNothing` needs.

`SequenceProofs` is for Sequences nested to any depth, tables of any number of
rows and any limits (`SequenceAssumption`). `IInv` has two halves. The first is
about row numbers: none is past the rows that have been read
(`NumbersBelowRow`); each level but a limited leaf starts again at -1 when it is
called (`NumbersRestart`), because the parents reset their own numbers and a
leaf without a limit reads to the end (`ReadsToTheEnd`). That confines the error
about backing up (`SpecBacksUpOnlyInLimitedLeaf`). The second is about places:
the Sequences being filled are those in the rows around the present one, from
the outermost (`Places`); a row around the present one has been sent if and only
if the Sequence in it is being filled (`SentIsFilled`); `d_wrote_soi`, and for
intern_data the size of the stack at the call, tell whether that is so
(`EndsAreKnown`). From this the rows sent with the first row of a leaf are
consecutive levels that begin where the client is (`SentIs`), so markers that do
not name their level suffice. `SpecTypeOK`, `RowsReachTheirParents`,
`RowsComeInOrder` and `EveryStartIsEnded` follow.

That nothing selected is left out (`SpecClientGetsSelection`,
`SpecInternGetsSelection`) takes a second invariant, `SInv`, preserved where
`IInv` holds. The number a level has is that of its row at the present line,
counted anew from the data (`NumbersCount`, and `NumberGoesOn`, `NumberBegins`
and `NumberGrows` for what a line adds to it); the row a level wants is the next
one that its limit leaves (`Targets`, from `NextTarget` on strides). So a line
that is passed over is not selected (`PassedWerePut`), nor is one that is left
behind in a row when a method stops at the end of a limit or of its rows
(`SkippedAreNotSelected`). The exception is real: with a server that does not
reset the row numbers of the leaf, a limited leaf keeps the number at which it
stopped (`Doomed`). For a stride above 0 that number is past the one its next
call begins with, which throws (`DoomedLeaf`); for a stride of 0 they are equal,
the old number is taken for the new row, and rows are lost without an error:
that is the `StopsShort` that the properties name.

Only model-checked: the liveness properties, since the prover has neither
fairness with ENABLED nor liveness.

## Plan

Done: the cache with its clients, the freshness arithmetic, the DDX parser, the
shared result cache, the signal dispatcher, projections, Sequences, and the
theorems above. Next, in this order:

1. *D4Parser*, which has the shape of DDXParser with a Group for the DDS, and
   *AttrTable* with aliases and merging, if a run is given up for each.

## Not modelled, and why

Text formats and their conversions (`escaping`, `mime_util`, `XMLWriter`, the
printing methods), byte-level XDR, libcurl and libxml2 themselves, the
gridfields functions (glue to a library), command-line programs, build files and
vendored gnulib code: they keep no state that others share, and what could go
wrong in them is found by tests of inputs. The regular expressions of gnulib
(twice, for Windows too), the gridfields functions, the generated and the
command-line programs are more than half of the repository's lines of code, and
the storage, printing and conversion of values most of the rest; the modules
cover the part in which order matters.

Of the parts that keep state: the DAP4 parser and its containers, attribute
tables and AIS, the configuration and the DDS built by the old parser (`dds.yy`)
are not modelled. Each works on one object in one thread, from one document. In
the HTTP cache: the lock file of the cache root, the setters of plain flags, the
parsing of a Cache-Control by `set_cache_control` (its values are in
HTTPFreshness), and `is_url_in_cache`, which only tests call. In DAPCache3: the
checks of the directory and the prefix of names. In Sequence: printing,
`row_value` and its kind, and leaf Sequences whose rows hold structures. In
Projection: functions, clauses with brackets in two places, and short names.
