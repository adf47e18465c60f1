# marketlib in TLA+

This directory is the verification project kept beside marketlib, a C++23
library for market-data processes: lock-free queues, a symbol-partitioned
thread pool, limit order books published through seqlocks, an asynchronous
logger, the application skeleton around them, and, under `ideas/`, the binding
libraries for databases and configuration files that are being prototyped. The
modules are translated from the source under `src/`; `PROJECT.json` maps every
definition that models code to the lines it stands for.

## 1. The system

### 1.1 Components, their state and their operations

| component | source | state | operations | hard behaviour |
|---|---|---|---|---|
| SPSC queue | `include/lockfree/spsc_queue.h` | two wrapping counters, N slots | `try_push`, `try_pop`, `size`, `empty`, destructor | both threads on one ring, stale loads of the other's counter, a throwing `T` |
| MPSC queue | `include/lockfree/mpsc_queue.h` | `producer_`, `consumer_`, a sequence number per slot | `try_push` (CAS claim, construct, publish), `try_pop`, `empty` | producers racing, weak CAS, a claimed slot that is not yet (or never) published |
| MPMC queue | `include/lockfree/mpmc_queue.h` | `head_`, `tail_`, a sequence number per slot | `try_push`, `try_pop`, `size` | both ends race; a slow popper blocks the slot for a lap |
| Seqlock | `include/lockfree/seqlock.h` | `seq_`, a payload that is not atomic | `write`, `read`, `try_read` | a reader overlapping one or many writes, fences |
| Disruptor | `include/lockfree/disruptor.h` | producer cursor, a cursor per consumer, `num_consumers_` | `subscribe`, `publish`, `wait`, `try_consume`, `consumed` | producer gated by the slowest consumer, late subscribers |
| Order book | `include/orderbook/order_book.h` | two sorted level arrays with their counts, the order table, `sequence_` | `on_add`, `on_cancel`, `on_modify`, `on_execute`, `snapshot` | long call sequences: full level array, repeated ids, over-execution |
| Shared book table | `include/orderbook/shared_book_table.h` | shm segment and its name, mapping, unlink ownership | `create`, `open`, `publish`, `read`, `try_read`, `close` | two processes, partial failure, restart of the writer |
| Thread pool | `include/threadpool/threadpool.h` | a queue, handler and thread per worker; groups; `running_` | `spawn_worker`, `spawn_group`, `start`, `stop`, `submit_*`, `worker_loop` | shutdown against late submits; order per key |
| Market-data dispatch | `apps/md_dispatch/main.cpp`, `handlers/onload` | per-worker book maps, the shared table | receiver loop, `on_packet`, `process_market_data`, shutdown | a full worker queue drops a message; kill and restart |
| Logging | `core/logging/src`, `include/logging` | per-thread SPSC buffers, one MPSC debug queue, the drain's buffer list, logger tree | `Logger::get`, log, `register_buffer`, `enqueue_debug`, `drain_loop`, `flush`, `start`, `stop` | thread exit against the drain, overflow, final drain |
| Application | `core/app/src`, `include/app` | module list, phase | `add_module`, `run` (init/start/on_run/stop/shutdown) | one step of several failing |
| Signals | `core/app/src/signals.cpp` | self-pipe, handlers, crash thread, `g_stop` | `install`, `uninstall`, handlers, crash thread | handler against uninstall, signal in the crash path |
| OCI client, `ideas/new` | `ideas/new/include/binding` | statement state machine, guarded handles, connection, batch and staging | `connect`, `prepare`, `bind*`, `execute`, `fetch`, `select_*`, `insert_rows`, LOBs | call protocol, batches reused, a session lost in the middle |
| OCI client, `ideas/binding` | `ideas/binding/include/binding` | the same with handles freed by hand, columns by name | `connect`, `execute`, `select_rows`, `insert_rows`, dates | the same, retries by the caller, exceptions of a callback |
| OCI mock and dates | `oci_mock.h` of both, `oci_datetime.h` | process-wide globals, failure modes | the OCI entry points, date formats | one set of globals under every statement; two-digit years |
| Configuration binding | `ideas/binding`: `config_*.h`, `configuration.h`, bridges | a document, a path, a strict flag, attached documents | `load`, `section`, `get`, `attach` | three formats, one form; a throw in the middle of a struct |
| Pool / arena allocator | `include/memory/pool.h` | intrusive free list; bump offset | `allocate`, `deallocate`, `construct`, `destroy`, `reset` | exhaustion, alignment arithmetic at the boundary |
| Histogram, TSC | `include/perfmeasure`, `core/perfmeasure/src` | 64 atomic buckets, calibration | `record`, `percentile`, `calibrate` | bucket 0 and 63 |
| Configuration, command line | `core/config/src`, `core/cmdline/src` | TOML table, override layers | `load`, `get_*`, `section`, `parse` | precedence of four layers, types of overrides |
| Aggregation prototype | `ideas/aggregate` | keyed totals | `add`, `subtotal`, `rollup` | none (a pure function) |
| Hash map, endian, clock, transport interface | `include/hashmap`, `include/serialization`, `include/time`, `include/networking` | none of their own | thin wrappers | - |

### 1.2 How they interact

The receiver thread (`handlers/onload`) turns each datagram into a task and
submits it to the thread pool by symbol. Every worker owns one MPSC queue and
the books of its symbols; its handler updates a book and publishes a snapshot
through the seqlock slot of the symbol in shared memory, where other processes
read it. Every thread logs through a thread-local SPSC buffer (or the shared
MPSC debug queue) that one drain thread empties. `Application::run` brings the
modules up and down, and the signal handlers stop it through `g_stop`. The
binding libraries stand alone: a client call drives the OCI entry points, which
the mock implements over globals of its own; a configuration is a tree from a
parser's library, converted to one form and bound onto structs.

### 1.3 What makes each component correct

* Queues: a FIFO (per ticket for several producers): nothing lost, duplicated,
  reordered, overwritten or read before it is constructed; a refused call means
  what it says; a consumer that keeps polling gets what is published.
* Seqlock: a value returned was written whole; a failure means an overlap.
* Disruptor: every subscriber in time sees every event, in order, and no event
  is overwritten while a subscriber still needs it.
* Order book: the levels are the order table summed by price, sorted, without
  empty levels, for as long as the calls stay within what the book can hold.
* Thread pool: an accepted task is handled at most once, by the worker its key
  names, in the order of acceptance; `stop` returns and leaves nothing queued.
* Market-data dispatch and its table: a read is one snapshot of a book that
  follows what entered the queues; the name leads to the running writer.
* Logging: an accepted record is written once, in order per thread.
* Application and signals: what was started is stopped, in reverse order,
  whatever fails; a signal ends the run.
* Clients: what a row struct shows is its row, success means all of it, no
  handle is left or outlives its environment.
* Configuration: the formats agree, a path and a struct agree, strict means
  every key, a failed `get` changes nothing.

## 2. Plan

Modules in the order in which they were written; the last two are left.

| # | module | builds on | abstract specification | why in this place |
|---|---|---|---|---|
| 1 | `SpscQueue` | - | `BoundedFifo` | the ring every other queue varies |
| 2 | `MpscQueue` | - | `TicketQueue` | the thread pool and the logger stand on it |
| 3 | `SeqLock` | - | "one whole write" (an invariant) | publishes the books |
| 4 | `OrderBook` | - | the order table summed by price (an invariant) | the data the process is for |
| 5 | `ThreadPool` | `TicketQueue` in place of `MpscQueue` | one line per worker, in order | order per key, shutdown |
| 6 | `Disruptor` | - | fan-out in order (an invariant) | the last of the rings that gates its producer |
| 7 | `Logging` | queues as `TicketQueue` and `BoundedFifo` | accepted records, each written once | registration, thread exit, final drain |
| 8 | `Application` (with the signal handlers) | - | what is started is stopped, in reverse | partial failure, a signal in any phase |
| 9 | `SharedBookTable`, `MdDispatch` | seqlock slots, the pool's queues, books | a reader sees a book of what was accepted | composition, crash and restart of the writer |
| 10 | `OciMock`, `OciConnection`, `OciStatement`, `OciRows`, `OciClient` | `OciRows` on `OciMock`, the others each on the one before | rows as sent | partial failure in batches, life of handles |
| 11 | `OciDate`, `BindingClient` | `OciRows` | rows by name, dates that read back | retries, handles freed by hand |
| 12 | `ConfigTree`, `ConfigBind`, `Configuration` | each on the one before | one setting in three formats | pure algorithms with throws in the middle |
| 13 | `MpmcQueue` (left) | - | `TicketQueue` with tickets at both ends | racing poppers; only a test uses it |
| 14 | allocators, the layers of `core/config` (left) | - | a set of live blocks; a precedence order | sequential, small |

A component has one run, with all its invariants and properties; what needs
another instance is said in section 4. Bounds are two or three actors, two to
four slots, and as many operations as take every ring past its wrap.

Theorems, proved: the slot hand-over of `SpscQueue`, the torn read of `SeqLock`,
the fan-out of `Disruptor`, exclusive slots and the refinement of `MpscQueue`,
the refinement of `BoundedFifo` by `SpscQueue` (its safety), the best price first
and the sums of the levels of `OrderBook`, the order per key and the shutdown of
`ThreadPool`, the order and the final drain of `Logging`, the unwinding of
`Application`, and the snapshots, the books and the name of the table in `MdDispatch`.
Every safety property of the components outside `src/ideas` is thereby proved, and of those
in it the rows, the handles and the completeness of a success of both clients, `OciClient`
and `BindingClient`. What the dates and the configuration do is recursive over data and
stays with TLC.
No module that is proved about reaches a RECURSIVE operator.

## 3. The modules

Each module begins with a comment that names its source file and what a step
is. Definitions marked `mutant` in a comment are plausible bugs: they are in no
next-state relation, and `PROJECT.json` says in place of which definition each
must make which property fail.

### 3.1 `SpscQueue` (`spsc_queue.h`), implements `BoundedFifo`

State: the two counters, the storage of every slot (`Raw` where no `T` lives),
and for each thread its next access and the value of the other counter it has
loaded. `PushBegin` is the two loads and the test for a full ring,
`PushConstruct` the placement new, `PushPublish` the release store; `PopBegin`,
`PopMove`, `PopDestroy`, `PopPublish` are the same for `try_pop`. `PushThrow`
and `PopThrow` are a `T` whose constructor or move assignment throws: the
counter does not move. The counters wrap at `CounterModulus`.

*Memory model.* An acquire load returns any value the other counter has held
since the value this thread saw last (`Visible`), which is all that C++ promises.
The payload needs no such choice: the release store a load reads from makes the
slot accesses before it visible.

### 3.2 `MpscQueue` (`mpsc_queue.h`), implements `TicketQueue`

State: `producer_`, `consumer_`, the sequence number and the storage of every
slot, per producer its place in `try_push`, its local `head` and its argument.
The loop of `try_push` is `PushLoadSeq` (one load of the slot's number and the
three-way branch on `Lag`), `PushReload`, `PushClaim` (the CAS), `PushClaimFails`
(a lost race, or a weak CAS that fails without one). A thrown constructor leaves
a slot that is claimed for ever; `TicketQueue` has `Abandon` for it. A relaxed
load of `producer_` may be old; a load of a sequence number is current, because
an old one looks like a refusal or a retry that a little more delay gives too.
Two slots at least, as line 15 of the source requires: with one, "published" and
"free for the next lap" would be the same number.

### 3.3 `SeqLock` (`seqlock.h`)

State: `seq_`, and per word of the payload the number of the write it stems
from. The copies are not atomic: `WriteWord` and `CopyWord` take one word at a
time in any order. `Load0` is the first load of `seq_` and its test, `Load1` the
second. The fences of the source keep both loads on their sides of the copy, so
each is one step in program order. `read` loops (`retry`), `try_read` gives up.
That a read ends is checked where the writer is known, in `MdDispatch`.

### 3.4 `OrderBook` (`order_book.h`)

One thread, so a step is a whole call. State: both level arrays, the order
table, `sequence_`; `broken` says that a store went past the end of a level
array, or that an erased entry was read and held another order, after which the
model stops. `Scan` and `WithLevel` are `find_or_insert_level`, `EraseLevel` and
`RemoveQty` what their names say in the source. `FeedCall` is a call a well-formed
feed makes (a new id, a known id, at most the resting quantity, no price too
many); `AnyCall` is any call, and the history variable `illFormed` counts those.
`Chained` stands for the probe chains of the order table (`tsl::robin_map`, open
addressing with backward shift, outside the repository): erasing one id may move
the entry of another into its place, and `AfterErase` is what a reference into
the erased entry may then show.

### 3.5 `ThreadPool` (`threadpool.h`) over `TicketQueue`

State: the workers and groups registered, one ticket queue per worker, the
round-robin counter, `running_`, the place of every worker in `worker_loop` and
of the owner in `start` and `stop`, and what each handler was called with. A
submit is two steps, `Submit` (route, claim a ticket) and `SubmitEnd` (fill it),
which is the granularity that `MpscQueue` is proved to implement; tasks cannot
throw (`noexcept` move), so no ticket is abandoned. `Stop` clears `running_`,
`RequestStop` and `Join` are the destruction of the `jthread`s, `Poll` to
`PollEnds` the loop and `Drain` to `DrainEnds` what follows it.

Preconditions taken from the source: workers are registered before the pool is
shared (the comment at lines 127-130), and one thread starts and stops it.

### 3.6 `Disruptor` (`disruptor.h`)

State: the producer cursor, a cursor and a token per consumer, which event every
slot holds. `publish` is `PublishBegin`, any number of `LoadCursor` (the loop of
`min_consumer_seq`, whose loads may be old), `Gate`, `Write`, `Commit`; the slot
holds `Unwritten` from `Gate` to `Write`, so a consumer that could look at it in
between would show. `Take` is `wait` or a successful `try_consume`, `Consumed` stores
the cursor. A consumer may subscribe at any time the producer is not inside
`publish` (`num_consumers_` is not atomic). The history variable `inTime` has the
consumers that subscribed before the first slot was used again.

A consumer that subscribes later gets a token for event 0, whose slot holds a
later event: the words "all consumers see every event" do not hold for it. What
does hold, and is checked and proved, is that the slot it is handed keeps still.

### 3.7 `Logging` (`core/logging`, `include/logging`) over `BoundedFifo` and `TicketQueue`

State: per thread its place in `write_fast` or `write_debug`, whether it counts as
registered, and its ring; the registration and debug queues; `g_running`; the
place of `drain_loop` and its list of buffers. `Register`, `RegisterEnd` and `Push`
are a thread's first fast record, `Push` alone every later one; `Debug` and `DebugEnd`
the debug path. `Check` to `TurnEnds` are one turn of the drain, and the final
turn, which has the same code. No load is taken as current: `drain.cpp:84` reads
`g_running` relaxed, so `Check` may see it set after `stop` cleared it, and seeing it
cleared orders nothing after it; a pop may act on an old counter and fail on a queue that
has elements (`PickupEnds`, `NextBuffer`, `TurnEnds`), and a push may be refused by a
queue that was full once. `missed` is the queues in which the final turn so left
something behind. Every failed `try_push` loses its item and nobody
looks at the result, which is what the code does. `End` is the end of a thread and
of its thread-local ring. When the drain then follows its pointer into that ring
(`TouchDestroyed`) the behaviour is undefined: `dangling` is set, the model stops,
and no property claims anything. "Written" means handed to `emit`; what spdlog
does with it (an asynchronous logger that overruns its oldest entries) is outside.

### 3.8 `Application` (`core/app`, `signals.cpp`)

A `ServerApplication`. `pc` and `at` say where `run()` is and at which module;
`ParseAndLoad` to `Return` are its calls, each of which may fail where the code
lets it. `Install`, `UninstallUnset` and `UninstallJoin` are `signals.cpp`'s
bracket around `on_run()`; `Signal` and `HandlerWrites` are the graceful handler
on any thread, which holds up the thread it runs on between `request_stop` and the
`write`; `Crash`, `CrashThreadRead` and `Die` the other handler and the thread at
the end of the pipe. `pipe` is the bytes in it, in order. The handlers stay
installed after `uninstall()`, as in the code, so a signal may come in any phase.

### 3.9 `SharedBookTable`, `MdDispatch` (`shared_book_table.h`, `apps/md_dispatch`)

`SharedBookTable` has operators on the host's segments (`ShmOpenCreate`,
`Ftruncate`, `Construct`, `Close`, and the accesses of a seqlock slot) and on the
object a process holds. `MdDispatch` composes it with the receiver, the workers'
queues and books, and the processes that read. `Begin`, `Size`, `MapTable` and
`OpenReceiver` are the steps of `main()`, any of which may fail (`BeginFails`,
`ReturnFailed`) or be the last (`Kill`: nothing in the code stops the receiver, and
a kill undoes nothing). A second `Begin` finds what was left. `OnPacket` routes a
message or drops it at a full queue; `ProcessMarketData` applies it;
`PublishBegin`, `PublishWord` and `PublishEnd` are the seqlock write. A reader
opens, reads access by access (`ReadStep`), and closes. A segment that is truncated
under a reader is a bus error (`BusError`); one that is made anew is `Spoiled`.
A queue is the sequence that `MpscQueue` and `ThreadPool` are proved to make of it.
`BooksFollowFeed` says of every accepted message that it is in its symbol's book or waits
with its symbol's worker (`Waiting`), once and in order (`Rising`), rather than compare the
filtered queue with the book, for which the prover has no theorem. `MdAssumption` has the
books be the slots `0 .. n - 1`, as `md_dispatch/main.cpp:160` makes them, and the
worker of a key is its remainder.

### 3.10 `OciMock`, `OciRows`, `OciConnection`, `OciStatement`, `OciClient` (`ideas/new`)

The first four are operators: one per OCI entry point over the mock's globals,
with handles counted; the structs that both clients walk as rows, and the memory of a
batch; the guards and the classification of a call's outcome; the
state machine of a statement. `OciClient` is the state: the globals, the
connection, the statement and the memory (batch, staging, indicators) of the
running call, and what was delivered or stored. A call (`SelectRows`,
`SelectRowsWhere`, `SelectOne`, `SelectGeneric`, `InsertRows`, `ExecuteSql`,
`ExecuteParams`, `DirectUse`) goes through bind, define, execute and fetch in
steps. Before any execute (`DatabaseFails`), that of a later chunk of an insert too, the
database may refuse the next one or lose the session, which it may also lose in any fetch
(`FetchLostStep`); of a chunk that fails, nothing, the first rows or all may have been
stored, as the mock says nothing of that and the library does not ask. The callback may
throw. A value is the
pair of its row and its column, which is what tells a wrong row or column apart.
`result` keeps what the caller knows of its call, its status, its operation and the
number of rows it gave to an insert, so that a success can be held against it.
The step that hands over the last batch also ends the call, so `RowsAsSent` here and
`RowsByName` in `BindingClient` are about the rows a step appends to `delivered`: an
invariant that looks at a running call would never see that batch, which is the short
one. Columns and members are matched by their names in upper case, in which every name of
the model is; that two members of one struct have different ones (`RowsAssumption`) is
asked of its author, as C++ itself would allow `id` beside `ID`.

### 3.11 `OciDate`, `BindingClient` (`ideas/binding`)

`OciDate` tokenizes a date format and renders and parses with it, character by
character, because the property is about the conversion. `BindingClient` is the
older client: columns found by name, handles freed by hand on every path, and a
caller who makes a call again after a lost session (`Reconnect`), which may be lost at any
chunk or fetch, with part of the chunk stored. Nothing in the library commits or rolls
back, so the rows of the lost attempt stay or are gone (`Reconnect` has both). Of several columns
with one name the last is taken, as each overwrites the one before in the table of names;
the client of `ideas/new` takes the first. `result.from` is what lost attempts have left
in the table or handed to the callback, after which an attempt starts again at row one.

### 3.12 `ConfigTree`, `ConfigBind`, `Configuration` (`ideas/binding`)

`ConfigTree` is documents, the two bridges to the common form, and the walk along
a path; `ConfigBind` binds that form onto a type and says what was written when it
threw. Both are pure and recursive. `Configuration` is a caller who loads a file,
narrows its view, attaches documents and binds into a variable of its own. The
parsers' libraries are external: `XmlOf`, `JsonOf` and `TomlOf` are the trees they
make of one setting, with XML's attributes before its elements and a TOML table in the
order of its keys (`InKeyOrder`). Texts are model values; a numeral is mapped to what
`from_chars` makes of it.

`FormatsAgree` is about what the formats write alike (`WrittenAlike`) wherever a path goes
or a binding reads (`Reads`). It exempts a date, which a TOML document has and no type
here takes; an empty struct, list of JSON and TOML, and lists in lists; keys that differ
only in case and are not in the order of their bytes; a fraction read as a string; and
blanks around strings. `PathReadsField` holds of views of a parser too, and is there the
statement that a document attached hides no member that is in the document itself; where
a struct's member has an initialiser of its own, the path binds over that one, since `get`
starts from a fresh value and a parent does not. `StrictMeansEveryKey` exempts the keys
of which the file makes no field (`MakesNoField`). The instance has a setting for each
of these cases, read in every format.

## 4. The runs

| run | instance | what it shows |
|---|---|---|
| `spsc` | 4 slots, counters modulo 8, 2 items, throwing `T` | slots are handed over whole, every element is destroyed once, the queue refines `BoundedFifo` with its fairness |
| `mpsc` | 2 producers, 2 slots, 4 claims, throwing `T` | exclusive slots, no refusal unless full, the queue refines `TicketQueue`, claimed positions are delivered |
| `seqlock` | 1 reader, 2 words, 3 writes | a value returned is one write and not an old one, `try_read` fails only for an overlapping write |
| `disruptor` | 2 slots, 7 events, 2 consumers | events in order and whole, the slot a consumer holds keeps still, the producer stalls only when full, a polling consumer does not depend on others |
| `book` | 3 ids, 3 prices on 2 levels, words modulo 4, 2 ill-formed calls, every erase may move any entry | levels are the orders summed by price while the feed is well formed; best first after any calls |
| `pool` | 2 submitters, every registration of up to 2 workers, round-robin and group submits, a restart | order and affinity per stream; `stop` returns and leaves only what was unfilled; no worker sleeps on a non-empty queue |
| `log` | 3 threads, 3 log statements, 2 places in every queue | what was queued before `stop` is written but for refused registrations, tickets unfilled at `stop` and what a last pop misses through an old counter; order per thread; `stop` returns |
| `oci` | 2 row structs, 4 descriptions, batches of 1 and 2, 3 rows, every failure mode, at any execute or fetch | rows as sent, the last batch's too, success is complete, handles live within their environment |
| `rows` | the same for the older client, 2 sessions lost at any execute or fetch, 4 date formats | fields by name, a repeated insert stores all rows, a call frees what it took, dates read back |
| `config` | 7 settings in 4 extensions and 4 states of a file, 11 paths, 8 types | formats agree on what they write alike, path and struct agree also beside attached documents, strict is every key that makes a field, a failed `get` writes nothing |
| `md` | 2 workers, 2 books and a stranger, queues of 1, 2 messages, 2 starts, a reader | a read is one snapshot, books follow what was accepted, the name leads to the writer, reads end |
| `app` | 3 modules, 2 signals, 1 crash | modules unwind, a signal ends the run, an early crash ends the process |

**Bounds.** `SpscQueue` needs no bound on its calls: counters wrap after two laps,
so every phase of both threads meets every position. `MpscQueue`: four claims on
two slots are two laps, which is what the ABA argument of the sequence numbers is
about. `Disruptor`: seven events are more than three laps, and a consumer may join
before, in and after the first. `SeqLock`: three writes let a reader overlap one,
or span two whole writes and part of a third. `OrderBook`: three ids allow two
orders on one level beside another, a third price meets a full array, word
arithmetic wraps within reach, and counts stay below `MaxCount`. `ThreadPool`: each
submitter offers few enough tasks for the space to be finite and enough to fill a
queue of two; `MaxStarts = 2` has one restart. A keyed submit is a group submit
with all workers for its group, and a submit by number needs no routing; the
kinds that `pool` leaves out for the size of the space are covered by the theorem
`OrderPerKey`, which is about all four. `Logging`: three
statements, dealt to threads and paths in every way, overflow a ring, the debug
queue or the registration queue, and can stand behind an unfilled ticket.
`OciClient`, `BindingClient`: three rows in batches of two have a full and a short
batch, and an insert a first and a later chunk to lose its session in; with two losses an
attempt is repeated after one that was itself a repetition. `MdDispatch`: two messages let one wait while another is published, and
drop one at a full queue of one; `MaxSegments = 2` is a name taken and made again.
`Application`: a module before and one after the one that fails.

**Deadlock** is not checked where the system may really stop: `book` (`broken`,
and no order left to act on), `pool`, `disruptor`, `log`, `config`, `md` and `app`.

## 5. Fairness

No run assumes more than the code's callers provide, and what a caller may fail
to do is a hypothesis of the property that needs it.

* `SpscQueue!PollSpec`: the consumer polls, as the drain thread of
  `core/logging/src/drain.cpp` does; a store becomes visible in finite time; a
  move assignment does not throw for ever. Nothing is asked of the producer.
* `MpscQueue!FairSpec`: a thread inside `try_push` is scheduled, the consumer
  polls, a weak CAS that can succeed does so in the end.
* `ThreadPool!PoolFairSpec`: worker threads and the owner's `stop` are scheduled;
  submitters are not, so `StopReturns` holds with one stuck halfway through a
  submit. `QueuedHandled` has `SubmitsEnd` as its hypothesis. The number of
  submits is bounded, hence a drain always ends here; with threads that never
  cease to submit it need not end in the code.
* `Logging!FairSpec`: the drain thread and the join in `stop` are scheduled, and a store
  becomes visible in finite time, so the drain does not read `g_running` as set for ever
  (strong fairness of `Check` with `final'`, as the drain is at that load again and again);
  threads that log are not scheduled, so `StopReturns` holds with one stuck halfway. The number of
  statements is bounded; threads that never cease to log can keep a turn of the
  drain from ending.
* `Disruptor!ProducerSpec`: `publish` runs to its end; `EventsDelivered` has
  `Polls(c)` as its hypothesis, for the one consumer it speaks of.
* `MdDispatch!FairSpec`: workers and readers are scheduled; `main()` may hang, and
  nobody need kill it. Messages are bounded, so a reader is not overtaken for ever,
  which `read()` alone does not promise.
* `Application!AppFairSpec`: threads are scheduled, modules' calls return, and
  `on_run()` polls its stop token, as `application.h` asks of it.

## 6. What is proved

For every value of the constants that meets the named assumptions:

* `SpscQueueProofs` (`CapacityAssumption`: the capacity divides the modulus of the
  counters, which is at least twice as large; `ItemAssumption`;
  `MayThrowAssumption`): `RingInvariant`, and from it `TypeCorrect`, `NoSlotRace`,
  `NoLeak`, `SizeInRange`. `SlotHandover` is not inductive: that the producer
  finds a raw slot depends on how far its old view of the consumer may lag.
  `Window` bounds the four counter values by each other, and `Storage` says by
  counter value, not by slot, which storage holds an element. The arithmetic
  under it is that counter values within one lap have different slots, also
  across the wrap (`SlotOfInjective`), which is where "the capacity divides the
  modulus" is needed. `RefinesFifo` is the safety of `ImplementsFifo`: the stores of
  `head + 1` and the moves map to pushes and pops of `BoundedFifo`, every other step
  to a stutter; it needs one fact more, that the item constructed is still in its
  slot at the store (`Filled`).
* `MpscQueueProofs` (`RingAssumption`: at least two slots): `RingInvariant`, and
  from it `TypeCorrect`, `NoSlotShared`, `RefusalMeansFull` and the refinement
  `ImplementsQueue`. `Positions` keeps the claimed and not yet freed
  positions within one ring; `Numbers` says that a slot's number is the position it
  has in that window (to be claimed, or claimed and not filled) or one more
  (published); `Claims` what a producer knows: before the CAS that it has seen room,
  which is not lost by waiting, so that a CAS that succeeds on an old look (ABA) is
  still right, and after it that the position is its own. `Storage` says what the
  storage then holds, `Taking` what the consumer is in the middle of. The
  refinement maps the positions from `consumer_` on to the tickets of `TicketQueue`;
  every step of the ring is a claim, a fill, an abandonment, a pop or a stutter.
* `ThreadsProofs`, of three structures that threads share and that share no state with each
  other; `SeqLockSpec`, `PoolSpec` and what they are made of are named apart from the
  disruptor's for that. Of `SeqLock`, `SeqInvariant`, and from it `NoTornRead`. `ReturnsOneWrite`
  speaks of the end of a call; `ReaderInv` says what holds in the middle: as long
  as `seq_` has not moved from an even `s0`, what is copied is the write `s0`
  stands for. `PayloadInv` says which words a running write has replaced. From the
  same invariant, `MissedMeansOverlap`. Of `Disruptor`
  (`DisruptorAssumption`), `RingInvariant`, and from it
  `OrderedFanOut` and `HeldSlotIsStill`. `Window` keeps producer, gate and cursors
  within a ring of each other; `Storage` says that the last `Capacity` events are
  in their slots, but for the one being replaced, whoever reads them: it does not
  mention consumers, which makes it inductive across a late `Subscribe`.
  Of `ThreadPool` (`ThreadPoolAssumption`), `LineInvariant`, and from it
  `OrderPerKey`. `KeyOrder` speaks of what was handled and says nothing of what is
  still on its way; `LineInv` takes what a worker has handled, has in hand and has
  queued for one line, in which everything belongs (`Lines`: its stream leads to
  this worker, and it has been offered) and whose order is that of submission
  (`Ordered`). `Unused` says that the routes can change only while every line is
  empty, which is the precondition at lines 127-130. `StopInvariant`, and from it
  `StopLeavesNone` (`AllHandledAtStop`): an unfilled ticket is its submitter's last
  (`OpenTickets`), so at `stop` every one goes into `cut`; from then on a ticket that
  can hold up a drain is in `cut`, or everything from it on came too late
  (`Leftover`), which a restart starts afresh.
* `ProcessProofs`, of two parts that do not share their state, `Logging`
  (`LoggingAssumption`) and `Application` (`ApplicationAssumption`), whose `AppInit`,
  `AppNext` and `AppSpec` have names of their own for that. Of the logger, `OrderInvariant` and from it `LogInOrder` (`WrittenInOrder`): what
  a ring or the shared queue holds of a thread is newer than what has been written of
  it (`Ring`, `Shared`); a thread that is registering has an empty ring and a number that
  is not written yet. `LogInvariant`, and from it `StopWritesAccepted` (`AcceptedWritten`).
  What is claimed at "stopped" needs the whole way there: an unfilled ticket is its own
  thread's (`Unfilled`), so that at `stop` every one goes into `cut`; a registered
  thread is in the registration queue or in the drain's list (`Announced`); a record
  queued in time is still held, unless its thread ended (`Kept`); nothing unfilled later
  comes to stand before it (`Behind`); the final turn has emptied the rings it has
  passed or missed one by an old counter (`Passed`), and what it leaves in either shared
  queue was missed there or stands behind its head, which was cut (`LeftBehind`). Of `run()`, `UnwindInvariant`, and from it
  `ModulesComeDown`. `UnwindInv` gives the state of every module as a function of
  `pc`, `at` and, after a start that failed, of how many had started; signals and
  crashes touch none of it.
* `MarketDataProofs`, of the dispatch and of the books it fills. Of `MdDispatch`
  (`MdAssumption`), `NameStays`. `NameLeadsToWriter` is made inductive by
  what `owns_unlink_` is for: an object that would unlink the name and is not the
  writer's maps nothing (`ReadersOK`). `TypeCorrect`: every segment has the shape its size
  says, whoever is killed or started again. `SnapshotInvariant`, and from it
  `ReadsAreSnapshots` (`ReadIsOneSnapshot`): on every segment an even number means two equal
  words, it is odd exactly while the slot's own worker publishes, and what a reader has
  copied is what it saw as long as the number is the one it loaded; a restart on the
  same segment spoils exactly the reads that are under way. `FeedInvariant`, and from it
  `BooksStayFed` (`BooksFollowFeed`): the numbers in every queue and book rise, none is ahead
  of the receiver, every queue holds only what belongs to its worker, and a book with
  what waits for it is what was accepted.
  Of `OrderBook` (`OrderBookAssumption`, its specification `BookSpec`), `BookInvariant`,
  and from it `BestStaysFirst`. `BestFirst` is inductive but for its types, which is what
  `BookInv` adds; the work is in the scan (`ScanStops`: no level before the place
  where `find_or_insert_level` stops is worse than or equal to the new price) and in
  taking a level out of an array and putting one in. The calls need not be well
  formed, and the erase through a reference that already shows another order is
  among the steps. `LevelsInvariant`, and from it `LevelsStayOrders` (`LevelsAreOrders`),
  for the calls of a feed: each side has a level for exactly the prices at which orders
  rest, with the sum of their quantities modulo the word and their number. The sums are
  the folds of the community modules; that adding, changing or removing one order
  changes its level's sum by as much is proved by the least counterexample
  (`NatLessThanWellFounded`), since induction over data is not available.
* `OciRowsProofs` has what both clients' proofs rest on, in lemmas without a specification:
  what each entry point of OCI keeps of the globals, where a define stands, and what a fetch
  writes through it. One fetched row fills its own slot of every field and touches no other
  slot (`GenerateOne`), a fetch fills one slot after another from the cursor on
  (`BatchFilled`). Its assumptions, and the clients': `RowsAssumption`,
  `DescriptionsAssumption`, `RowCountAssumption` (row types and descriptions are sequences, a
  struct's fields have different names, batch sizes are not zero and one of them is the
  greatest).
* `OciClientProofs` (`ClientAssumption`): `ClientInvariant`, and from it
  `HandlesFreed` (`NothingOutlivesItsEnv`) and `SuccessMeansDone` (`SuccessIsComplete`).
  Both properties speak of the end of a call; `HandleInv` counts in its middle: the
  session holds three handles, the call its statement and a locator for each LOB bound
  or staged, and exactly those bound have a temporary LOB behind them, so that `Finish`,
  from whichever step, ends at none (`DropAll`). `ProgressInv` says that a select has
  handed over as many rows as the cursor has passed, and an insert has stored those
  before its offset, with a chunk bound at exactly that offset, of which a failing execute
  adds a part; `JobOK` says which steps
  an operation has, without which a select could be thought to end in `ExecuteStep`.
  The loops over fields and locators are recursive functions; that they have a value
  and what it keeps is proved by counting up (`Upwards`), a least counterexample again.
  `RowsInvariant`, and from both `RowsFaithful` (`RowsAsSent`). `RowsInv` says where the
  columns go: a field's position is that of the first column of its name (`Resolved`), so
  no two fields share one; after the defines each position leads to its field's cells with
  a stride of one row, and no other position leads anywhere (`DefinesPlaced`). A fetch then
  fills the slots, and applying reads
  the indicator before the value (`ReadsAsSent`), which is why nothing of an earlier
  batch shows in the reused memory. The invariant does not mention what the memory holds:
  whatever is there, the slots below the number fetched are written again.
* `BindingClientProofs` (`BindingAssumption`: an insert has rows), the same for the client that
  frees by hand and whose caller retries: `ClientInvariant`, and from it `RetriedInsertsStore`
  (`RetriedInsertStores`) and `ReturnsFreeAll` (`ReturnFreesAll`). There is no guard to lean
  on, so `HandleInv` counts what a call owes at each step (`Owed`): its statement, a locator
  with a temporary LOB for each LOB of its input, and the locators its fetch defined. An
  exception of the callback leaves these behind for good, after which the counts are at
  least what is owed and no longer exactly that; `leaked` tells the two apart.
  `ProgressInv` measures an attempt from where it began: an insert has stored the rows
  before its offset after the `result.from` that lost attempts left. Whatever these left,
  whole chunks and part of one or, after a rollback, nothing, is rising runs from one, and
  cutting the table at `result.from` cuts between two runs.
  `RowsInvariant`, and from both `RowsAreByName` (`RowsByName`): here the position is that of
  the last column of the field's name, or the field's own where nothing is described, and a
  select hands over rows only after it has found every field (`ColumnsFor`).

Each proof has one lemma per action or group of actions. TLC checked the
invariants on small instances before they were proved; where one has a type
that TLC cannot enumerate (`Seq`, `Nat`), its other conjuncts.

**Only model-checked:** the fairness in the refinement of `BoundedFifo`; every
liveness property, as liveness under fairness and ENABLED are out of the prover's
reach (`ClaimedDelivered`, `StallsOnlyWhenFull`, `EventsDelivered`, `StopReturns` of both,
`QueuedHandled`, `ReadReturns`, `SignalEndsRun`, `EarlyCrashEnds`); the properties of the
configuration (`FormatsAgree`, `PathReadsField`, `StrictMeansEveryKey`, `FailedGetKeepsOut`),
whose trees are read by RECURSIVE operators, with which the prover has no SMT; and that dates
read back (`DateRoundTrip`), which is induction over the characters of a text, and induction
over data is out of reach too. No theorem states these.

## 7. Where the code and its words part

Observations made while modelling. None of them is claimed by a property; each
model says where it stops or what it exempts.

* `order_book.h:199`: a full level array makes `find_or_insert_level` return the
  index where its scan stopped, a level of another price or one past the array;
  the comment there says the caller aggregates into the last level.
* `order_book.h:127`: `on_execute` reads a reference into the order table after
  erasing the entry it refers to.
* `threadpool.h:208`: the drain takes an unpublished slot for an empty queue, so
  a submit that took its place before `stop` may be left behind, with everything
  after it, though it returns `true`. The drain itself ends only when the others
  cease to submit.
* `drain.cpp:84`: `g_running` is loaded relaxed, and a failed pop is taken for an empty
  queue. By the C++ memory model the final turn may therefore act on old counters and leave
  records that were queued before `stop`, though `drain.h:11` says it drains all queues and
  `drain.cpp:127` that it flushes everything remaining. A thread whose registration was
  refused (`logger.cpp:43`) is never drained at all, and nobody is told.
* `logger.cpp:62`: a thread's ring is destroyed with the thread, while the drain
  keeps the pointer to it. Records queued before `stop` are lost and a destroyed
  object is read, where `drain.h:11` promises to drain all queues.
* `shared_book_table.h`: `owns_unlink_` stays set when `open()` fails, so the reader
  whose `open()` failed removes the writer's name, and a writer whose `create()`
  failed that of the one before. Sequence numbers begin again with a restart on
  the same segment, so a read across it can match; between `O_TRUNC` and
  `ftruncate` a reader gets a bus error; readers of a segment whose name is gone
  stay on it.
* `application.cpp:37`: when a module's `init` fails, those before it are not shut
  down. `uninstall()` does not restore the handlers, where
  `server_application.h:10` says they are torn down: a crash after the stop request
  may leave its thread in `pause()`.
* Clients: in `ideas/binding` `execute` and the fetch loop take
  `OCI_SUCCESS_WITH_INFO` for an error, and an exception of the callback leaks the
  statement and its locators; a second `connect()` without `disconnect()` leaks the first session's
  handles; a caller that repeats an insert after a lost session, as `examples/main.cpp:219`
  repeats its update, stores again what the lost attempt left in the table; a chunk size
  of 0 never ends; `select()` of `ideas/new` skips the conversion of its outputs on NO_DATA
  though a row may have come.
* Configuration: a comment beside the root element of an XML file keeps the root from
  being unwrapped and every path fails; a comment within it is an unknown key to a
  strict reader, for whom `configuration.h:165` promises a throw on any unknown key: one
  that makes no field never reaches the check, which in TOML is a date, an empty list
  and a list of dates or lists (`toml_bridge.h:95`), in XML an empty list. A date binds
  as a string from XML and JSON and throws from TOML. A struct within a struct is bound
  over its parent's initialiser (`config_bind.h:523`), the same struct by its path over
  its own (`:446`), so a key that is absent may read differently. An integer out of
  range is an error in a text and is narrowed in TOML; texts are trimmed but in TOML; a
  float read as a string has six digits.

## 8. What is not modelled

`PROJECT.json` lists every component with its status. Of the logger, the tree of
logger names and levels, time stamps and `flush` are left out; of the dispatch
process, socket calls and decoding; of `Application`, `ConsoleApplication` and a
second crash or a second handler at the same time; of the clients, stored procedures with output
parameters, query logging and the demos. `MpmcQueue`, the allocators and the
layers of `core/config` are planned (section 2). The calibration of the TSC
clock, the aggregation prototype and the thin wrappers are not planned: they are
I/O, pure functions, or have no state of their own. Out of every model: logging
calls, the layout and padding of the slots, construction by copy against
construction by move, and everything the C++ memory model leaves undefined that
the preconditions above exclude.
