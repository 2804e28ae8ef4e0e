# A verification project for KS SQL

KS SQL is a small relational engine in Rust: SQL statements arrive over TCP or
HTTP, rows live in a memory tier in front of a B+Tree file, and a write-ahead
log is fed through a lock-free queue. This directory holds TLA+ models of its
concurrent core, the TLC runs that check them on small instances, and TLAPS
proofs for every value of the constants: of the ingestion pipeline and its
refinement, of the B+Tree and the scan, of statements and transactions, of the
memory tier and the sessions, and of the catalog and the indices.
`PROJECT.json` lists components, runs, mutants, the map from definitions to
source lines, findings, hazards and theorems. Paths below are relative to
`src/src/` unless they start with `src/`.

## Inventory

| Component | State | Operations | What makes it correct |
|---|---|---|---|
| WAL pipeline (`storage/wal.rs`) | bounded queue, two buffers with a mutex each, the `active_is_a` flag, channel, file | `enqueue` (retries, then gives up), `flush_pipeline`, `pop_entry`, the WAL thread | each accepted entry goes one way and settles; order is kept in a batch; nobody blocks for ever |
| Drain thread (`parser/engine.rs` `Engine::new`) | its chunk of entries | pop up to 1000 entries, insert the records in the tree | records reach the tree in order; no deadlock with the queue it also feeds |
| B+Tree (`storage/btree.rs`) | pages | `insert`, `split_child`, `allocate_page`, `save_node`, `get` | no stored key is lost, between any two page writes and after any failure |
| Table scan (`parser/engine.rs` `scan_table_with_filter`) | current page, keys seen | cache pass, descent, leaf chain | every row stored before the scan is returned |
| Statements and transactions (`parser/engine.rs`) | `current_version`, `active_transactions` | BEGIN, COMMIT, ROLLBACK, INSERT, UPDATE, DELETE, SELECT | no aborted data, no lost updates, deleted rows stay deleted |
| Memory tier (`storage/mod.rs`) | cache, LRU stamps, limit | get, insert, evict, purge, set limit | what is cached can be evicted, what is stamped is cached, the size stays near the limit |
| Pager (`storage/pager.rs`) | file, `file_length` | read, write, sync, reload on one I/O thread that starts late | a page read is the last page written |
| WAL framing and recovery (`wal.rs` `open`, `btree.rs` `open`) | log file | frame, pad, parse, replay | replay restores what was logged, also when it is interrupted |
| Catalog and indices (`parser/engine.rs`) | schemas, indices, `next_id`, index entries | CREATE TABLE, CREATE INDEX, INSERT, index lookup | unique ids, no lost table, no row without an index entry |
| Time machine (`parser/engine.rs`) | `current_version` | undo, redo | the version stays a version |
| Sessions, HTTP, hot swap, backup (`network/server.rs`) | connection numbers, login flag | query, undo, redo, limit, purge, hot swap | one session, one transaction |
| Query evaluation, search, WASM, hardware manager, CLI, benchmarks | none of their own | | |

How they interact. A statement changes the memory tier, enqueues a
`RecordUpdate` on the WAL queue and calls `flush_pipeline`. The same queue is
popped by three parties: `flush_pipeline` of any client (the entry goes to the
log), the drain thread (the record goes to the tree) and the `FLUSH` statement
(the entry goes nowhere). A tree insert pushes a `PageUpdate` on that queue for
every page it saves. Searches and scans read the memory tier first and then the
pages, with no lock at any level. Client tasks run on tokio's worker threads,
the WAL thread, the pager thread and the drain thread each on their own.

A restart parses the log, replays page images into the file and records into the
memory tier, and looks at the page count to decide whether there is a root. HTTP
requests run in parallel under one connection number, and the undo, redo, limit,
purge and hot swap handlers change the engine's state beside the statements.

What is hard here: the three-way race for the queue; the flag that is read
before the lock it selects; a drain thread that pushes on the queue it drains;
tree splits of several page writes under lock-free readers and a second writer;
inserts that fail half way; optimistic validation separated from installation;
versions drawn early and installed late; eviction of records that are nowhere
else; a log without checksums that may be torn; a restart that races with the
pager's thread and may itself be interrupted; catalog records that travel on two
ways; read-modify-write of a counter without a lock. `PROJECT.json` lists each
at its line under "hazards".

## Modules

- `Ingest` is the abstract life of a queue entry: accepted, taken in acceptance
  order by the log, the tree or FLUSH, settled for ever.
- `Wal` is the pipeline with its threads. `pc` is a task's place in
  `enqueue`/`flush_pipeline`/`FLUSH` or in the drain loop; every load, lock, pop,
  swap and send is a step. Entries are acceptance numbers with a mark for page
  updates. The batch limit counts entries instead of bytes. The adaptive limit
  never applies, since the queue cannot hold more than a million entries. The
  limit is fixed, because `set_batch_limit` has no caller. The WAL thread is
  taken to have opened its file; if it has not, every `send` fails and every
  batch is dropped.
- `WalProofs` holds the theorems about types and order in `Wal`,
  `WalPlaceProofs` the ones about where entries are and the refinement.
- `BPlusTree` is `insert` as single page reads and writes (`pc` names the next
  one, `path` the nodes the recursion holds), for one or more writers, with a
  failure possible at each step (`Fail`, `SyncFail`). `get` and the scan order
  are operators over the pages. A node's serialised size is its keys, children
  and value weights; a node is full above `FullSize` and cannot be saved above
  `PageSize`. A binary search among equal keys may return any of them. The
  pager's page count is the number of pages written.
- `TreeScan` extends `BPlusTree` with a scan that reads one page per step.
  `TreeProofs` holds the lemmas about nodes, the facts about iteration and the
  types of `BPlusTree`, `TreeScanProofs` the theorems about pages, chain and scan,
  `TreeOrderProofs` those about room and order.
- `Engine` is statements and transactions over cache, tree and queue. A row's
  contents are the set of statements that set a column of it, so a lost update
  is a missing member. The tree pass of a scan and one tree insert are single
  steps here, `TreeScan` and `BPlusTree` take them apart. An INSERT has one row.
  The `excused`, `overtaken`, `due`, `stored` and `gone` variables are history
  for the properties and guard no step. `EngineProofs` holds its theorems.
- `WalLog` is the byte layout of the log: entries encoded to bytes, the length in
  front of each, the padding of a batch, and `Wal::open`'s parser as a recursive
  function of the cursor. An encoded entry has a variant byte, its fields and
  some filler, so that batches end at every interesting place of a block.
- `Recovery` extends it with the process around the log: writes, flushes that
  take a prefix of the queue, the WAL thread with short and failed writes, the
  drain thread, the hot swap, a crash at any step, and the restart step by step
  (`phase`): `OpenWal`, one step per replayed entry, the sync, the root check. The
  pager's thread starts at a time of its own (`PagerStart`). The tree is one
  page here, since its inner structure is `BPlusTree`'s. `batches`, `fresh`,
  `found` and `kept` are history.
- `Catalog` is the schemas with their counters, the stored catalog record and the
  indices, with CREATE TABLE, CREATE INDEX, INSERT of several rows, UPDATE and
  transactions in steps. The stored catalog has two writers: CREATE TABLE writes
  the tree itself, the drain thread what INSERTs enqueued. CREATE INDEX may get
  the rows of its scan in any order. `Answer` is what a query on an indexed
  value returns. `CatalogProofs` holds its theorems.
- `MemoryTier` is the cache's keys and their stamps; every access to one of the
  two maps is a step. Stamps are an order, sizes count entries, and the limit is
  multiplied modulo `Width`.
- `Server` extends it with TCP sessions, HTTP requests, `active_transactions` and
  the version counter. `ServerProofs` has the lemmas about the steps of
  `MemoryTier` and the theorems about `Server` with the tier in it.
- `MCWal`, `MCBPlusTree`, `MCTreeScan`, `MCEngine`, `MCRecovery`, `MCCatalog` and
  `MCServer` instantiate them for TLC. Where one instance is to reach several
  situations that together would be too large, a state constraint `Explored`
  names them as a disjunction, and TLC explores the states within their union.

Definitions commented "Faulty variant of X" are the mutated forms that
`PROJECT.json` pairs with properties: with X replaced by its variant TLC finds
the property violated. No specification uses them.

## Runs that pass

| Run | Shows | Bounds |
|---|---|---|
| `wal_safety` | `ExactlyOnce`, `NothingStranded`, `BatchInOrder`, `DrainInOrder`: the race for the queue neither duplicates, strands nor reorders; `ImplementsIngest` | 2 clients, queue and channel of 1, chunk of 2, batches of 1 or 2, 2 client entries and a page per insert |
| `wal_liveness` | every entry settles, every statement returns | 1 client entry, up to 2 pages per insert |
| `tree` | the leaf chain stays complete and the tree ordered between any two page writes and after a failing insert, no blank page is reached, pages do not overflow; searches between inserts find every key; a page-by-page scan returns every earlier row unless the root splits under it, and strays nowhere else | 4 inserts of 4 keys and 5 of 3 in any order against a scan; 4 of 3 keys with a failure against a scan, 5 without; 4 of two weights; 9 nearly ascending of 8 keys, to three levels |
| `engine_rows` | validation protects stored updates outside its known windows; quiet rows are shown as last written | 1 row, 3 statements, 2 transactions |
| `engine_aborts` | no aborted data and no version from the future, with inserts, updates, deletes and an eviction | 2 rows, 2 statements, 1 transaction; deletes and the eviction with 1 row |
| `recovery` | the parser returns what was logged up to the first damage; replay restores the last logged record of every key and the last logged page, also after an interrupted replay; the engine always comes up | 2 rows, 3 writes, 2 batches, 2 crashes; a hot swap with 2 writes and 1 crash; blocks of 16 bytes, short writes at multiples of 8 |
| `catalog` | ids, catalog and index entries survive the interleavings of DDL, INSERT and UPDATE outside the windows below | 2 connections, 2 tables, 2 values, 2 rows, 2 CREATE TABLEs, 1 UPDATE; catalog work and index work in separate branches of `Explored` |
| `server` | sessions commit what is theirs; the version wraps only when undos overlap; cache and stamps agree, and the size stays near the limit | 2 sessions, 2 requests, 3 keys, limits 1 and 8, of which 8 wraps to 0; 5 writes on the memory tier, 3 in transactions |

Why the bounds are enough to be interesting. A queue of one is full after every
push, so retries, giving up and the drain thread's push on its own queue all
happen; a channel of one makes flushers block in `send`; batches of two come
from pops that interleave with the drain. Nodes that are full with two entries
make every third insert split, so nine inserts split leaves, an internal node
and the root twice. One row and three statements give every order of a plain
update, a commit and a third party around validation. In `recovery` a record
takes 8 or 13 bytes with its length and an image 9, so a block of 16 is filled
exactly, with wide and with narrow padding, and a batch of two entries spans
blocks; two crashes interrupt a replay and repeat it. In `catalog` two rows are
enough for a repeated id, a repeated value and an INSERT of two rows. In
`server` a half is evicted in place of a tenth, so that the share rounds down to
none and is one or more with three keys.

CHECK_DEADLOCK is off where the bounded workload ends: all models but the
pipeline stop when their inserts, statements, writes or crashes are used up. The
pipeline never stops (FLUSH can always be issued), so there deadlock is checked.

Fairness (`FairSpec` of `Wal`). Each task has weak fairness: tokio schedules
ready tasks and the two threads are the operating system's. Taking the buffer
mutex and sending on the channel have strong fairness, because tokio's mutex
and bounded channel serve waiters in order. New statements have none, and
neither have errors of the disk: progress does not rest on a failing insert
(`ClientProgress`, `DrainProgress`), only on giving up at a saturated queue.

In `Recovery` the steps of the restart have weak fairness (`BootStep`): the task
that opens the engine and the pager's thread are scheduled, and page writes of
the replay do not fail (an error ends the process, which is a crash). Crashes
are bounded, so `RestartEnds` says that a restart waits for nothing that does
not come, the pager's thread included. The constraint of that run bounds writes,
batches and crashes, which no step of a restart changes, so it cuts no restart
short.

## Runs that show a disagreement

Each states what the repository's documentation, a comment or a test says, and
TLC finds a behaviour of the code that contradicts it.

- `wal_checkpoint`: `FLUSH` throws away what is still on the queue after its
  flush (`parser/engine.rs:177`, `src/README.md:237`).
- `tree_update`: an update whose key becomes the separator of the split it
  triggers goes left, searches go right: the old value is returned
  (`storage/mod.rs:181`).
- `engine_deleted`: the deleted record in the cache does not hide the tree's
  older one (`parser/mod.rs:85`).
- `restart`: the root check does not wait for the pager's thread; when it comes
  first the database is overwritten with an empty root (`src/README.md:39`). A
  wait for the thread would not be enough: TLC finds other restarts that lose rows,
  listed below.

## Where the passing properties end

The conditions in the passing properties are needed; without each of them TLC
refutes the property, which says what the code does not guarantee.

- `ExactlyOnce` has the log and the tree as alternatives: the flush of a
  statement may take its record off the queue before the drain thread does, and
  then the tree gets it only through a restart (compare `src/README.md:10`).
- `BatchInOrder` is about one batch. Batches may be in the file in another order
  than they were filled, because the flag flips before `send`.
- `SearchComplete` is about the times between inserts without errors
  (`Quiet`, `errors = 0`). In the middle of a split a search may miss keys that
  are not in the memory tier, and after an insert that failed between the save
  of a cut child and the save of its parent it misses them for good; scans do
  not (`ScanComplete`). It also needs one writer: CREATE TABLE inserts in the
  tree on the client's task while the drain thread does, and with two `Writers`
  stored keys disappear. And it needs entries below three quarters of a page
  (`SmallEntries`): a leaf that is full with one entry is split into an empty
  half and itself, again and again, with equal separators. It is not enough that
  the entries of the moment are small, since the heavy one may be overwritten
  while its separators stay.
- `NoOverflow` excepts leaves that `split_child` has just made. `is_full` tests a
  child before the insert enters it, but not the half it enters after a split
  (`btree.rs:201-209`): a split halves the entries, not the bytes, so a half can
  be nearly as large as the leaf was, and the entry to come may not fit. With
  entries of weights 1 and 4, `FullSize = 9` and `PageSize = 14` TLC finds such an
  insert fail, with its splits saved.
- `ScanReturnsAll` excepts a scan that strayed: the root may split between the
  scan's two reads of it. `StraysOnlyAtRoot` says that this is the only way.
- `StoredStays` excepts what `excused` records (see `Put`), and holds without
  evictions only: the cache may drop a record that only the log has. The excused
  updates are lost ones: two plain UPDATEs read a row before either writes it;
  a COMMIT installs after another one that it could not see when it validated;
  a second UPDATE in a transaction does not see the first (compare "Snapshot
  Isolation (MVCC/OCC)", `src/README.md:22`).
- A conflict that COMMIT finds is returned to the client and the transaction is
  gone. The retry loop of `execute` does not surround COMMIT, and none of the
  statements it surrounds reports a conflict (compare `src/README.md:43`).
- `ParseRestores` ends at the first torn batch and at the first batch with one to
  three bytes of padding (`Narrow`). The parser then reads a length out of two
  batches; it may stop there, skip entries or find entries nobody wrote, as
  entries have no checksum.
- `ReplayRestores` is about the last logged image, which may be older than the
  page in the file: page updates that the drain thread popped are not in the
  log. `LoggedSurvive` excepts rows whose batches overtook each other.
- `RestartShowsNewest` is also violated by: the version, which is never stored and
  is 0 after a restart, so that updated rows are invisible; old page images
  replayed over newer pages; a logged record that hides a newer one in the tree;
  damage as above.
- `UniqueIds` excepts overlapping INSERTs, an INSERT that failed at a full queue
  before its counter was written back, and a table created again (`contended`).
- `CatalogKept` excepts a table stored while a catalog record without it was on
  its way (`shadowed`): when that record is stored later the table is gone after
  a restart.
- `IndexComplete` is about values that one row at most has ever had. The lookup
  returns the one row its entry names, so a second row with the value is missed,
  and so is one that got the value through an UPDATE after the entry was made.
  `IndexCovers` excepts rows of transactions, which get no entries, and updated
  rows, which keep the old ones.
- `CommitsOwn` is about TCP sessions. HTTP requests share connection 999, and one
  client's COMMIT or ROLLBACK ends another's transaction.
- `VersionDoesNotWrap` excepts overlapping undos: two that find version 1 leave it
  at 2^64 - 1.
- `SizeBounded` and the second half of `StampsMatch` except overlapping inserts and
  purges (`overlapped`): a key that is evicted between its stamp and its entry stays cached without a stamp
  and is never evicted, and concurrent evictions choose the same keys. A limit
  of 2^44 MB wraps to 0 in a release build, and then every insert evicts.

## Proofs

Every theorem is about `Spec` of its module and holds for every value of the
constants that the named ASSUMEs of the module admit.

### Pipeline

The assumptions are those of `Wal`: positive capacities and chunk, natural
bounds, a non-empty set of limits, and the drain thread being no client.

`WalProofs`:

- `TypeCorrect`: `TypeOK`, with `WorkInv`, which ties `left`, `entries` and `pc`
  together (a task in "enqueue" has entries left, the drain thread in "enqueue"
  has a record in its chunk). Without it `left - 1` and `Tail(entries)` are not
  typed.
- `NothingStrandedAlways`: `NothingStranded`, through `LockInv`: a client holds
  the buffer it loaded exactly while it is in "pop", "swap" or "send", no two
  hold the same, and in "send" the buffer is empty. The invariant alone is not
  inductive because `FlushSend` frees a buffer whose emptiness only the
  program counter records.
- `BatchInOrderAlways`: `BatchInOrder`, through `QueueInv` (the queue holds the
  latest accepted numbers, without gaps: `Taken` are those that have left it) and
  `BufferInv` (what the two buffers hold was taken before). Appending the
  queue's head then keeps a buffer ascending, and swaps, sends and writes only
  hand a batch on.
- `DrainInOrderAlways`: `DrainInOrder`, through `ChunkInv`: what the drain thread
  applied precedes what it collected, and both precede everything on the queue.

`WalPlaceProofs`: the invariant `PlaceInv` says that there is a map from the
entries that have left the queue to places (a buffer, a client's batch, the k-th
batch of the channel or of the file, a place of the drain thread) such that each
place holds exactly the entries mapped to it, and that a client outside "send"
has no batch. Being a function, the map gives each entry one place; each step
that moves entries has a lemma with the map after it.

- `ExactlyOnceAlways`: `ExactlyOnce`. That a place has an entry once follows from
  the order theorems for batches and chunk, and from `DistinctInv` for the sets
  of skipped and lost entries.
- `PipelineImplementsIngest`: `ImplementsIngest`. The places determine the stage
  of every entry in `Ingest`; each step of `Wal` changes stages as one step of
  `Ingest` does, or not at all.

### Tree and scan

The assumptions are those of `BPlusTree`: three units of size are not yet a full
node and a full node fits its page (`SizeAssumption`), keys are numbers and values
weigh something (`KeyAssumption`). Sizes and searches are defined by iteration;
`LeastNat`, `UpTo` and `IterateDef` at the beginning of `TreeProofs` are the
induction for it.

`TreeProofs`, for any number of writers:

- `TypeCorrect`: `TypeOK`, through `TypeInv`: every page is blank or has one child
  more than keys (`Shaped`) and names existing pages (`Closed`), and per program
  counter the writer's node is so as well, or lacks the child of the key it has
  just got. Without it `children[i]` and `keys[i]` are not typed.

`TreeScanProofs`, for one writer (`Writers = {w}`): CREATE TABLE is a second one,
and two writers do lose rows, so there the hypothesis is needed. Each theorem
covers failures at every step.

- `ScanCorrect` and `ReachCorrect`: `ScanComplete` and `NoBlankReached`, through
  `TreeInv(w)`: there are a chain `C` of the leaves and a left edge `L` from the root
  to its first leaf such that every child of a page is filled, is not the root and
  is on the chain if it is a leaf (`Tree`); what was acknowledged is on the chain
  (`Stored`); and per program counter the allocated page is not part of the
  tree yet, the two halves in memory are those of the page that is split, and the
  nodes of the path have the same first child as their pages (`Intact`).
- `ScanTypeCorrect`, `ReturnsAllCorrect`, `StraysCorrect`: the types of the scan,
  `ScanReturnsAll` and `StraysOnlyAtRoot`, through `ScanInv(w)`: wherever the scan is,
  what it has not seen of its due rows lies ahead of it on the chain (`Spot`), and
  each page write of an insert leaves ahead of every leaf what lay ahead of it
  (`Later`).

`TreeOrderProofs`, again for one writer and with failures at every step. Each step
of an insert is first put as a relation between values (`Did`), so that the lemmas
on it do not see the other writers' variables.

- `OverflowCorrect`: `NoOverflow`, through `RoomInv(w)`, that is `TreeInv(w)` and
  `Exact`: how the last node of the path has become what it is (`Copies`), and how
  large nodes may be (`Sized`): an internal page has at most `FullSize + 2`, since it
  is split before anything enters it and gets one key and one child from a split
  below it.
- `OrderCorrect`: `Ordered`, that between inserts, failed ones too, all leaves are
  equally deep and the keys below a child lie between its separators, through
  `OrderInv(w)`, which holds of the pages at every moment. It is `RoomInv(w)` and
  `SortedFor`: there are the pages `R` of the tree, their heights `H` and the keys `Z`
  that are or were below each of them, such that every page is in order with regard
  to them (`Good`) and no page has two parents (`Forest`); that the nodes of the path
  may be saved, being ahead of their pages by nothing but a child without parent and
  narrower bounds (`FrameOK`); that the key belongs below every page of the path
  (`Road`); and that the pages of a growing tree stay apart until the new root is
  saved. `Z` holds keys that have gone too, because an insert that fails after the
  child is cut and before the parent is saved leaves separators that are wider than
  what is below them, never narrower.

### Statements and transactions

`EngineProofs`, for any keys, connections and bounds:

- `TypeCorrect`: `TypeOK`, with `BookType` and `ControlInv`, which says what a
  connection has at each place of its statement: a number, a transaction, a
  record in hand.
- `VersionsDrawnAlways`: `VersionsDrawn`, through `VersionInv`, which also bounds
  the versions of records in hand between drawing and installing.
- `NoAbortedDataAlways`: `NoAbortedData`. The property speaks of aborted
  statements only, the invariant of all of them: a statement belongs to one
  transaction at most (`OwnInv`), and what is stored or in hand has effects only
  of statements that are shown, which those of a transaction are from the moment
  its COMMIT has passed validation and cannot abort any more (`ShownInv`).

`StoredStaysUnlessEvicted` and `QuietRowsVisibleUnlessEvicted`,
that `StoredStays` and `QuietRowsVisible` hold as long as nothing has been
evicted. The condition is the code's: an evicted record that went to the log
is in neither cache nor tree. `RowInv` says that the cache has every row that
tree or queue has (`PresenceInv`), that what was stored is in the cache or excused
(`WrittenInv`), that a record about to be written has everything the row has,
unless it was overtaken or validation will refuse it (`ReadInv`), and that what a
SELECT owes is visible at its version and found once the scan has passed the
key (`DueInv`).

### Memory tier and sessions

`ServerProofs`, for any sessions, requests, keys and limits:

- `TypeCorrect`, `CommitsOwnAlways`: through `ConnInv` and `CountInv` (numbers of
  accepted connections are distinct and below `next_conn_id`) and `OwnerInv` (the
  updates of a transaction come from processes with its number).
- `VersionDoesNotWrapAlways`: through `UndoInv`: until two undos meet, one that
  passed its check still finds something to subtract.
- `StampsMatchAlways`: through `StampInv` (a stamp without a cached key has a
  process on its way to cache the key or to drop the stamp) and `AloneInv`
  (without overlaps one process is inside at a time).
- `SizeBoundedAlways`: through `SizeInv`: without overlaps the cache fits, and a
  process that inserts has room for its key.

### Catalog and indices

`CatalogProofs`, for any connections, tables, values and bounds:

- `TypeCorrect`: `TypeOK`, with `StatementInv`: the ids and keys an INSERT has
  still to give are among those drawn, and its table exists.
- `CatalogKeptAlways`: `CatalogKept`, through `CatalogInv`: a table that was
  answered and is not shadowed is in every record on its way to the tree, on the
  queue or being collected, as soon as the iteration has passed it. The property
  alone is not inductive: a record in the queue becomes the tree's.
- `UniqueIdsAlways`: `UniqueIds`, through `IdInv`: a table that is not contended
  has one INSERT under way at most, and the ids given are below its counter, or
  below the schema's when there is none.
- `IndexCompleteAlways`: `IndexComplete`, through `HeldInv`: an index entry, in the
  memory tier, the tree, the queue or a statement's list, names a row that has
  had the value.
- `IndexCoversAlways`: `IndexCovers`, through `CoverInv`: a row of an indexed table
  has its entry issued, or a connection is about to scan the table, to index
  the row, or holds the entry; and rows of transactions are exempt before COMMIT
  installs them. That a scan misses no row is a counting argument: an injection
  from `1..n` to a set of n rows reaches each of them.

### Only model-checked

- Liveness (`wal_liveness`, `RestartEnds`): it rests on fairness and ENABLED, which
  the prover does not handle.
- `BPlusTree`: `SearchComplete`. It is stronger than `Ordered`, which it follows
  from where separators differ: with equal ones, as overwritten heavy entries leave
  them, order does not say which of the two children the search takes. The
  invariant would have to follow that through unfinished splits.
- `Recovery`. What the parser and the replay compute is defined by recursion over
  entries and bytes, and its properties need induction over that data.

## Not modelled

- Query evaluation (joins, aggregates, ordering, string comparison), universal
  search, WASM, the hardware manager, the command line, the WebSocket, the
  dashboard and the benchmarks keep no state that the rest depends on, and
  process strings one after the other.
- Statement parsing. Views: no statement creates one.
- In `Catalog`: DELETE, eviction, the reload of the catalog at a restart, several
  indices on a table.
- In `Recovery`: pages written in part at a crash, a tree of several pages, the
  memory tier's limit during replay. The backup reads the file while the drain
  thread writes it and changes nothing.
- The wrap of connection numbers at 2^32, hit counters, turbo mode.

## Plan

1. Done: `Wal`, `Ingest`, `BPlusTree`, `TreeScan`, `Engine`, `WalLog`, `Recovery`,
   `Catalog`, `MemoryTier`, `Server`, the proofs above.
2. Proofs: the invariants of `Recovery` that need no recursion (which phases a
   restart can be in, what is kept of the pages).
3. Open: an abstract versioned store that `Engine` implements where it does; the
   reload of the catalog in `Recovery`.
