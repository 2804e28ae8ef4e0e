-------------------------------- MODULE Wal --------------------------------
(***************************************************************************)
(* The ingestion pipeline of KS SQL (src/storage/wal.rs) together with the *)
(* threads that share its queue: the client tasks that enqueue entries and *)
(* call flush_pipeline, the FLUSH statement, the WAL thread that appends   *)
(* batches to the file, and the engine's drain thread that takes entries   *)
(* off the same queue and inserts them in the B+Tree (engine.rs).          *)
(*                                                                         *)
(* Every load, lock, pop, store and send that another task can interleave  *)
(* with is a step of its own.  The payload of an entry is abstracted to    *)
(* its acceptance number and to whether it is a PageUpdate.                *)
(***************************************************************************)
EXTENDS Integers, Sequences, FiniteSets

CONSTANTS
  Clients,          \* tasks that execute statements
  Drainer,          \* the engine's background drain thread
  NoOne,            \* the holder of a free buffer mutex
  QueueCapacity,    \* ArrayQueue::new(1_000_000)
  ChannelCapacity,  \* mpsc::channel(1024)
  DrainChunk,       \* entries the drain thread pops per round (1000)
  RetryLimit,       \* failed pushes an enqueue tolerates (1000)
  Limits,           \* batch limits in entries; set_batch_limit is never called while the pipeline runs
  MaxRows,          \* bound: entries one statement enqueues
  MaxPages,         \* bound: pages one B+Tree insert of the drain thread saves
  MaxEntries        \* bound: entries all statements together enqueue

ASSUME CapacityAssumption == QueueCapacity \in Nat \ {0} /\ ChannelCapacity \in Nat \ {0}
ASSUME BoundAssumption == /\ DrainChunk \in Nat \ {0} /\ RetryLimit \in Nat
                          /\ MaxRows \in Nat /\ MaxPages \in Nat /\ MaxEntries \in Nat
ASSUME LimitAssumption == Limits \subseteq Nat /\ Limits # {}
ASSUME TaskAssumption == Drainer \notin Clients /\ NoOne \notin Clients

VARIABLES
  queue,        \* Wal::queue, the lock-free ArrayQueue
  buffer,       \* buffer[TRUE] is buffer_a, buffer[FALSE] is buffer_b
  holder,       \* who holds the mutex of each buffer
  active_is_a,  \* which buffer the next flush takes
  batch_limit,  \* when a flush stops popping
  chan,         \* WalRequest::Flush batches on their way to the WAL thread
  file,         \* batches in the WAL file, in file order
  pc, left, retries,  \* per task: program counter, entries still to enqueue, failed pushes
  stmt,         \* per client: the statement it executes
  is_a, batch,  \* per client: the flag it loaded, the batch it swapped out
  entries,      \* the chunk the drain thread is working on
  applied,      \* records the drain thread inserted in the B+Tree, in order
  skipped,      \* page updates the drain thread popped and ignored
  lost,         \* entries that ended nowhere: FLUSH, failed write, failed insert
  accepted,     \* entries pushed on the queue so far
  budget        \* bound: entries statements may still ask to enqueue

vars == <<queue, buffer, holder, active_is_a, batch_limit, chan, file, pc, stmt, left,
          retries, is_a, batch, entries, applied, skipped, lost, accepted, budget>>

Tasks == Clients \cup {Drainer}
Entry == [id : Nat \ {0}, page : BOOLEAN]

\* What a statement does with the pipeline: INSERT, UPDATE, DELETE and COMMIT enqueue
\* records and flush; CREATE INDEX and CREATE TABLE enqueue only; FLUSH flushes and discards.
Statements == {"dml", "index", "table", "checkpoint"}
None == "none"
Labels == {"idle", "enqueue", "flush", "load", "lock", "pop", "swap", "send", "discard", "collect", "apply"}

TypeOK ==
  /\ queue \in Seq(Entry) /\ Len(queue) <= QueueCapacity
  /\ buffer \in [BOOLEAN -> Seq(Entry)]
  /\ holder \in [BOOLEAN -> Clients \cup {NoOne}]
  /\ active_is_a \in BOOLEAN
  /\ batch_limit \in Limits
  /\ chan \in Seq(Seq(Entry)) /\ Len(chan) <= ChannelCapacity
  /\ file \in Seq(Seq(Entry))
  /\ pc \in [Tasks -> Labels]
  /\ stmt \in [Clients -> Statements \cup {None}]
  /\ left \in [Tasks -> Nat]
  /\ retries \in [Tasks -> Nat]
  /\ is_a \in [Clients -> BOOLEAN]
  /\ batch \in [Clients -> Seq(Entry)]
  /\ entries \in Seq(Entry) /\ Len(entries) <= DrainChunk
  /\ applied \in Seq(Entry)
  /\ skipped \in SUBSET Entry
  /\ lost \in SUBSET Entry
  /\ accepted \in Nat /\ budget \in Nat

\* Wal::open on a database without a log, and Engine::new starting the drain thread.
Init ==
  /\ queue = <<>> /\ chan = <<>> /\ file = <<>>
  /\ buffer = [b \in BOOLEAN |-> <<>>]
  /\ holder = [b \in BOOLEAN |-> NoOne]
  /\ active_is_a = TRUE
  /\ batch_limit \in Limits
  /\ pc = [p \in Tasks |-> IF p = Drainer THEN "collect" ELSE "idle"]
  /\ stmt = [c \in Clients |-> None]
  /\ left = [p \in Tasks |-> 0]
  /\ retries = [p \in Tasks |-> 0]
  /\ is_a = [c \in Clients |-> TRUE]
  /\ batch = [c \in Clients |-> <<>>]
  /\ entries = <<>> /\ applied = <<>>
  /\ skipped = {} /\ lost = {}
  /\ accepted = 0 /\ budget = MaxEntries

settings  == <<batch_limit, budget>>
flushVars == <<buffer, holder, active_is_a, is_a, batch>>
drainVars == <<entries, applied, skipped>>
logVars   == <<chan, file>>

Goto(p, label) == pc' = [pc EXCEPT ![p] = label]

\* A client goes on with its statement, or has answered it.
Proceed(c, label) ==
  /\ Goto(c, label)
  /\ stmt' = IF label = "idle" THEN [stmt EXCEPT ![c] = None] ELSE stmt

-----------------------------------------------------------------------------
(* Enqueueing.                                                             *)

\* A client task begins a statement that will enqueue n entries.
Start(c, s, n) ==
  /\ pc[c] = "idle"
  /\ s = "checkpoint" <=> n = 0 /\ s # "dml"
  /\ n <= budget
  /\ budget' = budget - n
  /\ stmt' = [stmt EXCEPT ![c] = s]
  /\ left' = [left EXCEPT ![c] = n]
  /\ Goto(c, IF n = 0 THEN "flush" ELSE "enqueue")
  /\ UNCHANGED <<queue, batch_limit, retries, accepted, lost, flushVars, drainVars, logVars>>

\* Faulty variant of Push: an unbounded queue.
PushUnbounded(isPage) ==
  /\ queue' = Append(queue, [id |-> accepted + 1, page |-> isPage])
  /\ accepted' = accepted + 1

\* queue.push(entry) succeeds: the entry gets the next acceptance number.
Push(isPage) ==
  /\ Len(queue) < QueueCapacity
  /\ queue' = Append(queue, [id |-> accepted + 1, page |-> isPage])
  /\ accepted' = accepted + 1

\* One entry of the statement is on the queue; after the last one the statement flushes
\* or, for CREATE INDEX and CREATE TABLE, returns.
Enqueue(c) ==
  /\ pc[c] = "enqueue"
  /\ Push(stmt[c] = "table")
  /\ left' = [left EXCEPT ![c] = @ - 1]
  /\ retries' = [retries EXCEPT ![c] = 0]
  /\ Proceed(c, IF left[c] > 1 THEN "enqueue" ELSE IF stmt[c] = "dml" THEN "flush" ELSE "idle")
  /\ UNCHANGED <<settings, lost, flushVars, drainVars, logVars>>

\* Faulty variant of EnqueueRetry: the failed pushes are not counted.
EnqueueRetryUncounted(p) ==
  /\ pc[p] = "enqueue"
  /\ Len(queue) = QueueCapacity
  /\ UNCHANGED vars

\* The queue is full: sleep and try again.
EnqueueRetry(p) ==
  /\ pc[p] = "enqueue"
  /\ Len(queue) = QueueCapacity
  /\ retries[p] <= RetryLimit
  /\ retries' = [retries EXCEPT ![p] = @ + 1]
  /\ UNCHANGED <<queue, settings, pc, stmt, left, accepted, lost, flushVars, drainVars, logVars>>

\* The queue is full and the task has tried often enough.
Saturated(p) == Len(queue) = QueueCapacity /\ retries[p] > RetryLimit

\* The statement fails and its remaining entries are never enqueued: "WAL Queue Saturated"
\* after the last retry or, in CREATE TABLE, a page of the tree cannot be saved.
EnqueueFail(c) ==
  /\ pc[c] = "enqueue"
  /\ stmt[c] = "table" \/ Saturated(c)
  /\ left' = [left EXCEPT ![c] = 0]
  /\ retries' = [retries EXCEPT ![c] = 0]
  /\ Proceed(c, "idle")
  /\ UNCHANGED <<queue, settings, accepted, lost, flushVars, drainVars, logVars>>

-----------------------------------------------------------------------------
(* flush_pipeline, one step per point where another task may run.          *)

\* Where a client goes when flush_pipeline returns: FLUSH goes on to pop what is left.
AfterFlush(c) == IF stmt[c] = "checkpoint" THEN "discard" ELSE "idle"

\* The queue length is zero: return at once.
FlushEmpty(c) ==
  /\ pc[c] = "flush"
  /\ queue = <<>>
  /\ Proceed(c, AfterFlush(c))
  /\ UNCHANGED <<queue, settings, left, retries, accepted, lost, flushVars, drainVars, logVars>>

\* The queue length is not zero.
FlushBegin(c) ==
  /\ pc[c] = "flush"
  /\ queue # <<>>
  /\ Proceed(c, "load")
  /\ UNCHANGED <<queue, settings, left, retries, accepted, lost, flushVars, drainVars, logVars>>

\* Load active_is_a, before the lock it selects is taken.
FlushLoad(c) ==
  /\ pc[c] = "load"
  /\ is_a' = [is_a EXCEPT ![c] = active_is_a]
  /\ Proceed(c, "lock")
  /\ UNCHANGED <<queue, settings, left, retries, accepted, lost, buffer, holder, active_is_a,
                 batch, drainVars, logVars>>

\* buffer_a.lock().await or buffer_b.lock().await.  The adaptive limit is the
\* batch limit: the queue never holds more than its capacity.
FlushLock(c) ==
  /\ pc[c] = "lock"
  /\ holder[is_a[c]] = NoOne
  /\ holder' = [holder EXCEPT ![is_a[c]] = c]
  /\ Proceed(c, "pop")
  /\ UNCHANGED <<queue, settings, left, retries, accepted, lost, buffer, active_is_a, is_a,
                 batch, drainVars, logVars>>

\* Faulty variant of FlushPop: the entry is put before the ones popped earlier.
FlushPopFront(c) ==
  /\ pc[c] = "pop"
  /\ queue # <<>>
  /\ queue' = Tail(queue)
  /\ buffer' = [buffer EXCEPT ![is_a[c]] = <<Head(queue)>> \o @]
  /\ Proceed(c, IF Len(buffer[is_a[c]]) + 1 >= batch_limit THEN "swap" ELSE "pop")
  /\ UNCHANGED <<settings, left, retries, accepted, lost, holder, active_is_a, is_a,
                 batch, drainVars, logVars>>

\* Pop one entry into the buffer; stop when the batch limit is reached.
FlushPop(c) ==
  /\ pc[c] = "pop"
  /\ queue # <<>>
  /\ queue' = Tail(queue)
  /\ buffer' = [buffer EXCEPT ![is_a[c]] = Append(@, Head(queue))]
  /\ Proceed(c, IF Len(buffer[is_a[c]]) + 1 >= batch_limit THEN "swap" ELSE "pop")
  /\ UNCHANGED <<settings, left, retries, accepted, lost, holder, active_is_a, is_a,
                 batch, drainVars, logVars>>

\* The queue is empty: the loop ends.
FlushPopNone(c) ==
  /\ pc[c] = "pop"
  /\ queue = <<>>
  /\ Proceed(c, "swap")
  /\ UNCHANGED <<queue, settings, left, retries, accepted, lost, flushVars, drainVars, logVars>>

\* Faulty variant of FlushNothing: a batch below the limit is left for the next flush.
FlushNothingEarly(c) ==
  /\ pc[c] = "swap"
  /\ Len(buffer[is_a[c]]) < batch_limit
  /\ holder' = [holder EXCEPT ![is_a[c]] = NoOne]
  /\ Proceed(c, AfterFlush(c))
  /\ UNCHANGED <<queue, settings, left, retries, accepted, lost, buffer, active_is_a, is_a,
                 batch, drainVars, logVars>>

\* Faulty variant of FlushNothing: it tries again until there is something to flush.
FlushNothingRetry(c) ==
  /\ pc[c] = "swap"
  /\ buffer[is_a[c]] = <<>>
  /\ Proceed(c, "pop")
  /\ UNCHANGED <<queue, settings, left, retries, accepted, lost, flushVars, drainVars, logVars>>

\* Nothing was popped: return, dropping the guard and leaving the flag alone.
FlushNothing(c) ==
  /\ pc[c] = "swap"
  /\ buffer[is_a[c]] = <<>>
  /\ holder' = [holder EXCEPT ![is_a[c]] = NoOne]
  /\ Proceed(c, AfterFlush(c))
  /\ UNCHANGED <<queue, settings, left, retries, accepted, lost, buffer, active_is_a, is_a,
                 batch, drainVars, logVars>>

\* Faulty variant of FlushSwap: the buffer is copied and not emptied.
FlushSwapCopy(c) ==
  /\ pc[c] = "swap"
  /\ buffer[is_a[c]] # <<>>
  /\ batch' = [batch EXCEPT ![c] = buffer[is_a[c]]]
  /\ active_is_a' = ~is_a[c]
  /\ Proceed(c, "send")
  /\ UNCHANGED <<queue, settings, left, retries, accepted, lost, buffer, holder, is_a,
                 drainVars, logVars>>

\* mem::replace takes the buffer's contents, then the flag turns to the other buffer.
FlushSwap(c) ==
  /\ pc[c] = "swap"
  /\ buffer[is_a[c]] # <<>>
  /\ batch' = [batch EXCEPT ![c] = buffer[is_a[c]]]
  /\ buffer' = [buffer EXCEPT ![is_a[c]] = <<>>]
  /\ active_is_a' = ~is_a[c]
  /\ Proceed(c, "send")
  /\ UNCHANGED <<queue, settings, left, retries, accepted, lost, holder, is_a,
                 drainVars, logVars>>

\* tx.send(batch).await, then the guard is dropped on return.
FlushSend(c) ==
  /\ pc[c] = "send"
  /\ Len(chan) < ChannelCapacity
  /\ chan' = Append(chan, batch[c])
  /\ batch' = [batch EXCEPT ![c] = <<>>]
  /\ holder' = [holder EXCEPT ![is_a[c]] = NoOne]
  /\ Proceed(c, AfterFlush(c))
  /\ UNCHANGED <<queue, settings, left, retries, accepted, lost, buffer, active_is_a, is_a,
                 file, drainVars>>

\* FLUSH pops what flush_pipeline left behind and throws it away.
Discard(c) ==
  /\ pc[c] = "discard"
  /\ queue # <<>>
  /\ queue' = Tail(queue)
  /\ lost' = lost \cup {Head(queue)}
  /\ UNCHANGED <<settings, pc, stmt, left, retries, accepted, flushVars, drainVars, logVars>>

\* pop_entry returned None: FLUSH answers "Flushed".
DiscardNone(c) ==
  /\ pc[c] = "discard"
  /\ queue = <<>>
  /\ Proceed(c, "idle")
  /\ UNCHANGED <<queue, settings, left, retries, accepted, lost, flushVars, drainVars, logVars>>

-----------------------------------------------------------------------------
(* The WAL thread.                                                         *)

\* write_at appends the padded batch to the file.
WalWrite ==
  /\ chan # <<>>
  /\ file' = Append(file, Head(chan))
  /\ chan' = Tail(chan)
  /\ UNCHANGED <<queue, settings, pc, stmt, left, retries, accepted, lost, flushVars, drainVars>>

\* write_at fails: the result is dropped and so is the batch.
WalWriteError ==
  /\ chan # <<>>
  /\ lost' = lost \cup {Head(chan)[i] : i \in DOMAIN Head(chan)}
  /\ chan' = Tail(chan)
  /\ UNCHANGED <<queue, settings, pc, stmt, left, retries, accepted, file, flushVars, drainVars>>

-----------------------------------------------------------------------------
(* The drain thread of Engine::new.                                        *)

\* Faulty variant of DrainPop: the chunk is filled from its front.
DrainPopFront ==
  /\ pc[Drainer] = "collect"
  /\ queue # <<>> /\ Len(entries) < DrainChunk
  /\ queue' = Tail(queue)
  /\ entries' = <<Head(queue)>> \o entries
  /\ UNCHANGED <<settings, pc, stmt, left, retries, accepted, lost, applied, skipped, flushVars, logVars>>

\* Pop one entry into the chunk.
DrainPop ==
  /\ pc[Drainer] = "collect"
  /\ queue # <<>> /\ Len(entries) < DrainChunk
  /\ queue' = Tail(queue)
  /\ entries' = Append(entries, Head(queue))
  /\ UNCHANGED <<settings, pc, stmt, left, retries, accepted, lost, applied, skipped, flushVars, logVars>>

\* The queue ran empty or the chunk is complete: work on what was collected.
DrainCollected ==
  /\ pc[Drainer] = "collect"
  /\ entries # <<>>
  /\ queue = <<>> \/ Len(entries) = DrainChunk
  /\ Goto(Drainer, "apply")
  /\ UNCHANGED <<queue, settings, stmt, left, retries, accepted, lost, flushVars, drainVars, logVars>>

\* A page update is not for the drain thread: it is ignored.
DrainSkip ==
  /\ pc[Drainer] = "apply"
  /\ entries # <<>> /\ Head(entries).page
  /\ skipped' = skipped \cup {Head(entries)}
  /\ entries' = Tail(entries)
  /\ UNCHANGED <<queue, settings, pc, stmt, left, retries, accepted, lost, applied, flushVars, logVars>>

\* A record is inserted in the B+Tree, which saves n pages: the leaf and its ancestors,
\* and more when nodes split.  Each save enqueues the page and then writes it.
DrainInsert(n) ==
  /\ pc[Drainer] = "apply"
  /\ entries # <<>> /\ ~Head(entries).page
  /\ left' = [left EXCEPT ![Drainer] = n]
  /\ Goto(Drainer, "enqueue")
  /\ UNCHANGED <<queue, settings, stmt, retries, accepted, lost, flushVars, drainVars, logVars>>

\* One of the pages, not the last, is on the queue.
DrainSave ==
  /\ pc[Drainer] = "enqueue"
  /\ left[Drainer] > 1
  /\ Push(TRUE)
  /\ left' = [left EXCEPT ![Drainer] = @ - 1]
  /\ retries' = [retries EXCEPT ![Drainer] = 0]
  /\ UNCHANGED <<settings, pc, stmt, lost, flushVars, drainVars, logVars>>

\* The last page is on the queue and written: the record is in the tree.
DrainSaveLast ==
  /\ pc[Drainer] = "enqueue"
  /\ left[Drainer] = 1
  /\ Push(TRUE)
  /\ applied' = Append(applied, Head(entries))
  /\ entries' = Tail(entries)
  /\ left' = [left EXCEPT ![Drainer] = 0]
  /\ retries' = [retries EXCEPT ![Drainer] = 0]
  /\ Goto(Drainer, "apply")
  /\ UNCHANGED <<settings, stmt, lost, skipped, flushVars, logVars>>

\* The insert fails and its error is ignored: the queue stayed full, the node became
\* too large for its page or a page could not be read or written.
DrainFail ==
  /\ pc[Drainer] = "enqueue"
  /\ lost' = lost \cup {Head(entries)}
  /\ entries' = Tail(entries)
  /\ left' = [left EXCEPT ![Drainer] = 0]
  /\ retries' = [retries EXCEPT ![Drainer] = 0]
  /\ Goto(Drainer, "apply")
  /\ UNCHANGED <<queue, settings, stmt, accepted, applied, skipped, flushVars, logVars>>

\* The chunk is done: collect the next one.
DrainDone ==
  /\ pc[Drainer] = "apply"
  /\ entries = <<>>
  /\ Goto(Drainer, "collect")
  /\ UNCHANGED <<queue, settings, stmt, left, retries, accepted, lost, flushVars, drainVars, logVars>>

-----------------------------------------------------------------------------
Flush(c) ==
  \/ FlushEmpty(c) \/ FlushBegin(c) \/ FlushLoad(c) \/ FlushLock(c) \/ FlushPop(c) \/ FlushPopNone(c)
  \/ FlushNothing(c) \/ FlushSwap(c) \/ FlushSend(c)

ClientStep(c) ==
  \/ Enqueue(c) \/ EnqueueRetry(c) \/ EnqueueFail(c)
  \/ Flush(c)
  \/ Discard(c) \/ DiscardNone(c)

DrainStep ==
  \/ DrainPop \/ DrainCollected \/ DrainSkip \/ (\E n \in 1..MaxPages : DrainInsert(n))
  \/ DrainSave \/ DrainSaveLast \/ EnqueueRetry(Drainer) \/ DrainFail \/ DrainDone

Next ==
  \/ \E c \in Clients, s \in Statements, n \in 0..MaxRows : Start(c, s, n)
  \/ \E c \in Clients : ClientStep(c)
  \/ WalWrite \/ WalWriteError
  \/ DrainStep

Spec == Init /\ [][Next]_vars

\* The steps of a client and of the drain thread without those that are errors of the disk.
ClientProgress(c) ==
  \/ Enqueue(c) \/ EnqueueRetry(c) \/ (Saturated(c) /\ EnqueueFail(c))
  \/ Flush(c)
  \/ Discard(c) \/ DiscardNone(c)
DrainProgress ==
  \/ DrainPop \/ DrainCollected \/ DrainSkip \/ (\E n \in 1..MaxPages : DrainInsert(n))
  \/ DrainSave \/ DrainSaveLast \/ EnqueueRetry(Drainer) \/ (Saturated(Drainer) /\ DrainFail) \/ DrainDone

(* Every task, the drain thread and the WAL thread run on threads of their *)
(* own and are never starved; the buffer mutex and the channel are tokio's, *)
(* which serve waiters in order.  The disk may fail but need not.          *)
Fairness ==
  /\ \A c \in Clients : WF_vars(ClientProgress(c)) /\ SF_vars(FlushLock(c)) /\ SF_vars(FlushSend(c))
  /\ WF_vars(DrainProgress)
  /\ WF_vars(WalWrite \/ WalWriteError)

FairSpec == Spec /\ Fairness
-----------------------------------------------------------------------------
(* Properties.                                                             *)

\* Where an entry is: every position of the pipeline that holds entry number n.
At(where, s, n) == {<<where, i>> : i \in {j \in DOMAIN s : s[j].id = n}}
AtAny(where, ss, n) == UNION {At(<<where, k>>, ss[k], n) : k \in DOMAIN ss}
Copies(n) ==
  At(<<"queue">>, queue, n) \cup AtAny("buffer", buffer, n) \cup AtAny("batch", batch, n)
  \cup AtAny("chan", chan, n) \cup AtAny("file", file, n)
  \cup At(<<"entries">>, entries, n) \cup At(<<"applied">>, applied, n)
  \cup {<<<<"skipped">>, e>> : e \in {x \in skipped : x.id = n}}
  \cup {<<<<"lost">>, e>> : e \in {x \in lost : x.id = n}}

(* An accepted entry is at exactly one place: never duplicated by two      *)
(* flushes that share a buffer, never in the log as well as in the tree,   *)
(* and never gone without having been logged, applied, skipped or dropped  *)
(* by one of the three paths that drop it (wal.rs flush_pipeline, engine.rs *)
(* drain loop).                                                            *)
ExactlyOnce == \A n \in 1..accepted : Cardinality(Copies(n)) = 1

(* A buffer nobody holds is empty: no exit of flush_pipeline, early return *)
(* or swap, strands popped entries in the buffer the flag turned away from.*)
NothingStranded == \A b \in BOOLEAN : holder[b] = NoOne => buffer[b] = <<>>

Ascending(s) == \A i, j \in DOMAIN s : i < j => s[i].id < s[j].id

(* Each batch lists its entries in the order the queue accepted them, even *)
(* when two flushes and the drain thread pop the queue at the same time    *)
(* (wal.rs flush_pipeline); recovery replays a batch in that order.        *)
BatchInOrder ==
  /\ \A b \in BOOLEAN : Ascending(buffer[b])
  /\ \A c \in Clients : Ascending(batch[c])
  /\ \A k \in DOMAIN chan : Ascending(chan[k])
  /\ \A k \in DOMAIN file : Ascending(file[k])

(* The drain thread inserts records in acceptance order, so that the later *)
(* of two drained updates of a key is the one the tree keeps (engine.rs).  *)
DrainInOrder == Ascending(applied \o entries)

\* The stage of entry n in the abstract pipeline.
Holds(s, n) == \E i \in DOMAIN s : s[i].id = n
Stage(n) ==
  IF Holds(queue, n) THEN "queued"
  ELSE IF Holds(entries, n) THEN "draining"
  ELSE IF Holds(applied, n) THEN "applied"
  ELSE IF \E e \in skipped : e.id = n THEN "skipped"
  ELSE IF \E e \in lost : e.id = n THEN "lost"
  ELSE IF \E k \in DOMAIN file : Holds(file[k], n) THEN "logged"
  ELSE "logging"

Lifecycle == INSTANCE Ingest WITH accepted <- accepted, stage <- [n \in 1..accepted |-> Stage(n)]

(* The pipeline implements the abstract one: entries are taken strictly in *)
(* acceptance order although two flushers, FLUSH and the drain thread race *)
(* for them, each takes one of the two ways, a batch settles as a whole,   *)
(* and what has settled never moves again (wal.rs, engine.rs drain loop).  *)
ImplementsIngest == Lifecycle!Spec

\* Entry n reached the log, the tree, or one of the ways an entry is dropped.
Settled(n) == Stage(n) \in Lifecycle!Final

(* Every accepted entry leaves the pipeline: no flusher waits for ever on  *)
(* a buffer, and the drain thread cannot block on the queue it drains      *)
(* (wal.rs enqueue gives up, engine.rs drain loop).                        *)
EverythingSettles == []<>(\A n \in 1..accepted : Settled(n))

(* Every statement that starts returns (wal.rs enqueue and flush_pipeline).*)
StatementsReturn == \A c \in Clients : []<>(pc[c] = "idle")

(* No entry goes from the queue to nowhere: FLUSH leaves what it does not  *)
(* write to the drain thread (engine.rs execute).  It does not hold: see   *)
(* the README.                                                             *)
FlushKeepsEntries == [][\A i \in DOMAIN queue : queue[i] \notin lost']_vars
=============================================================================
