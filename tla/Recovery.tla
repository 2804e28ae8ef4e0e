------------------------------ MODULE Recovery ------------------------------
(***************************************************************************)
(* Crash and restart: what Wal::open, BPlusTree::open and Engine::new make *)
(* of the log and of the database file they find, whatever the pipeline,   *)
(* the drain thread and a hot swap were doing when the process stopped.    *)
(*                                                                         *)
(* The tree is one page, the root leaf, so a page image is the record of   *)
(* every key.  The pipeline is coarser than in Wal (a flush takes a prefix *)
(* of the queue in one step) and the log is its bytes.                     *)
(***************************************************************************)
EXTENDS WalLog

CONSTANTS
  Sector,     \* 512: a write that falls short ends on this
  QueueCap,   \* capacity of the WAL queue
  MaxWrites,  \* bound: records written
  MaxBatches, \* bound: batches sent to the WAL thread
  MaxCrashes, \* bound: crashes
  MaxSwaps    \* bound: hot swaps, 0 or 1

ASSUME RecoveryAssumption == /\ Sector \in Nat \ {0} /\ Block % Sector = 0
                             /\ QueueCap \in Nat \ {0} /\ MaxWrites \in 0..255
                             /\ MaxBatches \in Nat /\ MaxCrashes \in Nat /\ MaxSwaps \in 0..1

NoPage == <<>>                        \* a file of length 0
EmptyLeaf == [k \in Keys |-> NoRecord]
Downloaded == EmptyLeaf               \* the database file a hot swap fetches
Image == [Keys -> [n : Nat, version : Nat]]

VARIABLES
  cache,           \* MemoryTier::cache
  queue,           \* the WAL queue
  unsent,          \* batches taken off the queue and not written yet
  log,             \* bytes of the WAL file
  files,           \* page 0 of the files the database path has named, the last one now
  handle,          \* the file the pager's thread has open, 0 before it has started
  file_length,     \* Pager::file_length in pages
  phase,           \* where the restart is: "open", "replay", "check", "root", "up"
  recovered,       \* entries still to be replayed
  hand,            \* records the drain thread has popped
  saving,          \* the image the drain thread is saving, or NoPage
  current_version,
  swap,            \* the hot swap: "none", "flushed", "renamed"
  inserted,        \* keys INSERTs have drawn: 1 to this
  writes, sent, crashes, swaps, \* bounds used up
  batches,         \* what was written: [entries, torn]
  fresh,           \* nothing has been written since the restart
  found,           \* page 0 of the path's file at the last crash
  kept             \* per key: its newest record in the log or in the path's file at the crash

memory == <<cache, queue, unsent, hand, saving, current_version>>
disk == <<log, files>>
pager == <<handle, file_length>>
boot == <<phase, recovered>>
used == <<inserted, writes, sent, crashes, swaps>>
history == <<batches, fresh, found, kept>>
vars == <<memory, disk, pager, boot, swap, used, history>>

Up == phase = "up"
Path == Len(files)

Init ==
  /\ cache = EmptyLeaf /\ queue = <<>> /\ unsent = <<>> /\ hand = <<>> /\ saving = NoPage
  /\ current_version = 0
  /\ log = <<>> /\ files = <<NoPage>>
  /\ handle = 0 /\ file_length = 0
  /\ phase = "open" /\ recovered = <<>> /\ swap = "none"
  /\ inserted = 0 /\ writes = 0 /\ sent = 0 /\ crashes = 0 /\ swaps = 0
  /\ batches = <<>> /\ fresh = FALSE /\ found = NoPage /\ kept = EmptyLeaf

-----------------------------------------------------------------------------
\* The pager: its thread opens the file some time after Pager::open has returned, and
\* requests wait for it.
PagerStart ==
  /\ handle = 0
  /\ handle' = Path
  /\ file_length' = IF files[Path] = NoPage THEN 0 ELSE 1
  /\ UNCHANGED <<memory, disk, boot, swap, used, history>>

WritePage(page) ==
  /\ handle # 0
  /\ files' = [files EXCEPT ![handle] = page]
  /\ file_length' = 1
  /\ UNCHANGED handle

-----------------------------------------------------------------------------
\* The restart.

\* Wal::open; the pager's thread has been spawned.
OpenWal ==
  /\ phase = "open"
  /\ recovered' = Parse(log)
  /\ phase' = IF recovered' = <<>> THEN "check" ELSE "replay"
  /\ UNCHANGED <<memory, disk, pager, swap, used, history>>

\* Faulty variant of ReplayRecord: an entry that is already cached stays.
ReplayRecordOnce ==
  /\ phase = "replay" /\ recovered # <<>> /\ ~Head(recovered).page
  /\ cache' = IF cache[Head(recovered).key] = NoRecord
              THEN [cache EXCEPT ![Head(recovered).key] = Head(recovered).rec] ELSE cache
  /\ recovered' = Tail(recovered)
  /\ UNCHANGED <<queue, unsent, hand, saving, current_version, disk, pager, phase, swap, used, history>>

ReplayRecord ==
  /\ phase = "replay" /\ recovered # <<>> /\ ~Head(recovered).page
  /\ cache' = [cache EXCEPT ![Head(recovered).key] = Head(recovered).rec]
  /\ recovered' = Tail(recovered)
  /\ UNCHANGED <<queue, unsent, hand, saving, current_version, disk, pager, phase, swap, used, history>>

\* Faulty variant of ReplayPage: only a file without pages is restored from the log.
ReplayPageNew ==
  /\ phase = "replay" /\ recovered # <<>> /\ Head(recovered).page
  /\ IF file_length = 0 THEN WritePage(Head(recovered).image) ELSE handle # 0 /\ UNCHANGED <<files, pager>>
  /\ recovered' = Tail(recovered)
  /\ UNCHANGED <<memory, log, phase, swap, used, history>>

ReplayPage ==
  /\ phase = "replay" /\ recovered # <<>> /\ Head(recovered).page
  /\ WritePage(Head(recovered).image)
  /\ recovered' = Tail(recovered)
  /\ UNCHANGED <<memory, log, phase, swap, used, history>>

\* pager.sync waits for the pager's thread.
ReplaySync ==
  /\ phase = "replay" /\ recovered = <<>> /\ handle # 0
  /\ phase' = "check"
  /\ UNCHANGED <<memory, disk, pager, recovered, swap, used, history>>

\* Faulty variant of CheckRoot: the root is taken to be there.
CheckRootAssumed ==
  /\ phase = "check" /\ handle # 0
  /\ phase' = "up"
  /\ UNCHANGED <<memory, disk, pager, recovered, swap, used, history>>

\* Faulty variant of CheckRoot: it waits for the page count.
CheckRootWaiting ==
  /\ phase = "check" /\ file_length > 0
  /\ phase' = "up"
  /\ UNCHANGED <<memory, disk, pager, recovered, swap, used, history>>

\* num_pages() == 0, which is so as well while the pager's thread has not started.
CheckRoot ==
  /\ phase = "check"
  /\ phase' = IF file_length = 0 THEN "root" ELSE "up"
  /\ UNCHANGED <<memory, disk, pager, recovered, swap, used, history>>

CreateRoot ==
  /\ phase = "root"
  /\ WritePage(EmptyLeaf)
  /\ phase' = "up"
  /\ UNCHANGED <<memory, log, recovered, swap, used, history>>

BootStep == \/ PagerStart \/ OpenWal \/ ReplayRecord \/ ReplayPage \/ ReplaySync
            \/ CheckRoot \/ CreateRoot

-----------------------------------------------------------------------------
\* The running engine.

\* enqueue, which gives up at a full queue.
Enqueue(entry) == IF Len(queue) < QueueCap THEN Append(queue, entry) ELSE queue

\* What a SELECT shows of row k: the cached record, or the tree's when that is too new.
Visible(k) ==
  LET shown == SelectSeq(<<cache[k], files[handle][k]>>,
                         LAMBDA r : r # NoRecord /\ r.version <= current_version)
  IN IF shown = <<>> THEN NoRecord ELSE Head(shown)

\* Record number writes + 1, of row k.  When the queue is full it is in the cache only and
\* the statement fails.
Write(k, version) ==
  /\ Up /\ writes < MaxWrites
  /\ writes' = writes + 1 /\ current_version' = version
  /\ LET rec == [n |-> writes', version |-> version] IN
       /\ cache' = [cache EXCEPT ![k] = rec]
       /\ \E filler \in Fillers : queue' = Enqueue(RecordUpdate(k, rec, filler))
  /\ fresh' = FALSE
  /\ UNCHANGED <<unsent, hand, saving, disk, pager, boot, swap, sent, crashes, swaps, batches, found, kept>>

\* An INSERT draws a new key and takes the current version.
Insert == /\ inserted + 1 \in Keys
          /\ Write(inserted + 1, current_version)
          /\ inserted' = inserted + 1

\* An UPDATE of a row its scan finds takes the next version.
Update(k) == /\ Up /\ Visible(k) # NoRecord
             /\ Write(k, current_version + 1)
             /\ UNCHANGED inserted

\* flush_pipeline: a prefix of the queue becomes a batch.  The two buffers allow one batch
\* more before the first is sent.
Take(m) ==
  /\ Len(unsent) < 2 /\ sent < MaxBatches
  /\ sent' = sent + 1
  /\ unsent' = Append(unsent, SubSeq(queue, 1, m))
  /\ queue' = SubSeq(queue, m + 1, Len(queue))

Flush ==
  /\ Up
  /\ \E m \in 1..Len(queue) : Take(m)
  /\ UNCHANGED <<cache, hand, saving, current_version, disk, pager, boot, swap, inserted, writes, crashes, swaps, history>>

\* The WAL thread: it writes the batch, at the end of the file since the file is open for
\* appending.  A write that fails leaves nothing, one that falls short leaves a torn batch.
\* The second batch may have been sent before the first.
LogBatch ==
  /\ Up
  /\ \E i \in DOMAIN unsent :
       /\ unsent' = RemoveAt(unsent, i)
       /\ LET bytes == Batch(unsent[i]) IN
          \E len \in {b \in 0..Len(bytes) : b % Sector = 0} :
            /\ log' = log \o SubSeq(bytes, 1, len)
            /\ batches' = IF len = 0 THEN batches
                          ELSE Append(batches, [entries |-> unsent[i], torn |-> len < Len(bytes)])
  /\ UNCHANGED <<cache, queue, hand, saving, current_version, files, pager, boot, swap, used, fresh, found, kept>>

\* The drain thread: pop_entry for up to a chunk, page updates skipped; then insert, whose
\* save_node enqueues the page's image and writes the page.  A failed insert is dropped.
DrainPop ==
  /\ Up /\ hand = <<>> /\ saving = NoPage
  /\ \E m \in 1..Len(queue) :
       /\ hand' = SelectSeq(SubSeq(queue, 1, m), LAMBDA e : ~e.page)
       /\ queue' = SubSeq(queue, m + 1, Len(queue))
  /\ UNCHANGED <<cache, unsent, saving, current_version, disk, pager, boot, swap, used, history>>

DrainEnqueue ==
  /\ Up /\ hand # <<>> /\ saving = NoPage
  /\ LET image == [files[handle] EXCEPT ![Head(hand).key] = Head(hand).rec] IN
       /\ queue' = Enqueue(PageUpdate(image))
       /\ saving' = IF Len(queue) < QueueCap THEN image ELSE NoPage
  /\ hand' = Tail(hand)
  /\ UNCHANGED <<cache, unsent, current_version, disk, pager, boot, swap, used, history>>

DrainWrite ==
  /\ Up /\ saving # NoPage
  /\ WritePage(saving)
  /\ saving' = NoPage
  /\ UNCHANGED <<cache, queue, unsent, hand, current_version, log, boot, swap, used, history>>

DrainWriteFail ==
  /\ Up /\ saving # NoPage
  /\ saving' = NoPage
  /\ UNCHANGED <<cache, queue, unsent, hand, current_version, disk, pager, boot, swap, used, history>>

\* hotswap_handler: the pipeline is flushed, the download renamed over the database file,
\* which the pager keeps open, and the pager told to open the new one.
SwapFlush ==
  /\ Up /\ swap = "none" /\ swaps < MaxSwaps
  /\ swap' = "flushed" /\ swaps' = swaps + 1 /\ fresh' = FALSE
  /\ \/ queue = <<>> /\ UNCHANGED <<queue, unsent, sent>>
     \/ \E m \in 1..Len(queue) : Take(m)
  /\ UNCHANGED <<cache, hand, saving, current_version, disk, pager, boot, inserted, writes, crashes, batches, found, kept>>

SwapRename ==
  /\ Up /\ swap = "flushed"
  /\ swap' = "renamed"
  /\ files' = Append(files, Downloaded)
  /\ UNCHANGED <<memory, log, pager, boot, used, history>>

\* Pager::reload; when the open fails the pager goes on with the old file.
SwapReload ==
  /\ Up /\ swap = "renamed"
  /\ swap' = "none"
  /\ handle' \in {handle, Path} /\ file_length' = 1
  /\ UNCHANGED <<memory, disk, boot, used, history>>

-----------------------------------------------------------------------------
\* What recovery has to work with.
Logged == FlattenSeq([i \in DOMAIN batches |-> batches[i].entries])

\* Batch i can be read back: nothing up to it is torn, and none before it has padding too
\* narrow for a length.
Sound(i) == \A j \in 1..i : ~batches[j].torn /\ (j < i => ~Narrow(batches[j].entries))
Intact == FlattenSeq([i \in 1..Cardinality({j \in DOMAIN batches : Sound(j)}) |-> batches[i].entries])
Clean == \A i \in DOMAIN batches : Sound(i)

Records(entries, k) == SelectSeq(entries, LAMBDA e : ~e.page /\ e.key = k)
Images(entries) == SelectSeq(entries, LAMBDA e : e.page)
Newest(recs) == CHOOSE r \in recs : \A q \in recs : q.n <= r.n

\* The process stops, wherever it is; the files stay.
Crash ==
  /\ crashes < MaxCrashes
  /\ crashes' = crashes + 1
  /\ cache' = EmptyLeaf /\ queue' = <<>> /\ unsent' = <<>> /\ hand' = <<>> /\ saving' = NoPage
  /\ current_version' = 0
  /\ handle' = 0 /\ file_length' = 0 /\ files' = <<files[Path]>>
  /\ phase' = "open" /\ recovered' = <<>> /\ swap' = "none"
  /\ fresh' = TRUE /\ found' = files[Path]
  /\ kept' = [k \in Keys |-> Newest({e.rec : e \in Range(Records(Logged, k))}
                    \cup {IF found' = NoPage THEN NoRecord ELSE found'[k]})]
  /\ UNCHANGED <<log, inserted, writes, sent, swaps, batches>>

Next ==
  \/ BootStep
  \/ Insert \/ \E k \in Keys : Update(k)
  \/ Flush \/ LogBatch
  \/ DrainPop \/ DrainEnqueue \/ DrainWrite \/ DrainWriteFail
  \/ SwapFlush \/ SwapRename \/ SwapReload
  \/ Crash

Spec == Init /\ [][Next]_vars /\ WF_vars(BootStep)

-----------------------------------------------------------------------------
\* Every variable has its type, and once the engine is up its pager has a file with a root.
TypeOK ==
  /\ cache \in Image /\ kept \in Image
  /\ files \in Seq(Image \cup {NoPage}) /\ saving \in Image \cup {NoPage}
  /\ found \in Image \cup {NoPage}
  /\ Len(queue) <= QueueCap /\ Len(unsent) <= 2
  /\ handle \in 0..Path /\ file_length \in {0, 1}
  /\ phase \in {"open", "replay", "check", "root", "up"}
  /\ swap \in {"none", "flushed", "renamed"}
  /\ Up => handle # 0 /\ files[handle] # NoPage
  /\ current_version \in 0..writes /\ inserted \in 0..Cardinality(Keys)

\* Wal::open reads back exactly the entries of the batches that were written, in their order;
\* after a torn batch, or one with narrow padding, at least all entries before it.
ParseRestores ==
  /\ IsPrefix(Intact, Parse(log))
  /\ Clean => Parse(log) = Intact

\* The replay of BPlusTree::open: after a restart from an undamaged log the memory tier holds
\* the last logged record of every key and nothing else, and the root page is its last logged
\* image, or as the crash left it when the log has none, also when earlier restarts crashed
\* half way through their replay.  With an empty log the page may have been emptied.
ReplayRestores ==
  Up /\ fresh /\ Clean =>
    /\ \A k \in Keys : LET recs == Records(Logged, k) IN
         cache[k] = IF recs = <<>> THEN NoRecord ELSE Last(recs).rec
    /\ LET left == IF found = NoPage THEN EmptyLeaf ELSE found
       IN files[handle] \in
            IF Images(Logged) # <<>> THEN {Last(Images(Logged)).image}
            ELSE IF Logged # <<>> THEN {left} ELSE {left, EmptyLeaf}

\* The replay of BPlusTree::open: a record of a row that reached an undamaged log is never
\* read as an older one again, across any number of crashes, unless a batch with a later
\* record of the row overtook it.
LoggedSurvive ==
  Up /\ Clean =>
    \A k \in Keys : LET recs == Records(Logged, k) IN
      (\A i, j \in DOMAIN recs : i < j => recs[i].rec.n < recs[j].rec.n)
        => \A i \in DOMAIN recs : cache[k].n >= recs[i].rec.n

\* Whenever the process has stopped, BPlusTree::open and Engine::new end and the engine is up
\* again, although they wait for the pager's thread.
RestartEnds == ~Up ~> Up

\* README.md, line 39: the WAL has record-level recovery.  After a restart a SELECT shows of
\* every row the newest record that was in the log or in the tree.
RestartShowsNewest ==
  Up /\ fresh => \A k \in Keys : Visible(k) = kept[k]
=============================================================================
