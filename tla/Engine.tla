------------------------------- MODULE Engine -------------------------------
(***************************************************************************)
(* Statements and transactions of KS SQL (src/parser/engine.rs): INSERT,   *)
(* UPDATE, DELETE and SELECT, alone or between BEGIN and COMMIT, over the  *)
(* memory tier (the cache), the B+Tree behind it and the queue that feeds  *)
(* the tree.  A record holds one version of its row only.                  *)
(*                                                                         *)
(* Connections run in parallel and no statement holds a lock from one of   *)
(* its steps to the next.  Statement number u, an UPDATE or an INSERT,     *)
(* sets column u of its rows, so the contents of a row are the set of the  *)
(* statements it shows.                                                    *)
(***************************************************************************)
EXTENDS Integers, Sequences, FiniteSets

CONSTANTS
  Conns,          \* connections
  Keys,           \* bound: rows of the table
  NoKey,          \* no row in hand
  Kinds,          \* bound: which of INSERT, UPDATE, DELETE and SELECT are used
  MaxStatements,  \* bound: statements that write or read rows
  MaxBegins,      \* bound: transactions
  MaxEvictions    \* bound: entries that leave the memory tier

ASSUME EngineAssumption == /\ MaxStatements \in Nat /\ MaxBegins \in Nat /\ MaxEvictions \in Nat
                           /\ NoKey \notin Keys
                           /\ Kinds \subseteq {"insert", "update", "delete", "select"}

Id == 1..MaxStatements
Record == [set : SUBSET Id, version : Nat, is_deleted : BOOLEAN]
NoRecord == [set |-> {}, version |-> -1, is_deleted |-> TRUE]
Slot == Record \cup {NoRecord}
NoTx == [snapshot_version |-> -1, updates |-> <<>>]

VARIABLES
  cache,            \* MemoryTier::cache
  tree,             \* what the B+Tree holds
  queue,            \* RecordUpdates on the WAL queue
  current_version,
  tx,               \* active_transactions; while it commits, the connection's own copy
  pc, kind, id,     \* per connection: program counter, statement, its number
  ver,              \* per connection: the version it scans at, or the one it commits with
  rows,             \* per connection: what its scan returned so far
  todo,             \* per connection: keys it has still to scan, read, validate or install
  row, rec,         \* per connection: the key and record in hand
  unused,           \* keys no INSERT has drawn yet
  issued, begins, evictions, \* bounds used up
  mine,             \* per connection: the statements of its transaction
  stored,           \* <<u, k>>: statement u wrote row k to the cache and the queue
  aborted,          \* statements of transactions that were rolled back, refused or replaced
  overtaken,        \* per connection: keys another one wrote since it read or validated them
  excused,          \* <<u, k>>: what u did to row k was lost to a write that was overtaken
  due,              \* per connection: the <<u, k>> its SELECT has to show
  gone              \* keys whose DELETE was reported as done

data == <<cache, tree, queue, current_version>>
local == <<pc, kind, id, ver, rows, todo, row, rec>>
bounds == <<unused, issued, begins, evictions>>
history == <<mine, stored, aborted, overtaken, excused, due, gone>>
vars == <<data, tx, local, bounds, history>>

DataType ==
  /\ cache \in [Keys -> Slot] /\ tree \in [Keys -> Slot]
  /\ queue \in Seq([key : Keys, rec : Record])
  /\ current_version \in Nat
  /\ unused \subseteq Keys

TxType ==
  \A c \in Conns : tx[c] = NoTx \/ /\ tx[c].snapshot_version \in 0..current_version
                                   /\ DOMAIN tx[c].updates \subseteq Keys
                                   /\ \A k \in DOMAIN tx[c].updates : tx[c].updates[k] \in Record

LocalType ==
  /\ pc \in [Conns -> {"idle", "cache", "tree", "answer", "read", "version", "install", "enqueue",
                       "validate", "commit"}]
  /\ kind \in [Conns -> {"none", "insert", "update", "delete", "select", "commit"}]
  /\ id \in [Conns -> 0..MaxStatements]
  /\ ver \in [Conns -> 0..current_version]
  /\ rows \in [Conns -> [Keys -> Slot]]
  /\ todo \in [Conns -> SUBSET Keys]
  /\ row \in [Conns -> Keys \cup {NoKey}] /\ rec \in [Conns -> Slot]

(* Every variable has its type, and no statement or transaction works at   *)
(* a version that the counter has not reached (engine.rs).                 *)
TypeOK == DataType /\ TxType /\ LocalType

Nothing == [k \in Keys |-> NoRecord]
Loaded == [set |-> {}, version |-> 0, is_deleted |-> FALSE]

\* A table some of whose rows were inserted before: they are in the cache, and in the tree
\* too when the drain thread got them.
Init ==
  /\ cache \in [Keys -> {NoRecord, Loaded}]
  /\ tree \in {t \in [Keys -> {NoRecord, Loaded}] : \A k \in Keys : t[k] = NoRecord \/ cache[k] = Loaded}
  /\ queue = <<>> /\ current_version = 0
  /\ tx = [c \in Conns |-> NoTx]
  /\ pc = [c \in Conns |-> "idle"] /\ kind = [c \in Conns |-> "none"]
  /\ id = [c \in Conns |-> 0] /\ ver = [c \in Conns |-> 0]
  /\ rows = [c \in Conns |-> Nothing]
  /\ todo = [c \in Conns |-> {}]
  /\ row = [c \in Conns |-> NoKey] /\ rec = [c \in Conns |-> NoRecord]
  /\ unused = {k \in Keys : cache[k] = NoRecord}
  /\ issued = 0 /\ begins = 0 /\ evictions = 0
  /\ mine = [c \in Conns |-> {}]
  /\ stored = {} /\ aborted = {}
  /\ overtaken = [c \in Conns |-> {}] /\ excused = {}
  /\ due = [c \in Conns |-> {}] /\ gone = {}

-----------------------------------------------------------------------------
Goto(c, label) == pc' = [pc EXCEPT ![c] = label]
InTx(c) == tx[c] # NoTx

\* updates.insert(k, r): the entry replaces the one the map had for the key.
Updated(updates, k, r) == [x \in DOMAIN updates \cup {k} |-> IF x = k THEN r ELSE updates[x]]

\* memory_tier.get(k), or else btree.get(k).
Current(k) == IF cache[k] # NoRecord THEN cache[k] ELSE tree[k]
Visible(r, v) == r # NoRecord /\ r.version <= v /\ ~r.is_deleted

\* The statement or COMMIT of a connection has its answer.
Return(c) ==
  /\ Goto(c, "idle")
  /\ kind' = [kind EXCEPT ![c] = "none"]
  /\ id' = [id EXCEPT ![c] = 0]
  /\ ver' = [ver EXCEPT ![c] = 0]
  /\ rows' = [rows EXCEPT ![c] = Nothing]
  /\ todo' = [todo EXCEPT ![c] = {}]
  /\ row' = [row EXCEPT ![c] = NoKey]
  /\ rec' = [rec EXCEPT ![c] = NoRecord]

\* The connection has no transaction any more.
EndTx(c) ==
  /\ tx' = [tx EXCEPT ![c] = NoTx]
  /\ mine' = [mine EXCEPT ![c] = {}]
  /\ overtaken' = [overtaken EXCEPT ![c] = {}]

-----------------------------------------------------------------------------
(* BEGIN and ROLLBACK.                                                     *)

\* A BEGIN inside a transaction replaces it and drops its updates.
Begin(c) ==
  /\ pc[c] = "idle" /\ begins < MaxBegins
  /\ begins' = begins + 1
  /\ tx' = [tx EXCEPT ![c] = [snapshot_version |-> current_version, updates |-> <<>>]]
  /\ aborted' = aborted \cup mine[c]
  /\ mine' = [mine EXCEPT ![c] = {}]
  /\ overtaken' = [overtaken EXCEPT ![c] = {}]
  /\ UNCHANGED <<data, local, unused, issued, evictions, stored, excused, due, gone>>

Rollback(c) ==
  /\ pc[c] = "idle" /\ InTx(c)
  /\ EndTx(c)
  /\ aborted' = aborted \cup mine[c]
  /\ UNCHANGED <<data, local, bounds, stored, excused, due, gone>>

-----------------------------------------------------------------------------
(* Statements.                                                             *)

\* The statement gets its number and, inside a transaction, joins it.
Issue(c, s) ==
  /\ s \in Kinds
  /\ pc[c] = "idle" /\ issued < MaxStatements
  /\ issued' = issued + 1
  /\ mine' = IF InTx(c) THEN [mine EXCEPT ![c] = @ \cup {issued + 1}] ELSE mine

\* INSERT of one row inside a transaction: the row waits in the transaction's updates.
InsertInTx(c, k) ==
  /\ Issue(c, "insert") /\ InTx(c) /\ k \in unused
  /\ unused' = unused \ {k}
  /\ tx' = [tx EXCEPT ![c].updates =
              Updated(@, k, [set |-> {issued + 1}, version |-> current_version, is_deleted |-> FALSE])]
  /\ UNCHANGED <<data, local, begins, evictions, stored, aborted, overtaken, excused, due, gone>>

\* INSERT of one row on its own: it takes the current version and does not advance it.
Insert(c, k) ==
  /\ Issue(c, "insert") /\ ~InTx(c) /\ k \in unused
  /\ unused' = unused \ {k}
  /\ kind' = [kind EXCEPT ![c] = "insert"]
  /\ id' = [id EXCEPT ![c] = issued + 1]
  /\ row' = [row EXCEPT ![c] = k]
  /\ rec' = [rec EXCEPT ![c] = [set |-> {issued + 1}, version |-> current_version, is_deleted |-> FALSE]]
  /\ Goto(c, "install")
  /\ UNCHANGED <<data, tx, ver, rows, todo, begins, evictions, stored, aborted,
                 overtaken, excused, due, gone>>

\* UPDATE, DELETE and SELECT read at the snapshot of their transaction or at the current version.
Scan(c, s) ==
  /\ Issue(c, s)
  /\ kind' = [kind EXCEPT ![c] = s]
  /\ id' = [id EXCEPT ![c] = issued + 1]
  /\ ver' = [ver EXCEPT ![c] = IF InTx(c) THEN tx[c].snapshot_version ELSE current_version]
  /\ due' = [due EXCEPT ![c] = {uk \in stored \ excused : s = "select" /\ Visible(Current(uk[2]), ver'[c])}]
  /\ todo' = [todo EXCEPT ![c] = Keys]
  /\ Goto(c, "cache")
  /\ UNCHANGED <<data, tx, rows, row, rec, unused, begins, evictions, stored, aborted,
                 overtaken, excused, gone>>

\* First the records of the cache that are visible, one after the other...
ScanCache(c, k) ==
  /\ pc[c] = "cache" /\ k \in todo[c]
  /\ rows' = [rows EXCEPT ![c][k] = IF Visible(cache[k], ver[c]) THEN cache[k] ELSE NoRecord]
  /\ todo' = [todo EXCEPT ![c] = @ \ {k}]
  /\ Goto(c, IF todo[c] = {k} THEN "tree" ELSE "cache")
  /\ UNCHANGED <<data, tx, kind, id, ver, row, rec, bounds, history>>

\* Faulty variant of Scanned: the tree is asked first.
ScannedTreeFirst(c) == [k \in Keys |-> IF Visible(tree[k], ver[c]) THEN tree[k] ELSE rows[c][k]]

\* ... then those of the tree whose key the cache did not show.
Scanned(c) == [k \in Keys |-> IF rows[c][k] # NoRecord THEN rows[c][k]
                              ELSE IF Visible(tree[k], ver[c]) THEN tree[k] ELSE NoRecord]

\* SELECT has its rows.
ScanTree(c) ==
  /\ pc[c] = "tree" /\ kind[c] = "select"
  /\ rows' = [rows EXCEPT ![c] = Scanned(c)]
  /\ Goto(c, "answer")
  /\ UNCHANGED <<data, tx, kind, id, ver, todo, row, rec, bounds, history>>

Answer(c) ==
  /\ pc[c] = "answer"
  /\ Return(c)
  /\ due' = [due EXCEPT ![c] = {}]
  /\ UNCHANGED <<data, tx, bounds, mine, stored, aborted, overtaken, excused, gone>>

\* UPDATE and DELETE keep the keys of the rows the WHERE clause selects.
SelectRows(c, S) ==
  /\ pc[c] = "tree" /\ kind[c] # "select"
  /\ S \subseteq {k \in Keys : Scanned(c)[k] # NoRecord}
  /\ todo' = [todo EXCEPT ![c] = S]
  /\ rows' = [rows EXCEPT ![c] = Nothing]
  /\ Goto(c, "read")
  /\ UNCHANGED <<data, tx, kind, id, ver, row, rec, bounds, history>>

\* The record read again, with the statement's change.
Changed(c, r) ==
  IF kind[c] = "delete" THEN [r EXCEPT !.is_deleted = TRUE, !.version = ver[c] + 1]
  ELSE [r EXCEPT !.set = @ \cup {id[c]}, !.version = ver[c] + 1]

\* Faulty variant of BufferRow: the cache is changed before the COMMIT.
BufferRowDirty(c, k) ==
  /\ pc[c] = "read" /\ InTx(c) /\ k \in todo[c] /\ Current(k) # NoRecord
  /\ LET new == Changed(c, Current(k)) IN
       /\ tx' = [tx EXCEPT ![c].updates = Updated(@, k, new)]
       /\ cache' = [cache EXCEPT ![k] = new]
  /\ todo' = [todo EXCEPT ![c] = @ \ {k}]
  /\ UNCHANGED <<tree, queue, current_version, pc, kind, id, ver, rows, row, rec, bounds, history>>

\* In a transaction the changed record replaces what the transaction had for the key.
BufferRow(c, k) ==
  /\ pc[c] = "read" /\ InTx(c) /\ k \in todo[c] /\ Current(k) # NoRecord
  /\ LET new == Changed(c, Current(k))
         old == IF k \in DOMAIN tx[c].updates THEN tx[c].updates[k].set ELSE {} IN
       /\ tx' = [tx EXCEPT ![c].updates = Updated(@, k, new)]
       /\ excused' = excused \cup {<<u, k>> : u \in old \ new.set}
  /\ todo' = [todo EXCEPT ![c] = @ \ {k}]
  /\ UNCHANGED <<data, pc, kind, id, ver, rows, row, rec, bounds, mine, stored, aborted,
                 overtaken, due, gone>>

\* Outside a transaction the changed record is in hand.
TakeRow(c, k) ==
  /\ pc[c] = "read" /\ ~InTx(c) /\ k \in todo[c] /\ Current(k) # NoRecord
  /\ row' = [row EXCEPT ![c] = k]
  /\ rec' = [rec EXCEPT ![c] = Changed(c, Current(k))]
  /\ todo' = [todo EXCEPT ![c] = @ \ {k}]
  /\ Goto(c, "version")
  /\ UNCHANGED <<data, tx, kind, id, ver, rows, bounds, history>>

\* "Record not found": the row left the cache and is not in the tree.
MissingRow(c, k) ==
  /\ pc[c] = "read" /\ k \in todo[c] /\ Current(k) = NoRecord
  /\ Return(c)
  /\ UNCHANGED <<data, tx, bounds, history>>

\* A page of the tree cannot be read.  The statement fails where it is and a transaction
\* stays open; a COMMIT fails too, and its transaction is gone.
ReadFail(c) ==
  /\ pc[c] \in {"tree", "read", "validate"}
  /\ pc[c] # "tree" => todo[c] # {}
  /\ Return(c)
  /\ IF kind[c] = "commit" THEN EndTx(c) /\ aborted' = aborted \cup mine[c]
                           ELSE UNCHANGED <<tx, mine, overtaken, aborted>>
  /\ due' = [due EXCEPT ![c] = {}]
  /\ UNCHANGED <<data, bounds, stored, excused, gone>>

\* Faulty variant of NewVersion: the version is computed but the counter not advanced.
NewVersionLoad(c) ==
  /\ pc[c] = "version"
  /\ rec' = [rec EXCEPT ![c].version = current_version + 1]
  /\ Goto(c, "install")
  /\ UNCHANGED <<data, tx, kind, id, ver, rows, todo, row, bounds, history>>

\* current_version.fetch_add(1) + 1 becomes the version of the record.
NewVersion(c) ==
  /\ pc[c] = "version"
  /\ current_version' = current_version + 1
  /\ rec' = [rec EXCEPT ![c].version = current_version + 1]
  /\ Goto(c, "install")
  /\ UNCHANGED <<cache, tree, queue, tx, kind, id, ver, rows, todo, row, bounds, history>>

\* Connection d has read row k for an UPDATE or DELETE, or validated it for its COMMIT,
\* and has not written it yet.
InHand(d, k) ==
  \/ pc[d] \in {"version", "install"} /\ row[d] = k
  \/ pc[d] = "validate" /\ k \in DOMAIN tx[d].updates \ todo[d]
  \/ kind[d] = "commit" /\ pc[d] \in {"commit", "enqueue"} /\ k \in todo[d]

\* A version not after d's snapshot arrives after d has read the row: validation cannot tell.
Late(d, k, v) == InTx(d) /\ k \in DOMAIN tx[d].updates /\ v <= tx[d].snapshot_version

\* memory_tier.insert(k, r).
Put(c, k, r) ==
  /\ cache' = [cache EXCEPT ![k] = r]
  /\ overtaken' = [d \in Conns |->
       IF d # c /\ (InHand(d, k) \/ Late(d, k, r.version)) THEN overtaken[d] \cup {k} ELSE overtaken[d]]
  /\ excused' = IF k \in overtaken[c]
                THEN excused \cup {<<u, k>> : u \in Current(k).set \ r.set} ELSE excused
  /\ due' = [d \in Conns |-> {uk \in due[d] : uk[2] # k}]

Install(c) ==
  /\ pc[c] = "install"
  /\ Put(c, row[c], rec[c])
  /\ Goto(c, "enqueue")
  /\ UNCHANGED <<tree, queue, current_version, tx, kind, id, ver, rows, todo, row, rec, bounds,
                 mine, stored, aborted, gone>>

\* The record is on the queue; the statement goes on to its next row, the COMMIT to its next update.
Enqueue(c) ==
  /\ pc[c] = "enqueue"
  /\ queue' = Append(queue, [key |-> row[c], rec |-> rec[c]])
  /\ stored' = stored \cup {<<u, row[c]>> : u \in rec[c].set \cap (mine[c] \cup {id[c]})}
  /\ gone' = IF kind[c] = "delete" THEN gone \cup {row[c]} ELSE gone
  /\ overtaken' = IF kind[c] = "commit" THEN overtaken ELSE [overtaken EXCEPT ![c] = {}]
  /\ row' = [row EXCEPT ![c] = NoKey]
  /\ rec' = [rec EXCEPT ![c] = NoRecord]
  /\ Goto(c, IF kind[c] = "commit" THEN "commit" ELSE "read")
  /\ UNCHANGED <<cache, tree, current_version, tx, kind, id, ver, rows, todo, bounds,
                 mine, aborted, excused, due>>

\* The queue is saturated: the statement or COMMIT fails with some of its rows written.
EnqueueFail(c) ==
  /\ pc[c] = "enqueue"
  /\ Return(c)
  /\ EndTx(c)
  /\ UNCHANGED <<data, bounds, stored, aborted, excused, due, gone>>

\* All rows are done; flush_pipeline only moves the queue along.
StatementDone(c) ==
  /\ pc[c] = "read" /\ todo[c] = {}
  /\ Return(c)
  /\ UNCHANGED <<data, tx, bounds, history>>

-----------------------------------------------------------------------------
(* COMMIT.                                                                 *)

\* The transaction is removed from active_transactions.
Commit(c) ==
  /\ pc[c] = "idle" /\ InTx(c)
  /\ kind' = [kind EXCEPT ![c] = "commit"]
  /\ todo' = [todo EXCEPT ![c] = DOMAIN tx[c].updates]
  /\ Goto(c, "validate")
  /\ UNCHANGED <<data, tx, id, ver, rows, row, rec, bounds, history>>

\* Faulty variant of Newer: one version too late.
NewerByTwo(c, k) == Current(k).version > tx[c].snapshot_version + 1

Newer(c, k) == Current(k).version > tx[c].snapshot_version

Validate(c, k) ==
  /\ pc[c] = "validate" /\ k \in todo[c] /\ ~Newer(c, k)
  /\ todo' = [todo EXCEPT ![c] = @ \ {k}]
  /\ UNCHANGED <<data, tx, pc, kind, id, ver, rows, row, rec, bounds, history>>

\* "Transaction conflict detected (OCC)".
Conflict(c, k) ==
  /\ pc[c] = "validate" /\ k \in todo[c] /\ Newer(c, k)
  /\ aborted' = aborted \cup mine[c]
  /\ Return(c)
  /\ EndTx(c)
  /\ UNCHANGED <<data, bounds, stored, excused, due, gone>>

\* Faulty variant of CommitVersion: the version is computed but the counter not advanced.
CommitVersionLoad(c) ==
  /\ pc[c] = "validate" /\ todo[c] = {}
  /\ ver' = [ver EXCEPT ![c] = current_version + 1]
  /\ todo' = [todo EXCEPT ![c] = DOMAIN tx[c].updates]
  /\ Goto(c, "commit")
  /\ UNCHANGED <<data, tx, kind, id, rows, row, rec, bounds, history>>

\* Every key passed: draw the version of the commit.
CommitVersion(c) ==
  /\ pc[c] = "validate" /\ todo[c] = {}
  /\ current_version' = current_version + 1
  /\ ver' = [ver EXCEPT ![c] = current_version + 1]
  /\ todo' = [todo EXCEPT ![c] = DOMAIN tx[c].updates]
  /\ Goto(c, "commit")
  /\ UNCHANGED <<cache, tree, queue, tx, kind, id, rows, row, rec, bounds, history>>

\* One of the updates goes to the cache.
CommitRow(c, k) ==
  /\ pc[c] = "commit" /\ k \in todo[c]
  /\ LET r == [tx[c].updates[k] EXCEPT !.version = ver[c]] IN
       /\ Put(c, k, r)
       /\ row' = [row EXCEPT ![c] = k]
       /\ rec' = [rec EXCEPT ![c] = r]
  /\ todo' = [todo EXCEPT ![c] = @ \ {k}]
  /\ Goto(c, "enqueue")
  /\ UNCHANGED <<tree, queue, current_version, tx, kind, id, ver, rows, bounds,
                 mine, stored, aborted, gone>>

\* "Transaction committed".
CommitDone(c) ==
  /\ pc[c] = "commit" /\ todo[c] = {}
  /\ Return(c)
  /\ EndTx(c)
  /\ UNCHANGED <<data, bounds, stored, aborted, excused, due, gone>>

-----------------------------------------------------------------------------
(* The background.                                                         *)

\* The drain thread inserts the oldest record of the queue in the tree.
DrainRow ==
  /\ queue # <<>>
  /\ tree' = [tree EXCEPT ![Head(queue).key] = Head(queue).rec]
  /\ queue' = Tail(queue)
  /\ UNCHANGED <<cache, current_version, tx, local, bounds, history>>

\* A flush takes it to the log instead, or the drain's insert fails.
LogRow ==
  /\ queue # <<>>
  /\ queue' = Tail(queue)
  /\ UNCHANGED <<cache, tree, current_version, tx, local, bounds, history>>

\* An entry leaves the memory tier: evicted for room, or purged.
Evict(k) ==
  /\ evictions < MaxEvictions
  /\ cache[k] # NoRecord
  /\ evictions' = evictions + 1
  /\ cache' = [cache EXCEPT ![k] = NoRecord]
  /\ UNCHANGED <<tree, queue, current_version, tx, local, unused, issued, begins, history>>

Step(c) ==
  \/ Begin(c) \/ Rollback(c) \/ Commit(c)
  \/ \E k \in Keys : InsertInTx(c, k) \/ Insert(c, k)
  \/ \E s \in {"update", "delete", "select"} : Scan(c, s)
  \/ \E k \in Keys : ScanCache(c, k)
  \/ ScanTree(c) \/ Answer(c)
  \/ \E S \in SUBSET Keys : SelectRows(c, S)
  \/ \E k \in Keys : BufferRow(c, k) \/ TakeRow(c, k) \/ MissingRow(c, k)
  \/ ReadFail(c)
  \/ NewVersion(c) \/ Install(c) \/ Enqueue(c) \/ EnqueueFail(c) \/ StatementDone(c)
  \/ \E k \in Keys : Validate(c, k) \/ Conflict(c, k) \/ CommitRow(c, k)
  \/ CommitVersion(c) \/ CommitDone(c)

Next ==
  \/ \E c \in Conns : Step(c)
  \/ DrainRow \/ LogRow
  \/ \E k \in Keys : Evict(k)

Spec == Init /\ [][Next]_vars
-----------------------------------------------------------------------------
(* Properties.                                                             *)

Everywhere == {cache[k] : k \in Keys} \cup {tree[k] : k \in Keys} \cup {queue[i].rec : i \in DOMAIN queue}

(* Nothing of a transaction that was rolled back, refused or replaced ever *)
(* reaches the cache, the queue or the tree, although its statements read  *)
(* and changed records (engine.rs COMMIT, ROLLBACK, BEGIN).                *)
NoAbortedData == \A r \in Everywhere : r.set \cap aborted = {}

(* What a statement or COMMIT wrote stays in the row through all later     *)
(* writes: a transaction that began before it conflicts.  Excused is only  *)
(* what a write loses after another one overtook it: between the read and  *)
(* the write of a plain statement, between validation and installation of  *)
(* a COMMIT, or with a version drawn before the transaction began          *)
(* (engine.rs COMMIT validation).                                          *)
StoredStays == \A uk \in stored \ excused : uk[1] \in Current(uk[2]).set

(* A SELECT shows every stored update of a row that is visible at its      *)
(* version when it begins and that nobody writes while it runs, wherever   *)
(* the row is, in the cache or the tree (engine.rs scan_table_with_filter).*)
QuietRowsVisible ==
  \A c \in Conns : pc[c] = "answer" => \A uk \in due[c] : uk[1] \in rows[c][uk[2]].set

(* No record is from the future: a scan at the current version sees every  *)
(* row that is not deleted (engine.rs fetch_add before installation).      *)
VersionsDrawn == \A r \in Everywhere : r.version <= current_version

(* A row whose DELETE was reported as done is not returned by a SELECT     *)
(* that begins afterwards (engine.rs scan_table_with_filter).  It does not *)
(* hold: see the README.                                                   *)
DeletedStaysDeleted ==
  \A k \in gone : ~Visible(cache[k], current_version) => ~Visible(tree[k], current_version)

=============================================================================
