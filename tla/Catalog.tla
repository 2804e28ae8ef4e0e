------------------------------ MODULE Catalog -------------------------------
(***************************************************************************)
(* The catalog of src/parser/engine.rs: table schemas with their           *)
(* auto-increment counter, their stored copy under the key __schemas__,    *)
(* and secondary indices.  CREATE TABLE, CREATE INDEX, INSERT, UPDATE and  *)
(* the transaction around an INSERT run on several connections without a   *)
(* lock from one of their steps to the next.                               *)
(*                                                                         *)
(* Every table has an auto-increment column and one column that may be     *)
(* indexed.  Rows stay in the memory tier; how several statements read and *)
(* write one row is in Engine.  Rows on the WAL queue are left out: any    *)
(* enqueue may find it full of them.                                       *)
(***************************************************************************)
EXTENDS Integers, SequencesExt

CONSTANTS
  Conns, Tables, Values,
  MaxRows,      \* bound: rows inserted
  MaxPerInsert, \* bound: rows of one INSERT
  MaxCreates,   \* bound: CREATE TABLE statements
  MaxUpdates    \* bound: UPDATE statements

ASSUME CatalogAssumption == /\ MaxRows \in Nat /\ MaxPerInsert \in Nat
                            /\ MaxCreates \in Nat /\ MaxUpdates \in Nat
                            /\ "none" \notin Tables

Key == 1..MaxRows
NoKey == 0
Row == [table : Tables, val : Values, id : 1..MaxRows]
NoRow == [table |-> "none", val |-> "none", id |-> 0]

\* The key of an index entry: idx:table:column:value.
SharedIdxKey(t, v) == v  \* Faulty variant of IdxKey: without the table.

IdxKey(t, v) == <<t, v>>
IdxKeys == {IdxKey(t, v) : t \in Tables, v \in Values}

\* A catalog record gives the next_id of every table, 0 for a table it does not have.
NoTables == [t \in Tables |-> 0]

\* WAL entries: an index entry, the catalog.
IdxEntry(t, v, k) == [is |-> "idx", entry |-> IdxKey(t, v), key |-> k]
CatalogEntry(cat) == [is |-> "catalog", cat |-> cat]
IdxEntries == [is : {"idx"}, entry : IdxKeys, key : Key]
CatalogEntries == [is : {"catalog"}, cat : [Tables -> Nat]]

VARIABLES
  schemas,     \* EngineState::schemas
  indices,     \* EngineState::indices: the indexed tables
  rows,        \* rows in the memory tier
  idx,         \* index entries in the memory tier
  queue,       \* index entries and catalog records on the WAL queue
  tree_cat,    \* __schemas__ in the tree
  tree_idx,    \* index entries in the tree
  tx,          \* per connection: its transaction: open, and the rows it holds
  pc, table,   \* per connection: program counter and table of its statement
  next_id,     \* per connection: the INSERT's own counter
  left,        \* per connection: values of the rows still to build
  key,         \* per connection: key of its INSERT's last row, all of them random in the code
  pending,     \* per connection: index entries to enqueue
  todo,        \* per connection: tables its iteration over schemas has still to visit
  seen,        \* per connection: schemas_map
  drawn, creates, updates, \* bounds used up
  given,       \* [table, id, key] of the rows INSERTs built
  contended,   \* tables whose counter two statements used at once, or an INSERT left behind
  created,     \* tables whose CREATE TABLE was answered
  shadowed,    \* tables that a catalog record collected without them may overwrite
  held,        \* [table, val, key]: the row has had the value
  issued,      \* index entries put in the memory tier or on the queue
  exempt       \* rows of a transaction, of a statement that failed, or updated

shared == <<schemas, indices, rows, idx, queue, tree_cat, tree_idx>>
local == <<pc, table, next_id, left, key, pending, todo, seen>>
bounds == <<drawn, creates, updates>>
history == <<given, contended, created, shadowed, held, issued, exempt>>
vars == <<shared, tx, local, bounds, history>>

Init ==
  /\ schemas = NoTables /\ indices = {} /\ rows = [k \in Key |-> NoRow]
  /\ idx = [e \in IdxKeys |-> NoKey] /\ queue = <<>>
  /\ tree_cat = NoTables /\ tree_idx = [e \in IdxKeys |-> NoKey]
  /\ tx = [c \in Conns |-> [open |-> FALSE, rows |-> {}]]
  /\ pc = [c \in Conns |-> "idle"]
  /\ table = [c \in Conns |-> "none"]
  /\ next_id = [c \in Conns |-> 0] /\ left = [c \in Conns |-> <<>>]
  /\ key = [c \in Conns |-> NoKey] /\ pending = [c \in Conns |-> <<>>]
  /\ todo = [c \in Conns |-> {}] /\ seen = [c \in Conns |-> NoTables]
  /\ drawn = 0 /\ creates = 0 /\ updates = 0
  /\ given = {} /\ contended = {} /\ created = {} /\ shadowed = {}
  /\ held = {} /\ issued = {} /\ exempt = {}

Idle(c) == pc[c] = "idle"
Goto(c, l) == pc' = [pc EXCEPT ![c] = l]

\* The statement ends and its locals with it.
Return(c) ==
  /\ Goto(c, "idle")
  /\ table' = [table EXCEPT ![c] = "none"] /\ next_id' = [next_id EXCEPT ![c] = 0]
  /\ left' = [left EXCEPT ![c] = <<>>] /\ key' = [key EXCEPT ![c] = NoKey]
  /\ pending' = [pending EXCEPT ![c] = <<>>]
  /\ todo' = [todo EXCEPT ![c] = {}] /\ seen' = [seen EXCEPT ![c] = NoTables]

Holding(ks) == {[table |-> rows'[k].table, val |-> rows'[k].val, key |-> k] : k \in ks}

-----------------------------------------------------------------------------
\* CREATE TABLE.  The iteration over schemas takes no snapshot.
Collecting(c) == todo' = [todo EXCEPT ![c] = Tables] /\ seen' = [seen EXCEPT ![c] = NoTables]

Inserting(c, t) == table[c] = t /\ pc[c] \in {"row", "index", "enqueue"}

CreateTable(c, t) ==
  /\ Idle(c) /\ creates < MaxCreates
  /\ schemas' = [schemas EXCEPT ![t] = 1]
  /\ table' = [table EXCEPT ![c] = t]
  /\ Collecting(c) /\ Goto(c, "create")
  /\ creates' = creates + 1
  /\ contended' = IF schemas[t] # 0 THEN contended \cup {t} ELSE contended
  /\ UNCHANGED <<indices, rows, idx, queue, tree_cat, tree_idx, tx, next_id, left, key, pending,
                 drawn, updates, given, created, shadowed, held, issued, exempt>>

\* Faulty variant of Collect: the map has the statement's own table only.
CollectOwn(c, t) ==
  /\ pc[c] \in {"create", "collect"} /\ t \in todo[c]
  /\ seen' = [seen EXCEPT ![c][t] = IF t = table[c] THEN schemas[t] ELSE 0]
  /\ todo' = [todo EXCEPT ![c] = @ \ {t}]
  /\ UNCHANGED <<shared, tx, pc, table, next_id, left, key, pending, bounds, history>>

Collect(c, t) ==
  /\ pc[c] \in {"create", "collect"} /\ t \in todo[c]
  /\ seen' = [seen EXCEPT ![c][t] = schemas[t]]
  /\ todo' = [todo EXCEPT ![c] = @ \ {t}]
  /\ UNCHANGED <<shared, tx, pc, table, next_id, left, key, pending, bounds, history>>

\* Some catalog record on its way to the tree was collected before table t was there.
Outdated(c, t) ==
  \/ \E i \in DOMAIN queue : queue[i].is = "catalog" /\ queue[i].cat[t] = 0
  \/ \E d \in Conns \ {c} : pc[d] \in {"create", "collect"} /\ t \notin todo[d] /\ seen[d][t] = 0

\* CREATE TABLE stores the catalog in the tree itself; INSERT leaves it to the queue.
StoreCatalog(c) ==
  /\ pc[c] = "create" /\ todo[c] = {}
  /\ tree_cat' = seen[c]
  /\ Return(c)
  /\ created' = created \cup {table[c]}
  /\ shadowed' = IF Outdated(c, table[c]) THEN shadowed \cup {table[c]} ELSE shadowed
  /\ UNCHANGED <<schemas, indices, rows, idx, queue, tree_idx, tx, bounds, given, contended, held,
                 issued, exempt>>

StoreCatalogFail(c) ==
  /\ pc[c] = "create" /\ todo[c] = {}
  /\ Return(c)
  /\ UNCHANGED <<shared, tx, bounds, history>>

-----------------------------------------------------------------------------
\* INSERT of a list of values: the schema is cloned, the rows take ids from the clone's
\* counter, and the schema with the counter is put back.
Insert(c, t) ==
  /\ Idle(c) /\ schemas[t] # 0
  /\ \E n \in 1..MaxPerInsert : \E vals \in [1..n -> Values] :
       /\ drawn + n <= MaxRows
       /\ drawn' = drawn + n
       /\ left' = [left EXCEPT ![c] = vals]
  /\ key' = [key EXCEPT ![c] = drawn]
  /\ table' = [table EXCEPT ![c] = t]
  /\ next_id' = [next_id EXCEPT ![c] = schemas[t]]
  /\ Goto(c, "row")
  /\ contended' = IF \E d \in Conns : Inserting(d, t) THEN contended \cup {t} ELSE contended
  /\ UNCHANGED <<shared, tx, pending, todo, seen, creates, updates, given, created, shadowed, held,
                 issued, exempt>>

NextRow(c, vals) == Goto(c, IF vals = <<>> THEN "enqueue" ELSE "row")

\* A row of the INSERT, in its transaction or in the memory tier.
BuildRow(c) ==
  /\ pc[c] = "row"
  /\ LET k == key[c] + 1
         row == [table |-> table[c], val |-> Head(left[c]), id |-> next_id[c]] IN
     /\ key' = [key EXCEPT ![c] = k]
     /\ next_id' = [next_id EXCEPT ![c] = @ + 1]
     /\ given' = given \cup {[table |-> row.table, id |-> row.id, key |-> k]}
     /\ IF tx[c].open
        THEN /\ tx' = [tx EXCEPT ![c].rows = @ \cup {[key |-> k, row |-> row]}]
             /\ exempt' = exempt \cup {k}
             /\ left' = [left EXCEPT ![c] = Tail(@)]
             /\ NextRow(c, Tail(left[c]))
             /\ UNCHANGED <<rows, held>>
        ELSE /\ rows' = [rows EXCEPT ![k] = row]
             /\ held' = held \cup Holding({k})
             /\ Goto(c, "index")
             /\ UNCHANGED <<tx, left, exempt>>
  /\ UNCHANGED <<schemas, indices, idx, queue, tree_cat, tree_idx, table, pending, todo, seen,
                 bounds, contended, created, shadowed, issued>>

\* Faulty variant of IndexRow: the loop goes on after its last row.
IndexRowOn(c) ==
  /\ pc[c] = "index"
  /\ left' = [left EXCEPT ![c] = Tail(@)]
  /\ NextRow(c, left[c])
  /\ UNCHANGED <<shared, tx, table, next_id, key, pending, todo, seen, bounds, history>>

\* The row's index entry goes to the list of WAL entries only.
IndexRow(c) ==
  /\ pc[c] = "index"
  /\ pending' = IF table[c] \in indices
                THEN [pending EXCEPT ![c] = Append(@, IdxEntry(table[c], Head(left[c]), key[c]))]
                ELSE pending
  /\ left' = [left EXCEPT ![c] = Tail(@)]
  /\ NextRow(c, Tail(left[c]))
  /\ UNCHANGED <<shared, tx, table, next_id, key, todo, seen, bounds, history>>

EnqueueIdx(c) ==
  /\ pc[c] = "enqueue" /\ pending[c] # <<>>
  /\ queue' = Append(queue, Head(pending[c]))
  /\ issued' = issued \cup {Head(pending[c])}
  /\ pending' = [pending EXCEPT ![c] = Tail(@)]
  /\ UNCHANGED <<schemas, indices, rows, idx, tree_cat, tree_idx, tx, pc, table, next_id, left,
                 key, todo, seen, bounds, given, contended, created, shadowed, held, exempt>>

\* The queue is full: the INSERT ends with its rows cached and its ids not counted.
InsertFail(c) ==
  /\ pc[c] = "enqueue" /\ ~tx[c].open
  /\ Return(c)
  /\ exempt' = exempt \cup {pending[c][i].key : i \in DOMAIN pending[c]}
  /\ contended' = contended \cup {table[c]}
  /\ UNCHANGED <<shared, tx, bounds, given, created, shadowed, held, issued>>

\* Faulty variant of WriteBack: a transaction's INSERT leaves the counter alone.
WriteBackPlain(c) ==
  /\ pc[c] = "enqueue" /\ pending[c] = <<>>
  /\ schemas' = IF tx[c].open THEN schemas ELSE [schemas EXCEPT ![table[c]] = next_id[c]]
  /\ Collecting(c) /\ Goto(c, "collect")
  /\ UNCHANGED <<indices, rows, idx, queue, tree_cat, tree_idx, tx, table, next_id, left, key,
                 pending, bounds, history>>

WriteBack(c) ==
  /\ pc[c] = "enqueue" /\ pending[c] = <<>>
  /\ schemas' = [schemas EXCEPT ![table[c]] = next_id[c]]
  /\ Collecting(c) /\ Goto(c, "collect")
  /\ UNCHANGED <<indices, rows, idx, queue, tree_cat, tree_idx, tx, table, next_id, left, key,
                 pending, bounds, history>>

EnqueueCatalog(c) ==
  /\ pc[c] = "collect" /\ todo[c] = {}
  /\ queue' \in {Append(queue, CatalogEntry(seen[c])), queue}  \* refused when it is full
  /\ Return(c)
  /\ UNCHANGED <<schemas, indices, rows, idx, tree_cat, tree_idx, tx, bounds, history>>

-----------------------------------------------------------------------------
\* Transactions.  COMMIT installs rows without index entries.
Begin(c) ==
  /\ Idle(c) /\ ~tx[c].open
  /\ tx' = [tx EXCEPT ![c] = [open |-> TRUE, rows |-> {}]]
  /\ UNCHANGED <<shared, local, bounds, history>>

Commit(c) ==
  /\ Idle(c) /\ tx[c].open
  /\ LET ks == {r.key : r \in tx[c].rows} IN
     /\ rows' = [k \in Key |-> IF k \in ks THEN (CHOOSE r \in tx[c].rows : r.key = k).row ELSE rows[k]]
     /\ held' = held \cup Holding(ks)
  /\ tx' = [tx EXCEPT ![c] = [open |-> FALSE, rows |-> {}]]
  /\ UNCHANGED <<schemas, indices, idx, queue, tree_cat, tree_idx, local, bounds, given, contended,
                 created, shadowed, issued, exempt>>

Rollback(c) ==
  /\ Idle(c) /\ tx[c].open
  /\ tx' = [tx EXCEPT ![c] = [open |-> FALSE, rows |-> {}]]
  /\ UNCHANGED <<shared, local, bounds, history>>

\* UPDATE of the indexed column leaves the index alone.
Update(c) ==
  /\ Idle(c) /\ ~tx[c].open /\ updates < MaxUpdates
  /\ \E k \in Key, v \in Values :
       /\ rows[k] # NoRow /\ rows[k].val # v
       /\ rows' = [rows EXCEPT ![k].val = v]
       /\ held' = held \cup Holding({k})
       /\ exempt' = exempt \cup {k}
  /\ updates' = updates + 1
  /\ UNCHANGED <<schemas, indices, idx, queue, tree_cat, tree_idx, tx, local, drawn, creates, given,
                 contended, created, shadowed, issued>>

-----------------------------------------------------------------------------
\* CREATE INDEX: the index is registered, the table scanned, and every row's entry put in the
\* memory tier and on the queue, in the order in which the scan returns the rows: any order.
Scans(t) == SetToSeqs({k \in Key : rows[k].table = t})
EntriesOf(t, ks) == [i \in DOMAIN ks |-> IdxEntry(t, rows[ks[i]].val, ks[i])]

\* Faulty variant of CreateIndex: the index is registered after the scan.
CreateIndexLate(c, t) ==
  /\ t \notin indices
  /\ \/ /\ Idle(c)
        /\ table' = [table EXCEPT ![c] = t]
        /\ \E ks \in Scans(t) : pending' = [pending EXCEPT ![c] = EntriesOf(t, ks)]
        /\ Goto(c, "late")
        /\ UNCHANGED indices
     \/ /\ pc[c] = "late" /\ table[c] = t
        /\ indices' = indices \cup {t}
        /\ Goto(c, "build")
        /\ UNCHANGED <<table, pending>>
  /\ UNCHANGED <<schemas, rows, idx, queue, tree_cat, tree_idx, tx, next_id, left, key, todo, seen,
                 bounds, history>>

CreateIndex(c, t) ==
  /\ Idle(c) /\ t \notin indices
  /\ indices' = indices \cup {t}
  /\ table' = [table EXCEPT ![c] = t]
  /\ Goto(c, "scan")
  /\ UNCHANGED <<schemas, rows, idx, queue, tree_cat, tree_idx, tx, next_id, left, key, pending,
                 todo, seen, bounds, history>>

ScanRows(c) ==
  /\ pc[c] = "scan"
  /\ \E ks \in Scans(table[c]) : pending' = [pending EXCEPT ![c] = EntriesOf(table[c], ks)]
  /\ Goto(c, "build")
  /\ UNCHANGED <<shared, tx, table, next_id, left, key, todo, seen, bounds, history>>

BuildEntry(c) ==
  /\ pc[c] = "build" /\ pending[c] # <<>>
  /\ LET e == Head(pending[c]) IN
     /\ idx' = [idx EXCEPT ![e.entry] = e.key]
     /\ issued' = issued \cup {e}
     /\ \/ /\ queue' = Append(queue, e)
           /\ pending' = [pending EXCEPT ![c] = Tail(@)]
           /\ UNCHANGED <<pc, table, next_id, left, key, todo, seen, exempt>>
        \/ /\ exempt' = exempt \cup {pending[c][i].key : i \in DOMAIN pending[c]}
           /\ Return(c)
           /\ UNCHANGED queue
  /\ UNCHANGED <<schemas, indices, rows, tree_cat, tree_idx, tx, bounds, given, contended, created,
                 shadowed, held>>

BuildDone(c) ==
  /\ pc[c] = "build" /\ pending[c] = <<>>
  /\ Return(c)
  /\ UNCHANGED <<shared, tx, bounds, history>>

-----------------------------------------------------------------------------
\* The drain thread stores an entry in the tree; or a flush takes it to the log, where only
\* a restart finds it.
Drain ==
  /\ queue # <<>>
  /\ queue' = Tail(queue)
  /\ LET e == Head(queue) IN
     \/ /\ e.is = "idx" /\ tree_idx' = [tree_idx EXCEPT ![e.entry] = e.key] /\ UNCHANGED tree_cat
     \/ /\ e.is = "catalog" /\ tree_cat' = e.cat /\ UNCHANGED tree_idx
  /\ UNCHANGED <<schemas, indices, rows, idx, tx, local, bounds, history>>

Log ==
  /\ queue # <<>>
  /\ queue' = Tail(queue)
  /\ UNCHANGED <<schemas, indices, rows, idx, tree_cat, tree_idx, tx, local, bounds, history>>

Next ==
  \/ \E c \in Conns :
       \/ \E t \in Tables : CreateTable(c, t) \/ Collect(c, t) \/ Insert(c, t) \/ CreateIndex(c, t)
       \/ StoreCatalog(c) \/ StoreCatalogFail(c)
       \/ BuildRow(c) \/ IndexRow(c) \/ EnqueueIdx(c) \/ InsertFail(c) \/ WriteBack(c)
       \/ EnqueueCatalog(c)
       \/ Begin(c) \/ Commit(c) \/ Rollback(c) \/ Update(c)
       \/ ScanRows(c) \/ BuildEntry(c) \/ BuildDone(c)
  \/ Drain \/ Log

Spec == Init /\ [][Next]_vars

-----------------------------------------------------------------------------
\* What SELECT ... WHERE column = v returns: with an index entry for v only the row it names,
\* when it has the value, and otherwise whatever the scan finds.
Matches(t, v) == {k \in Key : rows[k] # NoRow /\ rows[k].table = t /\ rows[k].val = v}

Lookup(t, v) ==
  IF idx[IdxKey(t, v)] # NoKey THEN idx[IdxKey(t, v)] ELSE tree_idx[IdxKey(t, v)]

Answer(t, v) ==
  LET k == Lookup(t, v)
  IN IF k # NoKey /\ rows[k] # NoRow THEN {k} \cap Matches(t, v) ELSE Matches(t, v)

SharedType ==
  /\ schemas \in [Tables -> Nat] /\ tree_cat \in [Tables -> Nat] /\ indices \subseteq Tables
  /\ rows \in [Key -> {NoRow} \cup Row]
  /\ idx \in [IdxKeys -> 0..MaxRows] /\ tree_idx \in [IdxKeys -> 0..MaxRows]
  /\ queue \in Seq(IdxEntries \cup CatalogEntries)
TxType ==
  /\ tx \in [Conns -> [open : BOOLEAN, rows : SUBSET [key : Key, row : Row]]]
  /\ \A c \in Conns : /\ ~tx[c].open => tx[c].rows = {}
                      /\ \A r \in tx[c].rows : schemas[r.row.table] # 0
LocalType ==
  /\ pc \in [Conns -> {"idle", "create", "row", "index", "enqueue", "collect", "scan", "build"}]
  /\ table \in [Conns -> Tables \cup {"none"}] /\ next_id \in [Conns -> Nat]
  /\ left \in [Conns -> Seq(Values)] /\ key \in [Conns -> 0..MaxRows]
  /\ pending \in [Conns -> Seq(IdxEntries)]
  /\ todo \in [Conns -> SUBSET Tables] /\ seen \in [Conns -> [Tables -> Nat]]
  /\ \A c \in Conns : pc[c] \in {"row", "index"} => left[c] # <<>>
HistoryType ==
  /\ drawn \in 0..MaxRows /\ creates \in 0..MaxCreates /\ updates \in 0..MaxUpdates
  /\ given \subseteq [table : Tables, id : Nat, key : Key]
  /\ contended \subseteq Tables /\ created \subseteq Tables /\ shadowed \subseteq Tables
  /\ held \subseteq [table : Tables, val : Values, key : Key]
  /\ issued \subseteq IdxEntries /\ exempt \subseteq Key

\* Every variable has its type; the tables of a transaction's rows exist, and an INSERT that
\* builds or indexes a row has a value for it.
TypeOK == SharedType /\ TxType /\ LocalType /\ HistoryType

\* Two rows of a table have the same auto-increment value only if their INSERTs overlapped,
\* an INSERT failed at a full queue, or the table was created again: a transaction's ids, for
\* one, are never given again, whether it commits or not.
UniqueIds ==
  \A r, s \in given : r.table = s.table /\ r.id = s.id /\ r.key # s.key => r.table \in contended

\* A table whose CREATE TABLE was answered stays in the stored catalog, whatever INSERTs and
\* other CREATE TABLEs store later, unless a catalog record collected without it was still on
\* its way when it was stored.
CatalogKept == \A t \in created \ shadowed : tree_cat[t] # 0

\* A query on an indexed value returns all rows that have it, at every moment of CREATE INDEX,
\* INSERT and UPDATE, as long as the value has belonged to one row of the table at most.
IndexComplete ==
  \A t \in Tables, v \in Values :
    (\A g, h \in held : g.table = t /\ g.val = v /\ h.table = t /\ h.val = v => g = h)
      => Answer(t, v) = Matches(t, v)

\* No row falls between CREATE INDEX and INSERT: once the statements on its table are done, a
\* row of an indexed table has an index entry, if it was not inserted in a transaction, updated
\* or refused at a full queue.
IndexCovers ==
  \A t \in indices : (\A c \in Conns : Idle(c) \/ table[c] # t) =>
    \A k \in Key \ exempt : rows[k].table = t => IdxEntry(t, rows[k].val, k) \in issued
=============================================================================
