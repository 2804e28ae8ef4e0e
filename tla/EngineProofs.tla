---------------------------- MODULE EngineProofs ----------------------------
(***************************************************************************)
(* Theorems about the statements and transactions of module Engine, for    *)
(* every number of connections, rows, statements, transactions and         *)
(* evictions.                                                              *)
(***************************************************************************)
EXTENDS Engine, TLAPS

-----------------------------------------------------------------------------
(* Type correctness.  TypeOK alone is not inductive: a statement writes    *)
(* the record it has in hand, adds its number to the row, and a COMMIT     *)
(* takes its rows from the updates of its transaction.                     *)

Updates == UNION {[D -> Record] : D \in SUBSET Keys}
Transaction == [snapshot_version : Int, updates : Updates]

\* The types of what TypeOK leaves open: the map of transactions and the history.
BookType ==
  /\ tx \in [Conns -> Transaction]
  /\ issued \in 0..MaxStatements
  /\ mine \in [Conns -> SUBSET Id] /\ aborted \subseteq Id
  /\ overtaken \in [Conns -> SUBSET Keys]
  /\ stored \subseteq Id \X Keys
  /\ due \in [Conns -> SUBSET (Id \X Keys)]

(* Where a connection is in its statement.  A statement has a number, a    *)
(* COMMIT has a transaction and works on its updates, only a COMMIT or a   *)
(* statement outside transactions has a record in hand.                    *)
ControlInv ==
  \A c \in Conns :
    /\ pc[c] = "idle" <=> kind[c] = "none"
    /\ id[c] = 0 <=> kind[c] \in {"none", "commit"}
    /\ pc[c] \in {"validate", "commit"} => kind[c] = "commit"
    /\ kind[c] = "commit" => /\ pc[c] \in {"validate", "commit", "enqueue"}
                             /\ InTx(c) /\ todo[c] \subseteq DOMAIN tx[c].updates
    /\ InTx(c) => pc[c] \notin {"version", "install"} /\ (pc[c] = "enqueue" => kind[c] = "commit")
    /\ pc[c] \in {"version", "install", "enqueue"} => row[c] \in Keys /\ rec[c] \in Record

TypeInv == TypeOK /\ BookType /\ ControlInv

\* A record is a slot, and the empty slot is none.
LEMMA Records ==
  /\ NoRecord \notin Record /\ NoRecord \in Slot /\ Loaded \in Record
  /\ \A r \in Slot : r # NoRecord => r \in Record
  /\ \A r \in Record : r \in Slot
BY DEF NoRecord, Record, Slot, Loaded

\* A transaction that has buffered nothing.
LEMMA EmptyUpdates == /\ <<>> \in Updates /\ DOMAIN <<>> = {}
                      /\ NoTx \in Transaction /\ DOMAIN NoTx.updates = {}
<1>1. DOMAIN <<>> = {} /\ <<>> \in [{} -> Record]
  OBVIOUS
<1>2. <<>> \in Updates
  BY <1>1 DEF Updates
<1> QED BY <1>1, <1>2 DEF NoTx, Transaction

\* The updates of a transaction with one more record.
LEMMA UpdatedType ==
  ASSUME NEW updates \in Updates, NEW k \in Keys, NEW r \in Record
  PROVE  /\ Updated(updates, k, r) \in Updates
         /\ DOMAIN Updated(updates, k, r) = DOMAIN updates \cup {k}
         /\ \A x \in DOMAIN updates \cup {k} :
              Updated(updates, k, r)[x] = IF x = k THEN r ELSE updates[x]
<1>1. PICK D \in SUBSET Keys : updates \in [D -> Record]
  BY DEF Updates
<1>2. Updated(updates, k, r) \in [D \cup {k} -> Record]
  BY <1>1 DEF Updated
<1>3. Updated(updates, k, r) \in Updates
  BY <1>2 DEF Updates
<1> QED BY <1>1, <1>3 DEF Updated

\* What a transaction has buffered.
LEMMA UpdatesType ==
  ASSUME NEW updates \in Updates
  PROVE  DOMAIN updates \subseteq Keys /\ \A k \in DOMAIN updates : updates[k] \in Record
BY DEF Updates

\* The record a statement makes of the one it read.
LEMMA ChangedType ==
  ASSUME TypeInv, NEW c \in Conns, NEW r \in Record, id[c] # 0
  PROVE  Changed(c, r) \in Record /\ r.set \subseteq Changed(c, r).set
         /\ Changed(c, r).set \subseteq r.set \cup {id[c]}
<1>1. id[c] \in Id /\ ver[c] + 1 \in Nat
  BY DEF TypeInv, TypeOK, LocalType, DataType, Id
<1> QED BY <1>1 DEF Changed, Record

\* The record a statement finds under a key.
LEMMA CurrentType ==
  ASSUME TypeInv, NEW k \in Keys
  PROVE  Current(k) \in Slot /\ (Current(k) # NoRecord => Current(k) \in Record)
BY Records DEF TypeInv, TypeOK, DataType, Current

\* The head and the tail of a sequence that is not empty.
LEMMA HeadTail ==
  ASSUME NEW S, NEW s \in Seq(S), s # <<>>
  PROVE  /\ Head(s) \in S /\ Tail(s) \in Seq(S) /\ Head(s) = s[1]
         /\ 1 \in DOMAIN s /\ \A i \in DOMAIN Tail(s) : i + 1 \in DOMAIN s /\ Tail(s)[i] = s[i + 1]
OBVIOUS

\* What is on the queue.
LEMMA QueueElements ==
  ASSUME TypeInv
  PROVE  \A i \in DOMAIN queue : queue[i].key \in Keys /\ queue[i].rec \in Record
<1> DEFINE Item == [key : Keys, rec : Record]
<1>1. queue \in Seq(Item)
  BY DEF TypeInv, TypeOK, DataType
<1> HIDE DEF Item
<1>2. \A i \in DOMAIN queue : queue[i] \in Item
  BY <1>1
<1> USE DEF Item
<1> QED BY <1>2

\* The connection's transaction ends.
LEMMA TxEnds ==
  ASSUME TypeInv, NEW c \in Conns, tx' = [tx EXCEPT ![c] = NoTx], current_version' = current_version
  PROVE  TxType' /\ tx' \in [Conns -> Transaction]
BY EmptyUpdates DEF TypeInv, TypeOK, TxType, BookType

\* The connection's transaction gets an update of row k.
LEMMA TxUpdated ==
  ASSUME TypeInv, NEW c \in Conns, NEW k \in Keys, NEW r \in Record, InTx(c),
         tx' = [tx EXCEPT ![c].updates = Updated(@, k, r)], current_version' = current_version
  PROVE  /\ TxType' /\ tx' \in [Conns -> Transaction]
         /\ \A d \in Conns : d # c => tx'[d] = tx[d]
         /\ InTx(c)' /\ tx'[c].snapshot_version = tx[c].snapshot_version
         /\ DOMAIN tx'[c].updates = DOMAIN tx[c].updates \cup {k}
         /\ tx'[c].updates[k].set = r.set
         /\ \A x \in DOMAIN tx[c].updates \ {k} : tx'[c].updates[x] = tx[c].updates[x]
<1> DEFINE new == Updated(tx[c].updates, k, r)
<1>1. tx[c] \in Transaction /\ tx[c].updates \in Updates /\ tx[c].snapshot_version \in 0..current_version
  BY DEF TypeInv, TypeOK, TxType, BookType, Transaction, InTx
<1>2. /\ new \in Updates /\ DOMAIN new = DOMAIN tx[c].updates \cup {k}
      /\ \A x \in DOMAIN tx[c].updates \cup {k} : new[x] = IF x = k THEN r ELSE tx[c].updates[x]
  <2>1. new \in Updates
    BY <1>1, UpdatedType
  <2> QED BY <2>1 DEF Updated
<1>3. DOMAIN new \subseteq Keys /\ \A x \in DOMAIN new : new[x] \in Record
  BY <1>2, UpdatesType
<1>4. tx' = [tx EXCEPT ![c] = [@ EXCEPT !.updates = new]]
  OBVIOUS
<1> HIDE DEF new
<1>5. [tx[c] EXCEPT !.updates = new] \in Transaction
  BY <1>1, <1>2 DEF Transaction
<1>6. tx' \in [Conns -> Transaction]
  BY <1>4, <1>5 DEF TypeInv, BookType
<1>7. tx'[c] = [tx[c] EXCEPT !.updates = new] /\ \A d \in Conns : d # c => tx'[d] = tx[d]
  BY <1>4 DEF TypeInv, BookType
<1>8. tx'[c].updates = new /\ tx'[c].snapshot_version = tx[c].snapshot_version
  BY <1>1, <1>7 DEF Transaction
<1>9. TxType'
  BY <1>1, <1>3, <1>7, <1>8 DEF TypeInv, TypeOK, TxType
<1>10. InTx(c)'
  BY <1>1, <1>8 DEF InTx, NoTx, TypeInv, TypeOK, DataType
<1> QED BY <1>2, <1>6, <1>7, <1>8, <1>9, <1>10

\* The record in hand gets a version.
LEMMA Versioned ==
  ASSUME NEW r \in Record, NEW v \in Nat
  PROVE  /\ [r EXCEPT !.version = v] \in Record
         /\ [r EXCEPT !.version = v].set = r.set /\ [r EXCEPT !.version = v].version = v
BY DEF Record

\* BEGIN takes its snapshot.
LEMMA BeginTypes ==
  ASSUME TypeInv, NEW c \in Conns, Begin(c)
  PROVE  TypeInv'
<1> USE Records, EmptyUpdates, EngineAssumption DEF TypeInv, TypeOK, Begin, Goto, data, local, bounds, history
<1>1. DataType'
  BY DEF DataType
<1>2. TxType' /\ tx' \in [Conns -> Transaction]
  <2>1. [snapshot_version |-> current_version, updates |-> <<>>] \in Transaction
    BY DEF Transaction, DataType
  <2> QED BY <2>1 DEF TxType, DataType, BookType
<1>3. LocalType'
  BY DEF LocalType, DataType, TxType, InTx
<1>4. BookType'
  BY <1>2 DEF BookType, Id
<1>5. ControlInv'
  BY DEF ControlInv, LocalType, BookType, InTx
<1> QED BY <1>1, <1>2, <1>3, <1>4, <1>5

\* ROLLBACK drops the updates.
LEMMA RollbackTypes ==
  ASSUME TypeInv, NEW c \in Conns, Rollback(c)
  PROVE  TypeInv'
<1> USE Records, EmptyUpdates, EngineAssumption DEF TypeInv, TypeOK, Rollback, EndTx, Goto, data, local, bounds, history
<1>1. DataType'
  BY DEF DataType
<1>2. TxType' /\ tx' \in [Conns -> Transaction]
  BY DEF TxType, DataType, BookType
<1>3. LocalType'
  BY DEF LocalType, DataType, TxType, InTx
<1>4. BookType'
  BY <1>2 DEF BookType, Id
<1>5. ControlInv'
  BY DEF ControlInv, LocalType, BookType, InTx
<1> QED BY <1>1, <1>2, <1>3, <1>4, <1>5

\* COMMIT begins to validate.
LEMMA CommitTypes ==
  ASSUME TypeInv, NEW c \in Conns, Commit(c)
  PROVE  TypeInv'
<1> USE Records, EmptyUpdates, EngineAssumption DEF TypeInv, TypeOK, Commit, Goto, data, local, bounds, history
<1>1. DataType'
  BY DEF DataType
<1>2. TxType' /\ tx' \in [Conns -> Transaction]
  BY DEF TxType, DataType, BookType
<1>3. LocalType'
  BY DEF LocalType, DataType, TxType, InTx
<1>4. BookType'
  BY <1>2 DEF BookType, Id
<1>5. ControlInv'
  BY DEF ControlInv, LocalType, BookType, InTx
<1> QED BY <1>1, <1>2, <1>3, <1>4, <1>5

\* INSERT in a transaction buffers its row.
LEMMA InsertInTxTypes ==
  ASSUME TypeInv, NEW c \in Conns, NEW k \in Keys, InsertInTx(c, k)
  PROVE  TypeInv'
<1> USE Records, EmptyUpdates, EngineAssumption DEF TypeInv, TypeOK, InsertInTx, Issue, Goto, data, local, bounds, history
<1>1. DataType'
  BY DEF DataType
<1>2. TxType' /\ tx' \in [Conns -> Transaction]
  <2>1. [set |-> {issued + 1}, version |-> current_version, is_deleted |-> FALSE] \in Record
    BY DEF BookType, DataType, Record, Id
  <2> QED BY <2>1, TxUpdated
<1>3. LocalType'
  BY DEF LocalType, DataType, TxType, InTx
<1>4. BookType'
  BY <1>2 DEF BookType, Id
<1>5. ControlInv'
  BY DEF ControlInv, LocalType, BookType, InTx
<1> QED BY <1>1, <1>2, <1>3, <1>4, <1>5

\* INSERT outside one takes its key.
LEMMA InsertTypes ==
  ASSUME TypeInv, NEW c \in Conns, NEW k \in Keys, Insert(c, k)
  PROVE  TypeInv'
<1> USE Records, EmptyUpdates, EngineAssumption DEF TypeInv, TypeOK, Insert, Issue, Goto, data, local, bounds, history
<1>1. DataType'
  BY DEF DataType
<1>2. TxType' /\ tx' \in [Conns -> Transaction]
  BY DEF TxType, DataType, BookType
<1>3. LocalType'
  <2>1. [set |-> {issued + 1}, version |-> current_version, is_deleted |-> FALSE] \in Record
    BY DEF BookType, DataType, Record, Id
  <2>2. issued + 1 \in 0..MaxStatements
    BY DEF BookType
  <2> QED BY <2>1, <2>2 DEF LocalType, DataType
<1>4. BookType'
  BY <1>2 DEF BookType, Id
<1>5. ControlInv'
  <2>1. [set |-> {issued + 1}, version |-> current_version, is_deleted |-> FALSE] \in Record
    BY DEF BookType, DataType, Record, Id
  <2>2. issued + 1 # 0
    BY DEF BookType
  <2> QED BY <2>1, <2>2 DEF ControlInv, LocalType, BookType, InTx
<1> QED BY <1>1, <1>2, <1>3, <1>4, <1>5

\* SELECT, UPDATE and DELETE begin their scan.
LEMMA ScanTypes ==
  ASSUME TypeInv, NEW c \in Conns, NEW s \in {"update", "delete", "select"}, Scan(c, s)
  PROVE  TypeInv'
<1> USE Records, EmptyUpdates, EngineAssumption DEF TypeInv, TypeOK, Scan, Issue, Goto, data, local, bounds, history
<1>1. DataType'
  BY DEF DataType
<1>2. TxType' /\ tx' \in [Conns -> Transaction]
  BY DEF TxType, DataType, BookType
<1>3. LocalType'
  <2>1. issued + 1 \in 0..MaxStatements
    BY DEF BookType
  <2>2. ver'[c] \in 0..current_version
    BY DEF LocalType, DataType, TxType, InTx
  <2> QED BY <2>1, <2>2 DEF LocalType
<1>4. BookType'
  BY <1>2 DEF BookType, Id
<1>5. ControlInv'
  BY DEF ControlInv, LocalType, BookType, InTx
<1> QED BY <1>1, <1>2, <1>3, <1>4, <1>5

\* The scan reads a key of the memory tier.
LEMMA ScanCacheTypes ==
  ASSUME TypeInv, NEW c \in Conns, NEW k \in Keys, ScanCache(c, k)
  PROVE  TypeInv'
<1> USE Records, EmptyUpdates, EngineAssumption DEF TypeInv, TypeOK, ScanCache, Goto, data, local, bounds, history
<1>1. DataType'
  BY DEF DataType
<1>2. TxType' /\ tx' \in [Conns -> Transaction]
  BY DEF TxType, DataType, BookType
<1>3. LocalType'
  BY DEF LocalType, DataType, TxType, InTx
<1>4. BookType'
  BY <1>2 DEF BookType, Id
<1>5. ControlInv'
  BY DEF ControlInv, LocalType, BookType, InTx
<1> QED BY <1>1, <1>2, <1>3, <1>4, <1>5

\* The scan reads the tree.
LEMMA ScanTreeTypes ==
  ASSUME TypeInv, NEW c \in Conns, ScanTree(c)
  PROVE  TypeInv'
<1> USE Records, EmptyUpdates, EngineAssumption DEF TypeInv, TypeOK, ScanTree, Scanned, Goto, data, local, bounds, history
<1>1. DataType'
  BY DEF DataType
<1>2. TxType' /\ tx' \in [Conns -> Transaction]
  BY DEF TxType, DataType, BookType
<1>3. LocalType'
  BY DEF LocalType, DataType, TxType, InTx
<1>4. BookType'
  BY <1>2 DEF BookType, Id
<1>5. ControlInv'
  BY DEF ControlInv, LocalType, BookType, InTx
<1> QED BY <1>1, <1>2, <1>3, <1>4, <1>5

\* SELECT answers.
LEMMA AnswerTypes ==
  ASSUME TypeInv, NEW c \in Conns, Answer(c)
  PROVE  TypeInv'
<1> USE Records, EmptyUpdates, EngineAssumption DEF TypeInv, TypeOK, Answer, Return, Nothing, Goto, data, local, bounds, history
<1>1. DataType'
  BY DEF DataType
<1>2. TxType' /\ tx' \in [Conns -> Transaction]
  BY DEF TxType, DataType, BookType
<1>3. LocalType'
  BY DEF LocalType, DataType, TxType, InTx
<1>4. BookType'
  BY <1>2 DEF BookType, Id
<1>5. ControlInv'
  BY DEF ControlInv, LocalType, BookType, InTx
<1> QED BY <1>1, <1>2, <1>3, <1>4, <1>5

\* UPDATE and DELETE have their rows.
LEMMA SelectRowsTypes ==
  ASSUME TypeInv, NEW c \in Conns, NEW S \in SUBSET Keys, SelectRows(c, S)
  PROVE  TypeInv'
<1> USE Records, EmptyUpdates, EngineAssumption DEF TypeInv, TypeOK, SelectRows, Nothing, Goto, data, local, bounds, history
<1>1. DataType'
  BY DEF DataType
<1>2. TxType' /\ tx' \in [Conns -> Transaction]
  BY DEF TxType, DataType, BookType
<1>3. LocalType'
  BY DEF LocalType, DataType, TxType, InTx
<1>4. BookType'
  BY <1>2 DEF BookType, Id
<1>5. ControlInv'
  BY DEF ControlInv, LocalType, BookType, InTx
<1> QED BY <1>1, <1>2, <1>3, <1>4, <1>5

\* A row goes to the transaction.
LEMMA BufferRowTypes ==
  ASSUME TypeInv, NEW c \in Conns, NEW k \in Keys, BufferRow(c, k)
  PROVE  TypeInv'
<1> USE Records, EmptyUpdates, EngineAssumption DEF TypeInv, TypeOK, BufferRow, Goto, data, local, bounds, history
<1>1. DataType'
  BY DEF DataType
<1>2. TxType' /\ tx' \in [Conns -> Transaction]
  <2>1. Changed(c, Current(k)) \in Record
    BY CurrentType, ChangedType DEF ControlInv
  <2> QED BY <2>1, TxUpdated
<1>3. LocalType'
  BY DEF LocalType, DataType, TxType, InTx
<1>4. BookType'
  BY <1>2 DEF BookType, Id
<1>5. ControlInv'
  BY DEF ControlInv, LocalType, BookType, InTx
<1> QED BY <1>1, <1>2, <1>3, <1>4, <1>5

\* A row is read again before it is changed.
LEMMA TakeRowTypes ==
  ASSUME TypeInv, NEW c \in Conns, NEW k \in Keys, TakeRow(c, k)
  PROVE  TypeInv'
<1> USE Records, EmptyUpdates, EngineAssumption DEF TypeInv, TypeOK, TakeRow, Goto, data, local, bounds, history
<1>1. DataType'
  BY DEF DataType
<1>2. TxType' /\ tx' \in [Conns -> Transaction]
  BY DEF TxType, DataType, BookType
<1>3. LocalType'
  <2>1. Changed(c, Current(k)) \in Record
    BY CurrentType, ChangedType DEF ControlInv
  <2> QED BY <2>1 DEF LocalType
<1>4. BookType'
  BY <1>2 DEF BookType, Id
<1>5. ControlInv'
  <2>1. Changed(c, Current(k)) \in Record
    BY CurrentType, ChangedType DEF ControlInv
  <2> QED BY <2>1 DEF ControlInv, LocalType, BookType, InTx
<1> QED BY <1>1, <1>2, <1>3, <1>4, <1>5

\* The row is gone.
LEMMA MissingRowTypes ==
  ASSUME TypeInv, NEW c \in Conns, NEW k \in Keys, MissingRow(c, k)
  PROVE  TypeInv'
<1> USE Records, EmptyUpdates, EngineAssumption DEF TypeInv, TypeOK, MissingRow, Return, Nothing, Goto, data, local, bounds, history
<1>1. DataType'
  BY DEF DataType
<1>2. TxType' /\ tx' \in [Conns -> Transaction]
  BY DEF TxType, DataType, BookType
<1>3. LocalType'
  BY DEF LocalType, DataType, TxType, InTx
<1>4. BookType'
  BY <1>2 DEF BookType, Id
<1>5. ControlInv'
  BY DEF ControlInv, LocalType, BookType, InTx
<1> QED BY <1>1, <1>2, <1>3, <1>4, <1>5

\* The row cannot be read.
LEMMA ReadFailTypes ==
  ASSUME TypeInv, NEW c \in Conns, ReadFail(c)
  PROVE  TypeInv'
<1> USE Records, EmptyUpdates, EngineAssumption DEF TypeInv, TypeOK, ReadFail, Return, EndTx, Nothing, Goto, data, local, bounds, history
<1>1. DataType'
  BY DEF DataType
<1>2. TxType' /\ tx' \in [Conns -> Transaction]
  <2>1. CASE kind[c] = "commit"
    BY <2>1, TxEnds
  <2>2. CASE kind[c] # "commit"
    BY <2>2 DEF TxType, DataType, BookType
  <2> QED BY <2>1, <2>2
<1>3. LocalType'
  BY DEF LocalType, DataType, TxType, InTx
<1>4. BookType'
  BY <1>2 DEF BookType, Id
<1>5. ControlInv'
  BY DEF ControlInv, LocalType, BookType, InTx
<1> QED BY <1>1, <1>2, <1>3, <1>4, <1>5

\* The record in hand gets its version.
LEMMA NewVersionTypes ==
  ASSUME TypeInv, NEW c \in Conns, NewVersion(c)
  PROVE  TypeInv'
<1> USE Records, EmptyUpdates, EngineAssumption DEF TypeInv, TypeOK, NewVersion, Goto, data, local, bounds, history
<1>1. DataType'
  BY DEF DataType
<1>2. TxType' /\ tx' \in [Conns -> Transaction]
  BY DEF TxType, DataType, BookType
<1>3. LocalType'
  <2>0. rec[c] \in Record /\ current_version + 1 \in Nat
    BY DEF ControlInv, DataType
  <2>1. [rec[c] EXCEPT !.version = current_version + 1] \in Record
    BY ONLY <2>0, Versioned
  <2>2. rec' = [rec EXCEPT ![c] = [rec[c] EXCEPT !.version = current_version + 1]]
    OBVIOUS
  <2>3. rec' \in [Conns -> Slot]
    BY <2>1, <2>2 DEF LocalType
  <2>4. \A d \in Conns : ver[d] \in 0..current_version + 1
    BY DEF LocalType, DataType
  <2>5. ver' \in [Conns -> 0..current_version']
    BY <2>4 DEF LocalType
  <2> QED BY <2>3, <2>5 DEF LocalType
<1>4. BookType'
  BY <1>2 DEF BookType, Id
<1>5. ControlInv'
  <2>0. rec[c] \in Record /\ current_version + 1 \in Nat
    BY DEF ControlInv, DataType
  <2>1. [rec[c] EXCEPT !.version = current_version + 1] \in Record
    BY ONLY <2>0, Versioned
  <2>2. rec' = [rec EXCEPT ![c] = [rec[c] EXCEPT !.version = current_version + 1]]
    OBVIOUS
  <2>3. rec'[c] \in Record /\ \A d \in Conns : d # c => rec'[d] = rec[d]
    BY <2>1, <2>2 DEF LocalType
  <2> QED BY <2>3 DEF ControlInv, LocalType, BookType, InTx
<1> QED BY <1>1, <1>2, <1>3, <1>4, <1>5

\* The record goes to the memory tier.
LEMMA InstallTypes ==
  ASSUME TypeInv, NEW c \in Conns, Install(c)
  PROVE  TypeInv'
<1> USE Records, EmptyUpdates, EngineAssumption DEF TypeInv, TypeOK, Install, Put, Goto, data, local, bounds, history
<1>1. DataType'
  <2>1. row[c] \in Keys /\ rec[c] \in Slot
    BY DEF ControlInv
  <2> QED BY <2>1 DEF DataType
<1>2. TxType' /\ tx' \in [Conns -> Transaction]
  BY DEF TxType, DataType, BookType
<1>3. LocalType'
  BY DEF LocalType, DataType, TxType, InTx
<1>4. BookType'
  <2>1. row[c] \in Keys
    BY DEF ControlInv
  <2>2. overtaken' \in [Conns -> SUBSET Keys] /\ due' \in [Conns -> SUBSET (Id \X Keys)]
    BY <2>1 DEF BookType
  <2> QED BY <1>2, <2>2 DEF BookType
<1>5. ControlInv'
  BY DEF ControlInv, LocalType, BookType, InTx
<1> QED BY <1>1, <1>2, <1>3, <1>4, <1>5

\* The record goes to the WAL queue.
LEMMA EnqueueTypes ==
  ASSUME TypeInv, NEW c \in Conns, Enqueue(c)
  PROVE  TypeInv'
<1> USE Records, EmptyUpdates, EngineAssumption DEF TypeInv, TypeOK, Enqueue, Goto, data, local, bounds, history
<1>1. DataType'
  <2>1. [key |-> row[c], rec |-> rec[c]] \in [key : Keys, rec : Record]
    BY DEF ControlInv
  <2> QED BY <2>1 DEF DataType
<1>2. TxType' /\ tx' \in [Conns -> Transaction]
  BY DEF TxType, DataType, BookType
<1>3. LocalType'
  BY DEF LocalType, DataType, TxType, InTx
<1>4. BookType'
  <2>1. row[c] \in Keys /\ rec[c].set \subseteq Id
    BY DEF ControlInv, Record
  <2>2. stored' \subseteq Id \X Keys
    BY <2>1 DEF BookType
  <2>3. overtaken' \in [Conns -> SUBSET Keys]
    BY DEF BookType
  <2> QED BY <1>2, <2>2, <2>3 DEF BookType
<1>5. ControlInv'
  BY DEF ControlInv, LocalType, BookType, InTx
<1> QED BY <1>1, <1>2, <1>3, <1>4, <1>5

\* The queue refuses the record.
LEMMA EnqueueFailTypes ==
  ASSUME TypeInv, NEW c \in Conns, EnqueueFail(c)
  PROVE  TypeInv'
<1> USE Records, EmptyUpdates, EngineAssumption DEF TypeInv, TypeOK, EnqueueFail, Return, EndTx, Nothing, Goto, data, local, bounds, history
<1>1. DataType'
  BY DEF DataType
<1>2. TxType' /\ tx' \in [Conns -> Transaction]
  BY DEF TxType, DataType, BookType
<1>3. LocalType'
  BY DEF LocalType, DataType, TxType, InTx
<1>4. BookType'
  BY <1>2 DEF BookType, Id
<1>5. ControlInv'
  BY DEF ControlInv, LocalType, BookType, InTx
<1> QED BY <1>1, <1>2, <1>3, <1>4, <1>5

\* The statement has no row left.
LEMMA StatementDoneTypes ==
  ASSUME TypeInv, NEW c \in Conns, StatementDone(c)
  PROVE  TypeInv'
<1> USE Records, EmptyUpdates, EngineAssumption DEF TypeInv, TypeOK, StatementDone, Return, Nothing, Goto, data, local, bounds, history
<1>1. DataType'
  BY DEF DataType
<1>2. TxType' /\ tx' \in [Conns -> Transaction]
  BY DEF TxType, DataType, BookType
<1>3. LocalType'
  BY DEF LocalType, DataType, TxType, InTx
<1>4. BookType'
  BY <1>2 DEF BookType, Id
<1>5. ControlInv'
  BY DEF ControlInv, LocalType, BookType, InTx
<1> QED BY <1>1, <1>2, <1>3, <1>4, <1>5

\* COMMIT validates a key.
LEMMA ValidateTypes ==
  ASSUME TypeInv, NEW c \in Conns, NEW k \in Keys, Validate(c, k)
  PROVE  TypeInv'
<1> USE Records, EmptyUpdates, EngineAssumption DEF TypeInv, TypeOK, Validate, Goto, data, local, bounds, history
<1>1. DataType'
  BY DEF DataType
<1>2. TxType' /\ tx' \in [Conns -> Transaction]
  BY DEF TxType, DataType, BookType
<1>3. LocalType'
  BY DEF LocalType, DataType, TxType, InTx
<1>4. BookType'
  BY <1>2 DEF BookType, Id
<1>5. ControlInv'
  BY DEF ControlInv, LocalType, BookType, InTx
<1> QED BY <1>1, <1>2, <1>3, <1>4, <1>5

\* COMMIT finds a conflict.
LEMMA ConflictTypes ==
  ASSUME TypeInv, NEW c \in Conns, NEW k \in Keys, Conflict(c, k)
  PROVE  TypeInv'
<1> USE Records, EmptyUpdates, EngineAssumption DEF TypeInv, TypeOK, Conflict, Return, EndTx, Nothing, Goto, data, local, bounds, history
<1>1. DataType'
  BY DEF DataType
<1>2. TxType' /\ tx' \in [Conns -> Transaction]
  BY DEF TxType, DataType, BookType
<1>3. LocalType'
  BY DEF LocalType, DataType, TxType, InTx
<1>4. BookType'
  BY <1>2 DEF BookType, Id
<1>5. ControlInv'
  BY DEF ControlInv, LocalType, BookType, InTx
<1> QED BY <1>1, <1>2, <1>3, <1>4, <1>5

\* COMMIT draws its version.
LEMMA CommitVersionTypes ==
  ASSUME TypeInv, NEW c \in Conns, CommitVersion(c)
  PROVE  TypeInv'
<1> USE Records, EmptyUpdates, EngineAssumption DEF TypeInv, TypeOK, CommitVersion, Goto, data, local, bounds, history
<1>1. DataType'
  BY DEF DataType
<1>2. TxType' /\ tx' \in [Conns -> Transaction]
  BY DEF TxType, DataType, BookType
<1>3. LocalType'
  <2>1. \A d \in Conns : ver[d] \in 0..current_version + 1
    BY DEF LocalType, DataType
  <2>2. ver' \in [Conns -> 0..current_version']
    BY <2>1 DEF LocalType, DataType
  <2>3. DOMAIN tx[c].updates \subseteq Keys
    BY UpdatesType DEF BookType, Transaction
  <2> QED BY <2>2, <2>3 DEF LocalType
<1>4. BookType'
  BY <1>2 DEF BookType, Id
<1>5. ControlInv'
  BY DEF ControlInv, LocalType, BookType, InTx
<1> QED BY <1>1, <1>2, <1>3, <1>4, <1>5

\* COMMIT installs a row.
LEMMA CommitRowTypes ==
  ASSUME TypeInv, NEW c \in Conns, NEW k \in Keys, CommitRow(c, k)
  PROVE  TypeInv'
<1> USE Records, EmptyUpdates, EngineAssumption DEF TypeInv, TypeOK, CommitRow, Put, Goto, data, local, bounds, history
<1>0. [tx[c].updates[k] EXCEPT !.version = ver[c]] \in Record
  <2>1. tx[c].updates[k] \in Record
    BY UpdatesType DEF BookType, Transaction, ControlInv
  <2>2. ver[c] \in Nat
    BY DEF LocalType, DataType
  <2> QED BY <2>1, <2>2, Versioned
<1>1. DataType'
  BY <1>0 DEF DataType
<1>2. TxType' /\ tx' \in [Conns -> Transaction]
  BY DEF TxType, DataType, BookType
<1>3. LocalType'
  BY <1>0 DEF LocalType
<1>4. BookType'
  BY <1>2 DEF BookType, Id
<1>5. ControlInv'
  BY <1>0 DEF ControlInv, LocalType, BookType, InTx
<1> QED BY <1>1, <1>2, <1>3, <1>4, <1>5

\* COMMIT has no row left.
LEMMA CommitDoneTypes ==
  ASSUME TypeInv, NEW c \in Conns, CommitDone(c)
  PROVE  TypeInv'
<1> USE Records, EmptyUpdates, EngineAssumption DEF TypeInv, TypeOK, CommitDone, Return, EndTx, Nothing, Goto, data, local, bounds, history
<1>1. DataType'
  BY DEF DataType
<1>2. TxType' /\ tx' \in [Conns -> Transaction]
  BY DEF TxType, DataType, BookType
<1>3. LocalType'
  BY DEF LocalType, DataType, TxType, InTx
<1>4. BookType'
  BY <1>2 DEF BookType, Id
<1>5. ControlInv'
  BY DEF ControlInv, LocalType, BookType, InTx
<1> QED BY <1>1, <1>2, <1>3, <1>4, <1>5

\* The drain thread stores a record.
LEMMA DrainRowTypes ==
  ASSUME TypeInv, DrainRow
  PROVE  TypeInv'
<1> USE Records, EmptyUpdates, EngineAssumption DEF TypeInv, TypeOK, DrainRow, Goto, data, local, bounds, history
<1>1. DataType'
  <2> DEFINE Item == [key : Keys, rec : Record]
  <2>1. queue \in Seq(Item) /\ queue # <<>>
    BY DEF DataType
  <2>2. Head(queue) \in Item /\ Tail(queue) \in Seq(Item)
    BY <2>1, HeadTail
  <2>3. Head(queue).key \in Keys /\ Head(queue).rec \in Slot
    BY <2>2
  <2> QED BY <2>2, <2>3 DEF DataType
<1>2. TxType' /\ tx' \in [Conns -> Transaction]
  BY DEF TxType, DataType, BookType
<1>3. LocalType'
  BY DEF LocalType, DataType, TxType, InTx
<1>4. BookType'
  BY <1>2 DEF BookType, Id
<1>5. ControlInv'
  BY DEF ControlInv, LocalType, BookType, InTx
<1> QED BY <1>1, <1>2, <1>3, <1>4, <1>5

\* A flush takes a record to the log.
LEMMA LogRowTypes ==
  ASSUME TypeInv, LogRow
  PROVE  TypeInv'
<1> USE Records, EmptyUpdates, EngineAssumption DEF TypeInv, TypeOK, LogRow, Goto, data, local, bounds, history
<1>1. DataType'
  BY DEF DataType
<1>2. TxType' /\ tx' \in [Conns -> Transaction]
  BY DEF TxType, DataType, BookType
<1>3. LocalType'
  BY DEF LocalType, DataType, TxType, InTx
<1>4. BookType'
  BY <1>2 DEF BookType, Id
<1>5. ControlInv'
  BY DEF ControlInv, LocalType, BookType, InTx
<1> QED BY <1>1, <1>2, <1>3, <1>4, <1>5

\* The memory tier drops a record.
LEMMA EvictTypes ==
  ASSUME TypeInv, NEW k \in Keys, Evict(k)
  PROVE  TypeInv'
<1> USE Records, EmptyUpdates, EngineAssumption DEF TypeInv, TypeOK, Evict, Goto, data, local, bounds, history
<1>1. DataType'
  BY DEF DataType
<1>2. TxType' /\ tx' \in [Conns -> Transaction]
  BY DEF TxType, DataType, BookType
<1>3. LocalType'
  BY DEF LocalType, DataType, TxType, InTx
<1>4. BookType'
  BY <1>2 DEF BookType, Id
<1>5. ControlInv'
  BY DEF ControlInv, LocalType, BookType, InTx
<1> QED BY <1>1, <1>2, <1>3, <1>4, <1>5

\* The first state.
LEMMA InitTypes == Init => TypeInv
<1> SUFFICES ASSUME Init PROVE TypeInv
  OBVIOUS
<1> USE Records, EmptyUpdates, EngineAssumption DEF Init
<1>1. TypeOK
  <2>1. DataType
    BY DEF DataType
  <2>2. TxType
    BY DEF TxType
  <2>3. LocalType
    BY DEF LocalType, Nothing
  <2> QED BY <2>1, <2>2, <2>3 DEF TypeOK
<1>2. BookType
  BY DEF BookType, Id
<1>3. ControlInv
  BY DEF ControlInv, InTx
<1> QED BY <1>1, <1>2, <1>3 DEF TypeInv

\* Every step.
LEMMA NextTypes == ASSUME TypeInv, [Next]_vars PROVE TypeInv'
<1>1. ASSUME NEW c \in Conns, Step(c) PROVE TypeInv'
  BY <1>1, BeginTypes, RollbackTypes, CommitTypes, InsertInTxTypes, InsertTypes, ScanTypes,
     ScanCacheTypes, ScanTreeTypes, AnswerTypes, SelectRowsTypes, BufferRowTypes, TakeRowTypes,
     MissingRowTypes, ReadFailTypes, NewVersionTypes, InstallTypes, EnqueueTypes,
     EnqueueFailTypes, StatementDoneTypes, ValidateTypes, ConflictTypes, CommitVersionTypes,
     CommitRowTypes, CommitDoneTypes DEF Step
<1>2. CASE DrainRow \/ LogRow
  BY <1>2, DrainRowTypes, LogRowTypes
<1>3. CASE \E k \in Keys : Evict(k)
  BY <1>3, EvictTypes
<1>4. CASE UNCHANGED vars
  BY <1>4 DEF TypeInv, TypeOK, DataType, TxType, LocalType, BookType, ControlInv, InTx,
              vars, data, local, bounds, history
<1> QED BY <1>1, <1>2, <1>3, <1>4 DEF Next

(* Every variable has its type, a scan or transaction works at a version   *)
(* that was drawn, and every record on its way to the cache, the queue or  *)
(* the tree is a whole record of a row (engine.rs).                        *)
THEOREM TypeCorrect == Spec => []TypeOK
<1>1. TypeInv => TypeOK
  BY DEF TypeInv
<1>2. Spec => []TypeInv
  BY InitTypes, NextTypes, PTL DEF Spec
<1> QED BY <1>1, <1>2, PTL

-----------------------------------------------------------------------------
(* Versions.  Besides the records that are stored, the records in hand     *)
(* have to be bounded, from the moment their version is drawn.             *)

VersionInv ==
  /\ \A k \in Keys : cache[k].version <= current_version /\ tree[k].version <= current_version
  /\ \A i \in DOMAIN queue : queue[i].rec.version <= current_version
  /\ \A c \in Conns : pc[c] \in {"install", "enqueue"} => rec[c].version <= current_version

\* Steps that write no record and take none in hand.
LEMMA VersionFrame ==
  ASSUME VersionInv, UNCHANGED data,
         \A c \in Conns : pc'[c] \in {"install", "enqueue"} =>
                            pc[c] \in {"install", "enqueue"} /\ rec'[c] = rec[c]
  PROVE  VersionInv'
BY DEF VersionInv, data

\* Versions are integers.
LEMMA VersionTypes ==
  ASSUME TypeInv
  PROVE  /\ current_version \in Nat
         /\ \A k \in Keys : cache[k].version \in Int /\ tree[k].version \in Int
         /\ \A i \in DOMAIN queue : queue[i].rec.version \in Int
         /\ \A c \in Conns : rec[c].version \in Int
<1>1. \A r \in Slot : r.version \in Int
  BY DEF Slot, Record, NoRecord
<1>2. \A i \in DOMAIN queue : queue[i].rec \in Slot
  BY QueueElements, Records
<1> QED BY <1>1, <1>2 DEF TypeInv, TypeOK, DataType, LocalType

\* Every step keeps the versions below the counter.
LEMMA NextVersions == ASSUME TypeInv, VersionInv, [Next]_vars PROVE VersionInv'
<1> USE DEF TypeInv, TypeOK, LocalType, Goto
<1>1. ASSUME NEW c \in Conns, Begin(c) PROVE VersionInv'
  BY <1>1, VersionFrame DEF Begin, local
<1>2. ASSUME NEW c \in Conns, Rollback(c) PROVE VersionInv'
  BY <1>2, VersionFrame DEF Rollback, local
<1>3. ASSUME NEW c \in Conns, Commit(c) PROVE VersionInv'
  BY <1>3, VersionFrame DEF Commit
<1>4. ASSUME NEW c \in Conns, NEW k \in Keys, InsertInTx(c, k) PROVE VersionInv'
  BY <1>4, VersionFrame DEF InsertInTx, Issue, local
<1>5. ASSUME NEW c \in Conns, NEW k \in Keys, Insert(c, k) PROVE VersionInv'
  BY <1>5 DEF VersionInv, DataType, Insert, Issue, data
<1>6. ASSUME NEW c \in Conns, NEW s \in {"update", "delete", "select"}, Scan(c, s) PROVE VersionInv'
  BY <1>6, VersionFrame DEF Scan, Issue
<1>7. ASSUME NEW c \in Conns, NEW k \in Keys, ScanCache(c, k) PROVE VersionInv'
  BY <1>7, VersionFrame DEF ScanCache
<1>8. ASSUME NEW c \in Conns, ScanTree(c) PROVE VersionInv'
  BY <1>8, VersionFrame DEF ScanTree
<1>9. ASSUME NEW c \in Conns, Answer(c) PROVE VersionInv'
  BY <1>9, VersionFrame DEF Answer, Return
<1>10. ASSUME NEW c \in Conns, NEW S \in SUBSET Keys, SelectRows(c, S) PROVE VersionInv'
  BY <1>10, VersionFrame DEF SelectRows
<1>11. ASSUME NEW c \in Conns, NEW k \in Keys, BufferRow(c, k) PROVE VersionInv'
  BY <1>11, VersionFrame DEF BufferRow
<1>12. ASSUME NEW c \in Conns, NEW k \in Keys, TakeRow(c, k) PROVE VersionInv'
  BY <1>12, VersionFrame DEF TakeRow
<1>13. ASSUME NEW c \in Conns, NEW k \in Keys, MissingRow(c, k) PROVE VersionInv'
  BY <1>13, VersionFrame DEF MissingRow, Return
<1>14. ASSUME NEW c \in Conns, ReadFail(c) PROVE VersionInv'
  BY <1>14, VersionFrame DEF ReadFail, Return
<1>15. ASSUME NEW c \in Conns, NewVersion(c) PROVE VersionInv'
  <2>1. \A d \in Conns : d # c => pc'[d] = pc[d] /\ rec'[d] = rec[d]
    BY <1>15 DEF NewVersion
  <2>2. rec[c] \in Record
    BY <1>15 DEF NewVersion, ControlInv
  <2>3. rec'[c].version = current_version + 1
    BY <1>15, <2>2 DEF NewVersion, Record
  <2> QED BY <1>15, <2>1, <2>3, VersionTypes DEF VersionInv, NewVersion
<1>16. ASSUME NEW c \in Conns, Install(c) PROVE VersionInv'
  BY <1>16 DEF VersionInv, DataType, Install, Put, data
<1>17. ASSUME NEW c \in Conns, Enqueue(c) PROVE VersionInv'
  BY <1>17 DEF VersionInv, DataType, Enqueue, data
<1>18. ASSUME NEW c \in Conns, EnqueueFail(c) PROVE VersionInv'
  BY <1>18, VersionFrame DEF EnqueueFail, Return
<1>19. ASSUME NEW c \in Conns, StatementDone(c) PROVE VersionInv'
  BY <1>19, VersionFrame DEF StatementDone, Return
<1>20. ASSUME NEW c \in Conns, NEW k \in Keys, Validate(c, k) PROVE VersionInv'
  BY <1>20, VersionFrame DEF Validate
<1>21. ASSUME NEW c \in Conns, NEW k \in Keys, Conflict(c, k) PROVE VersionInv'
  BY <1>21, VersionFrame DEF Conflict, Return
<1>22. ASSUME NEW c \in Conns, CommitVersion(c) PROVE VersionInv'
  BY <1>22, VersionTypes DEF VersionInv, CommitVersion
<1>23. ASSUME NEW c \in Conns, NEW k \in Keys, CommitRow(c, k) PROVE VersionInv'
  BY <1>23 DEF VersionInv, DataType, CommitRow, Put, data
<1>24. ASSUME NEW c \in Conns, CommitDone(c) PROVE VersionInv'
  BY <1>24, VersionFrame DEF CommitDone, Return
<1>25. CASE DrainRow
  <2>1. Head(queue) = queue[1] /\ 1 \in DOMAIN queue
        /\ \A i \in DOMAIN Tail(queue) : i + 1 \in DOMAIN queue /\ Tail(queue)[i] = queue[i + 1]
    BY <1>25, HeadTail DEF DrainRow, DataType
  <2> QED BY <1>25, <2>1 DEF VersionInv, DataType, DrainRow, local
<1>26. CASE LogRow
  <2>1. \A i \in DOMAIN Tail(queue) : i + 1 \in DOMAIN queue /\ Tail(queue)[i] = queue[i + 1]
    BY <1>26, HeadTail DEF LogRow, DataType
  <2> QED BY <1>26, <2>1 DEF VersionInv, DataType, LogRow, local
<1>27. ASSUME NEW k \in Keys, Evict(k) PROVE VersionInv'
  BY <1>27 DEF VersionInv, DataType, Evict, NoRecord, local
<1>28. CASE UNCHANGED vars
  BY <1>28, VersionFrame DEF vars, local
<1> QED BY <1>1, <1>2, <1>3, <1>4, <1>5, <1>6, <1>7, <1>8, <1>9, <1>10, <1>11, <1>12, <1>13, <1>14, <1>15, <1>16, <1>17, <1>18, <1>19, <1>20, <1>21, <1>22, <1>23, <1>24, <1>25, <1>26, <1>27, <1>28 DEF Next, Step

\* The first state.
LEMMA InitVersions == Init => VersionInv
BY DEF Init, VersionInv, NoRecord, Loaded

(* No record of the cache, the queue or the tree is from the future: the   *)
(* counter is advanced before the record is installed, so that a scan at   *)
(* the current version sees every row (engine.rs fetch_add).               *)
THEOREM VersionsDrawnAlways == Spec => []VersionsDrawn
<1>1. VersionInv => VersionsDrawn
  BY DEF VersionInv, VersionsDrawn, Everywhere
<1>2. Spec => [](TypeInv /\ VersionInv)
  BY InitTypes, NextTypes, InitVersions, NextVersions, PTL DEF Spec
<1> QED BY <1>1, <1>2, PTL

-----------------------------------------------------------------------------
(* Data of transactions that end without a COMMIT.  NoAbortedData speaks   *)
(* of statements that were aborted; what keeps it true is that the         *)
(* statements of a transaction are hidden until its COMMIT has passed      *)
(* validation, from where on it cannot abort any more.                     *)

\* The COMMIT of the connection has passed validation and installs its rows.
Installing(c) == kind[c] = "commit" /\ pc[c] \in {"commit", "enqueue"}

\* The statements whose effects a record outside of transactions may have.
Shown == {u \in 1..issued : u \notin aborted /\ \A d \in Conns : u \in mine[d] => Installing(d)}

(* A statement belongs to one transaction at most, and to none that was    *)
(* aborted before; the number of a running statement is shown, or is one   *)
(* of the connection's transaction.                                        *)
OwnInv ==
  /\ aborted \subseteq 1..issued
  /\ \A c \in Conns : mine[c] \subseteq 1..issued /\ mine[c] \cap aborted = {}
  /\ \A c, d \in Conns : c # d => mine[c] \cap mine[d] = {}
  /\ \A c \in Conns : ~InTx(c) => mine[c] = {} /\ (id[c] # 0 => id[c] \in Shown)
  /\ \A c \in Conns : InTx(c) /\ id[c] # 0 => id[c] \in mine[c]

(* Stored records and records in hand have effects of shown statements     *)
(* only, and the updates of a transaction its own besides.                 *)
ShownInv ==
  /\ \A k \in Keys : cache[k].set \subseteq Shown /\ tree[k].set \subseteq Shown
  /\ \A i \in DOMAIN queue : queue[i].rec.set \subseteq Shown
  /\ \A c \in Conns : pc[c] \in {"version", "install", "enqueue"} => rec[c].set \subseteq Shown
  /\ \A c \in Conns : \A k \in DOMAIN tx[c].updates : tx[c].updates[k].set \subseteq Shown \cup mine[c]

\* A step that begins and ends no statement inside a transaction and no transaction.
LEMMA OwnFrame ==
  ASSUME OwnInv, UNCHANGED <<mine, aborted, issued>>,
         \A d \in Conns : /\ InTx(d)' <=> InTx(d)
                          /\ id'[d] \in {id[d], 0}
                          /\ mine[d] # {} /\ Installing(d) => Installing(d)'
  PROVE  OwnInv' /\ Shown \subseteq Shown'
<1>1. Shown \subseteq Shown'
  BY DEF Shown
<1>2. OwnInv'
  BY <1>1 DEF OwnInv
<1> QED BY <1>1, <1>2

\* A step that ends a transaction before its COMMIT has passed validation.
LEMMA OwnAborts ==
  ASSUME TypeInv, OwnInv, NEW c \in Conns, ~Installing(c), UNCHANGED issued,
         mine' = [mine EXCEPT ![c] = {}], aborted' = aborted \cup mine[c], id'[c] = 0,
         \A d \in Conns \ {c} : tx'[d] = tx[d] /\ pc'[d] = pc[d] /\ kind'[d] = kind[d] /\ id'[d] = id[d]
  PROVE  OwnInv' /\ Shown \subseteq Shown'
<1>0. mine'[c] = {} /\ \A d \in Conns \ {c} : mine'[d] = mine[d]
  BY DEF TypeInv, BookType
<1>1. Shown \subseteq Shown'
  BY <1>0 DEF Shown, Installing
<1>2. OwnInv'
  <2>1. aborted' \subseteq 1..issued'
    BY DEF OwnInv
  <2>2. \A d \in Conns : mine'[d] \subseteq 1..issued' /\ mine'[d] \cap aborted' = {}
    BY <1>0 DEF OwnInv
  <2>3. \A d, e \in Conns : d # e => mine'[d] \cap mine'[e] = {}
    BY <1>0 DEF OwnInv
  <2>4. \A d \in Conns : ~InTx(d)' => mine'[d] = {} /\ (id'[d] # 0 => id'[d] \in Shown')
    BY <1>0, <1>1 DEF OwnInv, InTx
  <2>5. \A d \in Conns : InTx(d)' /\ id'[d] # 0 => id'[d] \in mine'[d]
    BY <1>0 DEF OwnInv, InTx
  <2> QED BY <2>1, <2>2, <2>3, <2>4, <2>5 DEF OwnInv
<1> QED BY <1>1, <1>2

\* A step that ends a COMMIT, or a statement that is not in a transaction.
LEMMA OwnEnds ==
  ASSUME TypeInv, OwnInv, NEW c \in Conns, UNCHANGED <<issued, aborted>>,
         mine' = [mine EXCEPT ![c] = {}], id'[c] = 0,
         \A d \in Conns \ {c} : tx'[d] = tx[d] /\ pc'[d] = pc[d] /\ kind'[d] = kind[d] /\ id'[d] = id[d]
  PROVE  OwnInv' /\ Shown \subseteq Shown'
<1>0. mine'[c] = {} /\ \A d \in Conns \ {c} : mine'[d] = mine[d]
  BY DEF TypeInv, BookType
<1>1. Shown \subseteq Shown'
  BY <1>0 DEF Shown, Installing
<1>2. OwnInv'
  BY <1>0, <1>1 DEF OwnInv, InTx
<1> QED BY <1>1, <1>2

\* A statement gets the next number, which is shown unless it is in a transaction.
LEMMA OwnIssues ==
  ASSUME TypeInv, OwnInv, NEW c \in Conns, UNCHANGED aborted, issued' = issued + 1,
         pc[c] = "idle", id'[c] \in {id[c], issued + 1},
         mine' = IF InTx(c) THEN [mine EXCEPT ![c] = @ \cup {issued + 1}] ELSE mine,
         \A d \in Conns : InTx(d)' <=> InTx(d),
         \A d \in Conns \ {c} : pc'[d] = pc[d] /\ kind'[d] = kind[d] /\ id'[d] = id[d]
  PROVE  OwnInv' /\ Shown \subseteq Shown' /\ (~InTx(c) => issued + 1 \in Shown')
<1>0. issued \in Nat /\ id[c] = 0 /\ ~Installing(c)
  BY DEF TypeInv, BookType, ControlInv, Installing
<1>1. \A d \in Conns : mine'[d] = IF d = c /\ InTx(c) THEN mine[d] \cup {issued + 1} ELSE mine[d]
  BY DEF TypeInv, BookType
<1>2. \A S \in SUBSET (1..issued) : S \subseteq 1..issued' /\ issued + 1 \notin S
  BY <1>0
<1>3. Shown \subseteq Shown'
  BY <1>0, <1>1 DEF Shown, Installing
<1>4. ~InTx(c) => issued + 1 \in Shown'
  <2>1. issued + 1 \in 1..issued' /\ issued + 1 \notin 1..issued
    BY <1>0
  <2> QED BY <1>1, <2>1 DEF Shown, OwnInv
<1>5. OwnInv'
  <2>1. aborted' \subseteq 1..issued' /\ \A d \in Conns : mine'[d] \subseteq 1..issued' /\ mine'[d] \cap aborted' = {}
    BY <1>0, <1>1, <1>2 DEF OwnInv
  <2>2. \A d, e \in Conns : d # e => mine'[d] \cap mine'[e] = {}
    BY <1>0, <1>1, <1>2 DEF OwnInv
  <2>3. \A d \in Conns : ~InTx(d)' => mine'[d] = {} /\ (id'[d] # 0 => id'[d] \in Shown')
    BY <1>0, <1>1, <1>3, <1>4 DEF OwnInv
  <2>4. \A d \in Conns : InTx(d)' /\ id'[d] # 0 => id'[d] \in mine'[d]
    BY <1>0, <1>1 DEF OwnInv
  <2> QED BY <2>1, <2>2, <2>3, <2>4 DEF OwnInv
<1> QED BY <1>3, <1>4, <1>5

\* A step that changes no stored record and puts none in hand.
LEMMA ShownFrame ==
  ASSUME ShownInv, Shown \subseteq Shown', UNCHANGED data,
         \A d \in Conns : pc'[d] \in {"version", "install", "enqueue"} =>
                            pc[d] \in {"version", "install", "enqueue"} /\ rec'[d] = rec[d],
         \A d \in Conns : \/ DOMAIN tx'[d].updates = {}
                          \/ tx'[d].updates = tx[d].updates /\ mine[d] \subseteq mine'[d]
  PROVE  ShownInv'
BY DEF ShownInv, data

\* Every step shows only what it may show.
LEMMA NextShown == ASSUME TypeInv, OwnInv, ShownInv, [Next]_vars PROVE OwnInv' /\ ShownInv'
<1> USE DEF TypeInv, TypeOK, LocalType, BookType, Goto, InTx
<1>1. ASSUME NEW c \in Conns, Begin(c) PROVE OwnInv' /\ ShownInv'
  <2>1. OwnInv' /\ Shown \subseteq Shown'
    BY <1>1, OwnAborts DEF Begin, Installing, ControlInv, local, bounds, history
  <2>2. ShownInv'
    BY <1>1, <2>1, ShownFrame, EmptyUpdates DEF Begin, NoTx, local, bounds, history
  <2> QED BY <2>1, <2>2
<1>2. ASSUME NEW c \in Conns, Rollback(c) PROVE OwnInv' /\ ShownInv'
  <2>1. OwnInv' /\ Shown \subseteq Shown'
    BY <1>2, OwnAborts DEF Rollback, EndTx, Installing, ControlInv, local, bounds, history
  <2>2. ShownInv'
    BY <1>2, <2>1, ShownFrame, EmptyUpdates DEF Rollback, EndTx, NoTx, local, bounds, history
  <2> QED BY <2>1, <2>2
<1>3. ASSUME NEW c \in Conns, Commit(c) PROVE OwnInv' /\ ShownInv'
  <2>1. OwnInv' /\ Shown \subseteq Shown'
    BY <1>3, OwnFrame DEF Commit, Installing, ControlInv, local, bounds, history
  <2>2. ShownInv'
    BY <1>3, <2>1, ShownFrame, EmptyUpdates DEF Commit, NoTx, local, bounds, history
  <2> QED BY <2>1, <2>2
<1>4. ASSUME NEW c \in Conns, NEW k \in Keys, InsertInTx(c, k) PROVE OwnInv' /\ ShownInv'
  <2> DEFINE r == [set |-> {issued + 1}, version |-> current_version, is_deleted |-> FALSE]
  <2>1. r \in Record /\ r.set = {issued + 1}
    BY <1>4, EngineAssumption DEF InsertInTx, Issue, DataType, Record, Id
  <2>2. InTx(c) /\ tx' = [tx EXCEPT ![c].updates = Updated(@, k, r)] /\ current_version' = current_version
    BY <1>4 DEF InsertInTx, data
  <2> HIDE DEF r
  <2>3. /\ \A d \in Conns : d # c => tx'[d] = tx[d]
        /\ InTx(c)' /\ DOMAIN tx'[c].updates = DOMAIN tx[c].updates \cup {k}
        /\ tx'[c].updates[k].set = r.set
        /\ \A x \in DOMAIN tx[c].updates \ {k} : tx'[c].updates[x] = tx[c].updates[x]
    <3>1. \A d \in Conns : d # c => tx'[d] = tx[d]
      BY <2>1, <2>2, TxUpdated
    <3>2. InTx(c)'
      BY <2>1, <2>2, TxUpdated
    <3>3. DOMAIN tx'[c].updates = DOMAIN tx[c].updates \cup {k}
      BY <2>1, <2>2, TxUpdated
    <3>4. tx'[c].updates[k].set = r.set
      <4>1. tx[c] \in Transaction
        OBVIOUS
      <4>2. tx'[c].updates = Updated(tx[c].updates, k, r)
        BY <2>2, <4>1 DEF Transaction
      <4> QED BY <4>2 DEF Updated
    <3>5. \A x \in DOMAIN tx[c].updates \ {k} : tx'[c].updates[x] = tx[c].updates[x]
      BY <2>1, <2>2, TxUpdated, ZenonT(40)
    <3> QED BY <3>1, <3>2, <3>3, <3>4, <3>5
  <2>4. OwnInv' /\ Shown \subseteq Shown'
    BY <1>4, <2>2, <2>3, OwnIssues DEF InsertInTx, Issue, local
  <2>5. mine'[c] = mine[c] \cup {issued + 1} /\ \A d \in Conns : d # c => mine'[d] = mine[d]
    BY <1>4 DEF InsertInTx, Issue
  <2>6. \A d \in Conns : \A x \in DOMAIN tx'[d].updates : tx'[d].updates[x].set \subseteq Shown' \cup mine'[d]
    BY ONLY ShownInv, <2>1, <2>3, <2>4, <2>5 DEF ShownInv
  <2> QED BY <1>4, <2>4, <2>6 DEF ShownInv, InsertInTx, data, local
<1>5. ASSUME NEW c \in Conns, NEW k \in Keys, Insert(c, k) PROVE OwnInv' /\ ShownInv'
  <2>1. OwnInv' /\ Shown \subseteq Shown' /\ issued + 1 \in Shown'
    BY <1>5, OwnIssues DEF Insert, Issue
  <2>2. rec'[c].set = {issued + 1} /\ \A d \in Conns : d # c => rec'[d] = rec[d] /\ pc'[d] = pc[d]
    BY <1>5 DEF Insert
  <2> QED BY <1>5, <2>1, <2>2 DEF ShownInv, Insert, Issue, data
<1>6. ASSUME NEW c \in Conns, NEW s \in {"update", "delete", "select"}, Scan(c, s) PROVE OwnInv' /\ ShownInv'
  <2>1. OwnInv' /\ Shown \subseteq Shown'
    BY <1>6, OwnIssues DEF Scan, Issue, Installing, ControlInv, local, bounds, history
  <2>2. ShownInv'
    BY <1>6, <2>1, ShownFrame, EmptyUpdates DEF Scan, Issue, NoTx, local, bounds, history
  <2> QED BY <2>1, <2>2
<1>7. ASSUME NEW c \in Conns, NEW k \in Keys, ScanCache(c, k) PROVE OwnInv' /\ ShownInv'
  <2>1. OwnInv' /\ Shown \subseteq Shown'
    BY <1>7, OwnFrame DEF ScanCache, Installing, ControlInv, local, bounds, history
  <2>2. ShownInv'
    BY <1>7, <2>1, ShownFrame, EmptyUpdates DEF ScanCache, NoTx, local, bounds, history
  <2> QED BY <2>1, <2>2
<1>8. ASSUME NEW c \in Conns, ScanTree(c) PROVE OwnInv' /\ ShownInv'
  <2>1. OwnInv' /\ Shown \subseteq Shown'
    BY <1>8, OwnFrame DEF ScanTree, Installing, ControlInv, local, bounds, history
  <2>2. ShownInv'
    BY <1>8, <2>1, ShownFrame, EmptyUpdates DEF ScanTree, NoTx, local, bounds, history
  <2> QED BY <2>1, <2>2
<1>9. ASSUME NEW c \in Conns, Answer(c) PROVE OwnInv' /\ ShownInv'
  <2>1. OwnInv' /\ Shown \subseteq Shown'
    BY <1>9, OwnFrame DEF Answer, Return, Installing, ControlInv, local, bounds, history
  <2>2. ShownInv'
    BY <1>9, <2>1, ShownFrame, EmptyUpdates DEF Answer, Return, NoTx, local, bounds, history
  <2> QED BY <2>1, <2>2
<1>10. ASSUME NEW c \in Conns, NEW S \in SUBSET Keys, SelectRows(c, S) PROVE OwnInv' /\ ShownInv'
  <2>1. OwnInv' /\ Shown \subseteq Shown'
    BY <1>10, OwnFrame DEF SelectRows, Installing, ControlInv, local, bounds, history
  <2>2. ShownInv'
    BY <1>10, <2>1, ShownFrame, EmptyUpdates DEF SelectRows, NoTx, local, bounds, history
  <2> QED BY <2>1, <2>2
<1>11. ASSUME NEW c \in Conns, NEW k \in Keys, BufferRow(c, k) PROVE OwnInv' /\ ShownInv'
  <2> DEFINE r == Changed(c, Current(k))
  <2>0. id[c] # 0 /\ Current(k) \in Record /\ Current(k).set \subseteq Shown
    BY <1>11, CurrentType DEF BufferRow, ControlInv, Current, ShownInv
  <2>1. r \in Record /\ r.set \subseteq Shown \cup {id[c]}
    BY <2>0, ChangedType
  <2>2. InTx(c) /\ tx' = [tx EXCEPT ![c].updates = Updated(@, k, r)] /\ current_version' = current_version
    BY <1>11 DEF BufferRow, data
  <2> HIDE DEF r
  <2>3. /\ \A d \in Conns : d # c => tx'[d] = tx[d]
        /\ InTx(c)' /\ DOMAIN tx'[c].updates = DOMAIN tx[c].updates \cup {k}
        /\ tx'[c].updates[k].set = r.set
        /\ \A x \in DOMAIN tx[c].updates \ {k} : tx'[c].updates[x] = tx[c].updates[x]
    <3>1. \A d \in Conns : d # c => tx'[d] = tx[d]
      BY <2>1, <2>2, TxUpdated
    <3>2. InTx(c)'
      BY <2>1, <2>2, TxUpdated
    <3>3. DOMAIN tx'[c].updates = DOMAIN tx[c].updates \cup {k}
      BY <2>1, <2>2, TxUpdated
    <3>4. tx'[c].updates[k].set = r.set
      <4>1. tx[c] \in Transaction
        OBVIOUS
      <4>2. tx'[c].updates = Updated(tx[c].updates, k, r)
        BY <2>2, <4>1 DEF Transaction
      <4> QED BY <4>2 DEF Updated
    <3>5. \A x \in DOMAIN tx[c].updates \ {k} : tx'[c].updates[x] = tx[c].updates[x]
      BY <2>1, <2>2, TxUpdated, ZenonT(40)
    <3> QED BY <3>1, <3>2, <3>3, <3>4, <3>5
  <2>4. OwnInv' /\ Shown \subseteq Shown'
    BY <1>11, <2>2, <2>3, OwnFrame DEF BufferRow, Installing, bounds
  <2>5. id[c] \in mine[c] /\ mine' = mine
    BY <1>11, <2>0, <2>2 DEF OwnInv, BufferRow
  <2>6. \A d \in Conns : \A x \in DOMAIN tx'[d].updates : tx'[d].updates[x].set \subseteq Shown' \cup mine'[d]
    BY ONLY ShownInv, <2>1, <2>3, <2>4, <2>5 DEF ShownInv
  <2> QED BY <1>11, <2>4, <2>6 DEF ShownInv, BufferRow, data
<1>12. ASSUME NEW c \in Conns, NEW k \in Keys, TakeRow(c, k) PROVE OwnInv' /\ ShownInv'
  <2> DEFINE r == Changed(c, Current(k))
  <2>0. id[c] # 0 /\ Current(k) \in Record /\ Current(k).set \subseteq Shown
    BY <1>12, CurrentType DEF TakeRow, ControlInv, Current, ShownInv
  <2>1. r.set \subseteq Shown \cup {id[c]}
    BY <2>0, ChangedType
  <2>2. OwnInv' /\ Shown \subseteq Shown' /\ id[c] \in Shown
    BY <1>12, <2>0, OwnFrame DEF TakeRow, Installing, bounds, history, OwnInv
  <2>3. rec'[c] = r /\ \A d \in Conns : d # c => rec'[d] = rec[d] /\ pc'[d] = pc[d]
    BY <1>12 DEF TakeRow
  <2> HIDE DEF r
  <2> QED BY <1>12, <2>1, <2>2, <2>3 DEF ShownInv, TakeRow, data, history
<1>13. ASSUME NEW c \in Conns, NEW k \in Keys, MissingRow(c, k) PROVE OwnInv' /\ ShownInv'
  <2>1. OwnInv' /\ Shown \subseteq Shown'
    BY <1>13, OwnFrame DEF MissingRow, Return, Installing, ControlInv, local, bounds, history
  <2>2. ShownInv'
    BY <1>13, <2>1, ShownFrame, EmptyUpdates DEF MissingRow, Return, NoTx, local, bounds, history
  <2> QED BY <2>1, <2>2
<1>14. ASSUME NEW c \in Conns, ReadFail(c) PROVE OwnInv' /\ ShownInv'
  <2>1. OwnInv' /\ Shown \subseteq Shown'
    <3>1. CASE kind[c] = "commit"
      BY <1>14, <3>1, OwnAborts DEF ReadFail, Return, EndTx, Installing, bounds
    <3>2. CASE kind[c] # "commit"
      BY <1>14, <3>2, OwnFrame DEF ReadFail, Return, Installing, bounds
    <3> QED BY <3>1, <3>2
  <2>2. \A d \in Conns : \/ DOMAIN tx'[d].updates = {}
                         \/ tx'[d].updates = tx[d].updates /\ mine[d] \subseteq mine'[d]
    <3>1. CASE kind[c] = "commit"
      BY <1>14, <3>1, EmptyUpdates, ZenonT(40) DEF ReadFail, EndTx
    <3>2. CASE kind[c] # "commit"
      BY <1>14, <3>2 DEF ReadFail
    <3> QED BY <3>1, <3>2
  <2> QED BY <1>14, <2>1, <2>2, ShownFrame DEF ReadFail, Return
<1>15. ASSUME NEW c \in Conns, NewVersion(c) PROVE OwnInv' /\ ShownInv'
  <2>1. OwnInv' /\ Shown \subseteq Shown'
    BY <1>15, OwnFrame DEF NewVersion, Installing, ControlInv, bounds, history
  <2>2. rec[c] \in Record /\ current_version + 1 \in Nat
    BY <1>15 DEF NewVersion, ControlInv, DataType
  <2>3. rec'[c].set = rec[c].set /\ \A d \in Conns : d # c => rec'[d] = rec[d] /\ pc'[d] = pc[d]
    BY <1>15, <2>2, Versioned DEF NewVersion
  <2> QED BY <1>15, <2>1, <2>3 DEF ShownInv, NewVersion, history
<1>16. ASSUME NEW c \in Conns, Install(c) PROVE OwnInv' /\ ShownInv'
  <2>1. OwnInv' /\ Shown \subseteq Shown'
    BY <1>16, OwnFrame DEF Install, Installing, ControlInv, bounds
  <2>2. row[c] \in Keys /\ rec[c].set \subseteq Shown
    BY <1>16 DEF Install, ControlInv, ShownInv
  <2>3. \A k \in Keys : cache'[k] = IF k = row[c] THEN rec[c] ELSE cache[k]
    BY <1>16 DEF Install, Put, DataType
  <2> QED BY <1>16, <2>1, <2>2, <2>3 DEF ShownInv, Install
<1>17. ASSUME NEW c \in Conns, Enqueue(c) PROVE OwnInv' /\ ShownInv'
  <2>1. OwnInv' /\ Shown \subseteq Shown'
    BY <1>17, OwnFrame DEF Enqueue, Installing, ControlInv, bounds
  <2>2. \A i \in DOMAIN queue' : IF i \in DOMAIN queue THEN queue'[i] = queue[i] ELSE queue'[i].rec = rec[c]
    BY <1>17 DEF Enqueue, DataType
  <2> QED BY <1>17, <2>1, <2>2 DEF ShownInv, Enqueue
<1>18. ASSUME NEW c \in Conns, EnqueueFail(c) PROVE OwnInv' /\ ShownInv'
  <2>1. OwnInv' /\ Shown \subseteq Shown'
    BY <1>18, OwnEnds DEF EnqueueFail, Return, EndTx, Installing, ControlInv, local, bounds, history
  <2>2. ShownInv'
    BY <1>18, <2>1, ShownFrame, EmptyUpdates DEF EnqueueFail, Return, EndTx, NoTx, local, bounds, history
  <2> QED BY <2>1, <2>2
<1>19. ASSUME NEW c \in Conns, StatementDone(c) PROVE OwnInv' /\ ShownInv'
  <2>1. OwnInv' /\ Shown \subseteq Shown'
    BY <1>19, OwnFrame DEF StatementDone, Return, Installing, ControlInv, local, bounds, history
  <2>2. ShownInv'
    BY <1>19, <2>1, ShownFrame, EmptyUpdates DEF StatementDone, Return, NoTx, local, bounds, history
  <2> QED BY <2>1, <2>2
<1>20. ASSUME NEW c \in Conns, NEW k \in Keys, Validate(c, k) PROVE OwnInv' /\ ShownInv'
  <2>1. OwnInv' /\ Shown \subseteq Shown'
    BY <1>20, OwnFrame DEF Validate, Installing, ControlInv, local, bounds, history
  <2>2. ShownInv'
    BY <1>20, <2>1, ShownFrame, EmptyUpdates DEF Validate, NoTx, local, bounds, history
  <2> QED BY <2>1, <2>2
<1>21. ASSUME NEW c \in Conns, NEW k \in Keys, Conflict(c, k) PROVE OwnInv' /\ ShownInv'
  <2>1. OwnInv' /\ Shown \subseteq Shown'
    BY <1>21, OwnAborts DEF Conflict, Return, EndTx, Installing, ControlInv, local, bounds, history
  <2>2. ShownInv'
    BY <1>21, <2>1, ShownFrame, EmptyUpdates DEF Conflict, Return, EndTx, NoTx, local, bounds, history
  <2> QED BY <2>1, <2>2
<1>22. ASSUME NEW c \in Conns, CommitVersion(c) PROVE OwnInv' /\ ShownInv'
  <2>1. OwnInv' /\ Shown \subseteq Shown'
    BY <1>22, OwnFrame DEF CommitVersion, Installing, ControlInv, bounds, history
  <2> QED BY <1>22, <2>1 DEF ShownInv, CommitVersion, history
<1>23. ASSUME NEW c \in Conns, NEW k \in Keys, CommitRow(c, k) PROVE OwnInv' /\ ShownInv'
  <2> DEFINE r == [tx[c].updates[k] EXCEPT !.version = ver[c]]
  <2>1. OwnInv' /\ Shown \subseteq Shown'
    BY <1>23, OwnFrame DEF CommitRow, Installing, ControlInv, bounds
  <2>2. k \in DOMAIN tx[c].updates /\ tx[c].updates[k] \in Record /\ ver[c] \in Nat
    BY <1>23, UpdatesType DEF CommitRow, ControlInv, DataType, Transaction
  <2>3. r.set = tx[c].updates[k].set
    BY <2>2, Versioned
  <2>4. mine[c] \subseteq Shown
    BY <1>23 DEF CommitRow, ControlInv, OwnInv, Shown, Installing
  <2>5. r.set \subseteq Shown
    BY <2>2, <2>3, <2>4 DEF ShownInv
  <2>6. \A x \in Keys : cache'[x] = IF x = k THEN r ELSE cache[x]
    BY <1>23 DEF CommitRow, Put, DataType
  <2>7. rec'[c] = r /\ \A d \in Conns : d # c => rec'[d] = rec[d] /\ pc'[d] = pc[d]
    BY <1>23 DEF CommitRow
  <2> HIDE DEF r
  <2> QED BY <1>23, <2>1, <2>5, <2>6, <2>7 DEF ShownInv, CommitRow
<1>24. ASSUME NEW c \in Conns, CommitDone(c) PROVE OwnInv' /\ ShownInv'
  <2>1. OwnInv' /\ Shown \subseteq Shown'
    BY <1>24, OwnEnds DEF CommitDone, Return, EndTx, Installing, ControlInv, local, bounds, history
  <2>2. ShownInv'
    BY <1>24, <2>1, ShownFrame, EmptyUpdates DEF CommitDone, Return, EndTx, NoTx, local, bounds, history
  <2> QED BY <2>1, <2>2
<1>25. CASE DrainRow
  <2>1. OwnInv' /\ Shown \subseteq Shown'
    BY <1>25, OwnFrame DEF DrainRow, Installing, local, bounds, history
  <2>2. Head(queue) = queue[1] /\ 1 \in DOMAIN queue
        /\ \A i \in DOMAIN Tail(queue) : i + 1 \in DOMAIN queue /\ Tail(queue)[i] = queue[i + 1]
    BY <1>25, HeadTail DEF DrainRow, DataType
  <2>3. \A k \in Keys : tree'[k] = IF k = queue[1].key THEN queue[1].rec ELSE tree[k]
    BY <1>25, <2>2 DEF DrainRow, DataType
  <2> QED BY <1>25, <2>1, <2>2, <2>3 DEF ShownInv, DrainRow, local, history
<1>26. CASE LogRow
  <2>1. OwnInv' /\ Shown \subseteq Shown'
    BY <1>26, OwnFrame DEF LogRow, Installing, local, bounds, history
  <2>2. \A i \in DOMAIN Tail(queue) : i + 1 \in DOMAIN queue /\ Tail(queue)[i] = queue[i + 1]
    BY <1>26, HeadTail DEF LogRow, DataType
  <2> QED BY <1>26, <2>1, <2>2 DEF ShownInv, LogRow, local, history
<1>27. ASSUME NEW k \in Keys, Evict(k) PROVE OwnInv' /\ ShownInv'
  <2>1. OwnInv' /\ Shown \subseteq Shown'
    BY <1>27, OwnFrame DEF Evict, Installing, local, history
  <2>2. \A x \in Keys : cache'[x] = IF x = k THEN NoRecord ELSE cache[x]
    BY <1>27 DEF Evict, DataType
  <2> QED BY <1>27, <2>1, <2>2 DEF ShownInv, Evict, NoRecord, local, history
<1>28. CASE UNCHANGED vars
  <2>1. OwnInv' /\ Shown \subseteq Shown'
    BY <1>28, OwnFrame DEF vars, local, history, bounds, Installing
  <2>2. ShownInv'
    BY <1>28, <2>1, ShownFrame DEF vars, local, history
  <2> QED BY <2>1, <2>2
<1> QED BY <1>1, <1>2, <1>3, <1>4, <1>5, <1>6, <1>7, <1>8, <1>9, <1>10, <1>11, <1>12, <1>13, <1>14, <1>15, <1>16, <1>17, <1>18, <1>19, <1>20, <1>21, <1>22, <1>23, <1>24, <1>25, <1>26, <1>27, <1>28 DEF Next, Step

\* The first state.
LEMMA InitShown == Init => OwnInv /\ ShownInv
<1> SUFFICES ASSUME Init PROVE OwnInv /\ ShownInv
  OBVIOUS
<1>1. OwnInv
  BY DEF Init, OwnInv, InTx
<1>2. ShownInv
  <2>1. \A k \in Keys : cache[k].set = {} /\ tree[k].set = {}
    BY DEF Init, NoRecord, Loaded
  <2> QED BY <2>1, EmptyUpdates DEF Init, ShownInv
<1> QED BY <1>1, <1>2

(* Nothing of a transaction that was rolled back, refused or replaced by   *)
(* another BEGIN is ever in the cache, the queue or the tree, whatever     *)
(* statements of other connections run at the same time and wherever a     *)
(* read or an enqueue fails (engine.rs COMMIT, ROLLBACK, BEGIN).           *)
THEOREM NoAbortedDataAlways == Spec => []NoAbortedData
<1>1. ShownInv => NoAbortedData
  BY DEF ShownInv, Shown, NoAbortedData, Everywhere
<1>2. Spec => [](TypeInv /\ OwnInv /\ ShownInv)
  BY InitTypes, NextTypes, InitShown, NextShown, PTL DEF Spec
<1> QED BY <1>1, <1>2, PTL

-----------------------------------------------------------------------------
(* Rows.  What was written stays written, and a SELECT shows it, as long   *)
(* as no entry has left the memory tier: an evicted row whose record went  *)
(* to the log is in neither the cache nor the tree.                        *)

(* Without evictions the cache has every row that the tree or the queue    *)
(* has, and a key that no INSERT has drawn is nowhere.                     *)
PresenceInv ==
  /\ \A k \in Keys : tree[k] # NoRecord => cache[k] # NoRecord
  /\ \A i \in DOMAIN queue : cache[queue[i].key] # NoRecord
  /\ \A c \in Conns : pc[c] = "enqueue" => cache[row[c]] # NoRecord
  /\ \A k \in unused : /\ cache[k] = NoRecord
                       /\ \A c \in Conns : row[c] # k /\ k \notin DOMAIN tx[c].updates

\* The row shows what the statement did to it, or that was lost to a write that was overtaken.
Safe(u, k) == <<u, k>> \in excused \/ u \in cache[k].set

\* A record between cache and queue counts as written.
WrittenInv ==
  /\ \A uk \in stored : Safe(uk[1], uk[2])
  /\ \A c \in Conns : pc[c] = "enqueue" => \A u \in rec[c].set : Safe(u, row[c])

\* The COMMIT of the connection has validated key k.
Checked(c, k) == Installing(c) \/ (pc[c] = "validate" /\ k \notin todo[c])

\* The COMMIT of the connection has not installed key k yet.
Open(c, k) == Installing(c) => k \in todo[c]

(* A record that will be written has everything the row shows, unless the  *)
(* write was overtaken or validation will refuse it.                       *)
ReadInv ==
  \A c \in Conns :
    /\ pc[c] \in {"version", "install"} =>
         row[c] \in overtaken[c] \/ cache[row[c]].set \subseteq rec[c].set
    /\ \A k \in DOMAIN tx[c].updates : Open(c, k) =>
         \/ k \in overtaken[c]
         \/ cache[k].set \subseteq tx[c].updates[k].set
         \/ ~Checked(c, k) /\ cache[k].version > tx[c].snapshot_version

(* What a SELECT has to show is in the cache, visible at its version, and  *)
(* among its rows once the scan has passed the key.                        *)
DueInv ==
  \A c \in Conns :
    /\ due[c] # {} => kind[c] = "select" /\ pc[c] \in {"cache", "tree", "answer"}
    /\ \A uk \in due[c] :
         /\ uk[1] \in cache[uk[2]].set /\ Visible(cache[uk[2]], ver[c])
         /\ (pc[c] = "cache" /\ uk[2] \in todo[c]) \/ uk[1] \in rows[c][uk[2]].set

RowInv == PresenceInv /\ WrittenInv /\ ReadInv /\ DueInv

\* Without evictions a statement reads the memory tier.
LEMMA CurrentIsCached ==
  ASSUME TypeInv, PresenceInv, NEW k \in Keys
  PROVE  Current(k) = cache[k]
BY DEF PresenceInv, Current

-----------------------------------------------------------------------------
(* Steps that leave a part of the invariant alone.                         *)

\* No record is written and no row added to a transaction.
LEMMA PresenceFrame ==
  ASSUME TypeInv, PresenceInv, UNCHANGED <<cache, tree, queue>>, unused' \subseteq unused,
         \A c \in Conns : /\ pc'[c] = "enqueue" => pc[c] = "enqueue" /\ row'[c] = row[c]
                          /\ row'[c] \in {row[c], NoKey}
                          /\ DOMAIN tx'[c].updates \subseteq DOMAIN tx[c].updates
  PROVE  PresenceInv'
<1>1. NoKey \notin unused
  BY EngineAssumption DEF TypeInv, TypeOK, DataType
<1> QED BY <1>1 DEF PresenceInv

\* No record is written and none comes to be enqueued.
LEMMA WrittenFrame ==
  ASSUME WrittenInv, UNCHANGED <<cache, stored>>, excused \subseteq excused',
         \A c \in Conns : pc'[c] = "enqueue" => /\ pc[c] = "enqueue" 
                                                /\ row'[c] = row[c] /\ rec'[c] = rec[c]
  PROVE  WrittenInv'
BY DEF WrittenInv, Safe

\* No record is written and none is read.
LEMMA ReadFrame ==
  ASSUME ReadInv, UNCHANGED cache,
         \A c \in Conns : pc'[c] \in {"version", "install"} =>
           /\ pc[c] \in {"version", "install"} /\ row'[c] = row[c] /\ rec'[c].set = rec[c].set
           /\ overtaken[c] \subseteq overtaken'[c],
         \A c \in Conns :
           \/ DOMAIN tx'[c].updates = {}
           \/ /\ tx'[c] = tx[c] /\ overtaken[c] \subseteq overtaken'[c]
              /\ \A k \in DOMAIN tx[c].updates :
                   (Open(c, k)' => Open(c, k)) /\ (Checked(c, k)' => Checked(c, k))
  PROVE  ReadInv'
BY DEF ReadInv

\* No record is written and no scan moves on.
LEMMA DueFrame ==
  ASSUME DueInv, UNCHANGED cache,
         \A c \in Conns : \/ due'[c] = {}
                          \/ /\ due'[c] = due[c] /\ kind'[c] = kind[c] /\ pc'[c] = pc[c]
                             /\ ver'[c] = ver[c] /\ rows'[c] = rows[c] /\ todo'[c] = todo[c]
  PROVE  DueInv'
BY DEF DueInv

-----------------------------------------------------------------------------
(* memory_tier.insert.                                                     *)

\* What it writes, and whom it overtakes.
LEMMA PutFacts ==
  ASSUME TypeInv, PresenceInv, NEW c \in Conns, NEW k \in Keys, \E r \in Record : Put(c, k, r)
  PROVE  /\ cache'[k] \in Record /\ \A x \in Keys : x # k => cache'[x] = cache[x]
         /\ \A d \in Conns : overtaken[d] \subseteq overtaken'[d]
         /\ \A d \in Conns : d # c /\ (InHand(d, k) \/ Late(d, k, cache'[k].version)) => k \in overtaken'[d]
         /\ excused \subseteq excused'
         /\ k \in overtaken[c] => \A u \in cache[k].set \ cache'[k].set : <<u, k>> \in excused'
         /\ \A d \in Conns : due'[d] = {uk \in due[d] : uk[2] # k}
<1>1. PICK r \in Record : Put(c, k, r)
  OBVIOUS
<1>2. cache'[k] = r /\ \A x \in Keys : x # k => cache'[x] = cache[x]
  BY <1>1 DEF Put, TypeInv, TypeOK, DataType
<1>3. Current(k) = cache[k]
  BY CurrentIsCached
<1>4. \A d \in Conns : overtaken'[d] = IF d # c /\ (InHand(d, k) \/ Late(d, k, r.version))
                                       THEN overtaken[d] \cup {k} ELSE overtaken[d]
  BY <1>1 DEF Put
<1>5. \A d \in Conns : due'[d] = {uk \in due[d] : uk[2] # k}
  BY <1>1 DEF Put
<1>6. excused' = IF k \in overtaken[c] THEN excused \cup {<<u, k>> : u \in cache[k].set \ r.set} ELSE excused
  BY <1>1, <1>3 DEF Put
<1> QED BY <1>2, <1>4, <1>5, <1>6

\* What was safe stays safe, and so is everything the new record has.
LEMMA PutSafe ==
  ASSUME TypeInv, PresenceInv, NEW c \in Conns, NEW k \in Keys, \E r \in Record : Put(c, k, r),
         k \in overtaken[c] \/ cache[k].set \subseteq cache'[k].set
  PROVE  /\ \A x \in Keys : \A u : Safe(u, x) => Safe(u, x)'
         /\ \A u \in cache'[k].set : Safe(u, k)'
<1>1. /\ \A x \in Keys : x # k => cache'[x] = cache[x]
      /\ excused \subseteq excused'
      /\ k \in overtaken[c] => \A u \in cache[k].set \ cache'[k].set : <<u, k>> \in excused'
  BY PutFacts
<1> QED BY <1>1 DEF Safe

\* Another connection that has read the row is overtaken, or will be refused.
LEMMA PutRead ==
  ASSUME TypeInv, PresenceInv, ReadInv, NEW c \in Conns, NEW k \in Keys, \E r \in Record : Put(c, k, r),
         NEW d \in Conns, d # c, UNCHANGED tx,
         pc'[d] = pc[d], kind'[d] = kind[d], todo'[d] = todo[d], row'[d] = row[d], rec'[d] = rec[d]
  PROVE  /\ pc'[d] \in {"version", "install"} =>
              row'[d] \in overtaken'[d] \/ cache'[row'[d]].set \subseteq rec'[d].set
         /\ \A x \in DOMAIN tx'[d].updates : Open(d, x)' =>
              \/ x \in overtaken'[d]
              \/ cache'[x].set \subseteq tx'[d].updates[x].set
              \/ ~Checked(d, x)' /\ cache'[x].version > tx'[d].snapshot_version
<1>1. /\ cache'[k] \in Record /\ \A x \in Keys : x # k => cache'[x] = cache[x]
      /\ overtaken[d] \subseteq overtaken'[d]
      /\ InHand(d, k) \/ Late(d, k, cache'[k].version) => k \in overtaken'[d]
  BY PutFacts
<1>2. pc[d] \in {"version", "install"} => row[d] \in Keys
  BY DEF TypeInv, ControlInv
<1>3. pc'[d] \in {"version", "install"} =>
        row'[d] \in overtaken'[d] \/ cache'[row'[d]].set \subseteq rec'[d].set
  BY <1>1, <1>2 DEF ReadInv, InHand
<1>4. DOMAIN tx[d].updates \subseteq Keys /\ tx[d].snapshot_version \in Int
      /\ (DOMAIN tx[d].updates # {} => InTx(d))
  BY UpdatesType, EmptyUpdates DEF TypeInv, BookType, Transaction, InTx
<1>5. cache'[k].version \in Nat
  BY <1>1 DEF Record
<1>6. \A x \in DOMAIN tx[d].updates : (Open(d, x)' <=> Open(d, x)) /\ (Checked(d, x)' <=> Checked(d, x))
  BY DEF Open, Checked, Installing
<1>7. ASSUME NEW x \in DOMAIN tx[d].updates, Open(d, x)
      PROVE  \/ x \in overtaken'[d]
             \/ cache'[x].set \subseteq tx[d].updates[x].set
             \/ ~Checked(d, x) /\ cache'[x].version > tx[d].snapshot_version
  <2>1. CASE x # k
    BY <1>1, <1>4, <1>7, <2>1 DEF ReadInv
  <2>2. CASE x = k /\ Checked(d, x)
    <3>1. InHand(d, k)
      BY <1>7, <2>2 DEF InHand, Checked, Open, Installing
    <3> QED BY <1>1, <2>2, <3>1
  <2>3. CASE x = k /\ ~Checked(d, x)
    <3>1. CASE cache'[k].version <= tx[d].snapshot_version
      BY <1>1, <1>4, <2>3, <3>1 DEF Late
    <3>2. CASE cache'[k].version > tx[d].snapshot_version
      BY <2>3, <3>2
    <3> QED BY <1>4, <1>5, <3>1, <3>2
  <2> QED BY <2>1, <2>2, <2>3
<1> QED BY <1>3, <1>6, <1>7

\* A SELECT owes the row no more.
LEMMA PutDue ==
  ASSUME TypeInv, PresenceInv, DueInv, NEW c \in Conns, NEW k \in Keys, \E r \in Record : Put(c, k, r),
         pc[c] \notin {"cache", "tree", "answer"}, UNCHANGED <<kind, ver, rows>>,
         \A d \in Conns : d # c => pc'[d] = pc[d] /\ todo'[d] = todo[d]
  PROVE  DueInv'
<1>1. /\ \A x \in Keys : x # k => cache'[x] = cache[x]
      /\ \A d \in Conns : due'[d] = {uk \in due[d] : uk[2] # k}
  BY PutFacts
<1>2. \A d \in Conns : \A uk \in due[d] : uk[2] \in Keys
  BY DEF TypeInv, BookType
<1>3. \A d \in Conns : \A uk \in due'[d] : uk \in due[d] /\ cache'[uk[2]] = cache[uk[2]]
  BY <1>1, <1>2
<1>4. due'[c] = {}
  BY <1>1 DEF DueInv
<1> QED BY <1>3, <1>4 DEF DueInv

-----------------------------------------------------------------------------
(* Every step but an eviction keeps the invariant.                         *)

\* One step per action.
LEMMA NextRows ==
  ASSUME TypeInv, RowInv, [Next]_vars, \A k \in Keys : ~Evict(k)
  PROVE  RowInv'
<1> USE DEF TypeInv, TypeOK, LocalType, BookType, Goto, InTx, RowInv
<1>1. ASSUME NEW c \in Conns, Begin(c) PROVE RowInv'
  <2>1. PresenceInv'
    BY <1>1, PresenceFrame, EmptyUpdates DEF Begin, data, local, bounds, history
  <2>2. WrittenInv'
    BY <1>1, WrittenFrame DEF Begin, data, local, bounds, history
  <2>3. ReadInv'
    BY <1>1, ReadFrame, EmptyUpdates DEF Begin, Open, Checked, Installing, ControlInv, data, local, bounds, history
  <2>4. DueInv'
    BY <1>1, DueFrame DEF Begin, DueInv, ControlInv, data, local, bounds, history
  <2> QED BY <2>1, <2>2, <2>3, <2>4
<1>2. ASSUME NEW c \in Conns, Rollback(c) PROVE RowInv'
  <2>1. PresenceInv'
    BY <1>2, PresenceFrame, EmptyUpdates DEF Rollback, EndTx, data, local, bounds, history
  <2>2. WrittenInv'
    BY <1>2, WrittenFrame DEF Rollback, EndTx, data, local, bounds, history
  <2>3. ReadInv'
    BY <1>2, ReadFrame, EmptyUpdates DEF Rollback, EndTx, Open, Checked, Installing, ControlInv, data, local, bounds, history
  <2>4. DueInv'
    BY <1>2, DueFrame DEF Rollback, EndTx, DueInv, ControlInv, data, local, bounds, history
  <2> QED BY <2>1, <2>2, <2>3, <2>4
<1>3. ASSUME NEW c \in Conns, Commit(c) PROVE RowInv'
  <2>1. PresenceInv'
    BY <1>3, PresenceFrame, EmptyUpdates DEF Commit, data, local, bounds, history
  <2>2. WrittenInv'
    BY <1>3, WrittenFrame DEF Commit, data, local, bounds, history
  <2>3. ReadInv'
    BY <1>3, ReadFrame, EmptyUpdates DEF Commit, Open, Checked, Installing, ControlInv, data, local, bounds, history
  <2>4. DueInv'
    BY <1>3, DueFrame DEF Commit, DueInv, ControlInv, data, local, bounds, history
  <2> QED BY <2>1, <2>2, <2>3, <2>4
<1>4. ASSUME NEW c \in Conns, NEW k \in Keys, InsertInTx(c, k) PROVE RowInv'
  <2> DEFINE r == [set |-> {issued + 1}, version |-> current_version, is_deleted |-> FALSE]
  <2>a. r \in Record /\ r.set = {issued + 1} /\ tx[c] \in Transaction /\ k \in Keys
    BY <1>4, EngineAssumption DEF InsertInTx, Issue, DataType, Record, Id
  <2>b. InTx(c) /\ tx' = [tx EXCEPT ![c].updates = Updated(@, k, r)] /\ current_version' = current_version
    BY <1>4 DEF InsertInTx, data
  <2> HIDE DEF r
  <2>c. /\ \A d \in Conns : d # c => tx'[d] = tx[d]
        /\ DOMAIN tx'[c].updates = DOMAIN tx[c].updates \cup {k}
        /\ tx'[c].snapshot_version = tx[c].snapshot_version
        /\ \A x \in DOMAIN tx[c].updates \ {k} : tx'[c].updates[x] = tx[c].updates[x]
    BY <2>a, <2>b, TxUpdated, ZenonT(40)
  <2>d. cache[k] = NoRecord /\ k \in unused /\ unused' = unused \ {k}
    BY <1>4 DEF InsertInTx, PresenceInv
  <2>1. PresenceInv'
    BY <1>4, <2>c, <2>d DEF PresenceInv, InsertInTx, data, local
  <2>2. WrittenInv'
    BY <1>4, WrittenFrame DEF InsertInTx, Issue, data, local, bounds, history
  <2>3. ReadInv'
    <3>1. \A d \in Conns : \A x \in Keys : (Open(d, x)' <=> Open(d, x)) /\ (Checked(d, x)' <=> Checked(d, x))
      BY <1>4 DEF InsertInTx, Open, Checked, Installing, local
    <3>2. cache' = cache /\ overtaken' = overtaken /\ UNCHANGED local
      BY <1>4 DEF InsertInTx, data
    <3>3. \A d \in Conns : DOMAIN tx[d].updates \subseteq Keys
      BY UpdatesType DEF Transaction
    <3>4. cache[k].set = {}
      BY <2>d DEF NoRecord
    <3> QED BY <2>a, <2>c, <3>1, <3>2, <3>3, <3>4, SMTT(30) DEF ReadInv, local
  <2>4. DueInv'
    BY <1>4, DueFrame DEF InsertInTx, Issue, DueInv, ControlInv, data, local, bounds, history
  <2> QED BY <2>1, <2>2, <2>3, <2>4
<1>5. ASSUME NEW c \in Conns, NEW k \in Keys, Insert(c, k) PROVE RowInv'
  <2>1. PresenceInv'
    <3>1. k \in unused /\ unused' = unused \ {k} /\ row'[c] = k /\ pc'[c] = "install"
          /\ \A d \in Conns : d # c => row'[d] = row[d] /\ pc'[d] = pc[d]
      BY <1>5 DEF Insert
    <3> QED BY <1>5, <3>1 DEF PresenceInv, Insert, data
  <2>2. WrittenInv'
    BY <1>5, WrittenFrame DEF Insert, Issue, data, local, bounds, history
  <2>3. ReadInv'
    <3>1. row'[c] = k /\ cache'[k].set = {} /\ overtaken' = overtaken /\ cache' = cache
      BY <1>5 DEF Insert, data, PresenceInv, NoRecord
    <3>2. \A d \in Conns : d # c => row'[d] = row[d] /\ pc'[d] = pc[d] /\ rec'[d] = rec[d]
      BY <1>5 DEF Insert
    <3>3. DOMAIN tx[c].updates = {} /\ tx' = tx
      BY <1>5, EmptyUpdates DEF Insert
    <3>4. \A d \in Conns : d # c => \A x \in DOMAIN tx[d].updates : (Open(d, x)' <=> Open(d, x)) /\ (Checked(d, x)' <=> Checked(d, x))
      BY <1>5 DEF Insert, Open, Checked, Installing
    <3> QED BY <3>1, <3>2, <3>3, <3>4 DEF ReadInv
  <2>4. DueInv'
    BY <1>5, DueFrame DEF Insert, Issue, DueInv, ControlInv, data, local, bounds, history
  <2> QED BY <2>1, <2>2, <2>3, <2>4
<1>6. ASSUME NEW c \in Conns, NEW s \in {"update", "delete", "select"}, Scan(c, s) PROVE RowInv'
  <2>1. PresenceInv'
    BY <1>6, PresenceFrame, EmptyUpdates DEF Scan, Issue, data, local, bounds, history
  <2>2. WrittenInv'
    BY <1>6, WrittenFrame DEF Scan, Issue, data, local, bounds, history
  <2>3. ReadInv'
    BY <1>6, ReadFrame, EmptyUpdates DEF Scan, Issue, Open, Checked, Installing, ControlInv, data, local, bounds, history
  <2>4. DueInv'
    <3>1. \A uk \in stored \ excused : uk[2] \in Keys /\ uk = <<uk[1], uk[2]>>
      OBVIOUS
    <3>2. \A uk \in stored \ excused : uk[1] \in cache[uk[2]].set /\ Current(uk[2]) = cache[uk[2]]
      BY <3>1, CurrentIsCached DEF WrittenInv, Safe
    <3>3. kind'[c] = s /\ pc'[c] = "cache" /\ todo'[c] = Keys /\ cache' = cache
          /\ due'[c] = {uk \in stored \ excused : s = "select" /\ Visible(Current(uk[2]), ver'[c])}
      BY <1>6 DEF Scan, data
    <3>4. \A d \in Conns : d # c => due'[d] = due[d] /\ kind'[d] = kind[d] /\ pc'[d] = pc[d]
                                    /\ ver'[d] = ver[d] /\ rows'[d] = rows[d] /\ todo'[d] = todo[d]
      BY <1>6 DEF Scan
    <3> QED BY <3>1, <3>2, <3>3, <3>4 DEF DueInv
  <2> QED BY <2>1, <2>2, <2>3, <2>4
<1>7. ASSUME NEW c \in Conns, NEW k \in Keys, ScanCache(c, k) PROVE RowInv'
  <2>1. PresenceInv'
    BY <1>7, PresenceFrame, EmptyUpdates DEF ScanCache, data, local, bounds, history
  <2>2. WrittenInv'
    BY <1>7, WrittenFrame DEF ScanCache, data, local, bounds, history
  <2>3. ReadInv'
    BY <1>7, ReadFrame, EmptyUpdates DEF ScanCache, Open, Checked, Installing, ControlInv, data, local, bounds, history
  <2>4. DueInv'
    <3>1. \A d \in Conns : d # c => pc'[d] = pc[d] /\ rows'[d] = rows[d] /\ todo'[d] = todo[d]
      BY <1>7 DEF ScanCache
    <3>2. pc[c] = "cache" /\ pc'[c] \in {"cache", "tree"} /\ (pc'[c] = "tree" => todo[c] = {k})
          /\ todo'[c] = todo[c] \ {k} /\ UNCHANGED <<due, kind, ver, cache>>
      BY <1>7 DEF ScanCache, history, data
    <3>3. rows'[c][k] = (IF Visible(cache[k], ver[c]) THEN cache[k] ELSE NoRecord)
          /\ \A x \in Keys \ {k} : rows'[c][x] = rows[c][x]
      BY <1>7 DEF ScanCache
    <3>4. ASSUME NEW uk \in due[c]
          PROVE  (pc'[c] = "cache" /\ uk[2] \in todo'[c]) \/ uk[1] \in rows'[c][uk[2]].set
      <4>1. uk[2] \in Keys /\ uk[1] \in cache[uk[2]].set /\ Visible(cache[uk[2]], ver[c])
            /\ (uk[2] \in todo[c] \/ uk[1] \in rows[c][uk[2]].set)
        BY DEF DueInv
      <4>2. CASE uk[2] = k
        BY <3>3, <4>1, <4>2
      <4>3. CASE uk[2] # k
        BY <3>2, <3>3, <4>1, <4>3
      <4> QED BY <4>2, <4>3
    <3> QED BY <3>1, <3>2, <3>4 DEF DueInv
  <2> QED BY <2>1, <2>2, <2>3, <2>4
<1>8. ASSUME NEW c \in Conns, ScanTree(c) PROVE RowInv'
  <2>1. PresenceInv'
    BY <1>8, PresenceFrame, EmptyUpdates DEF ScanTree, data, local, bounds, history
  <2>2. WrittenInv'
    BY <1>8, WrittenFrame DEF ScanTree, data, local, bounds, history
  <2>3. ReadInv'
    BY <1>8, ReadFrame, EmptyUpdates DEF ScanTree, Open, Checked, Installing, ControlInv, data, local, bounds, history
  <2>4. DueInv'
    <3>1. \A d \in Conns : d # c => pc'[d] = pc[d] /\ rows'[d] = rows[d]
      BY <1>8 DEF ScanTree
    <3>2. pc[c] = "tree" /\ pc'[c] = "answer" /\ UNCHANGED <<due, kind, ver, cache, todo>>
      BY <1>8 DEF ScanTree, history, data
    <3>3. \A x \in Keys : rows[c][x] # NoRecord => rows'[c][x] = rows[c][x]
      BY <1>8 DEF ScanTree, Scanned
    <3>4. \A uk \in due[c] : uk[2] \in Keys
      OBVIOUS
    <3>5. NoRecord.set = {}
      BY DEF NoRecord
    <3>6. \A uk \in due[c] : uk[1] \in rows'[c][uk[2]].set
      BY <3>2, <3>3, <3>4, <3>5 DEF DueInv
    <3> QED BY <3>1, <3>2, <3>6, SMTT(30) DEF DueInv
  <2> QED BY <2>1, <2>2, <2>3, <2>4
<1>9. ASSUME NEW c \in Conns, Answer(c) PROVE RowInv'
  <2>1. PresenceInv'
    BY <1>9, PresenceFrame, EmptyUpdates DEF Answer, Return, data, local, bounds, history
  <2>2. WrittenInv'
    BY <1>9, WrittenFrame DEF Answer, Return, data, local, bounds, history
  <2>3. ReadInv'
    BY <1>9, ReadFrame, EmptyUpdates DEF Answer, Return, Open, Checked, Installing, ControlInv, data, local, bounds, history
  <2>4. DueInv'
    BY <1>9, DueFrame DEF Answer, Return, DueInv, ControlInv, data, local, bounds, history
  <2> QED BY <2>1, <2>2, <2>3, <2>4
<1>10. ASSUME NEW c \in Conns, NEW S \in SUBSET Keys, SelectRows(c, S) PROVE RowInv'
  <2>1. PresenceInv'
    BY <1>10, PresenceFrame, EmptyUpdates DEF SelectRows, data, local, bounds, history
  <2>2. WrittenInv'
    BY <1>10, WrittenFrame DEF SelectRows, data, local, bounds, history
  <2>3. ReadInv'
    BY <1>10, ReadFrame, EmptyUpdates DEF SelectRows, Open, Checked, Installing, ControlInv, data, local, bounds, history
  <2>4. DueInv'
    BY <1>10, DueFrame DEF SelectRows, DueInv, ControlInv, data, local, bounds, history
  <2> QED BY <2>1, <2>2, <2>3, <2>4
<1>11. ASSUME NEW c \in Conns, NEW k \in Keys, BufferRow(c, k) PROVE RowInv'
  <2> DEFINE r == Changed(c, Current(k))
  <2>0. id[c] # 0 /\ Current(k) \in Record /\ Current(k) = cache[k] /\ cache[k] # NoRecord
    BY <1>11, CurrentType, CurrentIsCached DEF BufferRow, ControlInv
  <2>a. r \in Record /\ cache[k].set \subseteq r.set /\ tx[c] \in Transaction
    BY <2>0, ChangedType
  <2>b. InTx(c) /\ tx' = [tx EXCEPT ![c].updates = Updated(@, k, r)] /\ current_version' = current_version
    BY <1>11 DEF BufferRow, data
  <2> HIDE DEF r
  <2>c. /\ \A d \in Conns : d # c => tx'[d] = tx[d]
        /\ DOMAIN tx'[c].updates = DOMAIN tx[c].updates \cup {k}
        /\ tx'[c].snapshot_version = tx[c].snapshot_version
        /\ \A x \in DOMAIN tx[c].updates \ {k} : tx'[c].updates[x] = tx[c].updates[x]
    BY <2>a, <2>b, TxUpdated, ZenonT(40)
  <2>d. tx'[c].updates[k].set = r.set
    <3>1. tx'[c].updates = Updated(tx[c].updates, k, r)
      BY <2>a, <2>b DEF Transaction
    <3> QED BY <3>1 DEF Updated
  <2>1. PresenceInv'
    BY <1>11, <2>0, <2>c DEF PresenceInv, BufferRow, data, bounds
  <2>2. WrittenInv'
    BY <1>11, WrittenFrame DEF BufferRow, data, local, bounds, history
  <2>3. ReadInv'
    <3>1. \A d \in Conns : \A x \in Keys : (Open(d, x)' <=> Open(d, x)) /\ (Checked(d, x)' <=> Checked(d, x))
      BY <1>11 DEF BufferRow, Open, Checked, Installing
    <3>2. UNCHANGED <<cache, overtaken, pc, row, rec>>
      BY <1>11 DEF BufferRow, data
    <3>3. \A d \in Conns : DOMAIN tx[d].updates \subseteq Keys
      BY UpdatesType DEF Transaction
    <3> QED BY <2>a, <2>c, <2>d, <3>1, <3>2, <3>3, ZenonT(40) DEF ReadInv
  <2>4. DueInv'
    BY <1>11, DueFrame DEF BufferRow, DueInv, ControlInv, data, local, bounds, history
  <2> QED BY <2>1, <2>2, <2>3, <2>4
<1>12. ASSUME NEW c \in Conns, NEW k \in Keys, TakeRow(c, k) PROVE RowInv'
  <2>0. id[c] # 0 /\ Current(k) \in Record /\ Current(k) = cache[k] /\ cache[k] # NoRecord
    BY <1>12, CurrentType, CurrentIsCached DEF TakeRow, ControlInv
  <2>a. cache[k].set \subseteq Changed(c, Current(k)).set
    BY <2>0, ChangedType
  <2>b. row'[c] = k /\ pc'[c] = "version" /\ rec'[c] = Changed(c, Current(k))
        /\ \A d \in Conns : d # c => row'[d] = row[d] /\ pc'[d] = pc[d] /\ rec'[d] = rec[d]
    BY <1>12 DEF TakeRow
  <2>1. PresenceInv'
    BY <1>12, <2>0, <2>b DEF PresenceInv, TakeRow, data, bounds
  <2>2. WrittenInv'
    BY <1>12, WrittenFrame DEF TakeRow, data, local, bounds, history
  <2>3. ReadInv'
    <3>1. DOMAIN tx[c].updates = {} /\ UNCHANGED <<tx, cache, overtaken>>
      BY <1>12, EmptyUpdates DEF TakeRow, data, history
    <3>2. \A d \in Conns : d # c => \A x \in DOMAIN tx[d].updates : (Open(d, x)' <=> Open(d, x)) /\ (Checked(d, x)' <=> Checked(d, x))
      BY <1>12 DEF TakeRow, Open, Checked, Installing
    <3> QED BY <2>a, <2>b, <3>1, <3>2 DEF ReadInv
  <2>4. DueInv'
    BY <1>12, DueFrame DEF TakeRow, DueInv, ControlInv, data, local, bounds, history
  <2> QED BY <2>1, <2>2, <2>3, <2>4
<1>13. ASSUME NEW c \in Conns, NEW k \in Keys, MissingRow(c, k) PROVE RowInv'
  <2>1. PresenceInv'
    BY <1>13, PresenceFrame, EmptyUpdates DEF MissingRow, Return, data, local, bounds, history
  <2>2. WrittenInv'
    BY <1>13, WrittenFrame DEF MissingRow, Return, data, local, bounds, history
  <2>3. ReadInv'
    BY <1>13, ReadFrame, EmptyUpdates DEF MissingRow, Return, Open, Checked, Installing, ControlInv, data, local, bounds, history
  <2>4. DueInv'
    BY <1>13, DueFrame DEF MissingRow, Return, DueInv, ControlInv, data, local, bounds, history
  <2> QED BY <2>1, <2>2, <2>3, <2>4
<1>14. ASSUME NEW c \in Conns, ReadFail(c) PROVE RowInv'
  <2>1. PresenceInv'
    <3>1. \A d \in Conns : DOMAIN tx'[d].updates \subseteq DOMAIN tx[d].updates
      <4>1. tx' = tx \/ tx' = [tx EXCEPT ![c] = NoTx]
        BY <1>14 DEF ReadFail, EndTx
      <4>2. \A d \in Conns : tx'[d] = tx[d] \/ tx'[d] = NoTx
        BY <4>1 DEF TypeInv, TypeOK, TxType
      <4> QED BY <4>2, EmptyUpdates
    <3>2. \A d \in Conns : pc'[d] = "enqueue" => pc[d] = "enqueue" /\ row'[d] = row[d]
      BY <1>14 DEF ReadFail, Return, Goto
    <3>3. \A d \in Conns : row'[d] \in {row[d], NoKey}
      BY <1>14 DEF ReadFail, Return
    <3>4. UNCHANGED <<cache, tree, queue, unused>>
      BY <1>14 DEF ReadFail, data, bounds
    <3> QED BY <3>1, <3>2, <3>3, <3>4, PresenceFrame DEF RowInv
  <2>2. WrittenInv'
    BY <1>14, WrittenFrame DEF ReadFail, Return, EndTx, data, local, bounds, history
  <2>3. ReadInv'
    BY <1>14, ReadFrame, EmptyUpdates DEF ReadFail, Return, EndTx, Open, Checked, Installing, ControlInv, data, local, bounds, history
  <2>4. DueInv'
    BY <1>14, DueFrame DEF ReadFail, Return, EndTx, DueInv, ControlInv, data, local, bounds, history
  <2> QED BY <2>1, <2>2, <2>3, <2>4
<1>15. ASSUME NEW c \in Conns, NewVersion(c) PROVE RowInv'
  <2>1. PresenceInv'
    BY <1>15, PresenceFrame, EmptyUpdates DEF NewVersion, data, local, bounds, history
  <2>2. WrittenInv'
    BY <1>15, WrittenFrame DEF NewVersion, data, local, bounds, history
  <2>3. ReadInv'
    BY <1>15, ReadFrame, EmptyUpdates DEF NewVersion, Open, Checked, Installing, ControlInv, data, local, bounds, history
  <2>4. DueInv'
    BY <1>15, DueFrame DEF NewVersion, DueInv, ControlInv, data, local, bounds, history
  <2> QED BY <2>1, <2>2, <2>3, <2>4
<1>16. ASSUME NEW c \in Conns, Install(c) PROVE RowInv'
  <2>0. PICK k \in Keys : k = row[c]
    BY <1>16 DEF Install, ControlInv
  <2>a. rec[c] \in Record /\ pc[c] = "install" /\ pc'[c] = "enqueue"
        /\ \A d \in Conns : d # c => pc'[d] = pc[d]
    BY <1>16 DEF Install, ControlInv
  <2>b. (\E r \in Record : Put(c, k, r)) /\ cache'[k] = rec[c]
    <3>1. Put(c, k, rec[c])
      BY <1>16, <2>0 DEF Install
    <3>2. cache'[k] = rec[c]
      BY <3>1 DEF Put, DataType
    <3> QED BY <2>a, <3>1, <3>2
  <2>c. /\ cache'[k] \in Record /\ \A x \in Keys : x # k => cache'[x] = cache[x]
    BY <2>a, <2>b, PutFacts
  <2>d. k \in overtaken[c] \/ cache[k].set \subseteq cache'[k].set
    BY <2>0, <2>a, <2>b DEF ReadInv
  <2>1. PresenceInv'
    <3>1. k \notin unused
      BY <2>0 DEF PresenceInv
    <3>2. \A x \in Keys : cache[x] # NoRecord => cache'[x] # NoRecord
      BY <2>c, Records
    <3>3. \A i \in DOMAIN queue : queue[i].key \in Keys
      BY QueueElements
    <3>4. \A d \in Conns : pc[d] = "enqueue" => row[d] \in Keys
      BY DEF ControlInv
    <3>5. \A x \in unused : cache'[x] = cache[x]
      BY <2>c, <3>1 DEF DataType
    <3>6. UNCHANGED <<tree, queue, row, tx, unused>>
      BY <1>16 DEF Install, bounds
    <3>7. \A d \in Conns : pc'[d] = "enqueue" => cache'[row'[d]] # NoRecord
      BY <2>0, <2>a, <2>c, <3>2, <3>4, <3>6, Records DEF PresenceInv
    <3>8. \A x \in Keys : tree'[x] # NoRecord => cache'[x] # NoRecord
      BY <3>2, <3>6 DEF PresenceInv
    <3>9. \A i \in DOMAIN queue' : cache'[queue'[i].key] # NoRecord
      BY <3>2, <3>3, <3>6 DEF PresenceInv
    <3> QED BY <3>5, <3>6, <3>7, <3>8, <3>9 DEF PresenceInv
  <2>2. WrittenInv'
    <3>1. /\ \A x \in Keys : \A u : Safe(u, x) => Safe(u, x)'
          /\ \A u \in cache'[k].set : Safe(u, k)'
      BY <2>a, <2>b, <2>d, PutSafe
    <3>2. UNCHANGED <<stored, row, rec>>
      BY <1>16 DEF Install
    <3>3. \A uk \in stored : uk[2] \in Keys
      OBVIOUS
    <3>4. \A d \in Conns : pc[d] = "enqueue" => row[d] \in Keys
      BY DEF ControlInv
    <3>5. \A uk \in stored' : Safe(uk[1], uk[2])'
      BY <3>1, <3>2, <3>3 DEF WrittenInv
    <3>6. \A d \in Conns : pc'[d] = "enqueue" => \A u \in rec'[d].set : Safe(u, row[d])'
      BY <2>0, <2>a, <2>b, <3>1, <3>2, <3>4 DEF WrittenInv
    <3>7. \A d \in Conns : row'[d] = row[d]
      BY <3>2
    <3> QED BY <3>5, <3>6, <3>7 DEF WrittenInv, Safe
  <2>3. ReadInv'
    <3>1. ASSUME NEW d \in Conns, d # c
          PROVE  /\ pc'[d] \in {"version", "install"} =>
                      row'[d] \in overtaken'[d] \/ cache'[row'[d]].set \subseteq rec'[d].set
                 /\ \A x \in DOMAIN tx'[d].updates : Open(d, x)' =>
                      \/ x \in overtaken'[d]
                      \/ cache'[x].set \subseteq tx'[d].updates[x].set
                      \/ ~Checked(d, x)' /\ cache'[x].version > tx'[d].snapshot_version
      <4>1. UNCHANGED tx /\ pc'[d] = pc[d] /\ kind'[d] = kind[d] /\ todo'[d] = todo[d]
            /\ row'[d] = row[d] /\ rec'[d] = rec[d]
        BY <1>16, <2>a, <3>1 DEF Install
      <4> QED BY <2>a, <2>b, <3>1, <4>1, PutRead
    <3>2. DOMAIN tx'[c].updates = {}
      BY <1>16, EmptyUpdates DEF Install, ControlInv
    <3> QED BY <2>a, <3>1, <3>2 DEF ReadInv
  <2>4. DueInv'
    BY <1>16, <2>a, <2>b, PutDue DEF Install
  <2> QED BY <2>1, <2>2, <2>3, <2>4
<1>17. ASSUME NEW c \in Conns, Enqueue(c) PROVE RowInv'
  <2>1. PresenceInv'
    <3>1. \A i \in DOMAIN queue' : (i \in DOMAIN queue /\ queue'[i] = queue[i]) \/ queue'[i].key = row[c]
      <4> DEFINE Item == [key : Keys, rec : Record]
                 new == [key |-> row[c], rec |-> rec[c]]
      <4>1. queue \in Seq(Item) /\ new \in Item /\ queue' = Append(queue, new) /\ new.key = row[c]
        BY <1>17 DEF Enqueue, DataType, ControlInv
      <4> HIDE DEF Item, new
      <4> QED BY <4>1
    <3>2. row'[c] = NoKey /\ pc'[c] # "enqueue" /\ \A d \in Conns : d # c => row'[d] = row[d] /\ pc'[d] = pc[d]
      BY <1>17 DEF Enqueue
    <3>3. NoKey \notin unused
      BY EngineAssumption DEF DataType
    <3> QED BY <1>17, <3>1, <3>2, <3>3 DEF PresenceInv, Enqueue, bounds
  <2>2. WrittenInv'
    <3>1. row[c] \in Keys /\ pc[c] = "enqueue" /\ UNCHANGED <<cache, excused>>
      BY <1>17 DEF Enqueue, ControlInv
    <3>2. \A uk \in stored' : uk \in stored \/ \E u \in rec[c].set : uk = <<u, row[c]>>
      BY <1>17 DEF Enqueue
    <3>3. \A uk \in stored' : Safe(uk[1], uk[2])
      BY <3>1, <3>2 DEF WrittenInv
    <3>4. pc'[c] # "enqueue" /\ \A d \in Conns : d # c => pc'[d] = pc[d] /\ row'[d] = row[d] /\ rec'[d] = rec[d]
      BY <1>17 DEF Enqueue
    <3> QED BY <3>1, <3>3, <3>4 DEF WrittenInv, Safe
  <2>3. ReadInv'
    BY <1>17, ReadFrame, EmptyUpdates DEF Enqueue, Open, Checked, Installing, ControlInv, data, local, bounds, history
  <2>4. DueInv'
    BY <1>17, DueFrame DEF Enqueue, DueInv, ControlInv, data, local, bounds, history
  <2> QED BY <2>1, <2>2, <2>3, <2>4
<1>18. ASSUME NEW c \in Conns, EnqueueFail(c) PROVE RowInv'
  <2>1. PresenceInv'
    BY <1>18, PresenceFrame, EmptyUpdates DEF EnqueueFail, Return, EndTx, data, local, bounds, history
  <2>2. WrittenInv'
    BY <1>18, WrittenFrame DEF EnqueueFail, Return, EndTx, data, local, bounds, history
  <2>3. ReadInv'
    BY <1>18, ReadFrame, EmptyUpdates DEF EnqueueFail, Return, EndTx, Open, Checked, Installing, ControlInv, data, local, bounds, history
  <2>4. DueInv'
    BY <1>18, DueFrame DEF EnqueueFail, Return, EndTx, DueInv, ControlInv, data, local, bounds, history
  <2> QED BY <2>1, <2>2, <2>3, <2>4
<1>19. ASSUME NEW c \in Conns, StatementDone(c) PROVE RowInv'
  <2>1. PresenceInv'
    BY <1>19, PresenceFrame, EmptyUpdates DEF StatementDone, Return, data, local, bounds, history
  <2>2. WrittenInv'
    BY <1>19, WrittenFrame DEF StatementDone, Return, data, local, bounds, history
  <2>3. ReadInv'
    BY <1>19, ReadFrame, EmptyUpdates DEF StatementDone, Return, Open, Checked, Installing, ControlInv, data, local, bounds, history
  <2>4. DueInv'
    BY <1>19, DueFrame DEF StatementDone, Return, DueInv, ControlInv, data, local, bounds, history
  <2> QED BY <2>1, <2>2, <2>3, <2>4
<1>20. ASSUME NEW c \in Conns, NEW k \in Keys, Validate(c, k) PROVE RowInv'
  <2>1. PresenceInv'
    BY <1>20, PresenceFrame, EmptyUpdates DEF Validate, data, local, bounds, history
  <2>2. WrittenInv'
    BY <1>20, WrittenFrame DEF Validate, data, local, bounds, history
  <2>3. ReadInv'
    <3>1. UNCHANGED <<cache, tx, pc, kind, row, rec, overtaken>> /\ todo'[c] = todo[c] \ {k}
          /\ \A d \in Conns : d # c => todo'[d] = todo[d]
      BY <1>20 DEF Validate, data, history
    <3>2. ~(cache[k].version > tx[c].snapshot_version) /\ pc[c] = "validate"
      BY <1>20, CurrentIsCached DEF Validate, Newer
    <3>3. \A d \in Conns : \A x \in DOMAIN tx[d].updates :
             (Open(d, x)' <=> Open(d, x)) /\ (Checked(d, x)' => Checked(d, x) \/ (d = c /\ x = k))
      BY <3>1, <3>2 DEF Open, Checked, Installing
    <3> QED BY <3>1, <3>2, <3>3 DEF ReadInv
  <2>4. DueInv'
    BY <1>20, DueFrame DEF Validate, DueInv, ControlInv, data, local, bounds, history
  <2> QED BY <2>1, <2>2, <2>3, <2>4
<1>21. ASSUME NEW c \in Conns, NEW k \in Keys, Conflict(c, k) PROVE RowInv'
  <2>1. PresenceInv'
    BY <1>21, PresenceFrame, EmptyUpdates DEF Conflict, Return, EndTx, data, local, bounds, history
  <2>2. WrittenInv'
    BY <1>21, WrittenFrame DEF Conflict, Return, EndTx, data, local, bounds, history
  <2>3. ReadInv'
    BY <1>21, ReadFrame, EmptyUpdates DEF Conflict, Return, EndTx, Open, Checked, Installing, ControlInv, data, local, bounds, history
  <2>4. DueInv'
    BY <1>21, DueFrame DEF Conflict, Return, EndTx, DueInv, ControlInv, data, local, bounds, history
  <2> QED BY <2>1, <2>2, <2>3, <2>4
<1>22. ASSUME NEW c \in Conns, CommitVersion(c) PROVE RowInv'
  <2>1. PresenceInv'
    BY <1>22, PresenceFrame, EmptyUpdates DEF CommitVersion, data, local, bounds, history
  <2>2. WrittenInv'
    BY <1>22, WrittenFrame DEF CommitVersion, data, local, bounds, history
  <2>3. ReadInv'
    BY <1>22, ReadFrame, EmptyUpdates DEF CommitVersion, Open, Checked, Installing, ControlInv, data, local, bounds, history
  <2>4. DueInv'
    BY <1>22, DueFrame DEF CommitVersion, DueInv, ControlInv, data, local, bounds, history
  <2> QED BY <2>1, <2>2, <2>3, <2>4
<1>23. ASSUME NEW c \in Conns, NEW k \in Keys, CommitRow(c, k) PROVE RowInv'
  <2>a. k \in DOMAIN tx[c].updates /\ tx[c].updates[k] \in Record /\ ver[c] \in Nat
        /\ kind[c] = "commit" /\ pc[c] = "commit" /\ k \in todo[c]
    BY <1>23, UpdatesType DEF CommitRow, ControlInv, DataType, Transaction
  <2>b. pc'[c] = "enqueue" /\ row'[c] = k /\ todo'[c] = todo[c] \ {k}
        /\ \A d \in Conns : d # c => pc'[d] = pc[d] /\ row'[d] = row[d] /\ rec'[d] = rec[d] /\ todo'[d] = todo[d]
    BY <1>23 DEF CommitRow
  <2> DEFINE r == [tx[c].updates[k] EXCEPT !.version = ver[c]]
  <2>c. r \in Record /\ r.set = tx[c].updates[k].set
    BY <2>a, Versioned
  <2>d. Put(c, k, r) /\ cache'[k] = r /\ rec'[c] = r
    BY <1>23 DEF CommitRow, Put, DataType
  <2> HIDE DEF r
  <2>e. (\E q \in Record : Put(c, k, q)) /\ cache'[k].set = tx[c].updates[k].set /\ rec'[c] = cache'[k]
    BY <2>c, <2>d
  <2>f. /\ cache'[k] \in Record /\ \A x \in Keys : x # k => cache'[x] = cache[x]
        /\ \A d \in Conns : overtaken[d] \subseteq overtaken'[d]
    BY <2>e, PutFacts
  <2>g. k \in overtaken[c] \/ cache[k].set \subseteq cache'[k].set
    BY <2>a, <2>e DEF ReadInv, Open, Checked, Installing
  <2>1. PresenceInv'
    <3>1. k \notin unused
      BY <2>a DEF PresenceInv
    <3>2. \A x \in Keys : cache[x] # NoRecord => cache'[x] # NoRecord
      BY <2>f, Records
    <3>3. \A i \in DOMAIN queue : queue[i].key \in Keys
      BY QueueElements
    <3>4. \A d \in Conns : pc[d] = "enqueue" => row[d] \in Keys
      BY DEF ControlInv
    <3>5. \A x \in unused : cache'[x] = cache[x]
      BY <2>f, <3>1 DEF DataType
    <3>6. UNCHANGED <<tree, queue, tx, unused>>
      BY <1>23 DEF CommitRow, bounds
    <3>7. \A d \in Conns : pc'[d] = "enqueue" => cache'[row'[d]] # NoRecord
      BY <2>b, <2>f, <3>2, <3>4, Records, SMTT(30) DEF PresenceInv
    <3>8. \A x \in Keys : tree'[x] # NoRecord => cache'[x] # NoRecord
      BY <3>2, <3>6 DEF PresenceInv
    <3>9. \A i \in DOMAIN queue' : cache'[queue'[i].key] # NoRecord
      BY <3>2, <3>3, <3>6 DEF PresenceInv
    <3>10. \A x \in unused : \A d \in Conns : row'[d] # x
      BY <2>b, <3>1 DEF PresenceInv
    <3> QED BY <3>5, <3>6, <3>7, <3>8, <3>9, <3>10 DEF PresenceInv
  <2>2. WrittenInv'
    <3>1. /\ \A x \in Keys : \A u : Safe(u, x) => Safe(u, x)'
          /\ \A u \in cache'[k].set : Safe(u, k)'
      BY <2>e, <2>g, PutSafe
    <3>2. stored' = stored
      BY <1>23 DEF CommitRow
    <3>3. \A uk \in stored : uk[2] \in Keys
      OBVIOUS
    <3>4. \A d \in Conns : pc[d] = "enqueue" => row[d] \in Keys
      BY DEF ControlInv
    <3>5. \A uk \in stored' : Safe(uk[1], uk[2])'
      BY <3>1, <3>2, <3>3 DEF WrittenInv
    <3>6. \A d \in Conns : d # c /\ pc'[d] = "enqueue" => \A u \in rec[d].set : Safe(u, row[d])'
      BY <2>b, <3>1, <3>4 DEF WrittenInv
    <3> QED BY <2>b, <2>e, <3>1, <3>5, <3>6 DEF WrittenInv, Safe
  <2>3. ReadInv'
    <3>1. ASSUME NEW d \in Conns, d # c
          PROVE  /\ pc'[d] \in {"version", "install"} =>
                      row'[d] \in overtaken'[d] \/ cache'[row'[d]].set \subseteq rec'[d].set
                 /\ \A x \in DOMAIN tx'[d].updates : Open(d, x)' =>
                      \/ x \in overtaken'[d]
                      \/ cache'[x].set \subseteq tx'[d].updates[x].set
                      \/ ~Checked(d, x)' /\ cache'[x].version > tx'[d].snapshot_version
      <4>1. UNCHANGED tx /\ pc'[d] = pc[d] /\ kind'[d] = kind[d] /\ todo'[d] = todo[d]
            /\ row'[d] = row[d] /\ rec'[d] = rec[d]
        BY <1>23, <2>b, <3>1 DEF CommitRow
      <4> QED BY <2>e, <3>1, <4>1, PutRead
    <3>2. DOMAIN tx[c].updates \subseteq Keys /\ UNCHANGED <<tx, kind>>
      BY <1>23, UpdatesType DEF Transaction, CommitRow
    <3>3. \A x \in DOMAIN tx'[c].updates : Open(c, x)' => x # k /\ Open(c, x) /\ Checked(c, x)
      BY <2>a, <2>b, <3>2 DEF Open, Checked, Installing
    <3>4. \A x \in DOMAIN tx'[c].updates : Open(c, x)' =>
             x \in overtaken'[c] \/ cache'[x].set \subseteq tx'[c].updates[x].set
      BY <2>f, <3>2, <3>3 DEF ReadInv
    <3> QED BY <2>b, <3>1, <3>4 DEF ReadInv
  <2>4. DueInv'
    BY <1>23, <2>a, <2>b, <2>e, PutDue DEF CommitRow
  <2> QED BY <2>1, <2>2, <2>3, <2>4
<1>24. ASSUME NEW c \in Conns, CommitDone(c) PROVE RowInv'
  <2>1. PresenceInv'
    BY <1>24, PresenceFrame, EmptyUpdates DEF CommitDone, Return, EndTx, data, local, bounds, history
  <2>2. WrittenInv'
    BY <1>24, WrittenFrame DEF CommitDone, Return, EndTx, data, local, bounds, history
  <2>3. ReadInv'
    BY <1>24, ReadFrame, EmptyUpdates DEF CommitDone, Return, EndTx, Open, Checked, Installing, ControlInv, data, local, bounds, history
  <2>4. DueInv'
    BY <1>24, DueFrame DEF CommitDone, Return, EndTx, DueInv, ControlInv, data, local, bounds, history
  <2> QED BY <2>1, <2>2, <2>3, <2>4
<1>25. CASE DrainRow
  <2>1. PresenceInv'
    <3>1. Head(queue) = queue[1] /\ 1 \in DOMAIN queue
          /\ \A i \in DOMAIN Tail(queue) : i + 1 \in DOMAIN queue /\ Tail(queue)[i] = queue[i + 1]
      BY <1>25, HeadTail DEF DrainRow, DataType
    <3>2. \A k \in Keys : k # queue[1].key => tree'[k] = tree[k]
      BY <1>25, <3>1 DEF DrainRow, DataType
    <3> QED BY <1>25, <3>1, <3>2 DEF PresenceInv, DrainRow, local, bounds
  <2>2. WrittenInv'
    BY <1>25, WrittenFrame DEF DrainRow, data, local, bounds, history
  <2>3. ReadInv'
    BY <1>25, ReadFrame, EmptyUpdates DEF DrainRow, Open, Checked, Installing, ControlInv, data, local, bounds, history
  <2>4. DueInv'
    BY <1>25, DueFrame DEF DrainRow, DueInv, ControlInv, data, local, bounds, history
  <2> QED BY <2>1, <2>2, <2>3, <2>4
<1>26. CASE LogRow
  <2>1. PresenceInv'
    <3>1. \A i \in DOMAIN Tail(queue) : i + 1 \in DOMAIN queue /\ Tail(queue)[i] = queue[i + 1]
      BY <1>26, HeadTail DEF LogRow, DataType
    <3> QED BY <1>26, <3>1 DEF PresenceInv, LogRow, local, bounds
  <2>2. WrittenInv'
    BY <1>26, WrittenFrame DEF LogRow, data, local, bounds, history
  <2>3. ReadInv'
    BY <1>26, ReadFrame, EmptyUpdates DEF LogRow, Open, Checked, Installing, ControlInv, data, local, bounds, history
  <2>4. DueInv'
    BY <1>26, DueFrame DEF LogRow, DueInv, ControlInv, data, local, bounds, history
  <2> QED BY <2>1, <2>2, <2>3, <2>4
<1>27. CASE UNCHANGED vars
  <2>1. PresenceInv'
    BY <1>27, PresenceFrame, EmptyUpdates DEF vars, data, local, bounds, history
  <2>2. WrittenInv'
    BY <1>27, WrittenFrame DEF vars, data, local, bounds, history
  <2>3. ReadInv'
    BY <1>27, ReadFrame, EmptyUpdates DEF vars, Open, Checked, Installing, ControlInv, data, local, bounds, history
  <2>4. DueInv'
    BY <1>27, DueFrame DEF vars, DueInv, ControlInv, data, local, bounds, history
  <2> QED BY <2>1, <2>2, <2>3, <2>4
<1> QED BY <1>1, <1>2, <1>3, <1>4, <1>5, <1>6, <1>7, <1>8, <1>9, <1>10, <1>11, <1>12, <1>13, <1>14, <1>15, <1>16, <1>17, <1>18, <1>19, <1>20, <1>21, <1>22, <1>23, <1>24, <1>25, <1>26, <1>27 DEF Next, Step

\* The first state.
LEMMA InitRows == Init => RowInv
<1> SUFFICES ASSUME Init PROVE RowInv
  OBVIOUS
<1>1. PresenceInv
  BY EmptyUpdates, EngineAssumption, Records DEF Init, PresenceInv
<1>2. WrittenInv
  BY DEF Init, WrittenInv
<1>3. ReadInv
  BY EmptyUpdates DEF Init, ReadInv
<1>4. DueInv
  BY DEF Init, DueInv
<1> QED BY <1>1, <1>2, <1>3, <1>4 DEF RowInv

\* Evictions are counted.
LEMMA NextEvictions ==
  ASSUME evictions \in Nat, [Next]_vars
  PROVE  evictions' \in Nat /\ (evictions' = 0 => evictions = 0 /\ \A k \in Keys : ~Evict(k))
<1>1. CASE \E k \in Keys : Evict(k)
  BY <1>1 DEF Evict
<1>2. CASE UNCHANGED evictions
  BY <1>2 DEF Evict
<1>3. ASSUME NEW c \in Conns, Step(c) PROVE UNCHANGED evictions
  BY <1>3 DEF Step, Begin, Rollback, Commit, InsertInTx, Insert, Scan, ScanCache, ScanTree, Answer,
     SelectRows, BufferRow, TakeRow, MissingRow, ReadFail, NewVersion, Install, Enqueue, EnqueueFail,
     StatementDone, Validate, Conflict, CommitVersion, CommitRow, CommitDone, bounds
<1>4. CASE DrainRow \/ LogRow \/ UNCHANGED vars
  BY <1>4, <1>2 DEF DrainRow, LogRow, vars, bounds
<1> QED BY <1>1, <1>2, <1>3, <1>4 DEF Next

\* The invariant holds until something is evicted.
LEMMA RowsUnlessEvicted == Spec => [](TypeInv /\ (evictions = 0 => RowInv))
<1> DEFINE Inv == TypeInv /\ evictions \in Nat /\ (evictions = 0 => RowInv)
<1>1. Init => Inv
  BY InitTypes, InitRows DEF Init
<1>2. Inv /\ [Next]_vars => Inv'
  BY NextTypes, NextRows, NextEvictions
<1>3. Inv => TypeInv /\ (evictions = 0 => RowInv)
  OBVIOUS
<1> QED BY <1>1, <1>2, <1>3, PTL DEF Spec

(* As long as nothing was evicted, what a statement or a commit has stored *)
(* stays in the row, outside the windows that excused records: commits     *)
(* lose no update that validation could have found (engine.rs handle_update *)
(* and COMMIT).                                                            *)
THEOREM StoredStaysUnlessEvicted == Spec => [](evictions = 0 => StoredStays)
<1>1. TypeInv /\ RowInv => StoredStays
  <2> SUFFICES ASSUME TypeInv, RowInv PROVE StoredStays
    OBVIOUS
  <2>1. \A uk \in stored : uk[2] \in Keys /\ uk = <<uk[1], uk[2]>>
    BY DEF TypeInv, BookType
  <2> QED BY <2>1, CurrentIsCached DEF StoredStays, RowInv, WrittenInv, Safe
<1> QED BY <1>1, RowsUnlessEvicted, PTL

(* As long as nothing was evicted, a SELECT shows every row that nobody    *)
(* wrote during its scan as it was last written (engine.rs                 *)
(* scan_table_with_filter).                                                *)
THEOREM QuietRowsVisibleUnlessEvicted == Spec => [](evictions = 0 => QuietRowsVisible)
<1>1. RowInv => QuietRowsVisible
  BY DEF QuietRowsVisible, RowInv, DueInv
<1> QED BY <1>1, RowsUnlessEvicted, PTL
=============================================================================
