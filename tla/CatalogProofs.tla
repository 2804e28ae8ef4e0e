--------------------------- MODULE CatalogProofs ----------------------------
(***************************************************************************)
(* Theorems about the catalog and the secondary indices of module Catalog, *)
(* for any connections, tables and values and every bound.                 *)
(***************************************************************************)
EXTENDS Catalog, FiniteSetTheorems, TLAPS

-----------------------------------------------------------------------------
(* Types.  The ids and keys an INSERT has still to give are bounded by the *)
(* keys drawn, and the table of a statement exists while it inserts.       *)

Building == {"row", "index", "enqueue"}

\* The rows an INSERT has still to build.
Rest(c) == IF pc[c] = "row" THEN Len(left[c]) ELSE IF pc[c] = "index" THEN Len(left[c]) - 1 ELSE 0

StatementOK(c) ==
  /\ pc[c] # "idle" => table[c] \in Tables
  /\ pc[c] = "index" => key[c] # NoKey
  /\ pc[c] \in Building => /\ schemas[table[c]] # 0 /\ next_id[c] # 0
                           /\ next_id[c] + Rest(c) <= drawn + 1 /\ key[c] + Rest(c) <= drawn

StatementInv ==
  /\ \A t \in Tables : schemas[t] <= drawn + 1
  /\ \A c \in Conns : StatementOK(c)

TypeInv == TypeOK /\ StatementInv

\* A connection's statement is where it was.
Same(c) ==
  /\ pc'[c] = pc[c] /\ table'[c] = table[c] /\ next_id'[c] = next_id[c] /\ left'[c] = left[c]
  /\ key'[c] = key[c] /\ pending'[c] = pending[c] /\ todo'[c] = todo[c] /\ seen'[c] = seen[c]

\* The statement of one connection moves on, tables stay and counters grow.
LEMMA StatementFrame ==
  ASSUME TypeInv, NEW c \in Conns, \A d \in Conns \ {c} : Same(d), StatementOK(c)',
         \A t \in Tables : schemas[t] # 0 => schemas'[t] # 0,
         \A t \in Tables : schemas'[t] <= drawn' + 1,
         drawn' \in Nat, drawn <= drawn'
  PROVE  StatementInv'
<1> SUFFICES ASSUME NEW d \in Conns PROVE StatementOK(d)'
  BY DEF StatementInv
<1>1. CASE d = c
  BY <1>1
<1>2. CASE d # c
  <2>1. StatementOK(d) /\ Same(d)
    BY <1>2 DEF TypeInv, StatementInv
  <2>2. left[d] \in Seq(Values) /\ Len(left[d]) \in Nat /\ next_id[d] \in Nat /\ key[d] \in Nat /\ drawn \in Nat
    BY CatalogAssumption DEF TypeInv, TypeOK, LocalType, HistoryType
  <2>3. Rest(d)' = Rest(d) /\ Rest(d) \in Int
    BY <2>1, <2>2 DEF Same, Rest
  <2>4. pc[d] \in Building => table[d] \in Tables
    BY <2>1 DEF StatementOK, Building
  <2> QED BY <2>1, <2>2, <2>3, <2>4 DEF StatementOK, Same, Building
<1> QED BY <1>1, <1>2

\* The statement ends.
LEMMA ReturnFacts ==
  ASSUME TypeInv, NEW c \in Conns, Return(c)
  PROVE  /\ LocalType' /\ pc'[c] = "idle" /\ pending'[c] = <<>> /\ StatementOK(c)'
         /\ \A d \in Conns \ {c} : Same(d)
<1> USE CatalogAssumption DEF TypeInv, TypeOK, LocalType, Return, Goto
<1>1. LocalType'
  <2>1. NoTables \in [Tables -> Nat] /\ NoKey \in 0..MaxRows /\ <<>> \in Seq(Values) /\ <<>> \in Seq(IdxEntries)
    BY DEF NoTables, NoKey
  <2> QED BY <2>1
<1>2. pc'[c] = "idle" /\ pending'[c] = <<>>
  OBVIOUS
<1>3. StatementOK(c)'
  BY <1>2 DEF StatementOK, Building
<1>4. \A d \in Conns \ {c} : Same(d)
  BY DEF Same
<1> QED BY <1>1, <1>2, <1>3, <1>4

\* A statement that ends and leaves the schemas alone.
LEMMA ReturnTypes ==
  ASSUME TypeInv, NEW c \in Conns, Return(c), UNCHANGED <<schemas, bounds>>
  PROVE  LocalType' /\ StatementInv'
<1>1. LocalType' /\ StatementOK(c)' /\ \A d \in Conns \ {c} : Same(d)
  BY ReturnFacts
<1>2. drawn' = drawn /\ drawn \in Nat
  BY CatalogAssumption DEF TypeInv, TypeOK, HistoryType, bounds
<1> QED BY <1>1, <1>2, StatementFrame DEF TypeInv, StatementInv

\* CREATE TABLE begins.
LEMMA CreateTableTypes ==
  ASSUME TypeInv, NEW c \in Conns, NEW t \in Tables, CreateTable(c, t)
  PROVE  TypeInv'
<1> USE CatalogAssumption DEF TypeInv, TypeOK, CreateTable, Collecting, Goto
<1>1. SharedType'
  BY DEF SharedType
<1>2. LocalType'
  BY DEF LocalType, NoTables
<1>3. HistoryType'
  BY DEF HistoryType
<1>4. \A x \in Tables : schemas'[x] = IF x = t THEN 1 ELSE schemas[x]
  BY DEF SharedType
<1>5. TxType'
  <2>1. \A d \in Conns : \A r \in tx[d].rows : r.row.table \in Tables
    BY DEF TxType, Row
  <2> QED BY <1>4, <2>1 DEF TxType
<1>6. StatementOK(c)' /\ \A d \in Conns \ {c} : Same(d)
  BY DEF StatementOK, Building, Same, LocalType
<1>7. drawn' = drawn /\ drawn \in Nat
  BY DEF HistoryType
<1>8. \A x \in Tables : schemas[x] <= drawn + 1
  BY DEF StatementInv
<1>9. StatementInv'
  BY <1>4, <1>6, <1>7, <1>8, StatementFrame
<1> QED BY <1>1, <1>2, <1>3, <1>5, <1>9

\* The next table of the iteration.
LEMMA CollectTypes ==
  ASSUME TypeInv, NEW c \in Conns, NEW t \in Tables, Collect(c, t)
  PROVE  TypeInv'
<1> USE CatalogAssumption DEF TypeInv, TypeOK, Collect, shared, bounds, history
<1>1. SharedType' /\ HistoryType' /\ TxType'
  BY DEF SharedType, HistoryType, TxType
<1>2. LocalType'
  BY DEF LocalType, SharedType
<1>3. StatementInv'
  BY DEF StatementInv, StatementOK, Rest
<1> QED BY <1>1, <1>2, <1>3

\* CREATE TABLE stores the catalog or fails to.
LEMMA StoreCatalogTypes ==
  ASSUME TypeInv, NEW c \in Conns, StoreCatalog(c) \/ StoreCatalogFail(c)
  PROVE  TypeInv'
<1>1. Return(c) /\ UNCHANGED <<schemas, tx, bounds>>
  BY DEF StoreCatalog, StoreCatalogFail, shared
<1>2. LocalType' /\ StatementInv'
  BY <1>1, ReturnTypes
<1>3. seen[c] \in [Tables -> Nat] /\ (pc[c] = "create" => table[c] \in Tables)
  BY DEF TypeInv, TypeOK, LocalType, StatementInv, StatementOK
<1>4. SharedType'
  BY <1>1, <1>3 DEF StoreCatalog, StoreCatalogFail, shared, TypeInv, TypeOK, SharedType
<1>5. HistoryType'
  BY <1>1, <1>3 DEF StoreCatalog, StoreCatalogFail, history, bounds, TypeInv, TypeOK, HistoryType
<1>6. TxType'
  BY <1>1 DEF TypeInv, TypeOK, TxType
<1> QED BY <1>2, <1>4, <1>5, <1>6 DEF TypeInv, TypeOK
\* An INSERT begins.
LEMMA InsertTypes ==
  ASSUME TypeInv, NEW c \in Conns, NEW t \in Tables, Insert(c, t)
  PROVE  TypeInv'
<1>0. PICK n \in 1..MaxPerInsert : \E vals \in [1..n -> Values] :
        drawn + n <= MaxRows /\ drawn' = drawn + n /\ left' = [left EXCEPT ![c] = vals]
  BY DEF Insert
<1>1. PICK vals \in [1..n -> Values] :
        drawn + n <= MaxRows /\ drawn' = drawn + n /\ left' = [left EXCEPT ![c] = vals]
  BY <1>0
<1>2. drawn \in 0..MaxRows /\ n \in Nat /\ n >= 1 /\ drawn' \in 0..MaxRows
  BY <1>1, CatalogAssumption DEF TypeInv, TypeOK, HistoryType
<1>3. vals \in Seq(Values) /\ Len(vals) = n /\ vals # <<>>
  BY <1>2
<1>4. schemas[t] \in Nat /\ schemas[t] # 0 /\ schemas[t] <= drawn + 1
  BY DEF TypeInv, TypeOK, SharedType, StatementInv, Insert
<1>5. SharedType' /\ TxType'
  BY DEF TypeInv, TypeOK, SharedType, TxType, Insert, shared
<1>6. LocalType'
  BY <1>1, <1>2, <1>3, <1>4 DEF TypeInv, TypeOK, LocalType, Insert, Goto
<1>7. HistoryType'
  BY <1>2 DEF TypeInv, TypeOK, HistoryType, Insert
<1>8. /\ pc'[c] = "row" /\ table'[c] = t /\ next_id'[c] = schemas[t] /\ key'[c] = drawn
      /\ left'[c] = vals /\ schemas' = schemas /\ \A d \in Conns \ {c} : Same(d)
  BY <1>1 DEF TypeInv, TypeOK, LocalType, Insert, Goto, Same, shared
<1>9. StatementOK(c)'
  BY <1>1, <1>2, <1>3, <1>4, <1>8 DEF StatementOK, Building, Rest
<1>10. \A x \in Tables : schemas[x] \in Nat /\ schemas[x] <= drawn + 1
  BY DEF TypeInv, TypeOK, SharedType, StatementInv
<1>11. StatementInv'
  <2>1. drawn' \in Nat /\ drawn <= drawn'
    BY <1>1, <1>2
  <2>2. \A x \in Tables : schemas'[x] <= drawn' + 1
    BY <1>1, <1>2, <1>8, <1>10
  <2> QED BY <1>8, <1>9, <2>1, <2>2, StatementFrame
<1> QED BY <1>5, <1>6, <1>7, <1>11 DEF TypeInv, TypeOK

\* The head and the tail of a sequence.
LEMMA RestFacts ==
  ASSUME NEW S, NEW s \in Seq(S), s # <<>>
  PROVE  Head(s) \in S /\ Tail(s) \in Seq(S) /\ Len(Tail(s)) = Len(s) - 1 /\ Len(s) >= 1
OBVIOUS

\* What an INSERT has when it builds or indexes a row.
LEMMA RowFacts ==
  ASSUME TypeInv, NEW c \in Conns, pc[c] \in {"row", "index"}
  PROVE  /\ table[c] \in Tables /\ schemas[table[c]] # 0
         /\ left[c] \in Seq(Values) /\ left[c] # <<>> /\ Head(left[c]) \in Values
         /\ Tail(left[c]) \in Seq(Values) /\ Len(Tail(left[c])) = Len(left[c]) - 1
         /\ Len(left[c]) \in Nat /\ Len(left[c]) >= 1
         /\ key[c] \in Nat /\ next_id[c] \in Nat /\ drawn \in 0..MaxRows
         /\ pc[c] = "row" => key[c] + 1 \in Key /\ next_id[c] \in 1..MaxRows
         /\ pc[c] = "index" => key[c] \in Key
<1>1. left[c] \in Seq(Values) /\ left[c] # <<>> /\ key[c] \in 0..MaxRows /\ next_id[c] \in Nat /\ drawn \in 0..MaxRows
  BY CatalogAssumption DEF TypeInv, TypeOK, LocalType, HistoryType
<1>2. /\ Head(left[c]) \in Values /\ Tail(left[c]) \in Seq(Values)
      /\ Len(Tail(left[c])) = Len(left[c]) - 1 /\ Len(left[c]) >= 1
  BY <1>1, RestFacts
<1>3. Len(left[c]) \in Nat
  BY <1>1
<1>4. StatementOK(c)
  BY DEF TypeInv, StatementInv
<1>5. /\ table[c] \in Tables /\ schemas[table[c]] # 0 /\ next_id[c] # 0
      /\ next_id[c] + Rest(c) <= drawn + 1 /\ key[c] + Rest(c) <= drawn
      /\ pc[c] = "index" => key[c] # 0
  BY <1>4 DEF StatementOK, Building, NoKey
<1>6. pc[c] = "row" => key[c] + 1 \in Key /\ next_id[c] \in 1..MaxRows
  BY <1>1, <1>2, <1>3, <1>5, CatalogAssumption DEF Rest, Key
<1>7. pc[c] = "index" => key[c] \in Key
  BY <1>1, <1>5, CatalogAssumption DEF Key
<1>8. key[c] \in Nat
  BY <1>1, CatalogAssumption
<1> QED BY <1>1, <1>2, <1>3, <1>5, <1>6, <1>7, <1>8

\* The row an INSERT builds.
BuiltRow(c) == [table |-> table[c], val |-> Head(left[c]), id |-> next_id[c]]

\* What an INSERT does when it builds a row: in a transaction, or in the memory tier.
LEMMA BuildRowFacts ==
  ASSUME NEW c \in Conns, BuildRow(c)
  PROVE  /\ pc[c] = "row"
         /\ key' = [key EXCEPT ![c] = key[c] + 1] /\ next_id' = [next_id EXCEPT ![c] = @ + 1]
         /\ given' = given \cup {[table |-> table[c], id |-> next_id[c], key |-> key[c] + 1]}
         /\ UNCHANGED <<schemas, indices, idx, queue, tree_cat, tree_idx, table, pending, todo, seen,
                        bounds, contended, created, shadowed, issued>>
         /\ \/ /\ tx[c].open
               /\ tx' = [tx EXCEPT ![c].rows = @ \cup {[key |-> key[c] + 1, row |-> BuiltRow(c)]}]
               /\ exempt' = exempt \cup {key[c] + 1}
               /\ left' = [left EXCEPT ![c] = Tail(@)]
               /\ pc' = [pc EXCEPT ![c] = IF Tail(left[c]) = <<>> THEN "enqueue" ELSE "row"]
               /\ rows' = rows /\ held' = held
            \/ /\ ~tx[c].open /\ rows' = [rows EXCEPT ![key[c] + 1] = BuiltRow(c)]
               /\ held' = held \cup Holding({key[c] + 1})
               /\ pc' = [pc EXCEPT ![c] = "index"]
               /\ tx' = tx /\ left' = left /\ exempt' = exempt
BY DEF BuildRow, NextRow, Goto, BuiltRow

\* An INSERT builds a row.
LEMMA BuildRowTypes ==
  ASSUME TypeInv, NEW c \in Conns, BuildRow(c)
  PROVE  TypeInv'
<1>1. pc[c] = "row"
  BY DEF BuildRow
<1>0. PICK k, row : k = key[c] + 1 /\ row = BuiltRow(c)
  OBVIOUS
<1>2. /\ table[c] \in Tables /\ schemas[table[c]] # 0
      /\ left[c] \in Seq(Values) /\ left[c] # <<>> /\ Head(left[c]) \in Values
      /\ Tail(left[c]) \in Seq(Values) /\ Len(Tail(left[c])) = Len(left[c]) - 1
      /\ Len(left[c]) \in Nat /\ Len(left[c]) >= 1
      /\ key[c] \in Nat /\ next_id[c] \in Nat /\ drawn \in 0..MaxRows
      /\ k \in Key /\ next_id[c] \in 1..MaxRows
  BY <1>0, <1>1, RowFacts
<1>3. row \in Row /\ k \in 0..MaxRows /\ row.table = table[c]
  BY <1>0, <1>2, CatalogAssumption DEF Row, Key, BuiltRow
<1>4. /\ key' = [key EXCEPT ![c] = k] /\ next_id' = [next_id EXCEPT ![c] = @ + 1]
      /\ given' = given \cup {[table |-> table[c], id |-> next_id[c], key |-> k]}
      /\ UNCHANGED <<schemas, indices, idx, queue, tree_cat, tree_idx, table, pending, todo, seen,
                     bounds, contended, created, shadowed, issued>>
  BY <1>0, BuildRowFacts
<1>5. \/ /\ tx[c].open
         /\ tx' = [tx EXCEPT ![c].rows = @ \cup {[key |-> k, row |-> row]}]
         /\ exempt' = exempt \cup {k}
         /\ left' = [left EXCEPT ![c] = Tail(@)]
         /\ pc' = [pc EXCEPT ![c] = IF Tail(left[c]) = <<>> THEN "enqueue" ELSE "row"]
         /\ rows' = rows /\ held' = held
      \/ /\ ~tx[c].open /\ rows' = [rows EXCEPT ![k] = row]
         /\ held' = held \cup Holding({k})
         /\ pc' = [pc EXCEPT ![c] = "index"]
         /\ tx' = tx /\ left' = left /\ exempt' = exempt
  BY <1>0, BuildRowFacts
<1>6. SharedType'
  BY <1>2, <1>3, <1>4, <1>5 DEF TypeInv, TypeOK, SharedType
<1>7. TxType'
  <2>1. CASE tx' = tx
    BY <1>4, <2>1 DEF TypeInv, TypeOK, TxType
  <2>2. CASE tx[c].open /\ tx' = [tx EXCEPT ![c].rows = @ \cup {[key |-> k, row |-> row]}]
    <3>1. [key |-> k, row |-> row] \in [key : Key, row : Row]
      BY <1>2, <1>3
    <3>2. tx' \in [Conns -> [open : BOOLEAN, rows : SUBSET [key : Key, row : Row]]]
      BY <2>2, <3>1 DEF TypeInv, TypeOK, TxType
    <3>3. \A d \in Conns : /\ tx'[d].open = tx[d].open
                           /\ tx'[d].rows \subseteq tx[d].rows \cup {[key |-> k, row |-> row]}
                           /\ d # c => tx'[d] = tx[d]
      BY <2>2 DEF TypeInv, TypeOK, TxType
    <3> QED BY <1>2, <1>3, <1>4, <2>2, <3>1, <3>2, <3>3 DEF TypeInv, TypeOK, TxType
  <2> QED BY <1>5, <2>1, <2>2
<1>8. LocalType'
  <2>1. pc' \in [Conns -> {"idle", "create", "row", "index", "enqueue", "collect", "scan", "build"}]
    BY <1>5 DEF TypeInv, TypeOK, LocalType
  <2>2. left' \in [Conns -> Seq(Values)]
    BY <1>2, <1>5 DEF TypeInv, TypeOK, LocalType
  <2>3. key' \in [Conns -> 0..MaxRows]
    BY <1>3, <1>4 DEF TypeInv, TypeOK, LocalType
  <2>4. next_id' \in [Conns -> Nat]
    BY <1>2, <1>4 DEF TypeInv, TypeOK, LocalType
  <2>5. \A d \in Conns : pc'[d] \in {"row", "index"} => left'[d] # <<>>
    BY <1>1, <1>2, <1>5 DEF TypeInv, TypeOK, LocalType
  <2>6. /\ table' \in [Conns -> Tables \cup {"none"}] /\ pending' \in [Conns -> Seq(IdxEntries)]
        /\ todo' \in [Conns -> SUBSET Tables] /\ seen' \in [Conns -> [Tables -> Nat]]
    BY <1>4 DEF TypeInv, TypeOK, LocalType
  <2> QED BY <2>1, <2>2, <2>3, <2>4, <2>5, <2>6 DEF LocalType
<1>9. HistoryType'
  <2>1. [table |-> table[c], id |-> next_id[c], key |-> k] \in [table : Tables, id : Nat, key : Key]
    BY <1>2
  <2>2. held' \subseteq [table : Tables, val : Values, key : Key]
    <3>1. CASE held' = held
      BY <3>1 DEF TypeInv, TypeOK, HistoryType
    <3>2. CASE rows' = [rows EXCEPT ![k] = row] /\ held' = held \cup Holding({k})
      <4>1. rows'[k] = row /\ row.table \in Tables /\ row.val \in Values
        BY <1>2, <1>3, <3>2 DEF TypeInv, TypeOK, SharedType, Row
      <4> QED BY <1>2, <3>2, <4>1 DEF TypeInv, TypeOK, HistoryType, Holding
    <3> QED BY <1>5, <3>1, <3>2
  <2>3. exempt' \subseteq Key
    BY <1>2, <1>5 DEF TypeInv, TypeOK, HistoryType
  <2> QED BY <1>4, <2>1, <2>2, <2>3 DEF TypeInv, TypeOK, HistoryType, bounds
<1>10. StatementInv'
  <2>1. \A d \in Conns \ {c} : Same(d)
    BY <1>4, <1>5 DEF TypeInv, TypeOK, LocalType, Same
  <2>2. StatementOK(c)
    BY DEF TypeInv, StatementInv
  <2>3. /\ table'[c] = table[c] /\ key'[c] = key[c] + 1 /\ next_id'[c] = next_id[c] + 1
        /\ schemas' = schemas /\ drawn' = drawn
    BY <1>0, <1>4 DEF TypeInv, TypeOK, LocalType, bounds
  <2>4. \/ pc'[c] \in {"enqueue", "row"} /\ left'[c] = Tail(left[c]) /\ (pc'[c] = "enqueue" => Tail(left[c]) = <<>>)
        \/ pc'[c] = "index" /\ left'[c] = left[c]
    BY <1>5 DEF TypeInv, TypeOK, LocalType
  <2>5. Rest(c)' = Len(left[c]) - 1 /\ Rest(c) = Len(left[c])
    BY <1>1, <1>2, <2>4 DEF Rest
  <2>6. StatementOK(c)'
    <3>1. next_id[c] + Rest(c) <= drawn + 1 /\ key[c] + Rest(c) <= drawn
      BY <1>1, <2>2 DEF StatementOK, Building
    <3>2. next_id'[c] + Rest(c)' <= drawn' + 1 /\ key'[c] + Rest(c)' <= drawn'
      <4>1. PICK n, j, l : n = next_id[c] /\ j = key[c] /\ l = Len(left[c])
        OBVIOUS
      <4>2. n \in Nat /\ j \in Nat /\ l \in Nat /\ drawn \in Nat /\ n + l <= drawn + 1 /\ j + l <= drawn
        BY <1>2, <2>5, <3>1, <4>1, CatalogAssumption
      <4>3. (n + 1) + (l - 1) <= drawn + 1 /\ (j + 1) + (l - 1) <= drawn
        BY <4>2
      <4> QED BY <2>3, <2>5, <4>1, <4>3
    <3>3. next_id'[c] # 0 /\ key'[c] # 0
      BY <1>2, <2>3
    <3> QED BY <1>2, <2>3, <3>2, <3>3 DEF StatementOK, NoKey
  <2>7. drawn \in Nat /\ \A x \in Tables : schemas[x] <= drawn + 1
    BY <1>2 DEF TypeInv, StatementInv
  <2> QED BY <2>1, <2>3, <2>6, <2>7, StatementFrame
<1> QED BY <1>6, <1>7, <1>8, <1>9, <1>10 DEF TypeInv, TypeOK

\* The index entry of a row.
LEMMA IdxEntryType ==
  ASSUME NEW t \in Tables, NEW v \in Values, NEW k \in Key
  PROVE  IdxEntry(t, v, k) \in IdxEntries
BY DEF IdxEntry, IdxEntries, IdxKeys

\* An INSERT indexes a row.
LEMMA IndexRowTypes ==
  ASSUME TypeInv, NEW c \in Conns, IndexRow(c)
  PROVE  TypeInv'
<1>1. pc[c] = "index"
  BY DEF IndexRow
<1>2. /\ table[c] \in Tables /\ left[c] \in Seq(Values) /\ left[c] # <<>> /\ Head(left[c]) \in Values
      /\ Tail(left[c]) \in Seq(Values) /\ Len(Tail(left[c])) = Len(left[c]) - 1
      /\ Len(left[c]) \in Nat /\ Len(left[c]) >= 1 /\ drawn \in Nat /\ key[c] \in Key
  BY <1>1, RowFacts, CatalogAssumption
<1>3. SharedType' /\ HistoryType' /\ TxType'
  BY DEF IndexRow, TypeInv, TypeOK, SharedType, HistoryType, TxType, shared, bounds, history
<1>4. PICK e : e = IdxEntry(table[c], Head(left[c]), key[c])
  OBVIOUS
<1>5. e \in IdxEntries
  BY <1>2, <1>4, IdxEntryType
<1>6. /\ pending' = pending \/ pending' = [pending EXCEPT ![c] = Append(@, e)]
      /\ left' = [left EXCEPT ![c] = Tail(@)]
      /\ pc' = [pc EXCEPT ![c] = IF Tail(left[c]) = <<>> THEN "enqueue" ELSE "row"]
      /\ UNCHANGED <<schemas, drawn, table, next_id, key, todo, seen>>
  BY <1>4 DEF IndexRow, NextRow, Goto, shared, bounds
<1>7. LocalType'
  <2>1. pc' \in [Conns -> {"idle", "create", "row", "index", "enqueue", "collect", "scan", "build"}]
    BY <1>6 DEF TypeInv, TypeOK, LocalType
  <2>2. left' \in [Conns -> Seq(Values)]
    BY <1>2, <1>6 DEF TypeInv, TypeOK, LocalType
  <2>3. pending' \in [Conns -> Seq(IdxEntries)]
    <3>1. pending \in [Conns -> Seq(IdxEntries)]
      BY DEF TypeInv, TypeOK, LocalType
    <3>2. Append(pending[c], e) \in Seq(IdxEntries)
      BY <1>5, <3>1
    <3> QED BY <1>6, <3>1, <3>2
  <2>4. \A d \in Conns : pc'[d] \in {"row", "index"} => left'[d] # <<>>
    BY <1>1, <1>2, <1>6 DEF TypeInv, TypeOK, LocalType
  <2> QED BY <1>6, <2>1, <2>2, <2>3, <2>4 DEF TypeInv, TypeOK, LocalType
<1>8. StatementInv'
  <2>1. \A d \in Conns \ {c} : Same(d)
    BY <1>6 DEF TypeInv, TypeOK, LocalType, Same
  <2>2. StatementOK(c)
    BY DEF TypeInv, StatementInv
  <2>3. /\ table'[c] = table[c] /\ key'[c] = key[c] /\ next_id'[c] = next_id[c]
        /\ left'[c] = Tail(left[c]) /\ pc'[c] = IF Tail(left[c]) = <<>> THEN "enqueue" ELSE "row"
    BY <1>6 DEF TypeInv, TypeOK, LocalType
  <2>4. Rest(c)' = Len(left[c]) - 1 /\ Rest(c) = Len(left[c]) - 1
    BY <1>1, <1>2, <2>3 DEF Rest
  <2>5. StatementOK(c)'
    BY <1>1, <1>2, <1>6, <2>2, <2>3, <2>4 DEF StatementOK, Building
  <2>6. \A x \in Tables : schemas[x] <= drawn + 1
    BY DEF TypeInv, StatementInv
  <2> QED BY <1>2, <1>6, <2>1, <2>5, <2>6, StatementFrame
<1> QED BY <1>3, <1>7, <1>8 DEF TypeInv, TypeOK
\* An INSERT enqueues an index entry.
LEMMA EnqueueIdxTypes ==
  ASSUME TypeInv, NEW c \in Conns, EnqueueIdx(c)
  PROVE  TypeInv'
<1>1. PICK ps : ps = pending[c]
  OBVIOUS
<1>2. ps \in Seq(IdxEntries) /\ ps # <<>>
  BY <1>1 DEF TypeInv, TypeOK, LocalType, EnqueueIdx
<1>3. Head(ps) \in IdxEntries /\ Tail(ps) \in Seq(IdxEntries)
  BY <1>2, RestFacts
<1>4. /\ queue' = Append(queue, Head(ps)) /\ issued' = issued \cup {Head(ps)}
      /\ pending' = [pending EXCEPT ![c] = Tail(ps)]
      /\ UNCHANGED <<schemas, indices, rows, idx, tree_cat, tree_idx, tx, pc, table, next_id, left,
                     key, todo, seen, bounds, given, contended, created, shadowed, held, exempt>>
  BY <1>1 DEF EnqueueIdx
<1>5. SharedType'
  BY <1>3, <1>4 DEF TypeInv, TypeOK, SharedType
<1>6. LocalType'
  BY <1>3, <1>4 DEF TypeInv, TypeOK, LocalType
<1>7. TxType' /\ HistoryType'
  BY <1>3, <1>4 DEF TypeInv, TypeOK, TxType, HistoryType, bounds
<1>8. StatementInv'
  BY <1>4 DEF TypeInv, StatementInv, StatementOK, Rest, bounds
<1> QED BY <1>5, <1>6, <1>7, <1>8 DEF TypeInv, TypeOK

\* Keys of the entries a statement has still to enqueue.
PendingKeys(c) == {pending[c][i].key : i \in DOMAIN pending[c]}

\* The keys of those entries are keys of rows.
LEMMA PendingKeysType ==
  ASSUME TypeInv, NEW c \in Conns
  PROVE  PendingKeys(c) \subseteq Key
<1>1. pending[c] \in Seq(IdxEntries)
  BY DEF TypeInv, TypeOK, LocalType
<1>2. \A i \in DOMAIN pending[c] : pending[c][i] \in IdxEntries
  BY <1>1
<1> QED BY <1>2 DEF PendingKeys, IdxEntries

\* An INSERT ends at a full queue.
LEMMA InsertFailTypes ==
  ASSUME TypeInv, NEW c \in Conns, InsertFail(c)
  PROVE  TypeInv'
<1>1. Return(c) /\ UNCHANGED <<schemas, tx, bounds>>
  BY DEF InsertFail, shared
<1>2. LocalType' /\ StatementInv'
  BY <1>1, ReturnTypes
<1>3. table[c] \in Tables /\ PendingKeys(c) \subseteq Key
  BY PendingKeysType DEF InsertFail, TypeInv, StatementInv, StatementOK
<1>4. SharedType' /\ TxType'
  BY DEF InsertFail, shared, TypeInv, TypeOK, SharedType, TxType
<1>5. HistoryType'
  BY <1>3 DEF InsertFail, bounds, TypeInv, TypeOK, HistoryType, PendingKeys
<1> QED BY <1>2, <1>4, <1>5 DEF TypeInv, TypeOK

\* An INSERT puts the counter back.
LEMMA WriteBackTypes ==
  ASSUME TypeInv, NEW c \in Conns, WriteBack(c)
  PROVE  TypeInv'
<1>1. StatementOK(c) /\ next_id[c] \in Nat /\ drawn \in Nat
  BY CatalogAssumption DEF TypeInv, TypeOK, LocalType, HistoryType, StatementInv
<1>2. table[c] \in Tables /\ next_id[c] # 0 /\ next_id[c] <= drawn + 1
  BY <1>1 DEF WriteBack, StatementOK, Building, Rest
<1>3. \A x \in Tables : schemas'[x] = IF x = table[c] THEN next_id[c] ELSE schemas[x]
  BY DEF WriteBack, TypeInv, TypeOK, SharedType
<1>4. SharedType'
  BY <1>1, <1>2 DEF WriteBack, TypeInv, TypeOK, SharedType
<1>5. LocalType'
  BY DEF WriteBack, Collecting, Goto, NoTables, TypeInv, TypeOK, LocalType
<1>6. HistoryType'
  BY DEF WriteBack, bounds, history, TypeInv, TypeOK, HistoryType
<1>7. TxType'
  <2>1. \A d \in Conns : \A r \in tx[d].rows : r.row.table \in Tables
    BY DEF TypeInv, TypeOK, TxType, Row
  <2> QED BY <1>2, <1>3, <2>1 DEF WriteBack, TypeInv, TypeOK, TxType
<1>8. StatementInv'
  <2>1. drawn' = drawn
    BY DEF WriteBack, bounds
  <2>2. \A d \in Conns \ {c} : Same(d)
    BY DEF WriteBack, Collecting, Goto, TypeInv, TypeOK, LocalType, Same
  <2>3. pc'[c] = "collect" /\ table'[c] = table[c]
    BY DEF WriteBack, Goto, TypeInv, TypeOK, LocalType
  <2>4. StatementOK(c)'
    BY <1>2, <2>3 DEF StatementOK, Building
  <2>5. \A x \in Tables : schemas'[x] <= drawn' + 1
    BY <1>2, <1>3, <2>1 DEF TypeInv, StatementInv
  <2>6. \A x \in Tables : schemas[x] # 0 => schemas'[x] # 0
    BY <1>2, <1>3
  <2> QED BY <1>1, <2>1, <2>2, <2>4, <2>5, <2>6, StatementFrame
<1> QED BY <1>4, <1>5, <1>6, <1>7, <1>8 DEF TypeInv, TypeOK

\* An INSERT enqueues the catalog.
LEMMA EnqueueCatalogTypes ==
  ASSUME TypeInv, NEW c \in Conns, EnqueueCatalog(c)
  PROVE  TypeInv'
<1>1. Return(c) /\ UNCHANGED <<schemas, tx, bounds>>
  BY DEF EnqueueCatalog
<1>2. LocalType' /\ StatementInv'
  BY <1>1, ReturnTypes
<1>3. TxType' /\ HistoryType'
  BY DEF EnqueueCatalog, bounds, history, TypeInv, TypeOK, HistoryType, TxType
<1>4. PICK e : e = CatalogEntry(seen[c])
  OBVIOUS
<1>5. e \in CatalogEntries
  BY <1>4 DEF CatalogEntry, CatalogEntries, TypeInv, TypeOK, LocalType
<1>6. queue' = queue \/ queue' = Append(queue, e)
  BY <1>4 DEF EnqueueCatalog
<1>7. queue' \in Seq(IdxEntries \cup CatalogEntries)
  <2>1. queue \in Seq(IdxEntries \cup CatalogEntries)
    BY DEF TypeInv, TypeOK, SharedType
  <2> QED BY <1>5, <1>6, <2>1
<1>8. SharedType'
  BY <1>7 DEF EnqueueCatalog, TypeInv, TypeOK, SharedType
<1> QED BY <1>2, <1>3, <1>8 DEF TypeInv, TypeOK

\* BEGIN and ROLLBACK.
LEMMA BeginTypes ==
  ASSUME TypeInv, NEW c \in Conns, Begin(c) \/ Rollback(c)
  PROVE  TypeInv'
<1>1. UNCHANGED <<shared, local, bounds, history>>
  BY DEF Begin, Rollback
<1>2. SharedType' /\ HistoryType' /\ LocalType' /\ StatementInv'
  BY <1>1 DEF shared, local, bounds, history, TypeInv, TypeOK, SharedType, HistoryType, LocalType,
              StatementInv, StatementOK, Rest
<1>3. TxType'
  <2>1. schemas' = schemas
    BY <1>1 DEF shared
  <2>2. PICK b \in BOOLEAN : tx' = [tx EXCEPT ![c] = [open |-> b, rows |-> {}]]
    BY DEF Begin, Rollback
  <2>3. tx' \in [Conns -> [open : BOOLEAN, rows : SUBSET [key : Key, row : Row]]]
    BY <2>2 DEF TypeInv, TypeOK, TxType
  <2> QED BY <2>1, <2>2, <2>3 DEF TypeInv, TypeOK, TxType
<1> QED BY <1>2, <1>3 DEF TypeInv, TypeOK
\* COMMIT puts a row of the transaction under each of their keys.
LEMMA CommitFacts ==
  ASSUME TypeInv, NEW c \in Conns, Commit(c)
  PROVE  /\ rows' \in [Key -> {NoRow} \cup Row]
         /\ \A k \in Key : \/ rows'[k] = rows[k] /\ (\A r \in tx[c].rows : r.key # k)
                           \/ /\ \E r \in tx[c].rows : r.key = k /\ rows'[k] = r.row
                              /\ rows'[k] \in Row
         /\ held' = held \cup Holding({r.key : r \in tx[c].rows})
         /\ {r.key : r \in tx[c].rows} \subseteq Key
<1>1. \A r \in tx[c].rows : r.key \in Key /\ r.row \in Row
  BY DEF TypeInv, TypeOK, TxType
<1>2. rows' = [k \in Key |-> IF k \in {r.key : r \in tx[c].rows}
                             THEN (CHOOSE r \in tx[c].rows : r.key = k).row ELSE rows[k]]
  BY DEF Commit
<1>3. rows \in [Key -> {NoRow} \cup Row]
  BY DEF TypeInv, TypeOK, SharedType
<1>4. ASSUME NEW k \in Key
      PROVE  \/ rows'[k] = rows[k] /\ (\A r \in tx[c].rows : r.key # k)
             \/ \E r \in tx[c].rows : r.key = k /\ rows'[k] = r.row
  <2>1. CASE \E r \in tx[c].rows : r.key = k
    <3>1. PICK r : r = CHOOSE q \in tx[c].rows : q.key = k
      OBVIOUS
    <3>2. r \in tx[c].rows /\ r.key = k
      BY <2>1, <3>1
    <3>3. rows'[k] = r.row
      BY <1>2, <2>1, <3>1
    <3> QED BY <3>2, <3>3
  <2>2. CASE ~\E r \in tx[c].rows : r.key = k
    BY <1>2, <2>2
  <2> QED BY <2>1, <2>2
<1>5. \A k \in Key : \/ rows'[k] = rows[k] /\ (\A r \in tx[c].rows : r.key # k)
                     \/ /\ \E r \in tx[c].rows : r.key = k /\ rows'[k] = r.row
                        /\ rows'[k] \in Row
  BY <1>1, <1>4
<1>6. rows' \in [Key -> {NoRow} \cup Row]
  <2>1. \A k \in Key : rows'[k] \in {NoRow} \cup Row
    BY <1>3, <1>5
  <2>2. rows' = [k \in Key |-> rows'[k]]
    BY <1>2
  <2> QED BY <2>1, <2>2
<1>7. {r.key : r \in tx[c].rows} \subseteq Key
  BY <1>1
<1>8. held' = held \cup Holding({r.key : r \in tx[c].rows})
  BY DEF Commit
<1> QED BY <1>5, <1>6, <1>7, <1>8

\* COMMIT.
LEMMA CommitTypes ==
  ASSUME TypeInv, NEW c \in Conns, Commit(c)
  PROVE  TypeInv'
<1>0. PICK ks : ks = {r.key : r \in tx[c].rows}
  OBVIOUS
<1>1. /\ rows' \in [Key -> {NoRow} \cup Row] /\ held' = held \cup Holding(ks) /\ ks \subseteq Key
      /\ \A k \in ks : rows'[k] \in Row
  <2>1. /\ rows' \in [Key -> {NoRow} \cup Row] /\ held' = held \cup Holding(ks) /\ ks \subseteq Key
        /\ \A k \in Key : (\A r \in tx[c].rows : r.key # k) \/ rows'[k] \in Row
    BY <1>0, CommitFacts
  <2> QED BY <1>0, <2>1
<1>2. /\ tx' = [tx EXCEPT ![c] = [open |-> FALSE, rows |-> {}]]
      /\ UNCHANGED <<schemas, indices, idx, queue, tree_cat, tree_idx, local, bounds, given, contended,
                     created, shadowed, issued, exempt>>
  BY DEF Commit
<1>3. SharedType'
  BY <1>1, <1>2 DEF TypeInv, TypeOK, SharedType
<1>4. LocalType' /\ StatementInv'
  BY <1>2 DEF local, bounds, TypeInv, TypeOK, LocalType, StatementInv, StatementOK, Rest
<1>5. TxType'
  <2>1. tx' \in [Conns -> [open : BOOLEAN, rows : SUBSET [key : Key, row : Row]]]
    BY <1>2 DEF TypeInv, TypeOK, TxType
  <2> QED BY <1>2, <2>1 DEF TypeInv, TypeOK, TxType
<1>6. HistoryType'
  <2>1. \A k \in ks : [table |-> rows'[k].table, val |-> rows'[k].val, key |-> k]
                        \in [table : Tables, val : Values, key : Key]
    BY <1>1 DEF Row
  <2>2. held' \subseteq [table : Tables, val : Values, key : Key]
    BY <1>1, <2>1 DEF Holding, TypeInv, TypeOK, HistoryType
  <2> QED BY <1>2, <2>2 DEF bounds, TypeInv, TypeOK, HistoryType
<1> QED BY <1>3, <1>4, <1>5, <1>6 DEF TypeInv, TypeOK

\* UPDATE gives one row another value.
LEMMA UpdateFacts ==
  ASSUME TypeInv, NEW c \in Conns, Update(c)
  PROVE  \E k \in Key, v \in Values :
           /\ rows[k] \in Row /\ rows' = [rows EXCEPT ![k].val = v]
           /\ rows'[k] = [rows[k] EXCEPT !.val = v] /\ rows'[k] \in Row
           /\ rows' \in [Key -> {NoRow} \cup Row]
           /\ held' = held \cup Holding({k}) /\ exempt' = exempt \cup {k}
<1>1. PICK k \in Key, v \in Values :
        /\ rows[k] # NoRow /\ rows' = [rows EXCEPT ![k].val = v]
        /\ held' = held \cup Holding({k}) /\ exempt' = exempt \cup {k}
  BY DEF Update
<1>2. rows \in [Key -> {NoRow} \cup Row]
  BY DEF TypeInv, TypeOK, SharedType
<1>3. rows[k] \in Row /\ [rows[k] EXCEPT !.val = v] \in Row
  BY <1>1, <1>2 DEF Row
<1>4. rows'[k] = [rows[k] EXCEPT !.val = v]
  BY <1>1, <1>2
<1>5. rows' \in [Key -> {NoRow} \cup Row]
  BY <1>1, <1>2, <1>3
<1> QED BY <1>1, <1>3, <1>4, <1>5

\* UPDATE.
LEMMA UpdateTypes ==
  ASSUME TypeInv, NEW c \in Conns, Update(c)
  PROVE  TypeInv'
<1>1. PICK k \in Key, v \in Values :
        /\ rows'[k] \in Row /\ rows' \in [Key -> {NoRow} \cup Row]
        /\ held' = held \cup Holding({k}) /\ exempt' = exempt \cup {k}
  BY UpdateFacts
<1>2. /\ updates' \in 0..MaxUpdates
      /\ UNCHANGED <<schemas, indices, idx, queue, tree_cat, tree_idx, tx, local, drawn, creates, given,
                     contended, created, shadowed, issued>>
  BY CatalogAssumption DEF Update, TypeInv, TypeOK, HistoryType
<1>3. SharedType'
  BY <1>1, <1>2 DEF TypeInv, TypeOK, SharedType
<1>4. LocalType' /\ StatementInv' /\ TxType'
  BY <1>2 DEF local, TypeInv, TypeOK, LocalType, StatementInv, StatementOK, Rest, TxType
<1>5. HistoryType'
  <2>1. held' \subseteq [table : Tables, val : Values, key : Key]
    BY <1>1 DEF Holding, Row, TypeInv, TypeOK, HistoryType
  <2> QED BY <1>1, <1>2, <2>1 DEF TypeInv, TypeOK, HistoryType
<1> QED BY <1>3, <1>4, <1>5 DEF TypeInv, TypeOK

\* CREATE INDEX registers the index.
LEMMA CreateIndexTypes ==
  ASSUME TypeInv, NEW c \in Conns, NEW t \in Tables, CreateIndex(c, t)
  PROVE  TypeInv'
<1> USE DEF CreateIndex, Goto
<1>1. SharedType' /\ TxType' /\ HistoryType'
  BY DEF bounds, history, TypeInv, TypeOK, SharedType, TxType, HistoryType
<1>2. LocalType'
  BY DEF TypeInv, TypeOK, LocalType
<1>3. \A d \in Conns \ {c} : Same(d)
  BY DEF TypeInv, TypeOK, LocalType, Same
<1>4. StatementOK(c)'
  BY DEF StatementOK, Building, TypeInv, TypeOK, LocalType
<1>5. drawn' = drawn /\ drawn \in Nat /\ schemas' = schemas
  BY CatalogAssumption DEF bounds, TypeInv, TypeOK, HistoryType
<1>6. StatementInv'
  BY <1>3, <1>4, <1>5, StatementFrame DEF TypeInv, StatementInv
<1> QED BY <1>1, <1>2, <1>6 DEF TypeInv, TypeOK

\* A scan returns every row of the table.
LEMMA ScanFacts ==
  ASSUME TypeInv, NEW t \in Tables, NEW ks \in Scans(t)
  PROVE  /\ EntriesOf(t, ks) \in Seq(IdxEntries)
         /\ \A i \in DOMAIN EntriesOf(t, ks) :
              /\ ks[i] \in Key /\ rows[ks[i]].table = t /\ rows[ks[i]] \in Row
              /\ EntriesOf(t, ks)[i] = IdxEntry(t, rows[ks[i]].val, ks[i])
         /\ \A k \in Key : rows[k].table = t =>
              \E i \in DOMAIN EntriesOf(t, ks) : EntriesOf(t, ks)[i] = IdxEntry(t, rows[k].val, k)
<1>1. PICK S : S = {k \in Key : rows[k].table = t}
  OBVIOUS
<1>2. PICK n : n = Cardinality(S)
  OBVIOUS
<1>3. IsFiniteSet(S) /\ n \in Nat
  <2>1. IsFiniteSet(Key)
    BY FS_Interval, CatalogAssumption DEF Key
  <2>2. S \in SUBSET Key
    BY <1>1
  <2> QED BY <1>2, <2>1, <2>2, FS_Subset, FS_CardinalityType
<1>4. ks \in [1..n -> S] /\ \A i, j \in 1..n : i # j => ks[i] # ks[j]
  BY <1>1, <1>2 DEF Scans, SetToSeqs
<1>5. \A k \in S : \E i \in 1..n : ks[i] = k
  <2>1. ks \in Injection(1..n, S)
    BY <1>4 DEF Injection, IsInjective
  <2>2. Cardinality(1..n) = n
    BY <1>3, FS_Interval
  <2>3. ks \in Surjection(1..n, S)
    BY <1>2, <1>3, <2>1, <2>2, FS_Injection
  <2> QED BY <2>3 DEF Surjection
<1>6. \A i \in 1..n : ks[i] \in Key /\ rows[ks[i]].table = t
  BY <1>1, <1>4
<1>7. \A k \in Key : rows[k].table = t => rows[k] \in Row /\ rows[k].val \in Values
  BY CatalogAssumption DEF TypeInv, TypeOK, SharedType, NoRow, Row
<1>8. PICK es : es = EntriesOf(t, ks)
  OBVIOUS
<1>9. DOMAIN es = 1..n /\ \A i \in 1..n : es[i] = IdxEntry(t, rows[ks[i]].val, ks[i])
  BY <1>4, <1>8 DEF EntriesOf
<1>10. es \in Seq(IdxEntries)
  <2>1. \A i \in 1..n : IdxEntry(t, rows[ks[i]].val, ks[i]) \in IdxEntries
    BY <1>6, <1>7, IdxEntryType
  <2>2. es = [i \in 1..n |-> es[i]]
    BY <1>4, <1>8 DEF EntriesOf
  <2>3. es \in [1..n -> IdxEntries]
    BY <1>9, <2>1, <2>2
  <2> QED BY <1>3, <2>3
<1>11. \A k \in Key : rows[k].table = t => \E i \in 1..n : es[i] = IdxEntry(t, rows[k].val, k)
  BY <1>1, <1>5, <1>9
<1> QED BY <1>6, <1>7, <1>8, <1>9, <1>10, <1>11
\* CREATE INDEX scans the table.
LEMMA ScanRowsTypes ==
  ASSUME TypeInv, NEW c \in Conns, ScanRows(c)
  PROVE  TypeInv'
<1>1. table[c] \in Tables
  BY DEF ScanRows, TypeInv, StatementInv, StatementOK
<1>2. PICK ks \in Scans(table[c]) : pending' = [pending EXCEPT ![c] = EntriesOf(table[c], ks)]
  BY DEF ScanRows
<1>3. PICK es : es = EntriesOf(table[c], ks)
  OBVIOUS
<1>4. es \in Seq(IdxEntries)
  BY <1>1, <1>3, ScanFacts
<1>5. /\ pending' = [pending EXCEPT ![c] = es] /\ pc' = [pc EXCEPT ![c] = "build"]
      /\ UNCHANGED <<shared, tx, table, next_id, left, key, todo, seen, bounds, history>>
  BY <1>2, <1>3 DEF ScanRows, Goto
<1>6. SharedType' /\ TxType' /\ HistoryType'
  BY <1>5 DEF shared, bounds, history, TypeInv, TypeOK, SharedType, TxType, HistoryType
<1>7. LocalType'
  BY <1>4, <1>5 DEF TypeInv, TypeOK, LocalType
<1>8. \A d \in Conns \ {c} : Same(d)
  BY <1>5 DEF TypeInv, TypeOK, LocalType, Same
<1>9. StatementOK(c)'
  BY <1>1, <1>5 DEF StatementOK, Building, TypeInv, TypeOK, LocalType
<1>10. drawn' = drawn /\ drawn \in Nat /\ schemas' = schemas
  BY <1>5, CatalogAssumption DEF shared, bounds, TypeInv, TypeOK, HistoryType
<1>11. StatementInv'
  BY <1>8, <1>9, <1>10, StatementFrame DEF TypeInv, StatementInv
<1> QED BY <1>6, <1>7, <1>11 DEF TypeInv, TypeOK

\* What CREATE INDEX does with one entry.
LEMMA BuildEntryFacts ==
  ASSUME TypeInv, NEW c \in Conns, BuildEntry(c)
  PROVE  /\ pc[c] = "build" /\ pending[c] \in Seq(IdxEntries) /\ pending[c] # <<>>
         /\ Head(pending[c]) \in IdxEntries /\ Tail(pending[c]) \in Seq(IdxEntries)
         /\ idx' = [idx EXCEPT ![Head(pending[c]).entry] = Head(pending[c]).key]
         /\ issued' = issued \cup {Head(pending[c])}
         /\ \/ /\ queue' = Append(queue, Head(pending[c]))
               /\ pending' = [pending EXCEPT ![c] = Tail(pending[c])]
               /\ UNCHANGED <<pc, table, next_id, left, key, todo, seen, exempt>>
            \/ exempt' = exempt \cup PendingKeys(c) /\ Return(c) /\ UNCHANGED queue
         /\ UNCHANGED <<schemas, indices, rows, tree_cat, tree_idx, tx, bounds, given, contended, created,
                        shadowed, held>>
<1>1. pending[c] \in Seq(IdxEntries) /\ pending[c] # <<>>
  BY DEF BuildEntry, TypeInv, TypeOK, LocalType
<1>2. Head(pending[c]) \in IdxEntries /\ Tail(pending[c]) \in Seq(IdxEntries)
  BY <1>1, RestFacts
<1> QED BY <1>1, <1>2 DEF BuildEntry, PendingKeys

\* CREATE INDEX stores one entry.
LEMMA BuildEntryTypes ==
  ASSUME TypeInv, NEW c \in Conns, BuildEntry(c)
  PROVE  TypeInv'
<1>1. PICK e, rest : e = Head(pending[c]) /\ rest = Tail(pending[c])
  OBVIOUS
<1>2. e \in IdxEntries /\ rest \in Seq(IdxEntries) /\ PendingKeys(c) \subseteq Key
  BY <1>1, BuildEntryFacts, PendingKeysType
<1>3. /\ idx' = [idx EXCEPT ![e.entry] = e.key] /\ issued' = issued \cup {e}
      /\ UNCHANGED <<schemas, indices, rows, tree_cat, tree_idx, tx, bounds, given, contended, created,
                     shadowed, held>>
  BY <1>1, BuildEntryFacts
<1>4. \/ /\ queue' = Append(queue, e) /\ pending' = [pending EXCEPT ![c] = rest]
         /\ UNCHANGED <<pc, table, next_id, left, key, todo, seen, exempt>>
      \/ exempt' = exempt \cup PendingKeys(c) /\ Return(c) /\ UNCHANGED queue
  BY <1>1, BuildEntryFacts
<1>5. queue' \in Seq(IdxEntries \cup CatalogEntries)
  <2>1. queue \in Seq(IdxEntries \cup CatalogEntries)
    BY DEF TypeInv, TypeOK, SharedType
  <2> QED BY <1>2, <1>4, <2>1
<1>6. SharedType'
  <2>1. e.entry \in IdxKeys /\ e.key \in 0..MaxRows
    BY <1>2, CatalogAssumption DEF IdxEntries, Key
  <2> QED BY <1>3, <1>5, <2>1 DEF TypeInv, TypeOK, SharedType
<1>7. TxType'
  BY <1>3 DEF TypeInv, TypeOK, TxType
<1>8. HistoryType'
  BY <1>2, <1>3, <1>4 DEF bounds, TypeInv, TypeOK, HistoryType
<1>9. LocalType' /\ StatementInv'
  <2>1. CASE Return(c)
    BY <1>3, <2>1, ReturnTypes
  <2>2. CASE pending' = [pending EXCEPT ![c] = rest] /\ UNCHANGED <<pc, table, next_id, left, key, todo, seen>>
    BY <1>2, <1>3, <2>2 DEF bounds, TypeInv, TypeOK, LocalType, StatementInv, StatementOK, Rest
  <2> QED BY <1>4, <2>1, <2>2
<1> QED BY <1>6, <1>7, <1>8, <1>9 DEF TypeInv, TypeOK

\* CREATE INDEX ends.
LEMMA BuildDoneTypes ==
  ASSUME TypeInv, NEW c \in Conns, BuildDone(c)
  PROVE  TypeInv'
<1>1. Return(c) /\ UNCHANGED <<shared, tx, bounds, history>>
  BY DEF BuildDone
<1>2. LocalType' /\ StatementInv'
  BY <1>1, ReturnTypes DEF shared
<1>3. SharedType' /\ TxType' /\ HistoryType'
  BY <1>1 DEF shared, bounds, history, TypeInv, TypeOK, SharedType, TxType, HistoryType
<1> QED BY <1>2, <1>3 DEF TypeInv, TypeOK

\* The drain thread, or a flush, takes the first entry of the queue.
LEMMA DrainTypes ==
  ASSUME TypeInv, Drain \/ Log
  PROVE  TypeInv'
<1>1. PICK e : e = Head(queue)
  OBVIOUS
<1>2. queue \in Seq(IdxEntries \cup CatalogEntries) /\ queue # <<>>
  BY DEF Drain, Log, TypeInv, TypeOK, SharedType
<1>3. e \in IdxEntries \cup CatalogEntries /\ Tail(queue) \in Seq(IdxEntries \cup CatalogEntries)
  BY <1>1, <1>2, RestFacts
<1>4. /\ queue' = Tail(queue)
      /\ \/ tree_idx' = tree_idx /\ tree_cat' = tree_cat
         \/ e.is = "idx" /\ tree_idx' = [tree_idx EXCEPT ![e.entry] = e.key] /\ tree_cat' = tree_cat
         \/ e.is = "catalog" /\ tree_cat' = e.cat /\ tree_idx' = tree_idx
      /\ UNCHANGED <<schemas, indices, rows, idx, tx, local, bounds, history>>
  BY <1>1 DEF Drain, Log
<1>5. /\ e.is = "idx" => e.entry \in IdxKeys /\ e.key \in 0..MaxRows
      /\ e.is = "catalog" => e.cat \in [Tables -> Nat]
  BY <1>3, CatalogAssumption DEF IdxEntries, CatalogEntries, Key
<1>6. SharedType'
  BY <1>3, <1>4, <1>5 DEF TypeInv, TypeOK, SharedType
<1>7. TxType' /\ LocalType' /\ HistoryType' /\ StatementInv'
  BY <1>4 DEF local, bounds, history, TypeInv, TypeOK, TxType, LocalType, HistoryType, StatementInv,
              StatementOK, Rest
<1> QED BY <1>6, <1>7 DEF TypeInv, TypeOK

\* Nothing happens.
LEMMA StutterTypes ==
  ASSUME TypeInv, UNCHANGED vars
  PROVE  TypeInv'
BY DEF vars, shared, local, bounds, history, TypeInv, TypeOK, SharedType, TxType, LocalType,
       HistoryType, StatementInv, StatementOK, Rest

\* The disjuncts of Next.
LEMMA NextCases ==
  ASSUME [Next]_vars
  PROVE  \/ \E c \in Conns :
              \/ \E t \in Tables : CreateTable(c, t) \/ Collect(c, t) \/ Insert(c, t) \/ CreateIndex(c, t)
              \/ StoreCatalog(c) \/ StoreCatalogFail(c)
              \/ BuildRow(c) \/ IndexRow(c) \/ EnqueueIdx(c) \/ InsertFail(c) \/ WriteBack(c)
              \/ EnqueueCatalog(c)
              \/ Begin(c) \/ Commit(c) \/ Rollback(c) \/ Update(c)
              \/ ScanRows(c) \/ BuildEntry(c) \/ BuildDone(c)
         \/ Drain \/ Log \/ UNCHANGED vars
BY DEF Next

\* Init has the types.
LEMMA InitTypes == Init => TypeInv
<1> SUFFICES ASSUME Init PROVE TypeInv
  OBVIOUS
<1>1. /\ NoTables \in [Tables -> Nat] /\ NoKey \in 0..MaxRows /\ 0 \in 0..MaxRows /\ 0 \in 0..MaxCreates
      /\ 0 \in 0..MaxUpdates
  BY CatalogAssumption DEF NoTables, NoKey
<1>2. SharedType
  BY <1>1 DEF Init, SharedType
<1>3. TxType
  <2>1. tx = [c \in Conns |-> [open |-> FALSE, rows |-> {}]]
    BY DEF Init
  <2> QED BY <2>1 DEF TxType
<1>4. LocalType
  BY <1>1 DEF Init, LocalType
<1>5. HistoryType
  BY <1>1 DEF Init, HistoryType
<1>6. StatementInv
  BY DEF Init, StatementInv, StatementOK, Building, NoTables
<1> QED BY <1>2, <1>3, <1>4, <1>5, <1>6 DEF TypeInv, TypeOK

\* Every step keeps the types.
LEMMA TypeStep == TypeInv /\ [Next]_vars => TypeInv'
<1> SUFFICES ASSUME TypeInv, [Next]_vars PROVE TypeInv'
  OBVIOUS
<1>1. ASSUME NEW c \in Conns, NEW t \in Tables,
             CreateTable(c, t) \/ Collect(c, t) \/ Insert(c, t) \/ CreateIndex(c, t)
      PROVE  TypeInv'
  BY <1>1, CreateTableTypes, CollectTypes, InsertTypes, CreateIndexTypes
<1>2. ASSUME NEW c \in Conns, StoreCatalog(c) \/ StoreCatalogFail(c) \/ EnqueueCatalog(c)
      PROVE  TypeInv'
  BY <1>2, StoreCatalogTypes, EnqueueCatalogTypes
<1>3. ASSUME NEW c \in Conns, BuildRow(c) \/ IndexRow(c) \/ EnqueueIdx(c) \/ InsertFail(c) \/ WriteBack(c)
      PROVE  TypeInv'
  BY <1>3, BuildRowTypes, IndexRowTypes, EnqueueIdxTypes, InsertFailTypes, WriteBackTypes
<1>4. ASSUME NEW c \in Conns, Begin(c) \/ Commit(c) \/ Rollback(c) \/ Update(c)
      PROVE  TypeInv'
  BY <1>4, BeginTypes, CommitTypes, UpdateTypes
<1>5. ASSUME NEW c \in Conns, ScanRows(c) \/ BuildEntry(c) \/ BuildDone(c)
      PROVE  TypeInv'
  BY <1>5, ScanRowsTypes, BuildEntryTypes, BuildDoneTypes
<1>6. CASE Drain \/ Log \/ UNCHANGED vars
  BY <1>6, DrainTypes, StutterTypes
<1> QED BY <1>1, <1>2, <1>3, <1>4, <1>5, <1>6, NextCases

\* The types of the catalog always hold: an INSERT that builds or indexes a row has a value and a
\* table that exists for it, and ids and keys stay in their range.
THEOREM TypeCorrect == Spec => []TypeOK
<1>1. Init => TypeInv
  BY InitTypes
<1>2. TypeInv /\ [Next]_vars => TypeInv'
  BY TypeStep
<1>3. TypeInv => TypeOK
  BY DEF TypeInv
<1> QED BY <1>1, <1>2, <1>3, PTL DEF Spec
-----------------------------------------------------------------------------
(* The stored catalog.  A table that was answered and is not shadowed is   *)
(* in the tree's record, and in every record on its way there: the ones on *)
(* the queue and the ones being collected, past the table.                 *)

\* The elements of a sequence after an entry is appended.
LEMMA AppendElements ==
  ASSUME NEW S, NEW s \in Seq(S), NEW e
  PROVE  /\ \A i \in DOMAIN Append(s, e) : Append(s, e)[i] = e \/ \E j \in DOMAIN s : Append(s, e)[i] = s[j]
         /\ \A j \in DOMAIN s : j \in DOMAIN Append(s, e) /\ Append(s, e)[j] = s[j]
         /\ \E i \in DOMAIN Append(s, e) : Append(s, e)[i] = e
<1>1. Len(s) \in Nat /\ DOMAIN s = 1..Len(s)
  OBVIOUS
<1>2. DOMAIN Append(s, e) = 1..(Len(s) + 1)
  BY <1>1
<1>3. \A i \in 1..(Len(s) + 1) : Append(s, e)[i] = IF i = Len(s) + 1 THEN e ELSE s[i]
  BY <1>1
<1>4. \A i \in 1..(Len(s) + 1) : i = Len(s) + 1 \/ i \in 1..Len(s)
  BY <1>1
<1>5. Len(s) + 1 \in 1..(Len(s) + 1) /\ (\A j \in 1..Len(s) : j \in 1..(Len(s) + 1) /\ j # Len(s) + 1)
  BY <1>1
<1> QED BY <1>1, <1>2, <1>3, <1>4, <1>5

\* The elements of a sequence after the first one is taken.
LEMMA TailElements ==
  ASSUME NEW S, NEW s \in Seq(S), s # <<>>
  PROVE  /\ \A i \in DOMAIN Tail(s) : \E j \in DOMAIN s : Tail(s)[i] = s[j]
         /\ \A j \in DOMAIN s : s[j] = Head(s) \/ \E i \in DOMAIN Tail(s) : Tail(s)[i] = s[j]
         /\ \E j \in DOMAIN s : Head(s) = s[j]
<1>1. Len(s) \in Nat /\ DOMAIN s = 1..Len(s) /\ Len(s) >= 1
  OBVIOUS
<1>2. DOMAIN Tail(s) = 1..(Len(s) - 1)
  BY <1>1
<1>3. \A i \in 1..(Len(s) - 1) : Tail(s)[i] = s[i + 1] /\ i + 1 \in 1..Len(s)
  BY <1>1
<1>4. Head(s) = s[1] /\ 1 \in 1..Len(s)
  BY <1>1
<1>5. \A j \in 1..Len(s) : j = 1 \/ (j - 1 \in 1..(Len(s) - 1) /\ Tail(s)[j - 1] = s[j])
  BY <1>1
<1> QED BY <1>1, <1>2, <1>3, <1>4, <1>5

Collects == {"create", "collect"}

CreateOK(c) ==
  pc[c] = "create" => /\ schemas[table[c]] # 0
                      /\ table[c] \notin todo[c] => seen[c][table[c]] # 0

TableKept(t) ==
  /\ tree_cat[t] # 0 /\ schemas[t] # 0
  /\ \A i \in DOMAIN queue : queue[i].is = "catalog" => queue[i].cat[t] # 0
  /\ \A d \in Conns : pc[d] \in Collects /\ t \notin todo[d] => seen[d][t] # 0

CatalogInv ==
  /\ \A c \in Conns : CreateOK(c)
  /\ \A t \in created \ shadowed : TableKept(t)

\* Tables are never dropped.
LEMMA SchemasStay ==
  ASSUME TypeInv, [Next]_vars, NEW t \in Tables, schemas[t] # 0
  PROVE  schemas'[t] # 0
<1>1. schemas \in [Tables -> Nat]
  BY DEF TypeInv, TypeOK, SharedType
<1>2. ASSUME NEW c \in Conns, NEW x \in Tables, CreateTable(c, x)
      PROVE  schemas'[t] # 0
  BY <1>1, <1>2 DEF CreateTable
<1>3. ASSUME NEW c \in Conns, WriteBack(c)
      PROVE  schemas'[t] # 0
  <2>1. next_id[c] # 0
    BY <1>3 DEF WriteBack, TypeInv, StatementInv, StatementOK, Building
  <2> QED BY <1>1, <1>3, <2>1 DEF WriteBack
<1>4. ASSUME NEW c \in Conns, NEW x \in Tables, Collect(c, x) \/ Insert(c, x) \/ CreateIndex(c, x)
      PROVE  schemas' = schemas
  BY <1>4 DEF Collect, Insert, CreateIndex, shared
<1>5. ASSUME NEW c \in Conns,
             \/ StoreCatalog(c) \/ StoreCatalogFail(c) \/ BuildRow(c) \/ IndexRow(c) \/ EnqueueIdx(c)
             \/ InsertFail(c) \/ EnqueueCatalog(c)
      PROVE  schemas' = schemas
  BY <1>5 DEF StoreCatalog, StoreCatalogFail, BuildRow, IndexRow, EnqueueIdx, InsertFail,
              EnqueueCatalog, shared
<1>6. ASSUME NEW c \in Conns,
             \/ Begin(c) \/ Commit(c) \/ Rollback(c) \/ Update(c) \/ ScanRows(c) \/ BuildEntry(c)
             \/ BuildDone(c)
      PROVE  schemas' = schemas
  BY <1>6 DEF Begin, Commit, Rollback, Update, ScanRows, BuildEntry, BuildDone, shared
<1>7. CASE Drain \/ Log \/ UNCHANGED vars
  BY <1>7 DEF Drain, Log, vars, shared
<1> QED BY <1>2, <1>3, <1>4, <1>5, <1>6, <1>7, NextCases

\* What a step does to the collecting of one connection: nothing, one more table, or a start.
CollectStep(d) ==
  pc'[d] \in Collects =>
    \/ /\ pc'[d] = pc[d] /\ table'[d] = table[d]
       /\ \A t \in Tables \ todo'[d] : \/ t \notin todo[d] /\ seen'[d][t] = seen[d][t]
                                       \/ seen'[d][t] = schemas[t]
    \/ todo'[d] = Tables /\ (pc'[d] = "create" => schemas'[table'[d]] # 0)

\* The tree's record and the answered tables stay, and no other record is queued.
LEMMA CatalogFrame ==
  ASSUME TypeInv, TypeInv', CatalogInv, \A t \in Tables : schemas[t] # 0 => schemas'[t] # 0,
         UNCHANGED <<tree_cat, created, shadowed>>,
         \A i \in DOMAIN queue' : queue'[i].is = "catalog" => \E j \in DOMAIN queue : queue[j] = queue'[i],
         \A d \in Conns : CollectStep(d)
  PROVE  CatalogInv'
<1>1. ASSUME NEW c \in Conns PROVE CreateOK(c)'
  <2> SUFFICES ASSUME pc'[c] = "create"
               PROVE  schemas'[table'[c]] # 0 /\ (table'[c] \notin todo'[c] => seen'[c][table'[c]] # 0)
    BY DEF CreateOK
  <2>1. table'[c] \in Tables
    BY DEF TypeInv, StatementInv, StatementOK
  <2>2. CollectStep(c) /\ CreateOK(c)
    BY DEF CatalogInv
  <2> QED BY <2>1, <2>2 DEF CollectStep, CreateOK, Collects
<1>2. ASSUME NEW t \in created' \ shadowed' PROVE TableKept(t)'
  <2>1. TableKept(t) /\ t \in Tables
    BY DEF CatalogInv, TypeInv, TypeOK, HistoryType
  <2>2. ASSUME NEW d \in Conns, pc'[d] \in Collects, t \notin todo'[d]
        PROVE  seen'[d][t] # 0
    BY <2>1, <2>2 DEF CollectStep, TableKept
  <2>3. \A i \in DOMAIN queue' : queue'[i].is = "catalog" => queue'[i].cat[t] # 0
    BY <2>1 DEF TableKept
  <2> QED BY <2>1, <2>2, <2>3 DEF TableKept
<1> QED BY <1>1, <1>2 DEF CatalogInv

\* A connection that does not move, or ends its statement, collects nothing new.
LEMMA CollectSame ==
  ASSUME NEW d \in Conns,
         \/ pc'[d] \notin Collects
         \/ pc'[d] = pc[d] /\ table'[d] = table[d] /\ todo'[d] = todo[d] /\ seen'[d] = seen[d]
  PROVE  CollectStep(d)
BY DEF CollectStep
\* A step of one connection leaves the statements of the others alone.
LEMMA OthersStay ==
  ASSUME TypeInv, NEW c \in Conns,
         \/ \E t \in Tables : CreateTable(c, t) \/ Collect(c, t) \/ Insert(c, t) \/ CreateIndex(c, t)
         \/ StoreCatalog(c) \/ StoreCatalogFail(c)
         \/ BuildRow(c) \/ IndexRow(c) \/ EnqueueIdx(c) \/ InsertFail(c) \/ WriteBack(c)
         \/ EnqueueCatalog(c)
         \/ Begin(c) \/ Commit(c) \/ Rollback(c) \/ Update(c)
         \/ ScanRows(c) \/ BuildEntry(c) \/ BuildDone(c)
  PROVE  \A d \in Conns \ {c} : Same(d)
<1>1. /\ pc \in [Conns -> {"idle", "create", "row", "index", "enqueue", "collect", "scan", "build"}]
      /\ table \in [Conns -> Tables \cup {"none"}] /\ next_id \in [Conns -> Nat]
      /\ left \in [Conns -> Seq(Values)] /\ key \in [Conns -> 0..MaxRows]
      /\ pending \in [Conns -> Seq(IdxEntries)]
      /\ todo \in [Conns -> SUBSET Tables] /\ seen \in [Conns -> [Tables -> Nat]]
  BY DEF TypeInv, TypeOK, LocalType
<1>2. ASSUME NEW t \in Tables, CreateTable(c, t) \/ Collect(c, t) \/ CreateIndex(c, t)
      PROVE  \A d \in Conns \ {c} : Same(d)
  BY <1>1, <1>2 DEF CreateTable, Collect, CreateIndex, Collecting, Goto, Same
<1>3. ASSUME NEW t \in Tables, Insert(c, t)
      PROVE  \A d \in Conns \ {c} : Same(d)
  BY <1>1, <1>3 DEF Insert, Goto, Same
<1>4. CASE StoreCatalog(c) \/ StoreCatalogFail(c) \/ InsertFail(c) \/ EnqueueCatalog(c) \/ BuildDone(c)
  <2>1. Return(c)
    BY <1>4 DEF StoreCatalog, StoreCatalogFail, InsertFail, EnqueueCatalog, BuildDone
  <2> QED BY <2>1, ReturnFacts
<1>5. CASE BuildRow(c)
  <2>1. /\ key' = [key EXCEPT ![c] = key[c] + 1] /\ next_id' = [next_id EXCEPT ![c] = @ + 1]
        /\ UNCHANGED <<table, pending, todo, seen>>
    BY <1>5, BuildRowFacts
  <2>2. left' = left \/ left' = [left EXCEPT ![c] = Tail(@)]
    BY <1>5, BuildRowFacts
  <2>3. pc' = [pc EXCEPT ![c] = "index"] \/ pc' = [pc EXCEPT ![c] = "enqueue"] \/ pc' = [pc EXCEPT ![c] = "row"]
    BY <1>5, BuildRowFacts
  <2> QED BY <1>1, <2>1, <2>2, <2>3 DEF Same
<1>6. CASE IndexRow(c) \/ EnqueueIdx(c) \/ WriteBack(c) \/ ScanRows(c)
  BY <1>1, <1>6 DEF IndexRow, EnqueueIdx, WriteBack, ScanRows, NextRow, Collecting, Goto, Same
<1>7. CASE Begin(c) \/ Commit(c) \/ Rollback(c) \/ Update(c)
  BY <1>7 DEF Begin, Commit, Rollback, Update, local, Same
<1>8. CASE BuildEntry(c)
  <2>1. CASE Return(c)
    BY <2>1, ReturnFacts
  <2>2. CASE pending' = [pending EXCEPT ![c] = Tail(pending[c])] /\ UNCHANGED <<pc, table, next_id, left, key, todo, seen>>
    BY <1>1, <2>2 DEF Same
  <2> QED BY <1>8, <2>1, <2>2, BuildEntryFacts
<1> QED BY <1>2, <1>3, <1>4, <1>5, <1>6, <1>7, <1>8

\* A step of the drain thread leaves every statement alone.
LEMMA AllStay ==
  ASSUME Drain \/ Log \/ UNCHANGED vars
  PROVE  \A d \in Conns : Same(d)
BY DEF Drain, Log, vars, local, Same

\* What happens to the queue, the tree's catalog and the connection that steps, when it does not collect.
LEMMA NoCollecting ==
  ASSUME TypeInv, NEW c \in Conns,
         \/ \E t \in Tables : Insert(c, t) \/ CreateIndex(c, t)
         \/ StoreCatalogFail(c) \/ BuildRow(c) \/ IndexRow(c) \/ EnqueueIdx(c) \/ InsertFail(c)
         \/ Begin(c) \/ Commit(c) \/ Rollback(c) \/ Update(c)
         \/ ScanRows(c) \/ BuildEntry(c) \/ BuildDone(c)
  PROVE  /\ UNCHANGED <<tree_cat, created, shadowed>>
         /\ queue' = queue \/ \E e \in IdxEntries : queue' = Append(queue, e)
         /\ CollectStep(c)
<1>1. /\ pc \in [Conns -> {"idle", "create", "row", "index", "enqueue", "collect", "scan", "build"}]
      /\ pending[c] \in Seq(IdxEntries)
  BY DEF TypeInv, TypeOK, LocalType
<1>2. ASSUME NEW t \in Tables, Insert(c, t) \/ CreateIndex(c, t)
      PROVE  UNCHANGED <<tree_cat, created, shadowed, queue>> /\ pc'[c] \notin Collects
  BY <1>1, <1>2 DEF Insert, CreateIndex, Goto, Collects, shared, history
<1>3. CASE StoreCatalogFail(c) \/ InsertFail(c) \/ BuildDone(c)
  <2>1. UNCHANGED <<tree_cat, created, shadowed, queue>> /\ pc'[c] \notin Collects
    BY <1>1, <1>3 DEF StoreCatalogFail, InsertFail, BuildDone, Return, Goto, Collects, shared, history
  <2> QED BY <2>1, CollectSame
<1>4. CASE BuildRow(c)
  <2>1. /\ UNCHANGED <<tree_cat, created, shadowed, queue>>
        /\ \/ pc' = [pc EXCEPT ![c] = "index"] \/ pc' = [pc EXCEPT ![c] = "enqueue"]
           \/ pc' = [pc EXCEPT ![c] = "row"]
    BY <1>4, BuildRowFacts
  <2>2. pc'[c] \notin Collects
    BY <1>1, <2>1 DEF Collects
  <2> QED BY <2>1, <2>2, CollectSame
<1>5. CASE IndexRow(c) \/ ScanRows(c)
  <2>1. UNCHANGED <<tree_cat, created, shadowed, queue>> /\ pc'[c] \notin Collects
    BY <1>1, <1>5 DEF IndexRow, ScanRows, NextRow, Goto, Collects, shared, history
  <2> QED BY <2>1, CollectSame
<1>6. CASE EnqueueIdx(c)
  <2>1. Head(pending[c]) \in IdxEntries
    BY <1>1, <1>6, RestFacts DEF EnqueueIdx
  <2>2. UNCHANGED <<tree_cat, created, shadowed>> /\ queue' = Append(queue, Head(pending[c])) /\ pc'[c] \notin Collects
    BY <1>6 DEF EnqueueIdx, Collects
  <2> QED BY <2>1, <2>2, CollectSame
<1>7. CASE Begin(c) \/ Commit(c) \/ Rollback(c) \/ Update(c)
  <2>1. UNCHANGED <<tree_cat, created, shadowed, queue>> /\ pc'[c] \notin Collects
    BY <1>7 DEF Begin, Commit, Rollback, Update, Idle, local, Collects, shared, history
  <2> QED BY <2>1, CollectSame
<1>8. CASE BuildEntry(c)
  <2>1. Head(pending[c]) \in IdxEntries /\ UNCHANGED <<tree_cat, created, shadowed>> /\ pc[c] = "build"
    BY <1>8, BuildEntryFacts
  <2>2. queue' = queue \/ queue' = Append(queue, Head(pending[c]))
    BY <1>8, BuildEntryFacts
  <2>3. pc'[c] \notin Collects
    <3>1. CASE Return(c)
      BY <1>1, <3>1 DEF Return, Goto, Collects
    <3>2. CASE pc' = pc
      BY <2>1, <3>2 DEF Collects
    <3> QED BY <1>8, <3>1, <3>2, BuildEntryFacts
  <2> QED BY <2>1, <2>2, <2>3, CollectSame
<1>9. ASSUME NEW t \in Tables, Insert(c, t) \/ CreateIndex(c, t)
      PROVE  UNCHANGED <<tree_cat, created, shadowed, queue>> /\ CollectStep(c)
  BY <1>2, <1>9, CollectSame
<1> QED BY <1>3, <1>4, <1>5, <1>6, <1>7, <1>8, <1>9

\* An index entry is no catalog record.
LEMMA QueueFrame ==
  ASSUME TypeInv, queue' = queue \/ \E e \in IdxEntries : queue' = Append(queue, e)
  PROVE  \A i \in DOMAIN queue' : queue'[i].is = "catalog" => \E j \in DOMAIN queue : queue[j] = queue'[i]
<1>1. CASE queue' = queue
  BY <1>1
<1>2. ASSUME NEW e \in IdxEntries, queue' = Append(queue, e)
      PROVE  \A i \in DOMAIN queue' : queue'[i].is = "catalog" => \E j \in DOMAIN queue : queue[j] = queue'[i]
  <2>1. queue \in Seq(IdxEntries \cup CatalogEntries) /\ e.is # "catalog"
    BY DEF TypeInv, TypeOK, SharedType, IdxEntries
  <2>2. \A i \in DOMAIN queue' : queue'[i] = e \/ \E j \in DOMAIN queue : queue'[i] = queue[j]
    BY <1>2, <2>1, AppendElements
  <2> QED BY <2>1, <2>2
<1> QED BY <1>1, <1>2
\* CREATE TABLE and the end of an INSERT's rows start a collection, Collect goes on with it.
LEMMA CollectingKeeps ==
  ASSUME TypeInv, NEW c \in Conns,
         (\E t \in Tables : CreateTable(c, t) \/ Collect(c, t)) \/ WriteBack(c)
  PROVE  UNCHANGED <<tree_cat, created, shadowed, queue>> /\ CollectStep(c)
<1>1. /\ pc \in [Conns -> {"idle", "create", "row", "index", "enqueue", "collect", "scan", "build"}]
      /\ table \in [Conns -> Tables \cup {"none"}] /\ schemas \in [Tables -> Nat]
      /\ todo \in [Conns -> SUBSET Tables] /\ seen \in [Conns -> [Tables -> Nat]]
  BY DEF TypeInv, TypeOK, LocalType, SharedType
<1>2. ASSUME NEW t \in Tables, CreateTable(c, t)
      PROVE  UNCHANGED <<tree_cat, created, shadowed, queue>> /\ CollectStep(c)
  <2>1. todo'[c] = Tables /\ table'[c] = t /\ schemas'[t] = 1
    BY <1>1, <1>2 DEF CreateTable, Collecting
  <2> QED BY <1>2, <2>1 DEF CreateTable, CollectStep
<1>3. ASSUME NEW t \in Tables, Collect(c, t)
      PROVE  UNCHANGED <<tree_cat, created, shadowed, queue>> /\ CollectStep(c)
  <2>1. todo'[c] = todo[c] \ {t} /\ seen'[c] = [seen[c] EXCEPT ![t] = schemas[t]]
    BY <1>1, <1>3 DEF Collect
  <2>2. \A x \in Tables : seen'[c][x] = IF x = t THEN schemas[t] ELSE seen[c][x]
    BY <1>1, <2>1
  <2>3. \A x \in Tables \ todo'[c] : (x \notin todo[c] /\ seen'[c][x] = seen[c][x]) \/ seen'[c][x] = schemas[x]
    BY <2>1, <2>2
  <2> QED BY <1>3, <2>3 DEF Collect, CollectStep, shared, history
<1>4. CASE WriteBack(c)
  <2>1. todo'[c] = Tables /\ pc'[c] = "collect"
    BY <1>1, <1>4 DEF WriteBack, Collecting, Goto
  <2> QED BY <1>4, <2>1 DEF WriteBack, CollectStep, history
<1> QED BY <1>2, <1>3, <1>4

\* CREATE TABLE stores the catalog it has collected.
LEMMA StoreCatalogKeeps ==
  ASSUME TypeInv, TypeInv', CatalogInv, NEW c \in Conns, StoreCatalog(c)
  PROVE  CatalogInv'
<1>1. /\ pc[c] = "create" /\ todo[c] = {} /\ tree_cat' = seen[c] /\ Return(c)
      /\ created' = created \cup {table[c]}
      /\ shadowed' = IF Outdated(c, table[c]) THEN shadowed \cup {table[c]} ELSE shadowed
      /\ queue' = queue /\ schemas' = schemas
  BY DEF StoreCatalog
<1>2. pc'[c] = "idle" /\ \A d \in Conns \ {c} : Same(d)
  BY <1>1, ReturnFacts
<1>3. ASSUME NEW d \in Conns PROVE CreateOK(d)'
  <2>1. CreateOK(d)
    BY DEF CatalogInv
  <2>2. CASE d = c
    BY <1>2, <2>2 DEF CreateOK
  <2>3. CASE d # c
    <3>1. Same(d)
      BY <1>2, <2>3
    <3> QED BY <1>1, <2>1, <3>1 DEF CreateOK, Same
  <2> QED BY <2>2, <2>3
<1>4. ASSUME NEW t \in created' \ shadowed' PROVE TableKept(t)'
  <2>1. seen[c][t] # 0 /\ schemas[t] # 0 /\ (\A i \in DOMAIN queue : queue[i].is = "catalog" => queue[i].cat[t] # 0)
        /\ \A d \in Conns \ {c} : pc[d] \in Collects /\ t \notin todo[d] => seen[d][t] # 0
    <3>1. CASE t \in created \ shadowed
      <4>1. TableKept(t)
        BY <3>1 DEF CatalogInv
      <4> QED BY <1>1, <4>1 DEF TableKept, Collects
    <3>2. CASE t \notin created \ shadowed
      <4>1. t = table[c] /\ ~Outdated(c, t)
        BY <1>1, <3>2
      <4>2. CreateOK(c)
        BY DEF CatalogInv
      <4>3. schemas[t] # 0 /\ seen[c][t] # 0
        BY <1>1, <4>1, <4>2 DEF CreateOK
      <4> QED BY <4>1, <4>3 DEF Outdated, Collects
    <3> QED BY <3>1, <3>2
  <2>2. ASSUME NEW d \in Conns, pc'[d] \in Collects, t \notin todo'[d] PROVE seen'[d][t] # 0
    <3>1. d # c
      BY <1>2, <2>2 DEF Collects
    <3>2. Same(d)
      BY <1>2, <3>1
    <3> QED BY <2>1, <2>2, <3>1, <3>2 DEF Same
  <2> QED BY <1>1, <2>1, <2>2 DEF TableKept
<1> QED BY <1>3, <1>4 DEF CatalogInv

\* An INSERT enqueues the catalog it has collected, or finds the queue full.
LEMMA EnqueueCatalogKeeps ==
  ASSUME TypeInv, TypeInv', CatalogInv, NEW c \in Conns, EnqueueCatalog(c)
  PROVE  CatalogInv'
<1>1. /\ pc[c] = "collect" /\ todo[c] = {} /\ Return(c)
      /\ UNCHANGED <<schemas, tree_cat, created, shadowed>>
  BY DEF EnqueueCatalog, history
<1>2. pc'[c] = "idle" /\ \A d \in Conns \ {c} : Same(d)
  BY <1>1, ReturnFacts
<1>3. PICK e : e = CatalogEntry(seen[c])
  OBVIOUS
<1>4. (queue' = queue \/ queue' = Append(queue, e)) /\ e.cat = seen[c]
  BY <1>3 DEF EnqueueCatalog, CatalogEntry
<1>5. \A i \in DOMAIN queue' : queue'[i] = e \/ \E j \in DOMAIN queue : queue'[i] = queue[j]
  <2>1. queue \in Seq(IdxEntries \cup CatalogEntries)
    BY DEF TypeInv, TypeOK, SharedType
  <2> QED BY <1>4, <2>1, AppendElements
<1>6. ASSUME NEW d \in Conns PROVE CreateOK(d)'
  <2>1. CreateOK(d)
    BY DEF CatalogInv
  <2>2. CASE d = c
    BY <1>2, <2>2 DEF CreateOK
  <2>3. CASE d # c
    <3>1. Same(d)
      BY <1>2, <2>3
    <3> QED BY <1>1, <2>1, <3>1 DEF CreateOK, Same
  <2> QED BY <2>2, <2>3
<1>7. ASSUME NEW t \in created' \ shadowed' PROVE TableKept(t)'
  <2>1. TableKept(t)
    BY <1>1 DEF CatalogInv
  <2>2. e.cat[t] # 0
    BY <1>1, <1>4, <2>1 DEF TableKept, Collects
  <2>3. ASSUME NEW d \in Conns, pc'[d] \in Collects, t \notin todo'[d] PROVE seen'[d][t] # 0
    <3>1. d # c
      BY <1>2, <2>3 DEF Collects
    <3>2. Same(d)
      BY <1>2, <3>1
    <3> QED BY <2>1, <2>3, <3>2 DEF Same, TableKept
  <2>4. \A i \in DOMAIN queue' : queue'[i].is = "catalog" => queue'[i].cat[t] # 0
    BY <1>5, <2>1, <2>2 DEF TableKept
  <2> QED BY <1>1, <2>1, <2>3, <2>4 DEF TableKept
<1> QED BY <1>6, <1>7 DEF CatalogInv

\* The drain thread stores the record at the head of the queue, or it goes to the log.
LEMMA DrainKeeps ==
  ASSUME TypeInv, CatalogInv, Drain \/ Log
  PROVE  CatalogInv'
<1>1. PICK e : e = Head(queue)
  OBVIOUS
<1>2. /\ tree_cat' = tree_cat \/ (e.is = "catalog" /\ tree_cat' = e.cat)
      /\ queue' = Tail(queue) /\ UNCHANGED <<schemas, created, shadowed, pc, table, todo, seen>>
  BY <1>1 DEF Drain, Log, local, history
<1>3. queue \in Seq(IdxEntries \cup CatalogEntries) /\ queue # <<>>
  BY DEF Drain, Log, TypeInv, TypeOK, SharedType
<1>4. /\ \A i \in DOMAIN queue' : \E j \in DOMAIN queue : queue'[i] = queue[j]
      /\ \E j \in DOMAIN queue : e = queue[j]
  BY <1>1, <1>2, <1>3, TailElements
<1>5. ASSUME NEW t \in created' \ shadowed' PROVE TableKept(t)'
  <2>1. TableKept(t)
    BY <1>2 DEF CatalogInv
  <2>2. tree_cat'[t] # 0
    BY <1>2, <1>4, <2>1 DEF TableKept
  <2>3. \A i \in DOMAIN queue' : queue'[i].is = "catalog" => queue'[i].cat[t] # 0
    BY <1>4, <2>1 DEF TableKept
  <2> QED BY <1>2, <2>1, <2>2, <2>3 DEF TableKept
<1>6. \A c \in Conns : CreateOK(c)'
  BY <1>2 DEF CatalogInv, CreateOK
<1> QED BY <1>5, <1>6 DEF CatalogInv

\* Every step keeps the catalog's invariant.
LEMMA CatalogStep == TypeInv /\ TypeInv' /\ CatalogInv /\ [Next]_vars => CatalogInv'
<1> SUFFICES ASSUME TypeInv, TypeInv', CatalogInv, [Next]_vars PROVE CatalogInv'
  OBVIOUS
<1>1. \A t \in Tables : schemas[t] # 0 => schemas'[t] # 0
  BY SchemasStay
<1>2. ASSUME NEW c \in Conns, \A d \in Conns \ {c} : Same(d), CollectStep(c),
             UNCHANGED <<tree_cat, created, shadowed>>,
             queue' = queue \/ \E e \in IdxEntries : queue' = Append(queue, e)
      PROVE  CatalogInv'
  <2>1. \A d \in Conns : CollectStep(d)
    BY <1>2, CollectSame DEF Same
  <2>2. \A i \in DOMAIN queue' : queue'[i].is = "catalog" => \E j \in DOMAIN queue : queue[j] = queue'[i]
    BY <1>2, QueueFrame
  <2> QED BY <1>1, <1>2, <2>1, <2>2, CatalogFrame
<1>3. ASSUME NEW c \in Conns,
             \/ \E t \in Tables : Insert(c, t) \/ CreateIndex(c, t)
             \/ StoreCatalogFail(c) \/ BuildRow(c) \/ IndexRow(c) \/ EnqueueIdx(c) \/ InsertFail(c)
             \/ Begin(c) \/ Commit(c) \/ Rollback(c) \/ Update(c)
             \/ ScanRows(c) \/ BuildEntry(c) \/ BuildDone(c)
      PROVE  CatalogInv'
  <2>1. \A d \in Conns \ {c} : Same(d)
    BY <1>3, OthersStay
  <2>2. /\ UNCHANGED <<tree_cat, created, shadowed>> /\ CollectStep(c)
        /\ queue' = queue \/ \E e \in IdxEntries : queue' = Append(queue, e)
    BY <1>3, NoCollecting
  <2> QED BY <1>2, <2>1, <2>2
<1>4. ASSUME NEW c \in Conns, (\E t \in Tables : CreateTable(c, t) \/ Collect(c, t)) \/ WriteBack(c)
      PROVE  CatalogInv'
  <2>1. \A d \in Conns \ {c} : Same(d)
    BY <1>4, OthersStay
  <2>2. UNCHANGED <<tree_cat, created, shadowed, queue>> /\ CollectStep(c)
    BY <1>4, CollectingKeeps
  <2> QED BY <1>2, <2>1, <2>2
<1>5. ASSUME NEW c \in Conns, StoreCatalog(c) \/ EnqueueCatalog(c)
      PROVE  CatalogInv'
  BY <1>5, StoreCatalogKeeps, EnqueueCatalogKeeps
<1>6. CASE Drain \/ Log
  BY <1>6, DrainKeeps
<1>7. CASE UNCHANGED vars
  BY <1>7 DEF vars, shared, local, history, CatalogInv, CreateOK, TableKept
<1> QED BY <1>3, <1>4, <1>5, <1>6, <1>7, NextCases

\* A table whose CREATE TABLE was answered stays in the stored catalog, whatever INSERTs and other
\* CREATE TABLEs store, unless a record collected without it was on its way when it was stored.
THEOREM CatalogKeptAlways == Spec => []CatalogKept
<1>1. Init => TypeInv
  BY InitTypes
<1>2. TypeInv /\ [Next]_vars => TypeInv'
  BY TypeStep
<1>3. Init => CatalogInv
  BY DEF Init, CatalogInv, CreateOK
<1>4. TypeInv /\ TypeInv' /\ CatalogInv /\ [Next]_vars => CatalogInv'
  BY CatalogStep
<1>5. CatalogInv => CatalogKept
  BY DEF CatalogInv, CatalogKept, TableKept
<1> QED BY <1>1, <1>2, <1>3, <1>4, <1>5, PTL DEF Spec
-----------------------------------------------------------------------------
(* Auto-increment values.  A table that is not contended has at most one   *)
(* INSERT under way, and the ids given are below that INSERT's counter, or *)
(* below the schema's when there is none.                                  *)

Alone(t) == \A c, d \in Conns : Inserting(c, t) /\ Inserting(d, t) => c = d
Below(t, i) == /\ \A c \in Conns : Inserting(c, t) => i < next_id[c]
               /\ (\A c \in Conns : ~Inserting(c, t)) => i < schemas[t]
IdOK(t) == Alone(t) /\ \A r \in given : r.table = t => Below(t, r.id)
IdInv == UniqueIds /\ \A t \in Tables \ contended : IdOK(t)

\* What a step does to an INSERT: nothing that its table's counter sees.
InsertStays(c) ==
  \/ pc[c] \notin Building /\ pc'[c] \notin Building
  \/ pc[c] \in Building /\ pc'[c] \in Building /\ table'[c] = table[c] /\ next_id'[c] = next_id[c]

\* An INSERT that stays is under way as before, with the same counter.
LEMMA InsertingStays ==
  ASSUME NEW c \in Conns, InsertStays(c) \/ Same(c)
  PROVE  /\ \A t \in Tables : Inserting(c, t)' = Inserting(c, t)
         /\ \A t \in Tables : Inserting(c, t) => next_id'[c] = next_id[c]
BY DEF InsertStays, Same, Inserting, Building

\* The ids given and the counters stay.
LEMMA IdFrame ==
  ASSUME IdInv, UNCHANGED <<schemas, given, contended>>, \A c \in Conns : InsertStays(c) \/ Same(c)
  PROVE  IdInv'
<1>1. UniqueIds'
  BY DEF IdInv, UniqueIds
<1>2. ASSUME NEW t \in Tables \ contended' PROVE IdOK(t)'
  <2>1. IdOK(t)
    BY DEF IdInv
  <2>2. \A c \in Conns : Inserting(c, t)' = Inserting(c, t) /\ (Inserting(c, t) => next_id'[c] = next_id[c])
    BY InsertingStays
  <2>3. Alone(t)'
    BY <2>1, <2>2 DEF IdOK, Alone
  <2>4. ASSUME NEW r \in given', r.table = t PROVE Below(t, r.id)'
    <3>1. Below(t, r.id)
      BY <2>1, <2>4 DEF IdOK
    <3> QED BY <2>2, <3>1 DEF Below
  <2> QED BY <2>3, <2>4 DEF IdOK
<1> QED BY <1>1, <1>2 DEF IdInv

\* The steps that leave counters and ids alone.
LEMMA NoCounting ==
  ASSUME TypeInv, NEW c \in Conns,
         \/ \E t \in Tables : Collect(c, t) \/ CreateIndex(c, t)
         \/ StoreCatalog(c) \/ StoreCatalogFail(c) \/ EnqueueCatalog(c) \/ IndexRow(c) \/ EnqueueIdx(c)
         \/ Begin(c) \/ Commit(c) \/ Rollback(c) \/ Update(c)
         \/ ScanRows(c) \/ BuildEntry(c) \/ BuildDone(c)
  PROVE  UNCHANGED <<schemas, given, contended>> /\ InsertStays(c)
<1>1. pc \in [Conns -> {"idle", "create", "row", "index", "enqueue", "collect", "scan", "build"}]
  BY DEF TypeInv, TypeOK, LocalType
<1>2. ASSUME NEW t \in Tables, Collect(c, t) \/ CreateIndex(c, t)
      PROVE  UNCHANGED <<schemas, given, contended>> /\ InsertStays(c)
  BY <1>1, <1>2 DEF Collect, CreateIndex, Idle, Goto, InsertStays, Building, shared, history
<1>3. CASE StoreCatalog(c) \/ StoreCatalogFail(c) \/ EnqueueCatalog(c) \/ BuildDone(c)
  BY <1>1, <1>3 DEF StoreCatalog, StoreCatalogFail, EnqueueCatalog, BuildDone, Return, Goto,
                    InsertStays, Building, shared, history
<1>4. CASE IndexRow(c) \/ EnqueueIdx(c) \/ ScanRows(c)
  BY <1>1, <1>4 DEF IndexRow, EnqueueIdx, ScanRows, NextRow, Goto, InsertStays, Building, shared, history
<1>5. CASE Begin(c) \/ Commit(c) \/ Rollback(c) \/ Update(c)
  BY <1>5 DEF Begin, Commit, Rollback, Update, Idle, local, InsertStays, Building, shared, history
<1>6. CASE BuildEntry(c)
  <2>1. UNCHANGED <<schemas, given, contended>> /\ pc[c] = "build"
    BY <1>6, BuildEntryFacts
  <2>2. pc'[c] \notin Building
    <3>1. CASE Return(c)
      BY <1>1, <3>1 DEF Return, Goto, Building
    <3>2. CASE pc' = pc
      BY <2>1, <3>2 DEF Building
    <3> QED BY <1>6, <3>1, <3>2, BuildEntryFacts
  <2> QED BY <2>1, <2>2 DEF InsertStays, Building
<1> QED BY <1>2, <1>3, <1>4, <1>5, <1>6

\* CREATE TABLE of a table that was not there: it has no rows.
LEMMA CreateTableIds ==
  ASSUME TypeInv, IdInv, NEW c \in Conns, NEW t \in Tables, CreateTable(c, t)
  PROVE  IdInv'
<1>1. /\ schemas \in [Tables -> Nat] /\ given \subseteq [table : Tables, id : Nat, key : Key]
      /\ pc \in [Conns -> {"idle", "create", "row", "index", "enqueue", "collect", "scan", "build"}]
  BY DEF TypeInv, TypeOK, SharedType, LocalType, HistoryType
<1>2. \A d \in Conns : InsertStays(d) \/ Same(d)
  <2>1. \A d \in Conns \ {c} : Same(d)
    BY OthersStay
  <2>2. InsertStays(c)
    BY <1>1 DEF CreateTable, Idle, Goto, InsertStays, Building
  <2> QED BY <2>1, <2>2
<1>3. /\ given' = given /\ \A x \in Tables : schemas'[x] = IF x = t THEN 1 ELSE schemas[x]
      /\ contended' = IF schemas[t] # 0 THEN contended \cup {t} ELSE contended
  BY <1>1 DEF CreateTable
<1>4. UniqueIds'
  BY <1>3 DEF IdInv, UniqueIds
<1>5. ASSUME NEW x \in Tables \ contended' PROVE IdOK(x)'
  <2>1. IdOK(x)
    BY <1>3 DEF IdInv
  <2>2. \A d \in Conns : Inserting(d, x)' = Inserting(d, x) /\ (Inserting(d, x) => next_id'[d] = next_id[d])
    BY <1>2, InsertingStays
  <2>3. Alone(x)'
    BY <2>1, <2>2 DEF IdOK, Alone
  <2>4. ASSUME NEW r \in given', r.table = x PROVE Below(x, r.id)'
    <3>1. Below(x, r.id)
      BY <1>3, <2>1, <2>4 DEF IdOK
    <3>2. CASE x # t
      BY <1>3, <2>2, <3>1, <3>2 DEF Below
    <3>3. CASE x = t
      <4>1. schemas[t] = 0
        BY <1>3, <3>3
      <4>2. \A d \in Conns : ~Inserting(d, t)
        BY <4>1 DEF Inserting, TypeInv, StatementInv, StatementOK, Building
      <4>3. r.id < 0 /\ r.id \in Nat
        BY <1>1, <1>3, <3>1, <3>3, <4>1, <4>2 DEF Below
      <4> QED BY <4>3
    <3> QED BY <3>2, <3>3
  <2> QED BY <2>3, <2>4 DEF IdOK
<1> QED BY <1>4, <1>5 DEF IdInv

\* An INSERT that starts alone on its table takes the schema's counter.
LEMMA InsertIds ==
  ASSUME TypeInv, IdInv, NEW c \in Conns, NEW t \in Tables, Insert(c, t)
  PROVE  IdInv'
<1>1. /\ pc \in [Conns -> {"idle", "create", "row", "index", "enqueue", "collect", "scan", "build"}]
      /\ table \in [Conns -> Tables \cup {"none"}] /\ next_id \in [Conns -> Nat]
  BY DEF TypeInv, TypeOK, LocalType
<1>2. \A d \in Conns \ {c} : Same(d)
  BY OthersStay
<1>3. /\ pc[c] = "idle" /\ pc'[c] = "row" /\ table'[c] = t /\ next_id'[c] = schemas[t]
      /\ UNCHANGED <<schemas, given>>
      /\ contended' = IF \E d \in Conns : Inserting(d, t) THEN contended \cup {t} ELSE contended
  BY <1>1 DEF Insert, Idle, Goto, shared
<1>4. UniqueIds'
  BY <1>3 DEF IdInv, UniqueIds
<1>5. ASSUME NEW x \in Tables \ contended' PROVE IdOK(x)'
  <2>1. IdOK(x)
    BY <1>3 DEF IdInv
  <2>2. \A d \in Conns \ {c} : Inserting(d, x)' = Inserting(d, x) /\ (Inserting(d, x) => next_id'[d] = next_id[d])
    BY <1>2, InsertingStays
  <2>3. ~Inserting(c, x) /\ (Inserting(c, x)' <=> x = t)
    BY <1>3 DEF Inserting
  <2>4. x = t => \A d \in Conns : ~Inserting(d, x)
    BY <1>3
  <2>5. Alone(x)'
    BY <2>1, <2>2, <2>3, <2>4 DEF IdOK, Alone
  <2>6. ASSUME NEW r \in given', r.table = x PROVE Below(x, r.id)'
    <3>1. Below(x, r.id)
      BY <1>3, <2>1, <2>6 DEF IdOK
    <3> QED BY <1>3, <2>2, <2>3, <2>4, <3>1 DEF Below
  <2> QED BY <2>5, <2>6 DEF IdOK
<1> QED BY <1>4, <1>5 DEF IdInv
\* A row takes the INSERT's counter as its id.
LEMMA BuildRowIds ==
  ASSUME TypeInv, IdInv, NEW c \in Conns, BuildRow(c)
  PROVE  IdInv'
<1>1. /\ pc \in [Conns -> {"idle", "create", "row", "index", "enqueue", "collect", "scan", "build"}]
      /\ next_id \in [Conns -> Nat] /\ given \subseteq [table : Tables, id : Nat, key : Key]
  BY DEF TypeInv, TypeOK, LocalType, HistoryType
<1>2. \A d \in Conns \ {c} : Same(d)
  BY OthersStay
<1>3. PICK u, n, k : u = table[c] /\ n = next_id[c] /\ k = key[c] + 1
  OBVIOUS
<1>4. PICK s : s = [table |-> u, id |-> n, key |-> k]
  OBVIOUS
<1>5. /\ given' = given \cup {s} /\ UNCHANGED <<schemas, contended, table>> /\ pc[c] = "row"
      /\ next_id' = [next_id EXCEPT ![c] = @ + 1]
  BY <1>3, <1>4, BuildRowFacts
<1>6. pc' = [pc EXCEPT ![c] = "index"] \/ pc' = [pc EXCEPT ![c] = "enqueue"] \/ pc' = [pc EXCEPT ![c] = "row"]
  BY BuildRowFacts
<1>7. u \in Tables /\ n \in Nat /\ s.table = u /\ s.id = n /\ next_id'[c] = n + 1
  BY <1>1, <1>3, <1>4, <1>5, RowFacts
<1>8. \A x \in Tables : (Inserting(c, x) <=> x = u) /\ (Inserting(c, x)' <=> x = u)
  BY <1>1, <1>3, <1>5, <1>6 DEF Inserting
<1>9. \A x \in Tables, d \in Conns \ {c} :
        Inserting(d, x)' = Inserting(d, x) /\ (Inserting(d, x) => next_id'[d] = next_id[d])
  BY <1>2, InsertingStays
<1>10. u \notin contended => \A r \in given : r.table = u => r.id < n
  BY <1>3, <1>7, <1>8 DEF IdInv, IdOK, Below
<1>11. UniqueIds'
  <2> SUFFICES ASSUME NEW r \in given', NEW q \in given', r.table = q.table, r.id = q.id, r.key # q.key,
                      r.table \notin contended
               PROVE  FALSE
    BY <1>5 DEF UniqueIds
  <2>1. CASE r \in given /\ q \in given
    BY <2>1 DEF IdInv, UniqueIds
  <2>2. CASE r = s /\ q \in given
    BY <1>1, <1>7, <1>10, <2>2
  <2>3. CASE r \in given /\ q = s
    BY <1>1, <1>7, <1>10, <2>3
  <2>4. CASE r = s /\ q = s
    BY <2>4
  <2> QED BY <1>5, <2>1, <2>2, <2>3, <2>4
<1>12. ASSUME NEW x \in Tables \ contended' PROVE IdOK(x)'
  <2>1. IdOK(x)
    BY <1>5 DEF IdInv
  <2>2. Alone(x)'
    BY <1>8, <1>9, <2>1 DEF IdOK, Alone
  <2>3. ASSUME NEW r \in given', r.table = x PROVE Below(x, r.id)'
    <3>1. CASE x = u
      <4>1. r.id < next_id'[c]
        <5>1. CASE r = s
          BY <1>7, <5>1
        <5>2. CASE r \in given
          BY <1>1, <1>5, <1>7, <1>10, <2>3, <3>1, <5>2
        <5> QED BY <1>5, <5>1, <5>2
      <4> QED BY <1>8, <2>2, <3>1, <4>1 DEF Below, Alone
    <3>2. CASE x # u
      <4>1. Below(x, r.id)
        BY <1>5, <1>7, <2>1, <2>3, <3>2 DEF IdOK
      <4> QED BY <1>5, <1>8, <1>9, <3>2, <4>1 DEF Below
    <3> QED BY <3>1, <3>2
  <2> QED BY <2>2, <2>3 DEF IdOK
<1> QED BY <1>11, <1>12 DEF IdInv

\* An INSERT that fails leaves its table's counter behind; one that does not puts its own there.
LEMMA InsertEndsIds ==
  ASSUME TypeInv, IdInv, NEW c \in Conns, InsertFail(c) \/ WriteBack(c)
  PROVE  IdInv'
<1>1. /\ pc \in [Conns -> {"idle", "create", "row", "index", "enqueue", "collect", "scan", "build"}]
      /\ schemas \in [Tables -> Nat]
  BY DEF TypeInv, TypeOK, LocalType, SharedType
<1>2. \A d \in Conns \ {c} : Same(d)
  BY OthersStay
<1>3. PICK u : u = table[c]
  OBVIOUS
<1>4. pc[c] = "enqueue" /\ pc'[c] \in {"idle", "collect"} /\ given' = given
  BY <1>1 DEF InsertFail, WriteBack, Return, Goto, history
<1>5. \/ schemas' = schemas /\ contended' = contended \cup {u}
      \/ schemas' = [schemas EXCEPT ![u] = next_id[c]] /\ contended' = contended
  BY <1>3 DEF InsertFail, WriteBack, shared, history
<1>6. u \in Tables
  BY <1>3, <1>4 DEF TypeInv, StatementInv, StatementOK
<1>7. UniqueIds'
  BY <1>4, <1>5 DEF IdInv, UniqueIds
<1>8. ASSUME NEW x \in Tables \ contended' PROVE IdOK(x)'
  <2>1. IdOK(x)
    BY <1>5 DEF IdInv
  <2>2. \A d \in Conns \ {c} : Inserting(d, x)' = Inserting(d, x) /\ (Inserting(d, x) => next_id'[d] = next_id[d])
    BY <1>2, InsertingStays
  <2>3. ~Inserting(c, x)' /\ (Inserting(c, x) <=> x = u)
    BY <1>3, <1>4 DEF Inserting
  <2>4. Alone(x)'
    BY <2>1, <2>2, <2>3 DEF IdOK, Alone
  <2>5. ASSUME NEW r \in given', r.table = x PROVE Below(x, r.id)'
    <3>1. Below(x, r.id)
      BY <1>4, <2>1, <2>5 DEF IdOK
    <3>2. CASE x = u
      <4>1. schemas'[x] = next_id[c]
        BY <1>1, <1>5, <1>6, <3>2
      <4>2. r.id < schemas'[x]
        BY <2>3, <3>1, <3>2, <4>1 DEF Below
      <4>3. \A d \in Conns : ~Inserting(d, x)'
        BY <2>1, <2>2, <2>3, <3>2 DEF IdOK, Alone
      <4> QED BY <4>2, <4>3 DEF Below
    <3>3. CASE x # u
      <4>1. schemas'[x] = schemas[x]
        BY <1>1, <1>5, <3>3
      <4> QED BY <2>2, <2>3, <3>1, <3>3, <4>1 DEF Below
    <3> QED BY <3>2, <3>3
  <2> QED BY <2>4, <2>5 DEF IdOK
<1> QED BY <1>7, <1>8 DEF IdInv

\* Every step keeps the ids' invariant.
LEMMA IdStep == TypeInv /\ IdInv /\ [Next]_vars => IdInv'
<1> SUFFICES ASSUME TypeInv, IdInv, [Next]_vars PROVE IdInv'
  OBVIOUS
<1>1. ASSUME NEW c \in Conns,
             \/ \E t \in Tables : Collect(c, t) \/ CreateIndex(c, t)
             \/ StoreCatalog(c) \/ StoreCatalogFail(c) \/ EnqueueCatalog(c) \/ IndexRow(c) \/ EnqueueIdx(c)
             \/ Begin(c) \/ Commit(c) \/ Rollback(c) \/ Update(c)
             \/ ScanRows(c) \/ BuildEntry(c) \/ BuildDone(c)
      PROVE  IdInv'
  <2>1. \A d \in Conns \ {c} : Same(d)
    BY <1>1, OthersStay
  <2>2. UNCHANGED <<schemas, given, contended>> /\ InsertStays(c)
    BY <1>1, NoCounting
  <2>3. \A d \in Conns : InsertStays(d) \/ Same(d)
    BY <2>1, <2>2
  <2> QED BY <2>2, <2>3, IdFrame
<1>2. ASSUME NEW c \in Conns, NEW t \in Tables, CreateTable(c, t) \/ Insert(c, t)
      PROVE  IdInv'
  BY <1>2, CreateTableIds, InsertIds
<1>3. ASSUME NEW c \in Conns, BuildRow(c) \/ InsertFail(c) \/ WriteBack(c)
      PROVE  IdInv'
  BY <1>3, BuildRowIds, InsertEndsIds
<1>4. CASE Drain \/ Log \/ UNCHANGED vars
  <2>1. UNCHANGED <<schemas, given, contended>>
    BY <1>4 DEF Drain, Log, vars, shared, history
  <2>2. \A d \in Conns : InsertStays(d) \/ Same(d)
    BY <1>4, AllStay
  <2> QED BY <2>1, <2>2, IdFrame
<1> QED BY <1>1, <1>2, <1>3, <1>4, NextCases

\* Two rows of a table have the same auto-increment value only if their INSERTs overlapped, an
\* INSERT failed at a full queue, or the table was created again.
THEOREM UniqueIdsAlways == Spec => []UniqueIds
<1>1. Init => TypeInv
  BY InitTypes
<1>2. TypeInv /\ [Next]_vars => TypeInv'
  BY TypeStep
<1>3. Init => IdInv
  BY DEF Init, IdInv, IdOK, Alone, Inserting, UniqueIds
<1>4. TypeInv /\ IdInv /\ [Next]_vars => IdInv'
  BY IdStep
<1>5. IdInv => UniqueIds
  BY DEF IdInv
<1> QED BY <1>1, <1>2, <1>3, <1>4, <1>5, PTL DEF Spec
-----------------------------------------------------------------------------
(* Index entries.  An entry, wherever it is, names a row that has had the  *)
(* value; so when a value has belonged to one row only, its entry names    *)
(* that row.                                                               *)

HasHeld(t, v, k) == [table |-> t, val |-> v, key |-> k] \in held
EntryHeld(e) == \A t \in Tables, v \in Values : e.entry = IdxKey(t, v) => HasHeld(t, v, e.key)

RowsHeld == \A k \in Key : rows[k] # NoRow => HasHeld(rows[k].table, rows[k].val, k)
MapHeld(f) == \A t \in Tables, v \in Values : f[IdxKey(t, v)] # NoKey => HasHeld(t, v, f[IdxKey(t, v)])
QueueHeld == \A i \in DOMAIN queue : queue[i].is = "idx" => EntryHeld(queue[i])
ConnHeld(c) == /\ \A i \in DOMAIN pending[c] : EntryHeld(pending[c][i])
               /\ pc[c] = "index" => HasHeld(table[c], Head(left[c]), key[c])

HeldInv == RowsHeld /\ MapHeld(idx) /\ MapHeld(tree_idx) /\ QueueHeld /\ \A c \in Conns : ConnHeld(c)

\* The steps that change rows.
LEMMA RowSteps ==
  ASSUME [Next]_vars
  PROVE  (\E c \in Conns : BuildRow(c) \/ Commit(c) \/ Update(c)) \/ UNCHANGED <<rows, held>>
<1>1. ASSUME NEW c \in Conns, NEW t \in Tables,
             CreateTable(c, t) \/ Collect(c, t) \/ Insert(c, t) \/ CreateIndex(c, t)
      PROVE  UNCHANGED <<rows, held>>
  BY <1>1 DEF CreateTable, Collect, Insert, CreateIndex, shared, history
<1>2. ASSUME NEW c \in Conns,
             \/ StoreCatalog(c) \/ StoreCatalogFail(c) \/ IndexRow(c) \/ EnqueueIdx(c)
             \/ InsertFail(c) \/ WriteBack(c) \/ EnqueueCatalog(c)
      PROVE  UNCHANGED <<rows, held>>
  BY <1>2 DEF StoreCatalog, StoreCatalogFail, IndexRow, EnqueueIdx, InsertFail, WriteBack,
              EnqueueCatalog, shared, history
<1>3. ASSUME NEW c \in Conns, Begin(c) \/ Rollback(c) \/ ScanRows(c) \/ BuildEntry(c) \/ BuildDone(c)
      PROVE  UNCHANGED <<rows, held>>
  BY <1>3 DEF Begin, Rollback, ScanRows, BuildEntry, BuildDone, shared, history
<1>4. CASE Drain \/ Log \/ UNCHANGED vars
  BY <1>4 DEF Drain, Log, vars, shared, history
<1> QED BY <1>1, <1>2, <1>3, <1>4, NextCases

\* The steps that change entries.
LEMMA EntrySteps ==
  ASSUME [Next]_vars
  PROVE  (\E c \in Conns : EnqueueIdx(c) \/ EnqueueCatalog(c) \/ BuildEntry(c)) \/ Drain \/ Log
         \/ UNCHANGED <<queue, idx, tree_idx>>
<1>1. ASSUME NEW c \in Conns, NEW t \in Tables,
             CreateTable(c, t) \/ Collect(c, t) \/ Insert(c, t) \/ CreateIndex(c, t)
      PROVE  UNCHANGED <<queue, idx, tree_idx>>
  BY <1>1 DEF CreateTable, Collect, Insert, CreateIndex, shared
<1>2. ASSUME NEW c \in Conns,
             \/ StoreCatalog(c) \/ StoreCatalogFail(c) \/ BuildRow(c) \/ IndexRow(c)
             \/ InsertFail(c) \/ WriteBack(c)
      PROVE  UNCHANGED <<queue, idx, tree_idx>>
  BY <1>2 DEF StoreCatalog, StoreCatalogFail, BuildRow, IndexRow, InsertFail, WriteBack, shared
<1>3. ASSUME NEW c \in Conns,
             Begin(c) \/ Commit(c) \/ Rollback(c) \/ Update(c) \/ ScanRows(c) \/ BuildDone(c)
      PROVE  UNCHANGED <<queue, idx, tree_idx>>
  BY <1>3 DEF Begin, Commit, Rollback, Update, ScanRows, BuildDone, shared
<1>4. CASE UNCHANGED vars
  BY <1>4 DEF vars, shared
<1> QED BY <1>1, <1>2, <1>3, <1>4, NextCases

\* A value once held stays so.
LEMMA HeldGrows ==
  ASSUME TypeInv, [Next]_vars
  PROVE  held \subseteq held'
<1>1. ASSUME NEW c \in Conns, BuildRow(c) PROVE held \subseteq held'
  BY <1>1, BuildRowFacts
<1>2. ASSUME NEW c \in Conns, Commit(c) PROVE held \subseteq held'
  BY <1>2, CommitFacts
<1>3. ASSUME NEW c \in Conns, Update(c) PROVE held \subseteq held'
  BY <1>3, UpdateFacts
<1> QED BY <1>1, <1>2, <1>3, RowSteps

\* The value of every row written is held.
LEMMA RowsHeldStep ==
  ASSUME TypeInv, HeldInv, [Next]_vars
  PROVE  RowsHeld'
<1>1. held \subseteq held' /\ RowsHeld
  BY HeldGrows DEF HeldInv
<1>2. ASSUME NEW ks, ks \subseteq Key, held' = held \cup Holding(ks), \A k \in Key \ ks : rows'[k] = rows[k]
      PROVE  RowsHeld'
  <2> SUFFICES ASSUME NEW k \in Key, rows'[k] # NoRow
               PROVE  [table |-> rows'[k].table, val |-> rows'[k].val, key |-> k] \in held'
    BY DEF RowsHeld, HasHeld
  <2>1. CASE k \in ks
    BY <1>2, <2>1 DEF Holding
  <2>2. CASE k \notin ks
    BY <1>1, <1>2, <2>2 DEF RowsHeld, HasHeld
  <2> QED BY <2>1, <2>2
<1>3. rows \in [Key -> {NoRow} \cup Row]
  BY DEF TypeInv, TypeOK, SharedType
<1>4. ASSUME NEW c \in Conns, BuildRow(c) PROVE RowsHeld'
  <2>1. CASE UNCHANGED <<rows, held>>
    BY <1>1, <2>1 DEF RowsHeld, HasHeld
  <2>2. CASE rows' = [rows EXCEPT ![key[c] + 1] = BuiltRow(c)] /\ held' = held \cup Holding({key[c] + 1})
    <3>1. PICK k, ks : k = key[c] + 1 /\ ks = {k}
      OBVIOUS
    <3>2. k \in Key
      BY <1>4, <3>1, BuildRowFacts, RowFacts
    <3>3. \A j \in Key \ ks : rows'[j] = rows[j]
      BY <1>3, <2>2, <3>1
    <3> QED BY <1>2, <2>2, <3>1, <3>2, <3>3
  <2> QED BY <1>4, <2>1, <2>2, BuildRowFacts
<1>5. ASSUME NEW c \in Conns, Commit(c) PROVE RowsHeld'
  <2>1. PICK ks : ks = {r.key : r \in tx[c].rows}
    OBVIOUS
  <2>2. ks \subseteq Key /\ held' = held \cup Holding(ks) /\ \A k \in Key \ ks : rows'[k] = rows[k]
    BY <1>5, <2>1, CommitFacts
  <2> QED BY <1>2, <2>2
<1>6. ASSUME NEW c \in Conns, Update(c) PROVE RowsHeld'
  <2>1. PICK k \in Key, v \in Values : rows' = [rows EXCEPT ![k].val = v] /\ held' = held \cup Holding({k})
    BY <1>6, UpdateFacts
  <2>2. PICK ks : ks = {k}
    OBVIOUS
  <2>3. \A j \in Key \ ks : rows'[j] = rows[j]
    BY <1>3, <2>1, <2>2
  <2> QED BY <1>2, <2>1, <2>2, <2>3
<1>7. CASE UNCHANGED <<rows, held>>
  BY <1>1, <1>7 DEF RowsHeld, HasHeld
<1> QED BY <1>4, <1>5, <1>6, <1>7, RowSteps

\* What held an entry holds it.
LEMMA EntryHeldGrows ==
  ASSUME held \subseteq held', NEW e, EntryHeld(e)
  PROVE  EntryHeld(e)'
BY DEF EntryHeld, HasHeld

\* An index entry put in a map.
LEMMA MapHeldPut ==
  ASSUME NEW f \in [IdxKeys -> 0..MaxRows], MapHeld(f), NEW e \in IdxEntries, EntryHeld(e)
  PROVE  MapHeld([f EXCEPT ![e.entry] = e.key])
<1> SUFFICES ASSUME NEW t \in Tables, NEW v \in Values,
                    [f EXCEPT ![e.entry] = e.key][IdxKey(t, v)] # NoKey
             PROVE  HasHeld(t, v, [f EXCEPT ![e.entry] = e.key][IdxKey(t, v)])
  BY DEF MapHeld
<1>1. IdxKey(t, v) \in IdxKeys
  BY DEF IdxKeys
<1>2. CASE e.entry = IdxKey(t, v)
  BY <1>1, <1>2 DEF EntryHeld
<1>3. CASE e.entry # IdxKey(t, v)
  BY <1>1, <1>3 DEF MapHeld
<1> QED BY <1>2, <1>3

\* What held the entries of a map holds them.
LEMMA MapHeldGrows ==
  ASSUME held \subseteq held', NEW f, MapHeld(f), NEW g, g = f
  PROVE  \A t \in Tables, v \in Values :
           g[IdxKey(t, v)] # NoKey => [table |-> t, val |-> v, key |-> g[IdxKey(t, v)]] \in held'
BY DEF MapHeld, HasHeld
\* The first of a connection's entries is held.
LEMMA HeadHeld ==
  ASSUME TypeInv, HeldInv, NEW c \in Conns, pending[c] # <<>>
  PROVE  Head(pending[c]) \in IdxEntries /\ EntryHeld(Head(pending[c]))
<1>1. pending[c] \in Seq(IdxEntries)
  BY DEF TypeInv, TypeOK, LocalType
<1>2. Head(pending[c]) \in IdxEntries /\ \E j \in DOMAIN pending[c] : Head(pending[c]) = pending[c][j]
  BY <1>1, RestFacts, TailElements
<1> QED BY <1>2 DEF HeldInv, ConnHeld

\* Entries in the memory tier and in the tree are held.
LEMMA MapsHeldStep ==
  ASSUME TypeInv, HeldInv, [Next]_vars
  PROVE  MapHeld(idx)' /\ MapHeld(tree_idx)'
<1>1. held \subseteq held' /\ MapHeld(idx) /\ MapHeld(tree_idx)
  BY HeldGrows DEF HeldInv
<1>2. idx \in [IdxKeys -> 0..MaxRows] /\ tree_idx \in [IdxKeys -> 0..MaxRows]
  BY DEF TypeInv, TypeOK, SharedType
<1>3. ASSUME NEW f, MapHeld(f), idx' = f PROVE MapHeld(idx)'
  BY <1>1, <1>3, MapHeldGrows DEF MapHeld, HasHeld
<1>4. ASSUME NEW f, MapHeld(f), tree_idx' = f PROVE MapHeld(tree_idx)'
  BY <1>1, <1>4, MapHeldGrows DEF MapHeld, HasHeld
<1>5. ASSUME NEW c \in Conns, BuildEntry(c) PROVE MapHeld(idx)' /\ MapHeld(tree_idx)'
  <2>1. PICK e : e = Head(pending[c])
    OBVIOUS
  <2>2. idx' = [idx EXCEPT ![e.entry] = e.key] /\ tree_idx' = tree_idx /\ pending[c] # <<>>
    BY <1>5, <2>1, BuildEntryFacts
  <2>3. e \in IdxEntries /\ EntryHeld(e)
    BY <2>1, <2>2, HeadHeld
  <2>4. PICK f : f = [idx EXCEPT ![e.entry] = e.key]
    OBVIOUS
  <2>5. MapHeld(f)
    BY <1>1, <1>2, <2>3, <2>4, MapHeldPut
  <2> QED BY <1>1, <1>3, <1>4, <2>2, <2>4, <2>5
<1>6. CASE Drain
  <2>1. PICK e : e = Head(queue)
    OBVIOUS
  <2>2. idx' = idx /\ queue # <<>> /\ (tree_idx' = tree_idx \/ (e.is = "idx" /\ tree_idx' = [tree_idx EXCEPT ![e.entry] = e.key]))
    BY <1>6, <2>1 DEF Drain
  <2>3. queue \in Seq(IdxEntries \cup CatalogEntries)
    BY DEF TypeInv, TypeOK, SharedType
  <2>4. e \in IdxEntries \cup CatalogEntries /\ \E j \in DOMAIN queue : e = queue[j]
    BY <2>1, <2>2, <2>3, RestFacts, TailElements
  <2>5. e.is = "idx" => e \in IdxEntries /\ EntryHeld(e)
    BY <2>4 DEF HeldInv, QueueHeld, CatalogEntries
  <2>6. PICK f : f = [tree_idx EXCEPT ![e.entry] = e.key]
    OBVIOUS
  <2>7. e.is = "idx" => MapHeld(f)
    BY <1>1, <1>2, <2>5, <2>6, MapHeldPut
  <2> QED BY <1>1, <1>3, <1>4, <2>2, <2>6, <2>7
<1>7. CASE UNCHANGED <<idx, tree_idx>>
  BY <1>1, <1>3, <1>4, <1>7
<1>8. ASSUME NEW c \in Conns, EnqueueIdx(c) \/ EnqueueCatalog(c) PROVE UNCHANGED <<idx, tree_idx>>
  BY <1>8 DEF EnqueueIdx, EnqueueCatalog
<1>9. CASE Log
  BY <1>7, <1>9 DEF Log
<1> QED BY <1>5, <1>6, <1>7, <1>8, <1>9, EntrySteps

\* Entries on the queue are held.
LEMMA QueueHeldStep ==
  ASSUME TypeInv, HeldInv, [Next]_vars
  PROVE  QueueHeld'
<1>1. held \subseteq held' /\ QueueHeld
  BY HeldGrows DEF HeldInv
<1>2. queue \in Seq(IdxEntries \cup CatalogEntries)
  BY DEF TypeInv, TypeOK, SharedType
<1>3. ASSUME \A i \in DOMAIN queue' : queue'[i].is = "idx" => EntryHeld(queue'[i]) PROVE QueueHeld'
  <2> SUFFICES ASSUME NEW i \in DOMAIN queue', queue'[i].is = "idx" PROVE EntryHeld(queue[i])'
    BY DEF QueueHeld
  <2>1. PICK e : e = queue'[i]
    OBVIOUS
  <2>2. EntryHeld(e)'
    BY <1>1, <1>3, <2>1, EntryHeldGrows
  <2> QED BY <2>1, <2>2 DEF EntryHeld, HasHeld
<1>4. ASSUME NEW e, e.is = "idx" => EntryHeld(e), queue' = Append(queue, e) PROVE QueueHeld'
  <2>1. \A i \in DOMAIN queue' : queue'[i] = e \/ \E j \in DOMAIN queue : queue'[i] = queue[j]
    BY <1>2, <1>4, AppendElements
  <2> QED BY <1>1, <1>3, <1>4, <2>1 DEF QueueHeld
<1>5. CASE queue' = queue
  BY <1>1, <1>3, <1>5 DEF QueueHeld
<1>6. ASSUME NEW c \in Conns, BuildEntry(c) PROVE QueueHeld'
  <2>1. PICK e : e = Head(pending[c])
    OBVIOUS
  <2>2. (queue' = queue \/ queue' = Append(queue, e)) /\ pending[c] # <<>>
    BY <1>6, <2>1, BuildEntryFacts
  <2>3. EntryHeld(e)
    BY <2>1, <2>2, HeadHeld
  <2> QED BY <1>4, <1>5, <2>2, <2>3
<1>7. ASSUME NEW c \in Conns, EnqueueIdx(c) PROVE QueueHeld'
  <2>1. PICK e : e = Head(pending[c])
    OBVIOUS
  <2>2. queue' = Append(queue, e) /\ pending[c] # <<>>
    BY <1>7, <2>1 DEF EnqueueIdx
  <2>3. EntryHeld(e)
    BY <2>1, <2>2, HeadHeld
  <2> QED BY <1>4, <2>2, <2>3
<1>8. ASSUME NEW c \in Conns, EnqueueCatalog(c) PROVE QueueHeld'
  <2>1. PICK e : e = CatalogEntry(seen[c])
    OBVIOUS
  <2>2. (queue' = queue \/ queue' = Append(queue, e)) /\ e.is = "catalog"
    BY <1>8, <2>1 DEF EnqueueCatalog, CatalogEntry
  <2> QED BY <1>4, <1>5, <2>2
<1>9. CASE Drain \/ Log
  <2>1. queue' = Tail(queue) /\ queue # <<>>
    BY <1>9 DEF Drain, Log
  <2>2. \A i \in DOMAIN queue' : \E j \in DOMAIN queue : queue'[i] = queue[j]
    BY <1>2, <2>1, TailElements
  <2> QED BY <1>1, <1>3, <2>2 DEF QueueHeld
<1> QED BY <1>5, <1>6, <1>7, <1>8, <1>9, EntrySteps

\* The steps that change a connection's entries, or lead it to the index of a row.
LEMMA PendingSteps ==
  ASSUME TypeInv, [Next]_vars, NEW c \in Conns
  PROVE  \/ BuildRow(c) \/ IndexRow(c) \/ EnqueueIdx(c) \/ ScanRows(c) \/ BuildEntry(c)
         \/ Same(c) \/ (pc'[c] # "index" /\ (pending'[c] = pending[c] \/ pending'[c] = <<>>))
<1>1. /\ pc \in [Conns -> {"idle", "create", "row", "index", "enqueue", "collect", "scan", "build"}]
      /\ pending \in [Conns -> Seq(IdxEntries)]
  BY DEF TypeInv, TypeOK, LocalType
<1>2. CASE Drain \/ Log \/ UNCHANGED vars
  BY <1>2, AllStay
<1>3. ASSUME NEW d \in Conns, d # c,
             \/ \E t \in Tables : CreateTable(d, t) \/ Collect(d, t) \/ Insert(d, t) \/ CreateIndex(d, t)
             \/ StoreCatalog(d) \/ StoreCatalogFail(d)
             \/ BuildRow(d) \/ IndexRow(d) \/ EnqueueIdx(d) \/ InsertFail(d) \/ WriteBack(d)
             \/ EnqueueCatalog(d)
             \/ Begin(d) \/ Commit(d) \/ Rollback(d) \/ Update(d)
             \/ ScanRows(d) \/ BuildEntry(d) \/ BuildDone(d)
      PROVE  Same(c)
  BY <1>3, OthersStay
<1>4. ASSUME NEW t \in Tables, CreateTable(c, t) \/ Collect(c, t) \/ Insert(c, t) \/ CreateIndex(c, t)
      PROVE  pc'[c] # "index" /\ pending'[c] = pending[c]
  BY <1>1, <1>4 DEF CreateTable, Collect, Insert, CreateIndex, Goto
<1>5. CASE StoreCatalog(c) \/ StoreCatalogFail(c) \/ InsertFail(c) \/ EnqueueCatalog(c) \/ BuildDone(c)
  <2>1. Return(c)
    BY <1>5 DEF StoreCatalog, StoreCatalogFail, InsertFail, EnqueueCatalog, BuildDone
  <2> QED BY <2>1, ReturnFacts
<1>6. CASE WriteBack(c)
  BY <1>1, <1>6 DEF WriteBack, Goto
<1>7. CASE Begin(c) \/ Commit(c) \/ Rollback(c) \/ Update(c)
  BY <1>7 DEF Begin, Commit, Rollback, Update, local, Same
<1> QED BY <1>2, <1>3, <1>4, <1>5, <1>6, <1>7, NextCases
\* The entry of a value that is held is held.
LEMMA IdxEntryHeld ==
  ASSUME NEW t, NEW v, NEW k, HasHeld(t, v, k)
  PROVE  EntryHeld(IdxEntry(t, v, k))
BY DEF EntryHeld, IdxEntry, IdxKey

\* A row is none of the rows that are not there.
LEMMA RowIsThere == \A r \in Row : r # NoRow
BY CatalogAssumption DEF Row, NoRow

\* The entries a connection has still to enqueue are held.
LEMMA ConnHeldStep ==
  ASSUME TypeInv, HeldInv, [Next]_vars, NEW c \in Conns
  PROVE  ConnHeld(c)'
<1>1. held \subseteq held' /\ ConnHeld(c)
  BY HeldGrows DEF HeldInv
<1>2. /\ pc \in [Conns -> {"idle", "create", "row", "index", "enqueue", "collect", "scan", "build"}]
      /\ pending \in [Conns -> Seq(IdxEntries)] /\ pending[c] \in Seq(IdxEntries)
      /\ key \in [Conns -> 0..MaxRows]
  BY DEF TypeInv, TypeOK, LocalType
<1>3. ASSUME \A i \in DOMAIN pending'[c] : EntryHeld(pending'[c][i]),
             pc'[c] = "index" => [table |-> table'[c], val |-> Head(left'[c]), key |-> key'[c]] \in held'
      PROVE  ConnHeld(c)'
  <2>1. ASSUME NEW i \in DOMAIN pending'[c] PROVE EntryHeld(pending[c][i])'
    <3>1. PICK e : e = pending'[c][i]
      OBVIOUS
    <3>2. EntryHeld(e)'
      BY <1>1, <1>3, <3>1, EntryHeldGrows
    <3> QED BY <3>1, <3>2 DEF EntryHeld, HasHeld
  <2> QED BY <1>3, <2>1 DEF ConnHeld, HasHeld
<1>4. ASSUME pending'[c] = pending[c] \/ pending'[c] = <<>> \/ (pending[c] # <<>> /\ pending'[c] = Tail(pending[c]))
      PROVE  \A i \in DOMAIN pending'[c] : EntryHeld(pending'[c][i])
  <2>1. CASE pending'[c] = pending[c]
    BY <1>1, <2>1 DEF ConnHeld
  <2>2. CASE pending'[c] = <<>>
    BY <2>2
  <2>3. CASE pending[c] # <<>> /\ pending'[c] = Tail(pending[c])
    <3>1. \A i \in DOMAIN Tail(pending[c]) : \E j \in DOMAIN pending[c] : Tail(pending[c])[i] = pending[c][j]
      BY <1>2, <2>3, TailElements
    <3> QED BY <1>1, <2>3, <3>1 DEF ConnHeld
  <2> QED BY <1>4, <2>1, <2>2, <2>3
<1>5. CASE BuildRow(c)
  <2>1. /\ pc[c] = "row" /\ key' = [key EXCEPT ![c] = key[c] + 1] /\ UNCHANGED <<table, pending>>
        /\ \/ pc' = [pc EXCEPT ![c] = "enqueue"] \/ pc' = [pc EXCEPT ![c] = "row"]
           \/ /\ rows' = [rows EXCEPT ![key[c] + 1] = BuiltRow(c)] /\ held' = held \cup Holding({key[c] + 1})
              /\ left' = left
    BY <1>5, BuildRowFacts
  <2>2. PICK k : k = key[c] + 1
    OBVIOUS
  <2>3. k \in Key /\ key'[c] = k
    BY <1>2, <2>1, <2>2, RowFacts
  <2>4. CASE rows' = [rows EXCEPT ![k] = BuiltRow(c)] /\ held' = held \cup Holding({k}) /\ left' = left
    <3>1. rows'[k] = BuiltRow(c)
      BY <2>3, <2>4 DEF TypeInv, TypeOK, SharedType
    <3>2. [table |-> rows'[k].table, val |-> rows'[k].val, key |-> k] \in held'
      BY <2>4 DEF Holding
    <3>3. rows'[k].table = table[c] /\ rows'[k].val = Head(left[c])
      BY <3>1 DEF BuiltRow
    <3>4. table'[c] = table[c] /\ left'[c] = left[c] /\ key'[c] = k
      BY <2>1, <2>3, <2>4
    <3>5. [table |-> table'[c], val |-> Head(left'[c]), key |-> key'[c]] \in held'
      BY <3>2, <3>3, <3>4
    <3> QED BY <1>3, <1>4, <2>1, <3>5
  <2>5. CASE pc'[c] # "index"
    BY <1>3, <1>4, <2>1, <2>5
  <2>6. pc' = [pc EXCEPT ![c] = "enqueue"] \/ pc' = [pc EXCEPT ![c] = "row"] => pc'[c] # "index"
    BY <1>2
  <2> QED BY <2>1, <2>2, <2>4, <2>5, <2>6
<1>6. CASE IndexRow(c)
  <2>1. pc[c] = "index" /\ pc'[c] # "index"
    BY <1>2, <1>6 DEF IndexRow, NextRow, Goto
  <2>2. PICK e : e = IdxEntry(table[c], Head(left[c]), key[c])
    OBVIOUS
  <2>3. EntryHeld(e)
    BY <1>1, <2>1, <2>2, IdxEntryHeld DEF ConnHeld
  <2>4. pending'[c] = pending[c] \/ pending'[c] = Append(pending[c], e)
    BY <1>2, <1>6, <2>2 DEF IndexRow
  <2>5. CASE pending'[c] = Append(pending[c], e)
    <3>1. \A i \in DOMAIN Append(pending[c], e) :
            Append(pending[c], e)[i] = e \/ \E j \in DOMAIN pending[c] : Append(pending[c], e)[i] = pending[c][j]
      BY <1>2, AppendElements
    <3> QED BY <1>1, <1>3, <2>1, <2>3, <2>5, <3>1 DEF ConnHeld
  <2> QED BY <1>3, <1>4, <2>1, <2>4, <2>5
<1>7. CASE EnqueueIdx(c)
  BY <1>2, <1>3, <1>4, <1>7 DEF EnqueueIdx
<1>8. CASE ScanRows(c)
  <2>1. table[c] \in Tables
    BY <1>8 DEF ScanRows, TypeInv, StatementInv, StatementOK
  <2>2. PICK ks \in Scans(table[c]) : pending' = [pending EXCEPT ![c] = EntriesOf(table[c], ks)]
    BY <1>8 DEF ScanRows
  <2>3. PICK t, es : t = table[c] /\ es = EntriesOf(t, ks)
    OBVIOUS
  <2>4. pending'[c] = es /\ pc'[c] # "index"
    BY <1>2, <1>8, <2>2, <2>3 DEF ScanRows, Goto
  <2>5. \A i \in DOMAIN es : /\ ks[i] \in Key /\ rows[ks[i]].table = t /\ rows[ks[i]] \in Row
                             /\ es[i] = IdxEntry(t, rows[ks[i]].val, ks[i])
    BY <2>1, <2>3, ScanFacts
  <2>6. \A i \in DOMAIN es : EntryHeld(es[i])
    BY <2>5, RowIsThere, IdxEntryHeld DEF HeldInv, RowsHeld
  <2> QED BY <1>3, <2>4, <2>6
<1>9. CASE BuildEntry(c)
  <2>1. /\ pc[c] = "build" /\ pending[c] # <<>>
        /\ (pending' = [pending EXCEPT ![c] = Tail(pending[c])] /\ pc' = pc) \/ Return(c)
    BY <1>9, BuildEntryFacts
  <2>2. CASE Return(c)
    BY <1>3, <1>4, <2>2, ReturnFacts
  <2>3. CASE pending' = [pending EXCEPT ![c] = Tail(pending[c])] /\ pc' = pc
    BY <1>2, <1>3, <1>4, <2>1, <2>3
  <2> QED BY <2>1, <2>2, <2>3
<1>10. CASE Same(c)
  <2>1. pc'[c] = "index" => [table |-> table'[c], val |-> Head(left'[c]), key |-> key'[c]] \in held'
    BY <1>1, <1>10 DEF Same, ConnHeld, HasHeld
  <2>2. pending'[c] = pending[c]
    BY <1>10 DEF Same
  <2> QED BY <1>3, <1>4, <2>1, <2>2
<1>11. CASE pc'[c] # "index" /\ (pending'[c] = pending[c] \/ pending'[c] = <<>>)
  BY <1>3, <1>4, <1>11
<1> QED BY <1>5, <1>6, <1>7, <1>8, <1>9, <1>10, <1>11, PendingSteps

\* The index names the one row that has had a value.
LEMMA HeldAnswers == TypeInv /\ HeldInv => IndexComplete
<1> SUFFICES ASSUME TypeInv, HeldInv, NEW t \in Tables, NEW v \in Values,
                    \A g, h \in held : g.table = t /\ g.val = v /\ h.table = t /\ h.val = v => g = h
             PROVE  Answer(t, v) = Matches(t, v)
  BY DEF IndexComplete
<1>1. PICK k : k = Lookup(t, v)
  OBVIOUS
<1>2. \A m \in Matches(t, v) : HasHeld(t, v, m)
  BY DEF Matches, HeldInv, RowsHeld
<1>3. k # NoKey => HasHeld(t, v, k)
  BY <1>1 DEF Lookup, HeldInv, MapHeld
<1>4. ASSUME NEW m, HasHeld(t, v, m), HasHeld(t, v, k) PROVE m = k
  <2>1. PICK g, h : g = [table |-> t, val |-> v, key |-> m] /\ h = [table |-> t, val |-> v, key |-> k]
    OBVIOUS
  <2>2. g \in held /\ h \in held /\ g.table = t /\ h.table = t /\ g.val = v /\ h.val = v /\ g.key = m /\ h.key = k
    BY <1>4, <2>1 DEF HasHeld
  <2> QED BY <2>2
<1>5. k # NoKey => {k} \cap Matches(t, v) = Matches(t, v)
  BY <1>2, <1>3, <1>4
<1> QED BY <1>1, <1>5 DEF Answer

\* A query on an indexed value returns all rows that have it, at every moment of CREATE INDEX,
\* INSERT and UPDATE, as long as the value has belonged to one row of the table at most.
THEOREM IndexCompleteAlways == Spec => []IndexComplete
<1>1. Init => TypeInv
  BY InitTypes
<1>2. TypeInv /\ [Next]_vars => TypeInv'
  BY TypeStep
<1>3. Init => HeldInv
  <2> SUFFICES ASSUME Init PROVE HeldInv
    OBVIOUS
  <2>1. RowsHeld
    BY DEF Init, RowsHeld
  <2>2. MapHeld(idx) /\ MapHeld(tree_idx)
    BY DEF Init, MapHeld, IdxKeys
  <2>3. QueueHeld /\ \A c \in Conns : ConnHeld(c)
    BY DEF Init, QueueHeld, ConnHeld
  <2> QED BY <2>1, <2>2, <2>3 DEF HeldInv
<1>4. TypeInv /\ HeldInv /\ [Next]_vars => HeldInv'
  BY RowsHeldStep, MapsHeldStep, QueueHeldStep, ConnHeldStep DEF HeldInv
<1>5. TypeInv /\ HeldInv => IndexComplete
  BY HeldAnswers
<1> QED BY <1>1, <1>2, <1>3, <1>4, <1>5, PTL DEF Spec
-----------------------------------------------------------------------------
(* Rows between CREATE INDEX and INSERT.  A row of an indexed table has    *)
(* its entry issued, or some connection covers it: it is about to scan the *)
(* table, to index the row, or holds the entry.                            *)

Covers(c, t, k) ==
  /\ table[c] = t
  /\ \/ pc[c] = "scan"
     \/ pc[c] = "index" /\ key[c] = k /\ Head(left[c]) = rows[k].val
     \/ /\ pc[c] \in Building \cup {"build"}
        /\ \E i \in DOMAIN pending[c] : pending[c][i] = IdxEntry(t, rows[k].val, k)

Covered(t, k) == IdxEntry(t, rows[k].val, k) \in issued \/ \E c \in Conns : Covers(c, t, k)

CoverInv ==
  /\ \A c \in Conns : \A r \in tx[c].rows : r.key \in exempt
  /\ \A t \in indices, k \in Key \ exempt : rows[k].table = t => Covered(t, k)

\* Exempt rows and issued entries stay so, and only CREATE INDEX registers an index.
LEMMA IndexSteps ==
  ASSUME TypeInv, [Next]_vars
  PROVE  /\ exempt \subseteq exempt' /\ issued \subseteq issued'
         /\ indices' = indices
            \/ \E c \in Conns, t \in Tables : CreateIndex(c, t) /\ indices' = indices \cup {t}
<1>1. ASSUME NEW c \in Conns, NEW t \in Tables, CreateTable(c, t) \/ Collect(c, t) \/ Insert(c, t)
      PROVE  UNCHANGED <<exempt, issued, indices>>
  BY <1>1 DEF CreateTable, Collect, Insert, shared, history
<1>2. ASSUME NEW c \in Conns, NEW t \in Tables, CreateIndex(c, t)
      PROVE  UNCHANGED <<exempt, issued>> /\ indices' = indices \cup {t}
  BY <1>2 DEF CreateIndex, history
<1>3. ASSUME NEW c \in Conns,
             \/ StoreCatalog(c) \/ StoreCatalogFail(c) \/ IndexRow(c) \/ EnqueueIdx(c)
             \/ InsertFail(c) \/ WriteBack(c) \/ EnqueueCatalog(c)
      PROVE  exempt \subseteq exempt' /\ issued \subseteq issued' /\ indices' = indices
  BY <1>3 DEF StoreCatalog, StoreCatalogFail, IndexRow, EnqueueIdx, InsertFail, WriteBack,
              EnqueueCatalog, shared, history
<1>4. ASSUME NEW c \in Conns, Begin(c) \/ Commit(c) \/ Rollback(c) \/ ScanRows(c) \/ BuildDone(c)
      PROVE  UNCHANGED <<exempt, issued, indices>>
  BY <1>4 DEF Begin, Commit, Rollback, ScanRows, BuildDone, shared, history
<1>5. ASSUME NEW c \in Conns, Update(c)
      PROVE  exempt \subseteq exempt' /\ issued \subseteq issued' /\ indices' = indices
  BY <1>5 DEF Update
<1>6. ASSUME NEW c \in Conns, BuildRow(c)
      PROVE  exempt \subseteq exempt' /\ issued \subseteq issued' /\ indices' = indices
  BY <1>6, BuildRowFacts
<1>7. ASSUME NEW c \in Conns, BuildEntry(c)
      PROVE  exempt \subseteq exempt' /\ issued \subseteq issued' /\ indices' = indices
  BY <1>7, BuildEntryFacts
<1>8. CASE Drain \/ Log \/ UNCHANGED vars
  BY <1>8 DEF Drain, Log, vars, shared, history
<1> QED BY <1>1, <1>2, <1>3, <1>4, <1>5, <1>6, <1>7, <1>8, NextCases

\* The steps of a connection that covers a row.
LEMMA CoverSteps ==
  ASSUME TypeInv, [Next]_vars, NEW c \in Conns, pc[c] \in {"scan", "index", "build"} \cup Building
  PROVE  \/ Same(c) \/ BuildRow(c) \/ IndexRow(c) \/ EnqueueIdx(c) \/ InsertFail(c)
         \/ (WriteBack(c) \/ BuildDone(c)) /\ pending[c] = <<>> /\ pc[c] \in {"enqueue", "build"}
         \/ ScanRows(c) \/ BuildEntry(c)
<1>1. ASSUME NEW t \in Tables, CreateTable(c, t) \/ Collect(c, t) \/ Insert(c, t) \/ CreateIndex(c, t)
      PROVE  FALSE
  BY <1>1 DEF CreateTable, Collect, Insert, CreateIndex, Idle, Building
<1>2. CASE StoreCatalog(c) \/ StoreCatalogFail(c) \/ EnqueueCatalog(c)
  BY <1>2 DEF StoreCatalog, StoreCatalogFail, EnqueueCatalog, Building
<1>3. CASE Begin(c) \/ Commit(c) \/ Rollback(c) \/ Update(c)
  BY <1>3 DEF Begin, Commit, Rollback, Update, Idle, Building
<1>4. CASE WriteBack(c) \/ BuildDone(c)
  BY <1>4 DEF WriteBack, BuildDone
<1>5. ASSUME NEW d \in Conns, d # c,
             \/ \E t \in Tables : CreateTable(d, t) \/ Collect(d, t) \/ Insert(d, t) \/ CreateIndex(d, t)
             \/ StoreCatalog(d) \/ StoreCatalogFail(d)
             \/ BuildRow(d) \/ IndexRow(d) \/ EnqueueIdx(d) \/ InsertFail(d) \/ WriteBack(d)
             \/ EnqueueCatalog(d)
             \/ Begin(d) \/ Commit(d) \/ Rollback(d) \/ Update(d)
             \/ ScanRows(d) \/ BuildEntry(d) \/ BuildDone(d)
      PROVE  Same(c)
  BY <1>5, OthersStay
<1>6. CASE Drain \/ Log \/ UNCHANGED vars
  BY <1>6, AllStay
<1> QED BY <1>1, <1>2, <1>3, <1>4, <1>5, <1>6, NextCases

\* An entry a connection holds is enqueued, given up with its row exempt, or still held.
LEMMA EntryMoves ==
  ASSUME TypeInv, NEW c \in Conns, NEW i \in DOMAIN pending[c], NEW e, e = pending[c][i],
         EnqueueIdx(c) \/ InsertFail(c) \/ BuildEntry(c)
  PROVE  \/ e \in issued' \/ e.key \in exempt'
         \/ /\ \E j \in DOMAIN pending'[c] : pending'[c][j] = e
            /\ pc'[c] = pc[c] /\ table'[c] = table[c]
<1>1. pending \in [Conns -> Seq(IdxEntries)] /\ pending[c] \in Seq(IdxEntries)
  BY DEF TypeInv, TypeOK, LocalType
<1>2. ASSUME pending[c] # <<>>, pending' = [pending EXCEPT ![c] = Tail(pending[c])],
             issued' = issued \cup {Head(pending[c])}, UNCHANGED <<pc, table>>
      PROVE  \/ e \in issued'
             \/ /\ \E j \in DOMAIN pending'[c] : pending'[c][j] = e
                /\ pc'[c] = pc[c] /\ table'[c] = table[c]
  <2>1. pending'[c] = Tail(pending[c])
    BY <1>1, <1>2
  <2>2. e = Head(pending[c]) \/ \E j \in DOMAIN Tail(pending[c]) : Tail(pending[c])[j] = e
    BY <1>1, <1>2, TailElements
  <2> QED BY <1>2, <2>1, <2>2
<1>3. CASE EnqueueIdx(c)
  BY <1>2, <1>3 DEF EnqueueIdx
<1>4. e.key \in PendingKeys(c)
  BY DEF PendingKeys
<1>5. CASE InsertFail(c)
  BY <1>4, <1>5 DEF InsertFail, PendingKeys
<1>6. CASE BuildEntry(c)
  <2>1. CASE exempt' = exempt \cup PendingKeys(c)
    BY <1>4, <2>1
  <2>2. CASE ~(exempt' = exempt \cup PendingKeys(c))
    BY <1>2, <1>6, <2>2, BuildEntryFacts
  <2> QED BY <2>1, <2>2
<1> QED BY <1>3, <1>5, <1>6
\* A row that stays covered, or whose entry is issued.
LEMMA CoverMoves ==
  ASSUME TypeInv, [Next]_vars, NEW c \in Conns, NEW t \in indices, NEW k \in Key \ exempt',
         rows'[k] = rows[k], rows[k].table = t, Covers(c, t, k)
  PROVE  Covers(c, t, k)' \/ IdxEntry(t, rows[k].val, k) \in issued'
<1>1. /\ pc \in [Conns -> {"idle", "create", "row", "index", "enqueue", "collect", "scan", "build"}]
      /\ pending \in [Conns -> Seq(IdxEntries)] /\ pending[c] \in Seq(IdxEntries)
  BY DEF TypeInv, TypeOK, LocalType
<1>2. PICK e : e = IdxEntry(t, rows[k].val, k)
  OBVIOUS
<1>3. e.key = k
  BY <1>2 DEF IdxEntry
<1>4. ASSUME table'[c] = t, pc'[c] \in Building \cup {"build"}, \E j \in DOMAIN pending'[c] : pending'[c][j] = e
      PROVE  Covers(c, t, k)'
  BY <1>2, <1>4 DEF Covers
<1>5. /\ table[c] = t /\ pc[c] \in {"scan", "index", "build"} \cup Building
      /\ pc[c] \notin {"scan", "index"} =>
           pc[c] \in Building \cup {"build"} /\ \E i \in DOMAIN pending[c] : pending[c][i] = e
  BY <1>2 DEF Covers, Building
<1>6. CASE Same(c)
  BY <1>6 DEF Same, Covers
<1>7. CASE BuildRow(c)
  <2>1. /\ pc[c] = "row" /\ UNCHANGED <<table, pending>>
        /\ pc' = [pc EXCEPT ![c] = "index"] \/ pc' = [pc EXCEPT ![c] = "enqueue"] \/ pc' = [pc EXCEPT ![c] = "row"]
    BY <1>7, BuildRowFacts
  <2>2. pc'[c] \in Building
    BY <1>1, <2>1 DEF Building
  <2> QED BY <1>4, <1>5, <2>1, <2>2
<1>8. CASE IndexRow(c)
  <2>1. pc[c] = "index" /\ pc'[c] \in Building /\ table' = table
    BY <1>1, <1>8 DEF IndexRow, NextRow, Goto, Building
  <2>2. PICK x : x = IdxEntry(table[c], Head(left[c]), key[c])
    OBVIOUS
  <2>3. pending'[c] = Append(pending[c], x)
    BY <1>1, <1>5, <1>8, <2>2 DEF IndexRow
  <2>4. x = e \/ \E i \in DOMAIN pending[c] : pending[c][i] = e
    BY <1>2, <2>1, <2>2 DEF Covers
  <2>5. PICK ps, qs : ps = pending[c] /\ qs = Append(ps, x)
    OBVIOUS
  <2>6. (\E i \in DOMAIN qs : qs[i] = x) /\ \A j \in DOMAIN ps : j \in DOMAIN qs /\ qs[j] = ps[j]
    BY <1>1, <2>5, AppendElements
  <2>7. \E j \in DOMAIN pending'[c] : pending'[c][j] = e
    BY <2>3, <2>4, <2>5, <2>6
  <2> QED BY <1>4, <1>5, <2>1, <2>7
<1>9. CASE EnqueueIdx(c) \/ InsertFail(c) \/ BuildEntry(c)
  <2>1. pc[c] \in {"enqueue", "build"}
    BY <1>9 DEF EnqueueIdx, InsertFail, BuildEntry
  <2>2. PICK i \in DOMAIN pending[c] : pending[c][i] = e
    BY <1>5, <2>1
  <2>3. \/ e \in issued' \/ e.key \in exempt'
        \/ /\ \E j \in DOMAIN pending'[c] : pending'[c][j] = e
           /\ pc'[c] = pc[c] /\ table'[c] = table[c]
    BY <1>9, <2>2, EntryMoves
  <2> QED BY <1>2, <1>3, <1>4, <1>5, <2>1, <2>3
<1>10. CASE pending[c] = <<>> /\ pc[c] \in {"enqueue", "build"}
  BY <1>5, <1>10
<1>11. CASE ScanRows(c)
  <2>1. t \in Tables
    BY DEF TypeInv, TypeOK, SharedType
  <2>2. PICK ks \in Scans(t) : pending' = [pending EXCEPT ![c] = EntriesOf(t, ks)]
    BY <1>5, <1>11 DEF ScanRows
  <2>3. PICK es : es = EntriesOf(t, ks)
    OBVIOUS
  <2>4. \E i \in DOMAIN es : es[i] = e
    BY <1>2, <2>1, <2>3, ScanFacts
  <2>5. pending'[c] = es /\ pc'[c] = "build" /\ table' = table
    BY <1>1, <1>11, <2>2, <2>3 DEF ScanRows, Goto
  <2> QED BY <1>4, <1>5, <2>4, <2>5
<1> QED BY <1>5, <1>6, <1>7, <1>8, <1>9, <1>10, <1>11, CoverSteps

\* The rows of a transaction are exempt.
LEMMA TxExemptStep ==
  ASSUME TypeInv, CoverInv, [Next]_vars, NEW c \in Conns, NEW r \in tx'[c].rows
  PROVE  r.key \in exempt'
<1>1. exempt \subseteq exempt' /\ \A d \in Conns : \A q \in tx[d].rows : q.key \in exempt
  BY IndexSteps DEF CoverInv
<1>2. tx \in [Conns -> [open : BOOLEAN, rows : SUBSET [key : Key, row : Row]]]
  BY DEF TypeInv, TypeOK, TxType
<1>3. CASE tx' = tx
  BY <1>1, <1>3
<1>4. ASSUME NEW d \in Conns, NEW b, tx' = [tx EXCEPT ![d] = [open |-> b, rows |-> {}]]
      PROVE  r.key \in exempt'
  BY <1>1, <1>2, <1>4
<1>5. ASSUME NEW d \in Conns, BuildRow(d) PROVE r.key \in exempt'
  <2>1. PICK k, row : k = key[d] + 1 /\ row = BuiltRow(d)
    OBVIOUS
  <2>2. tx' = tx \/ (tx' = [tx EXCEPT ![d].rows = @ \cup {[key |-> k, row |-> row]}] /\ exempt' = exempt \cup {k})
    BY <1>5, <2>1, BuildRowFacts
  <2>3. CASE tx' = [tx EXCEPT ![d].rows = @ \cup {[key |-> k, row |-> row]}] /\ exempt' = exempt \cup {k}
    <3>1. tx'[c].rows \subseteq tx[c].rows \cup {[key |-> k, row |-> row]}
      BY <1>2, <2>3
    <3>2. r \in tx[c].rows \/ r.key = k
      BY <3>1
    <3> QED BY <1>1, <2>3, <3>2
  <2> QED BY <1>3, <2>2, <2>3
<1>6. ASSUME NEW d \in Conns, Begin(d) \/ Commit(d) \/ Rollback(d) PROVE r.key \in exempt'
  BY <1>4, <1>6 DEF Begin, Commit, Rollback
<1>7. ASSUME NEW d \in Conns, NEW t \in Tables,
             CreateTable(d, t) \/ Collect(d, t) \/ Insert(d, t) \/ CreateIndex(d, t)
      PROVE  tx' = tx
  BY <1>7 DEF CreateTable, Collect, Insert, CreateIndex
<1>8. ASSUME NEW d \in Conns,
             \/ StoreCatalog(d) \/ StoreCatalogFail(d) \/ IndexRow(d) \/ EnqueueIdx(d)
             \/ InsertFail(d) \/ WriteBack(d) \/ EnqueueCatalog(d)
             \/ Update(d) \/ ScanRows(d) \/ BuildEntry(d) \/ BuildDone(d)
      PROVE  tx' = tx
  BY <1>8 DEF StoreCatalog, StoreCatalogFail, IndexRow, EnqueueIdx, InsertFail, WriteBack,
              EnqueueCatalog, Update, ScanRows, BuildEntry, BuildDone
<1>9. CASE Drain \/ Log \/ UNCHANGED vars
  BY <1>3, <1>9 DEF Drain, Log, vars
<1> QED BY <1>3, <1>5, <1>6, <1>7, <1>8, <1>9, NextCases

\* A row that is written and not exempt is about to be indexed by its INSERT.
LEMMA WrittenCovered ==
  ASSUME TypeInv, CoverInv, [Next]_vars, NEW k \in Key \ exempt', rows'[k] # rows[k]
  PROVE  \E c \in Conns : Covers(c, rows[k].table, k)'
<1>1. rows \in [Key -> {NoRow} \cup Row] /\ exempt \subseteq exempt'
  BY IndexSteps DEF TypeInv, TypeOK, SharedType
<1>2. ASSUME NEW c \in Conns, BuildRow(c) PROVE Covers(c, rows[k].table, k)'
  <2>1. PICK n : n = key[c] + 1
    OBVIOUS
  <2>2. /\ rows' = [rows EXCEPT ![n] = BuiltRow(c)] /\ pc' = [pc EXCEPT ![c] = "index"] /\ left' = left
        /\ key' = [key EXCEPT ![c] = n] /\ table' = table
    BY <1>2, <2>1, BuildRowFacts
  <2>3. k = n /\ rows'[k] = BuiltRow(c)
    BY <1>1, <2>2
  <2>4. pc'[c] = "index" /\ key'[c] = k
    BY <2>2, <2>3 DEF TypeInv, TypeOK, LocalType
  <2>5. rows'[k].table = table[c] /\ rows'[k].val = Head(left[c])
    BY <2>3 DEF BuiltRow
  <2> QED BY <2>2, <2>4, <2>5 DEF Covers
<1>3. ASSUME NEW c \in Conns, Commit(c) PROVE FALSE
  <2>1. \E r \in tx[c].rows : r.key = k
    BY <1>3, CommitFacts
  <2> QED BY <1>1, <2>1 DEF CoverInv
<1>4. ASSUME NEW c \in Conns, Update(c) PROVE FALSE
  <2>1. PICK j \in Key, v \in Values : rows' = [rows EXCEPT ![j].val = v] /\ exempt' = exempt \cup {j}
    BY <1>4, UpdateFacts
  <2> QED BY <1>1, <2>1
<1> QED BY <1>2, <1>3, <1>4, RowSteps

\* Every step keeps the cover.
LEMMA CoverStep == TypeInv /\ CoverInv /\ [Next]_vars => CoverInv'
<1> SUFFICES ASSUME TypeInv, CoverInv, [Next]_vars PROVE CoverInv'
  OBVIOUS
<1>1. \A c \in Conns : \A r \in tx'[c].rows : r.key \in exempt'
  BY TxExemptStep
<1>2. exempt \subseteq exempt' /\ issued \subseteq issued'
  BY IndexSteps
<1>3. ASSUME NEW t \in indices', NEW k \in Key \ exempt', rows'[k].table = t PROVE Covered(t, k)'
  <2>1. CASE rows'[k] # rows[k]
    <3>1. PICK c \in Conns : Covers(c, rows[k].table, k)'
      BY <2>1, WrittenCovered
    <3> QED BY <1>3, <3>1 DEF Covered, Covers
  <2>2. CASE rows'[k] = rows[k] /\ t \notin indices
    <3>1. PICK c \in Conns, x \in Tables : CreateIndex(c, x) /\ indices' = indices \cup {x}
      BY <2>2, IndexSteps
    <3>2. x = t
      BY <2>2, <3>1
    <3>3. table'[c] = t /\ pc'[c] = "scan"
      BY <3>1, <3>2 DEF CreateIndex, Goto, TypeInv, TypeOK, LocalType
    <3> QED BY <3>3 DEF Covered, Covers
  <2>3. CASE rows'[k] = rows[k] /\ t \in indices
    <3>1. Covered(t, k) /\ rows[k].table = t
      BY <1>2, <1>3, <2>3 DEF CoverInv
    <3>2. CASE IdxEntry(t, rows[k].val, k) \in issued
      BY <1>2, <2>3, <3>2 DEF Covered
    <3>3. ASSUME NEW c \in Conns, Covers(c, t, k) PROVE Covered(t, k)'
      <4>1. Covers(c, t, k)' \/ IdxEntry(t, rows[k].val, k) \in issued'
        BY <2>3, <3>1, <3>3, CoverMoves
      <4> QED BY <2>3, <4>1 DEF Covered
    <3> QED BY <3>1, <3>2, <3>3 DEF Covered
  <2> QED BY <2>1, <2>2, <2>3
<1> QED BY <1>1, <1>3 DEF CoverInv

\* No row falls between CREATE INDEX and INSERT: once the statements on its table are done, a row
\* of an indexed table has an index entry, if it was not inserted in a transaction, updated or
\* refused at a full queue.
THEOREM IndexCoversAlways == Spec => []IndexCovers
<1>1. Init => TypeInv
  BY InitTypes
<1>2. TypeInv /\ [Next]_vars => TypeInv'
  BY TypeStep
<1>3. Init => CoverInv
  BY DEF Init, CoverInv
<1>4. TypeInv /\ CoverInv /\ [Next]_vars => CoverInv'
  BY CoverStep
<1>5. CoverInv => IndexCovers
  BY DEF CoverInv, Covered, Covers, IndexCovers, Idle, Building
<1> QED BY <1>1, <1>2, <1>3, <1>4, <1>5, PTL DEF Spec
=============================================================================
