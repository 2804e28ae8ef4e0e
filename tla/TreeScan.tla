------------------------------ MODULE TreeScan ------------------------------
(***************************************************************************)
(* A table scan running while the drain thread inserts: the second half of *)
(* scan_table_with_filter (src/parser/engine.rs), which goes down to the   *)
(* first leaf and then follows next_leaf, one page read at a time, without *)
(* any lock on the tree.  Rows are the keys the scan meets.                *)
(***************************************************************************)
EXTENDS BPlusTree

VARIABLES
  at,      \* where the scan is: "idle", "descend", "leaf", "done" or "panicked"
  current, \* current_page_id
  seen,    \* processed_keys
  due,     \* keys stored before the scan began
  strayed  \* whether the leaf loop read an internal node

scanVars == <<at, current, seen, due, strayed>>

ScanTypeOK ==
  /\ at \in {"idle", "descend", "leaf", "done", "panicked"}
  /\ current \in DOMAIN pages
  /\ seen \subseteq Keys /\ due \subseteq Keys
  /\ strayed \in BOOLEAN

ScanInit == at = "idle" /\ current = Root /\ seen = {} /\ due = {} /\ strayed = FALSE

\* A scan begins; one is enough.
BeginScan ==
  /\ at = "idle"
  /\ at' = "descend"
  /\ current' = Root
  /\ due' = Present
  /\ UNCHANGED <<seen, strayed>>

\* Faulty variant of Descend: it takes the first child for a leaf.
DescendOnce ==
  /\ at = "descend"
  /\ at' = "leaf"
  /\ current' = IF pages[current].leaf THEN current ELSE pages[current].children[1]
  /\ UNCHANGED <<seen, due, strayed>>

\* Read a page on the way down: a leaf, or a node without children, ends the descent.
Descend ==
  /\ at = "descend"
  /\ LET node == pages[current] IN
       IF node.leaf \/ node.children = <<>>
       THEN at' = "leaf" /\ UNCHANGED current
       ELSE current' = node.children[1] /\ UNCHANGED at
  /\ UNCHANGED <<seen, due, strayed>>

\* Faulty variant of ReadLeaf: the end of the chain is not noticed.
ReadLeafOn ==
  /\ at = "leaf"
  /\ pages[current].leaf
  /\ seen' = seen \cup Range(pages[current].keys)
  /\ current' = pages[current].next
  /\ UNCHANGED <<at, due, strayed>>

\* Read the page again and take its keys, then go to next_leaf.
ReadLeaf ==
  /\ at = "leaf"
  /\ pages[current].leaf
  /\ seen' = seen \cup Range(pages[current].keys)
  /\ IF pages[current].next \in {NoPage, current}
     THEN at' = "done" /\ UNCHANGED current
     ELSE current' = pages[current].next /\ UNCHANGED at
  /\ UNCHANGED <<due, strayed>>

\* The page is an internal node by now.  A separator of the scanned table indexes the
\* empty values and panics; one of another table is passed over, and there is no next leaf.
ReadInternal ==
  /\ at = "leaf"
  /\ ~pages[current].leaf
  /\ at' \in {"done"} \cup (IF pages[current].keys = <<>> THEN {} ELSE {"panicked"})
  /\ strayed' = TRUE
  /\ UNCHANGED <<current, seen, due>>

ScanStep == BeginScan \/ Descend \/ ReadLeaf \/ ReadInternal

TreeScanInit == Init /\ ScanInit
TreeScanNext ==
  \/ Next /\ UNCHANGED scanVars
  \/ ScanStep /\ UNCHANGED vars

TreeScanSpec == TreeScanInit /\ [][TreeScanNext]_<<vars, scanVars>>
-----------------------------------------------------------------------------
(* A scan returns every row stored before it began, however many splits    *)
(* happen while it runs, unless it read an internal node for a leaf        *)
(* (engine.rs scan_table_with_filter against btree.rs split_child).        *)
ScanReturnsAll == at = "done" /\ ~strayed => due \subseteq seen

(* The only page that changes from leaf to internal is the root: a scan    *)
(* that has left it never strays (engine.rs scan_table_with_filter).       *)
StraysOnlyAtRoot == strayed => current = Root

=============================================================================
