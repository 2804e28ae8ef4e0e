----------------------------- MODULE BPlusTree -----------------------------
(***************************************************************************)
(* The B+Tree of KS SQL (src/storage/btree.rs): insert with its root       *)
(* growth, child splits and page allocation, as a sequence of single page  *)
(* reads and page writes.  Nothing locks the tree: a reader may look at it *)
(* between any two of those steps, a second writer (CREATE TABLE inserts   *)
(* the schemas while the drain thread inserts records) may interleave with *)
(* them, and an insert that fails stops where it is.                       *)
(*                                                                         *)
(* Keys are numbers, a value is a write number with a weight.  Serialised  *)
(* bytes are abstracted to Size; positions count from 1.                   *)
(***************************************************************************)
EXTENDS Integers, FiniteSets, SequencesExt

CONSTANTS
  Writers,     \* tasks that insert
  Keys,        \* bound: the keys inserted
  Weights,     \* bound: sizes of the values inserted
  FullSize,    \* 3/4 of a page: a larger node is full
  PageSize,    \* a node larger than this cannot be saved
  MayFail,     \* whether a page read or write or the WAL queue may fail
  MaxInserts   \* bound: calls of insert

\* A root with two children is not full.
ASSUME SizeAssumption == FullSize \in Nat /\ PageSize \in Nat /\ 3 <= FullSize /\ FullSize < PageSize
ASSUME KeyAssumption == Keys \subseteq Int /\ Weights \subseteq Nat \ {0}
ASSUME InsertAssumption == MaxInserts \in Nat /\ MayFail \in BOOLEAN

Root == 0      \* root_page_id
NoPage == -1   \* next_leaf = None
PageId == Nat
Value == [n : Nat \ {0}, w : Weights]

Node == [leaf : BOOLEAN, keys : Seq(Keys), children : Seq(PageId), values : Seq(Value),
         next : PageId \cup {NoPage}]

new_leaf == [leaf |-> TRUE, keys |-> <<>>, children |-> <<>>, values |-> <<>>, next |-> NoPage]
new_internal == [new_leaf EXCEPT !.leaf = FALSE]

\* A page of zeros, which from_bytes reads as an internal node without children.
Blank == new_internal

Weight(values) ==
  LET sum[i \in 0..Len(values)] == IF i = 0 THEN 0 ELSE sum[i - 1] + values[i].w
  IN sum[Len(values)]
Size(node) == Len(node.keys) + Len(node.children) + Weight(node.values)
\* Faulty variant of is_full: a node counts as full only when it no longer fits.
is_full_late(node) == Size(node) > PageSize

is_full(node) == Size(node) > FullSize
Fits(node) == Size(node) <= PageSize

\* Where binary_search may point in a sequence of keys: any equal key, or else the gap.
Matches(keys, k) == {i \in DOMAIN keys : keys[i] = k}
Gap(keys, k) == Cardinality({i \in DOMAIN keys : keys[i] < k}) + 1

\* Faulty variant of ChildIndexes: an equal key is looked for on its left.
ChildIndexesLeft(node, k) ==
  IF Matches(node.keys, k) = {} THEN {Gap(node.keys, k)} ELSE Matches(node.keys, k)

\* The children the search for k may descend to: right of an equal key, clamped to the last.
ChildIndexes(node, k) ==
  LET found == {i + 1 : i \in Matches(node.keys, k)}
  IN {IF i > Len(node.children) THEN Len(node.children) ELSE i :
        i \in IF found = {} THEN {Gap(node.keys, k)} ELSE found}

\* The leaf with k set to v, in the place of an equal key or in the gap.
LeafWith(node, k, v) ==
  IF Matches(node.keys, k) # {}
  THEN {[node EXCEPT !.values = ReplaceAt(@, i, v)] : i \in Matches(node.keys, k)}
  ELSE {[node EXCEPT !.keys = InsertAt(@, Gap(node.keys, k), k),
                     !.values = InsertAt(@, Gap(node.keys, k), v)]}

VARIABLES
  pages,   \* the database file: pages[0], pages[1], ...
  pc, op,  \* per writer: program counter, the key and value it inserts
  growing, \* per writer: whether it is splitting the root
  path,    \* per writer: the nodes it holds, from the root down, as it read or changed them
  idx,     \* per writer: which child of the last node of its path it goes to
  page,    \* per writer: the page it allocated
  kid,     \* per writer: the node it copies or splits, without the half it gives away
  sib,     \* per writer: the half it gives away
  acked,   \* acked[k]: the last value an insert of k returned Ok for
  inserts, \* calls of insert so far
  errors   \* inserts that failed

vars == <<pages, pc, op, growing, path, idx, page, kid, sib, acked, inserts, errors>>

NoValue == [n |-> 0, w |-> 0]
NoOp == [key |-> 0, val |-> NoValue]
num_pages == Cardinality(DOMAIN pages)

Frame == [id : PageId, node : Node]

TypeOK ==
  /\ pages \in [0..num_pages - 1 -> Node]
  /\ \A p \in DOMAIN pages : Fits(pages[p])
  /\ pc \in [Writers -> {"idle", "start", "growAlloc", "growBlank", "growSave", "split", "splitAlloc",
                         "splitBlank", "saveNew", "saveChild", "saveRoot", "reread", "enter",
                         "visit", "unwind", "panicked"}]
  /\ op \in [Writers -> [key : Keys, val : Value] \cup {NoOp}]
  /\ growing \in [Writers -> BOOLEAN]
  /\ path \in [Writers -> Seq(Frame)]
  /\ idx \in [Writers -> Nat]
  /\ page \in [Writers -> PageId]
  /\ kid \in [Writers -> Node] /\ sib \in [Writers -> Node]
  /\ acked \in [Keys -> Value \cup {NoValue}]
  /\ inserts \in 0..MaxInserts /\ errors \in 0..MaxInserts

\* BPlusTree::open on an empty file: an empty leaf is the root.
Init ==
  /\ pages = [p \in {Root} |-> new_leaf]
  /\ pc = [w \in Writers |-> "idle"]
  /\ op = [w \in Writers |-> NoOp]
  /\ growing = [w \in Writers |-> FALSE]
  /\ path = [w \in Writers |-> <<>>]
  /\ idx = [w \in Writers |-> 0]
  /\ page = [w \in Writers |-> 0]
  /\ kid = [w \in Writers |-> Blank] /\ sib = [w \in Writers |-> Blank]
  /\ acked = [k \in Keys |-> NoValue]
  /\ inserts = 0 /\ errors = 0

-----------------------------------------------------------------------------
Goto(w, label) == pc' = [pc EXCEPT ![w] = label]

history == <<acked, inserts, errors>>
locals == <<op, growing, path, idx, page, kid, sib>>

\* The writer is done with its insert and forgets everything it held.
Return(w) ==
  /\ Goto(w, "idle")
  /\ op' = [op EXCEPT ![w] = NoOp]
  /\ growing' = [growing EXCEPT ![w] = FALSE]
  /\ path' = [path EXCEPT ![w] = <<>>]
  /\ idx' = [idx EXCEPT ![w] = 0]
  /\ page' = [page EXCEPT ![w] = 0]
  /\ kid' = [kid EXCEPT ![w] = Blank]
  /\ sib' = [sib EXCEPT ![w] = Blank]

\* Pager::write_page, which extends the file when the page is the next one.
WritePage(id, node) == pages' = [p \in DOMAIN pages \cup {id} |-> IF p = id THEN node ELSE pages[p]]

\* save_node succeeds: the node fits, its page update is on the queue and the page is written.
SaveNode(id, node) == Fits(node) /\ WritePage(id, node)

\* Call insert(k, v).
Insert(w, k, wt) ==
  /\ pc[w] = "idle"
  /\ inserts < MaxInserts
  /\ inserts' = inserts + 1
  /\ op' = [op EXCEPT ![w] = [key |-> k, val |-> [n |-> inserts + 1, w |-> wt]]]
  /\ Goto(w, "start")
  /\ UNCHANGED <<pages, growing, path, idx, page, kid, sib, acked, errors>>

\* Read the root; a full one is copied to a page of its own and split first.
ReadRoot(w) ==
  /\ pc[w] = "start"
  /\ LET root == pages[Root] IN
       IF is_full(root)
       THEN /\ kid' = [kid EXCEPT ![w] = root]
            /\ growing' = [growing EXCEPT ![w] = TRUE]
            /\ Goto(w, "growAlloc")
            /\ UNCHANGED path
       ELSE /\ path' = [path EXCEPT ![w] = <<[id |-> Root, node |-> root]>>]
            /\ Goto(w, "visit")
            /\ UNCHANGED <<kid, growing>>
  /\ UNCHANGED <<pages, op, idx, page, sib, history>>

\* Faulty variant of AllocatePage: page numbers count from one.
AllocateNextPage(w, now, then) ==
  /\ pc[w] = now
  /\ page' = [page EXCEPT ![w] = num_pages + 1]
  /\ Goto(w, then)
  /\ UNCHANGED <<pages, op, growing, path, idx, kid, sib, history>>

\* allocate_page reads the number of pages...
AllocatePage(w, now, then) ==
  /\ pc[w] = now
  /\ page' = [page EXCEPT ![w] = num_pages]
  /\ Goto(w, then)
  /\ UNCHANGED <<pages, op, growing, path, idx, kid, sib, history>>

\* ... and later writes zeros there.
BlankPage(w, now, then) ==
  /\ pc[w] = now
  /\ WritePage(page[w], Blank)
  /\ Goto(w, then)
  /\ UNCHANGED <<locals, history>>

\* The old root is saved in the allocated page; it is the only child of the new root.
GrowSave(w) ==
  /\ pc[w] = "growSave"
  /\ SaveNode(page[w], kid[w])
  /\ path' = [path EXCEPT ![w] = <<[id |-> Root, node |-> [new_internal EXCEPT !.children = <<page[w]>>]]>>]
  /\ idx' = [idx EXCEPT ![w] = 1]
  /\ Goto(w, "split")
  /\ UNCHANGED <<op, growing, page, kid, sib, history>>

Top(w) == Last(path[w]).node
ChildPage(w) == Top(w).children[idx[w]]

\* The two halves of a node that split_child splits, and the key between them.
Middle(node) == Len(node.keys) \div 2 + 1
LeftHalf(node) ==
  IF node.leaf
  THEN [node EXCEPT !.keys = SubSeq(@, 1, Middle(node) - 1),
                    !.values = SubSeq(@, 1, Middle(node) - 1)]
  ELSE [node EXCEPT !.keys = SubSeq(@, 1, Middle(node) - 1),
                    !.children = SubSeq(@, 1, Middle(node))]
\* Faulty variant of RightHalf: the separator stays in an internal node as well.
RightHalfKeeping(node) ==
  IF node.leaf
  THEN [node EXCEPT !.keys = SubSeq(@, Middle(node), Len(@)),
                    !.values = SubSeq(@, Middle(node), Len(@))]
  ELSE [node EXCEPT !.keys = SubSeq(@, Middle(node), Len(@)),
                    !.children = SubSeq(@, Middle(node) + 1, Len(@))]

RightHalf(node) ==
  IF node.leaf
  THEN [node EXCEPT !.keys = SubSeq(@, Middle(node), Len(@)),
                    !.values = SubSeq(@, Middle(node), Len(@))]
  ELSE [node EXCEPT !.keys = SubSeq(@, Middle(node) + 1, Len(@)),
                    !.children = SubSeq(@, Middle(node) + 1, Len(@)),
                    !.next = NoPage]

\* split_child reads the child again and takes it apart; keys[mid] of an empty node panics.
SplitRead(w) ==
  /\ pc[w] = "split"
  /\ LET child == pages[ChildPage(w)] IN
       IF child.keys = <<>>
       THEN Goto(w, "panicked") /\ UNCHANGED <<path, kid, sib>>
       ELSE /\ kid' = [kid EXCEPT ![w] = LeftHalf(child)]
            /\ sib' = [sib EXCEPT ![w] = RightHalf(child)]
            /\ path' = [path EXCEPT ![w][Len(path[w])].node.keys =
                                       InsertAt(@, idx[w], child.keys[Middle(child)])]
            /\ Goto(w, "splitAlloc")
  /\ UNCHANGED <<pages, op, growing, idx, page, history>>

\* Faulty variant of SaveNew: the old leaf is not linked to the new one.
SaveNewUnlinked(w) ==
  /\ pc[w] = "saveNew"
  /\ SaveNode(page[w], sib[w])
  /\ path' = [path EXCEPT ![w][Len(path[w])].node.children = InsertAt(@, idx[w] + 1, page[w])]
  /\ Goto(w, "saveChild")
  /\ UNCHANGED <<op, growing, idx, page, kid, sib, history>>

\* Faulty variant of SaveNew: the new node is never saved.
SaveNewForgotten(w) ==
  /\ pc[w] = "saveNew"
  /\ path' = [path EXCEPT ![w][Len(path[w])].node.children = InsertAt(@, idx[w] + 1, page[w])]
  /\ kid' = [kid EXCEPT ![w].next = IF kid[w].leaf THEN page[w] ELSE @]
  /\ Goto(w, "saveChild")
  /\ UNCHANGED <<pages, op, growing, idx, page, sib, history>>

\* The new node is saved, and the parent in memory learns of it.
SaveNew(w) ==
  /\ pc[w] = "saveNew"
  /\ SaveNode(page[w], sib[w])
  /\ path' = [path EXCEPT ![w][Len(path[w])].node.children = InsertAt(@, idx[w] + 1, page[w])]
  /\ kid' = [kid EXCEPT ![w].next = IF kid[w].leaf THEN page[w] ELSE @]
  /\ Goto(w, "saveChild")
  /\ UNCHANGED <<op, growing, idx, page, sib, history>>

\* The child is saved without its right half: from here on until the parent is saved a
\* search does not find the keys of that half.  A growing tree saves the new root next.
SaveChild(w) ==
  /\ pc[w] = "saveChild"
  /\ SaveNode(ChildPage(w), kid[w])
  /\ Goto(w, IF growing[w] THEN "saveRoot" ELSE "enter")
  /\ UNCHANGED <<locals, history>>

\* The new root replaces the old one...
SaveRoot(w) ==
  /\ pc[w] = "saveRoot"
  /\ SaveNode(Root, Top(w))
  /\ growing' = [growing EXCEPT ![w] = FALSE]
  /\ Goto(w, "reread")
  /\ UNCHANGED <<op, path, idx, page, kid, sib, history>>

\* ... and is read again for the insert proper.
RereadRoot(w) ==
  /\ pc[w] = "reread"
  /\ path' = [path EXCEPT ![w] = <<[id |-> Root, node |-> pages[Root]]>>]
  /\ Goto(w, "visit")
  /\ UNCHANGED <<pages, op, growing, idx, page, kid, sib, history>>

\* insert_non_full at a leaf: set the key in memory.
VisitLeaf(w) ==
  /\ pc[w] = "visit" /\ Top(w).leaf
  /\ \E node \in LeafWith(Top(w), op[w].key, op[w].val) :
       path' = [path EXCEPT ![w][Len(path[w])].node = node]
  /\ Goto(w, "unwind")
  /\ UNCHANGED <<pages, op, growing, idx, page, kid, sib, history>>

\* insert_non_full at an internal node: read the child, and split it when it is full.
\* children.len() - 1 of a node without children panics.
VisitInternal(w) ==
  /\ pc[w] = "visit" /\ ~Top(w).leaf
  /\ IF Top(w).children = <<>>
     THEN Goto(w, "panicked") /\ UNCHANGED <<path, idx>>
     ELSE \E i \in ChildIndexes(Top(w), op[w].key) :
            LET id == Top(w).children[i] IN
            /\ idx' = [idx EXCEPT ![w] = i]
            /\ IF is_full(pages[id])
               THEN Goto(w, "split") /\ UNCHANGED path
               ELSE path' = [path EXCEPT ![w] = Append(@, [id |-> id, node |-> pages[id]])] /\ UNCHANGED pc
  /\ UNCHANGED <<pages, op, growing, page, kid, sib, history>>

\* After the split the key goes right only when it is greater than the separator.
HalfFor(w) == IF op[w].key > Top(w).keys[idx[w]] THEN idx[w] + 1 ELSE idx[w]

Enter(w) ==
  /\ pc[w] = "enter"
  /\ LET id == Top(w).children[HalfFor(w)] IN
       path' = [path EXCEPT ![w] = Append(@, [id |-> id, node |-> pages[id]])]
  /\ Goto(w, "visit")
  /\ UNCHANGED <<pages, op, growing, idx, page, kid, sib, history>>

\* The recursion returns through a parent of the leaf: every node of the path is saved.
Unwind(w) ==
  /\ pc[w] = "unwind" /\ Len(path[w]) > 1
  /\ SaveNode(Last(path[w]).id, Top(w))
  /\ path' = [path EXCEPT ![w] = Front(@)]
  /\ UNCHANGED <<pc, op, growing, idx, page, kid, sib, history>>

\* The root is saved last, the file is synced and the insert returns Ok.
Finish(w) ==
  /\ pc[w] = "unwind" /\ Len(path[w]) = 1
  /\ SaveNode(Root, Top(w))
  /\ acked' = [acked EXCEPT ![op[w].key] = op[w].val]
  /\ Return(w)
  /\ UNCHANGED <<inserts, errors>>

\* The root is saved, but syncing the file fails and so does the insert.
SyncFail(w) ==
  /\ MayFail
  /\ pc[w] = "unwind" /\ Len(path[w]) = 1
  /\ SaveNode(Root, Top(w))
  /\ errors' = errors + 1
  /\ Return(w)
  /\ UNCHANGED <<acked, inserts>>

\* What the writer is about to save, if anything.
Saving(w) ==
  CASE pc[w] = "growSave" -> {kid[w]} [] pc[w] = "saveNew" -> {sib[w]} [] pc[w] = "saveChild" -> {kid[w]}
    [] pc[w] \in {"saveRoot", "unwind"} -> {Top(w)} [] OTHER -> {}

\* The insert returns an error: "Node too large for page size", a saturated WAL queue or a
\* failed page read or write.  What was saved before stays saved.
Fail(w) ==
  /\ pc[w] \notin {"idle", "panicked"}
  /\ MayFail \/ \E node \in Saving(w) : ~Fits(node)
  /\ errors' = errors + 1
  /\ Return(w)
  /\ UNCHANGED <<pages, acked, inserts>>

Step(w) ==
  \/ \E k \in Keys, wt \in Weights : Insert(w, k, wt)
  \/ ReadRoot(w) \/ AllocatePage(w, "growAlloc", "growBlank") \/ BlankPage(w, "growBlank", "growSave")
  \/ GrowSave(w) \/ SplitRead(w)
  \/ AllocatePage(w, "splitAlloc", "splitBlank") \/ BlankPage(w, "splitBlank", "saveNew")
  \/ SaveNew(w) \/ SaveChild(w) \/ SaveRoot(w) \/ RereadRoot(w)
  \/ VisitLeaf(w) \/ VisitInternal(w) \/ Enter(w) \/ Unwind(w) \/ Finish(w) \/ SyncFail(w) \/ Fail(w)

Next == \E w \in Writers : Step(w)

Spec == Init /\ [][Next]_vars
-----------------------------------------------------------------------------
(* What readers make of the pages.                                         *)

\* f applied n times to x.
Iterate(f, x, n) ==
  LET it[i \in 0..n] == IF i = 0 THEN x ELSE f[it[i - 1]] IN it[n]

\* get(k) after a miss in the memory tier: the pages where the search may end.  No path is
\* longer than the number of pages.
SearchEnd(k) ==
  Iterate([S \in SUBSET DOMAIN pages |->
             UNION {LET node == pages[p] IN
                    IF node.leaf \/ node.children = <<>> THEN {p}
                    ELSE {node.children[i] : i \in ChildIndexes(node, k)} : p \in S}],
          {Root}, num_pages)

\* The values the search may return.  NoValue stands for None; so it does for the panic at a
\* node without children.
Lookup(k) ==
  UNION {LET node == pages[p] IN
         IF ~node.leaf \/ Matches(node.keys, k) = {} THEN {NoValue}
         ELSE {node.values[i] : i \in Matches(node.keys, k)} : p \in SearchEnd(k)}

\* The leaf at which scan_table_with_filter starts.
FirstLeaf ==
  Iterate([p \in DOMAIN pages |-> LET node == pages[p] IN
             IF node.leaf \/ node.children = <<>> THEN p ELSE node.children[1]],
          Root, num_pages)

\* The pages the scan visits from there.
Chain ==
  Iterate([S \in SUBSET DOMAIN pages |-> S \cup ({pages[p].next : p \in S} \ {NoPage})],
          {FirstLeaf}, num_pages)

\* The keys a scan meets.
Scanned == UNION {Range(pages[p].keys) : p \in {q \in Chain : pages[q].leaf}}
-----------------------------------------------------------------------------
(* Properties.                                                             *)

Present == {k \in Keys : acked[k] # NoValue}
Quiet == \A w \in Writers : pc[w] = "idle"

\* The children of a set of pages; the pages n levels below the root; the pages of a subtree.
Children(S) == UNION {Range(pages[p].children) : p \in S}
Level(n) == Iterate([S \in SUBSET DOMAIN pages |-> Children(S)], {Root}, n)
Subtree(p) == Iterate([S \in SUBSET DOMAIN pages |-> S \cup Children(S)], {p}, num_pages)
Reachable == Subtree(Root)
KeysBelow(p) == UNION {Range(pages[q].keys) : q \in {r \in Subtree(p) : pages[r].leaf}}

(* A key whose insert returned Ok is on the leaf chain in every state: a   *)
(* split saves the new leaf before it cuts the old one and links the two,  *)
(* so a scan between two writes of a split, or after an insert that failed *)
(* half way, still meets every row (btree.rs split_child, insert).         *)
ScanComplete == Present \subseteq Scanned

(* The pages the tree points to never include one that was allocated but   *)
(* not yet filled, and so no insert or search steps on a node without      *)
(* children (btree.rs allocate_page, split_child).                         *)
NoBlankReached ==
  /\ \A p \in Reachable : pages[p] # Blank
  /\ \A w \in Writers : pc[w] # "panicked"

\* No entry in the tree or on its way there is larger than this.
EntriesWithin(size) ==
  /\ \A p \in DOMAIN pages : \A i \in DOMAIN pages[p].values : pages[p].values[i].w + 1 <= size
  /\ \A w \in Writers : op[w].val.w + 1 <= size

\* No entry alone makes its leaf full.
SmallEntries == \A wt \in Weights : wt + 1 <= FullSize

(* Between inserts a search finds every key whose insert returned Ok, when *)
(* no insert failed and no entry alone makes its leaf full (btree.rs get   *)
(* against insert_non_full).                                               *)
SearchComplete ==
  Quiet /\ errors = 0 /\ SmallEntries => \A k \in Present : NoValue \notin Lookup(k)

(* Between inserts every leaf is at the same depth, keys ascend in every   *)
(* node, and the keys below a child lie between the separators around it,  *)
(* also when inserts have failed half way (btree.rs split_child).          *)
Ordered ==
  Quiet =>
    /\ \A n \in 0..num_pages : \A p, q \in Level(n) : pages[p].leaf = pages[q].leaf
    /\ \A p \in Reachable : LET node == pages[p] IN
         /\ \A i, j \in DOMAIN node.keys : i < j => node.keys[i] <= node.keys[j]
         /\ node.leaf \/ Len(node.children) = Len(node.keys) + 1
         /\ ~node.leaf => \A i \in DOMAIN node.keys :
              /\ \A k \in KeysBelow(node.children[i]) : k <= node.keys[i]
              /\ \A k \in KeysBelow(node.children[i + 1]) : k >= node.keys[i]

\* The last node of the path was not tested for room: split_child has just made it, and its
\* parent in memory is ahead of the page.
JustSplit(w) ==
  /\ Len(path[w]) > 1
  /\ LET parent == path[w][Len(path[w]) - 1] IN parent.node # pages[parent.id]

(* A node that was tested for room always fits its page again: splitting   *)
(* at three quarters leaves room for one more entry, at every level, as    *)
(* long as an entry takes no more than the remaining quarter.  The halves  *)
(* of a leaf are not tested, and one of them may be as good as full        *)
(* (btree.rs is_full, to_bytes, insert_non_full).                          *)
NoOverflow ==
  EntriesWithin(PageSize - FullSize) =>
    \A w \in Writers : \A node \in Saving(w) : Fits(node) \/ (node.leaf /\ JustSplit(w))

(* A search between inserts finds what the last insert of the key stored   *)
(* (btree.rs get after insert).  It does not hold: see the README.         *)
LatestFound == Quiet /\ errors = 0 => \A k \in Present : Lookup(k) = {acked[k]}

=============================================================================
