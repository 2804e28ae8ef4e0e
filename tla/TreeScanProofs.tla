--------------------------- MODULE TreeScanProofs ---------------------------
(*****************************************************************************)
(* Rows are not lost, with one writer: what a scan finds while the drain     *)
(* thread inserts, splits and fails.                                         *)
(*                                                                           *)
(* The argument keeps two sequences of pages for the file f: the chain C     *)
(* of the leaves and the left edge L from the root to the first leaf.  A     *)
(* writer changes the tree with single page writes; each is one of a few     *)
(* kinds (Tree... lemmas), keeps both sequences or makes them longer, and    *)
(* leaves ahead of every leaf the keys that lay ahead of it (Later).  Intact *)
(* says per program counter what the writer holds in memory and what it has  *)
(* prepared beside the tree; a scan then only needs its own position (Spot). *)
(*                                                                           *)
(* CREATE TABLE is a second writer; with two, rows are lost and there is     *)
(* nothing to prove: hence the hypothesis Writers = {w}.                     *)
(*****************************************************************************)
EXTENDS TreeScan, TreeProofs

-----------------------------------------------------------------------------
(* The tree and the page writes that keep it.                              *)

\* C lists the leaves from the first to the last, as next_leaf links them: no page twice.
ChainOK(f, C) ==
  /\ C \in Seq(DOMAIN f) /\ C # <<>>
  /\ \A x, y \in DOMAIN C : C[x] = C[y] => x = y
  /\ \A x \in DOMAIN C : f[C[x]].leaf /\ f[C[x]].next = IF x = Len(C) THEN NoPage ELSE C[x + 1]

\* L lists the pages on the way down from the root to the first leaf.
LeftOK(f, L) ==
  /\ L \in Seq(DOMAIN f) /\ L # <<>> /\ L[1] = Root
  /\ \A x \in DOMAIN L : x # Len(L) =>
       ~f[L[x]].leaf /\ f[L[x]].children # <<>> /\ f[L[x]].children[1] = L[x + 1]
  /\ f[L[Len(L)]].leaf

\* The way down ends where the chain begins; a root that is a leaf is both.
JoinOK(f, C, L) ==
  /\ L[Len(L)] = C[1] /\ f[Root] # Blank
  /\ f[Root].leaf => Len(C) = 1 /\ C[1] = Root /\ Len(L) = 1

\* A page that a parent may point to: filled, not the root, and on the chain when it is a leaf.
Safe(f, C, c) == c \in DOMAIN f /\ f[c] # Blank /\ c # Root /\ (f[c].leaf => c \in Range(C))

\* All children of a node are such pages.
SafeNode(node, f, C) == \A x \in DOMAIN node.children : Safe(f, C, node.children[x])

\* The pages f form a tree with the chain C and the left edge L.
Tree(f, C, L) ==
  /\ ChainOK(f, C) /\ LeftOK(f, L) /\ JoinOK(f, C, L)
  /\ \A p \in DOMAIN f : SafeNode(f[p], f, C)

\* What TypeInv says of the pages, for pages f of number n.
Filed(f, n) ==
  /\ n \in Nat /\ DOMAIN f = 0..n - 1 /\ Root \in DOMAIN f
  /\ \A p \in DOMAIN f : Sound(f[p], DOMAIN f)

\* g is f after node was written to page id.
Wrote(f, id, node, g) ==
  DOMAIN g = DOMAIN f \cup {id} /\ g[id] = node /\ \A p \in DOMAIN f : p # id => g[p] = f[p]

\* The keys on the chain.
ChainKeys(f, C) == UNION {Range(f[C[x]].keys) : x \in DOMAIN C}

\* An internal node with children stays one and keeps its first child.
FirstKept(f, g) ==
  \A p \in DOMAIN f : ~f[p].leaf /\ f[p].children # <<>> =>
    p \in DOMAIN g /\ ~g[p].leaf /\ g[p].children # <<>> /\ g[p].children[1] = f[p].children[1]

\* What a writer holds in memory stays true of the pages: g with the chain B is what became of f
\* with the chain C.
Evolved(f, C, g, B) == FirstKept(f, g) /\ \A c : Safe(f, C, c) => Safe(g, B, c)

\* The ends of a sequence.
LEMMA SeqEnds ==
  ASSUME NEW S, NEW s \in Seq(S), s # <<>>
  PROVE  /\ Len(s) \in Nat \ {0} /\ DOMAIN s = 1..Len(s) /\ 1 \in DOMAIN s /\ Len(s) \in DOMAIN s
         /\ s[1] \in S /\ s[Len(s)] \in S /\ \A x \in DOMAIN s : s[x] \in S
  OBVIOUS

\* The keys on the chain from its x-th leaf on.
From(f, C, x) == UNION {Range(f[C[z]].keys) : z \in x..Len(C)}

\* What a reader half way relies on: the way down is not cut, the root does not become a leaf
\* again, and from every leaf of the chain as many keys lie ahead as before, unless it was the
\* root and has become internal.
Later(f, C, L, g, B, M) ==
  /\ Range(L) \subseteq Range(M) /\ (~f[Root].leaf => ~g[Root].leaf)
  /\ \A x \in DOMAIN C : \/ C[x] = Root /\ ~g[Root].leaf
                         \/ \E y \in DOMAIN B : B[y] = C[x] /\ From(f, C, x) \subseteq From(g, B, y)

\* Nothing is lost for a reader when chain and left edge stay and no leaf loses a key.
LEMMA LaterSame ==
  ASSUME NEW f, NEW C, NEW L, Tree(f, C, L), NEW g, Tree(g, C, L),
         \A x \in DOMAIN C : Range(f[C[x]].keys) \subseteq Range(g[C[x]].keys)
  PROVE  Later(f, C, L, g, C, L)
  <1>1. ~f[Root].leaf => ~g[Root].leaf
    <2>1. L # <<>> /\ L[1] = Root /\ 1 \in DOMAIN L
      BY SeqEnds DEF Tree, LeftOK
    <2>2. CASE Len(L) = 1
      BY <2>1, <2>2 DEF Tree, LeftOK
    <2>3. CASE Len(L) # 1
      BY <2>1, <2>3 DEF Tree, LeftOK
    <2>4. QED BY <2>2, <2>3
  <1>2. ASSUME NEW x \in DOMAIN C PROVE From(f, C, x) \subseteq From(g, C, x)
    <2>1. PICK n \in Nat : n = Len(C) /\ DOMAIN C = 1..n
      BY SeqEnds DEF Tree, ChainOK
    <2>2. \A z \in x..n : z \in DOMAIN C
      BY <2>1
    <2>3. QED BY <2>1, <2>2 DEF From
  <1>3. QED BY <1>1, <1>2 DEF Later

\* A page is written that is not part of the tree: a new one, a page of zeros or a leaf off the
\* chain.
LEMMA TreeApart ==
  ASSUME NEW f, NEW C, NEW L, Tree(f, C, L), NEW id, NEW node, NEW g, Wrote(f, id, node, g),
         id \notin DOMAIN f \/ f[id] = Blank \/ (f[id].leaf /\ id \notin Range(C)),
         SafeNode(node, f, C)
  PROVE  Tree(g, C, L) /\ Evolved(f, C, g, C) /\ ChainKeys(g, C) = ChainKeys(f, C) /\ Later(f, C, L, g, C, L)
  <1>1. /\ C \in Seq(DOMAIN f) /\ C # <<>> /\ \A x \in DOMAIN C : f[C[x]].leaf
        /\ L \in Seq(DOMAIN f) /\ L # <<>> /\ L[1] = Root /\ L[Len(L)] = C[1]
    BY DEF Tree, ChainOK, LeftOK, JoinOK
  <1>2. \A x \in DOMAIN C : C[x] \in DOMAIN f /\ C[x] # id
    BY <1>1, SeqEnds, EmptyNodes DEF Range
  <1>3. \A x \in DOMAIN L : L[x] \in DOMAIN f /\ L[x] # id
    <2>1. ASSUME NEW x \in DOMAIN L, x # Len(L) PROVE L[x] # id
      BY <2>1, <1>1, SeqEnds, EmptyNodes DEF Tree, LeftOK
    <2>2. L[Len(L)] # id
      BY <1>1, <1>2, SeqEnds
    <2>3. QED BY <2>1, <2>2, <1>1, SeqEnds
  <1>4. Root # id /\ Root \in DOMAIN f
    BY <1>1, <1>3, SeqEnds
  <1>5. ASSUME NEW c, Safe(f, C, c) PROVE Safe(g, C, c)
    <2>1. c # id /\ c \in DOMAIN f
      BY <1>5 DEF Safe
    <2>2. QED BY <2>1, <1>5 DEF Safe, Wrote
  <1>6. ChainOK(g, C)
    <2>1. C \in Seq(DOMAIN g)
      BY <1>1, <1>2 DEF Wrote
    <2>2. \A x \in DOMAIN C : g[C[x]] = f[C[x]]
      BY <1>2 DEF Wrote
    <2>3. QED BY <2>1, <2>2 DEF Tree, ChainOK
  <1>7. LeftOK(g, L)
    <2>1. L \in Seq(DOMAIN g)
      BY <1>1, <1>3 DEF Wrote
    <2>2. \A x \in DOMAIN L : g[L[x]] = f[L[x]]
      BY <1>3 DEF Wrote
    <2>3. Len(L) \in DOMAIN L
      BY <1>1, SeqEnds
    <2>4. QED BY <2>1, <2>2, <2>3 DEF Tree, LeftOK
  <1>8. JoinOK(g, C, L)
    <2>1. g[Root] = f[Root]
      BY <1>4 DEF Wrote
    <2>2. QED BY <2>1 DEF Tree, JoinOK
  <1>9. \A p \in DOMAIN g : SafeNode(g[p], g, C)
    <2>1. ASSUME NEW p \in DOMAIN g PROVE SafeNode(g[p], f, C)
      BY DEF Wrote, Tree
    <2>2. QED BY <2>1, <1>5 DEF SafeNode
  <1>10. FirstKept(f, g)
    <2>1. ASSUME NEW p \in DOMAIN f, ~f[p].leaf, f[p].children # <<>>
          PROVE  p \in DOMAIN g /\ ~g[p].leaf /\ g[p].children # <<>> /\ g[p].children[1] = f[p].children[1]
      <3>1. p # id
        BY <2>1, EmptyNodes
      <3>2. p \in DOMAIN g /\ g[p] = f[p]
        BY <3>1 DEF Wrote
      <3>3. QED BY <3>2, <2>1
    <2>2. QED BY <2>1 DEF FirstKept
  <1>11. ChainKeys(g, C) = ChainKeys(f, C)
    <2>1. \A x \in DOMAIN C : g[C[x]] = f[C[x]]
      BY <1>2 DEF Wrote
    <2>2. QED BY <2>1 DEF ChainKeys
  <1>12. Tree(g, C, L)
    BY <1>6, <1>7, <1>8, <1>9 DEF Tree
  <1>13. \A x \in DOMAIN C : Range(f[C[x]].keys) \subseteq Range(g[C[x]].keys)
    BY <1>2 DEF Wrote
  <1>14. Later(f, C, L, g, C, L)
    BY <1>12, <1>13, LaterSame
  <1>15. QED BY <1>5, <1>10, <1>11, <1>12, <1>14 DEF Evolved

\* An internal node is written over, with the same first child.
LEMMA TreeInner ==
  ASSUME NEW f, NEW C, NEW L, Tree(f, C, L), NEW id \in DOMAIN f, NEW node, NEW g, Wrote(f, id, node, g),
         ~f[id].leaf, f[id].children # <<>>, ~node.leaf, node.children # <<>>,
         node.children[1] = f[id].children[1], SafeNode(node, f, C)
  PROVE  Tree(g, C, L) /\ Evolved(f, C, g, C) /\ ChainKeys(g, C) = ChainKeys(f, C) /\ Later(f, C, L, g, C, L)
  <1>1. /\ C \in Seq(DOMAIN f) /\ C # <<>> /\ \A x \in DOMAIN C : f[C[x]].leaf
        /\ L \in Seq(DOMAIN f) /\ L # <<>> /\ L[1] = Root /\ L[Len(L)] = C[1]
    BY DEF Tree, ChainOK, LeftOK, JoinOK
  <1>0. DOMAIN g = DOMAIN f
    BY DEF Wrote
  <1>2. \A x \in DOMAIN C : C[x] \in DOMAIN f /\ C[x] # id
    BY <1>1, SeqEnds
  <1>5. ASSUME NEW c, Safe(f, C, c) PROVE Safe(g, C, c)
    <2>1. c \in DOMAIN g /\ c # Root
      BY <1>5, <1>0 DEF Safe
    <2>2. CASE c = id
      <3>1. g[c] = node /\ node # Blank
        BY <2>2, EmptyNodes DEF Wrote
      <3>2. QED BY <3>1, <2>1 DEF Safe
    <2>3. CASE c # id
      <3>1. g[c] = f[c]
        BY <2>1, <2>3, <1>0 DEF Wrote
      <3>2. QED BY <3>1, <2>1, <1>5 DEF Safe
    <2>4. QED BY <2>2, <2>3
  <1>6. ChainOK(g, C)
    <2>2. \A x \in DOMAIN C : g[C[x]] = f[C[x]]
      BY <1>2 DEF Wrote
    <2>3. QED BY <1>0, <2>2 DEF Tree, ChainOK
  <1>10. FirstKept(f, g)
    <2>1. ASSUME NEW p \in DOMAIN f, ~f[p].leaf, f[p].children # <<>>
          PROVE  p \in DOMAIN g /\ ~g[p].leaf /\ g[p].children # <<>> /\ g[p].children[1] = f[p].children[1]
      <3>1. CASE p = id
        BY <3>1 DEF Wrote
      <3>2. CASE p # id
        BY <3>2, <2>1 DEF Wrote
      <3>3. QED BY <3>1, <3>2
    <2>2. QED BY <2>1 DEF FirstKept
  <1>7. LeftOK(g, L)
    <2>1. L \in Seq(DOMAIN g)
      BY <1>1, <1>0
    <2>2. ASSUME NEW x \in DOMAIN L, x # Len(L)
          PROVE  ~g[L[x]].leaf /\ g[L[x]].children # <<>> /\ g[L[x]].children[1] = L[x + 1]
      <3>1. L[x] \in DOMAIN f /\ ~f[L[x]].leaf /\ f[L[x]].children # <<>> /\ f[L[x]].children[1] = L[x + 1]
        BY <2>2, <1>1, SeqEnds DEF Tree, LeftOK
      <3>2. QED BY <3>1, <1>10 DEF FirstKept
    <2>3. g[L[Len(L)]].leaf
      <3>1. 1 \in DOMAIN C
        BY <1>1, SeqEnds
      <3>2. QED BY <3>1, <1>1, <1>2 DEF Wrote
    <2>4. QED BY <2>1, <2>2, <2>3, <1>1 DEF LeftOK
  <1>8. JoinOK(g, C, L)
    <2>0. Root \in DOMAIN f
      BY <1>1, SeqEnds
    <2>1. CASE Root = id
      <3>1. ~g[Root].leaf /\ g[Root] # Blank
        BY <2>1, EmptyNodes DEF Wrote
      <3>2. QED BY <3>1, <1>1 DEF JoinOK
    <2>2. CASE Root # id
      <3>1. g[Root] = f[Root]
        BY <2>2, <2>0 DEF Wrote
      <3>2. QED BY <3>1 DEF Tree, JoinOK
    <2>3. QED BY <2>1, <2>2
  <1>9. \A p \in DOMAIN g : SafeNode(g[p], g, C)
    <2>1. ASSUME NEW p \in DOMAIN g PROVE SafeNode(g[p], f, C)
      BY DEF Wrote, Tree
    <2>2. QED BY <2>1, <1>5 DEF SafeNode
  <1>11. ChainKeys(g, C) = ChainKeys(f, C)
    <2>1. \A x \in DOMAIN C : g[C[x]] = f[C[x]]
      BY <1>2 DEF Wrote
    <2>2. QED BY <2>1 DEF ChainKeys
  <1>12. Tree(g, C, L)
    BY <1>6, <1>7, <1>8, <1>9 DEF Tree
  <1>13. \A x \in DOMAIN C : Range(f[C[x]].keys) \subseteq Range(g[C[x]].keys)
    BY <1>2 DEF Wrote
  <1>14. Later(f, C, L, g, C, L)
    BY <1>12, <1>13, LaterSame
  <1>15. QED BY <1>5, <1>10, <1>11, <1>12, <1>14 DEF Evolved

\* A leaf is written over, with the same next leaf and no key less.
LEMMA TreeLeaf ==
  ASSUME NEW f, NEW C, NEW L, Tree(f, C, L), NEW id, id \in Range(C), NEW node, NEW g, Wrote(f, id, node, g),
         node.leaf, node.children = <<>>, node.next = f[id].next, Range(f[id].keys) \subseteq Range(node.keys)
  PROVE  /\ Tree(g, C, L) /\ Evolved(f, C, g, C) /\ ChainKeys(f, C) \subseteq ChainKeys(g, C)
         /\ Range(node.keys) \subseteq ChainKeys(g, C) /\ Later(f, C, L, g, C, L)
  <1>1. /\ C \in Seq(DOMAIN f) /\ C # <<>> /\ \A x \in DOMAIN C : f[C[x]].leaf
        /\ L \in Seq(DOMAIN f) /\ L # <<>> /\ L[1] = Root /\ L[Len(L)] = C[1]
    BY DEF Tree, ChainOK, LeftOK, JoinOK
  <1>2. id \in DOMAIN f /\ f[id].leaf
    BY <1>1, SeqEnds DEF Range
  <1>0. DOMAIN g = DOMAIN f
    BY <1>2 DEF Wrote
  <1>3. \A p \in DOMAIN f : g[p].leaf = f[p].leaf
    <2>1. ASSUME NEW p \in DOMAIN f PROVE g[p].leaf = f[p].leaf
      <3>1. CASE p = id
        <4>1. node.leaf /\ f[id].leaf /\ g[p] = node
          BY <3>1, <1>2 DEF Wrote
        <4>2. CASE node.leaf = f[id].leaf
          BY <4>1, <4>2, <3>1
        <4>3. QED BY <4>2, <4>1
      <3>2. CASE p # id
        BY <3>2 DEF Wrote
      <3>3. QED BY <3>1, <3>2
    <2>2. QED BY <2>1
  <1>5. ASSUME NEW c, Safe(f, C, c) PROVE Safe(g, C, c)
    <2>1. c \in DOMAIN g /\ c # Root
      BY <1>5, <1>0 DEF Safe
    <2>2. CASE c = id
      <3>1. g[c] # Blank
        BY <2>2, EmptyNodes DEF Wrote
      <3>2. QED BY <3>1, <2>1, <2>2 DEF Safe
    <2>3. CASE c # id
      <3>1. g[c] = f[c]
        BY <2>1, <2>3, <1>0 DEF Wrote
      <3>2. QED BY <3>1, <2>1, <1>5 DEF Safe
    <2>4. QED BY <2>2, <2>3
  <1>6. ChainOK(g, C)
    <2>2. ASSUME NEW x \in DOMAIN C PROVE g[C[x]].leaf /\ g[C[x]].next = f[C[x]].next
      <3>1. C[x] \in DOMAIN f
        BY <1>1, SeqEnds
      <3>2. CASE C[x] = id
        BY <3>2 DEF Wrote
      <3>3. CASE C[x] # id
        BY <3>1, <3>3, <1>1 DEF Wrote
      <3>4. QED BY <3>2, <3>3
    <2>3. QED BY <1>0, <2>2 DEF Tree, ChainOK
  <1>10. FirstKept(f, g)
    <2>1. ASSUME NEW p \in DOMAIN f, ~f[p].leaf PROVE g[p] = f[p]
      BY <2>1, <1>2 DEF Wrote
    <2>2. QED BY <2>1, <1>0 DEF FirstKept
  <1>7. LeftOK(g, L)
    <2>1. L \in Seq(DOMAIN g)
      BY <1>1, <1>0
    <2>2. ASSUME NEW x \in DOMAIN L, x # Len(L)
          PROVE  ~g[L[x]].leaf /\ g[L[x]].children # <<>> /\ g[L[x]].children[1] = L[x + 1]
      <3>1. L[x] \in DOMAIN f /\ ~f[L[x]].leaf /\ f[L[x]].children # <<>> /\ f[L[x]].children[1] = L[x + 1]
        BY <2>2, <1>1, SeqEnds DEF Tree, LeftOK
      <3>2. QED BY <3>1, <1>10 DEF FirstKept
    <2>3. g[L[Len(L)]].leaf
      <3>1. L[Len(L)] \in DOMAIN f /\ f[L[Len(L)]].leaf
        BY <1>1, SeqEnds DEF Tree, LeftOK
      <3>2. QED BY <3>1, <1>3
    <2>4. QED BY <2>1, <2>2, <2>3, <1>1 DEF LeftOK
  <1>8. JoinOK(g, C, L)
    <2>0. Root \in DOMAIN f
      BY <1>1, SeqEnds
    <2>1. CASE Root = id
      <3>1. g[Root] # Blank
        BY <2>1, EmptyNodes DEF Wrote
      <3>2. QED BY <3>1, <2>0, <2>1, <1>2 DEF Tree, JoinOK
    <2>2. CASE Root # id
      <3>1. g[Root] = f[Root]
        BY <2>2, <2>0 DEF Wrote
      <3>2. QED BY <3>1 DEF Tree, JoinOK
    <2>3. QED BY <2>1, <2>2
  <1>9. \A p \in DOMAIN g : SafeNode(g[p], g, C)
    <2>0. SafeNode(node, f, C)
      BY DEF SafeNode
    <2>1. ASSUME NEW p \in DOMAIN g PROVE SafeNode(g[p], f, C)
      BY <2>0 DEF Wrote, Tree
    <2>2. QED BY <2>1, <1>5 DEF SafeNode
  <1>11. ASSUME NEW x \in DOMAIN C PROVE Range(f[C[x]].keys) \subseteq Range(g[C[x]].keys)
    <2>1. C[x] \in DOMAIN f
      BY <1>1, SeqEnds
    <2>2. CASE C[x] = id
      BY <2>2 DEF Wrote
    <2>3. CASE C[x] # id
      BY <2>1, <2>3 DEF Wrote
    <2>4. QED BY <2>2, <2>3
  <1>12. ChainKeys(f, C) \subseteq ChainKeys(g, C)
    BY <1>11 DEF ChainKeys
  <1>13. Range(node.keys) \subseteq ChainKeys(g, C)
    <2>1. PICK x \in DOMAIN C : C[x] = id
      BY DEF Range
    <2>2. g[C[x]].keys = node.keys
      BY <2>1 DEF Wrote
    <2>3. QED BY <2>2 DEF ChainKeys
  <1>14. Tree(g, C, L)
    BY <1>6, <1>7, <1>8, <1>9 DEF Tree
  <1>15. Later(f, C, L, g, C, L)
    BY <1>11, <1>14, LaterSame
  <1>16. QED BY <1>5, <1>10, <1>12, <1>13, <1>14, <1>15 DEF Evolved

\* t is s with x put before its h-th element.
Inserted(S, s, h, x, t) ==
  /\ t \in Seq(S) /\ Len(t) = Len(s) + 1 /\ DOMAIN t = 1..Len(s) + 1 /\ t[h] = x
  /\ \A j \in 1..Len(s) + 1 : t[j] = IF j < h THEN s[j] ELSE IF j = h THEN x ELSE s[j - 1]
  /\ t # <<>>

\* InsertAt does that.
LEMMA InsertAny ==
  ASSUME NEW S, NEW s \in Seq(S), NEW h \in 1..Len(s) + 1, NEW x \in S
  PROVE  Inserted(S, s, h, x, InsertAt(s, h, x))
  <1>0. /\ InsertAt(s, h, x) \in Seq(S) /\ Len(InsertAt(s, h, x)) = Len(s) + 1
        /\ \A j \in 1..Len(s) + 1 :
             InsertAt(s, h, x)[j] = IF j < h THEN s[j] ELSE IF j = h THEN x ELSE s[j - 1]
    BY InsertAtFacts
  <1> SUFFICES ASSUME NEW t, t = InsertAt(s, h, x)
               PROVE  Inserted(S, s, h, x, t)
    OBVIOUS
  <1>1. t \in Seq(S) /\ Len(t) = Len(s) + 1
        /\ \A j \in 1..Len(s) + 1 : t[j] = IF j < h THEN s[j] ELSE IF j = h THEN x ELSE s[j - 1]
    BY <1>0
  <1>2. Len(s) \in Nat /\ h \in 1..Len(s) + 1
    OBVIOUS
  <1>3. DOMAIN t = 1..Len(s) + 1
    BY <1>1
  <1>4. t[h] = x
    BY <1>1, <1>2
  <1>5. t # <<>>
    BY <1>2, <1>3
  <1>6. QED BY <1>1, <1>3, <1>4, <1>5 DEF Inserted

\* A leaf is linked into the chain behind its x-th.
LEMMA ChainInsert ==
  ASSUME NEW f, NEW C, ChainOK(f, C), NEW x \in DOMAIN C, NEW new \in DOMAIN f, new \notin Range(C),
         NEW node, NEW g, Wrote(f, C[x], node, g), node.leaf, node.next = new,
         f[new].leaf, f[new].next = f[C[x]].next, NEW B, B = InsertAt(C, x + 1, new)
  PROVE  /\ ChainOK(g, B) /\ Len(B) = Len(C) + 1 /\ B[1] = C[1] /\ B[x] = C[x] /\ B[x + 1] = new
         /\ Range(B) = Range(C) \cup {new} /\ DOMAIN C = 1..Len(C) /\ Len(C) \in Nat
         /\ \A j \in 1..Len(C) + 1 : B[j] = IF j < x + 1 THEN C[j] ELSE IF j = x + 1 THEN new ELSE C[j - 1]
  <1>1. C \in Seq(DOMAIN f) /\ C # <<>>
    BY DEF ChainOK
  <1>2. PICK n \in Nat \ {0} : n = Len(C) /\ DOMAIN C = 1..n
    BY <1>1, SeqEnds
  <1>3. x \in 1..n /\ x + 1 \in 1..n + 1
    BY <1>2
  <1>4. PICK h \in 1..n + 1 : h = x + 1
    BY <1>3
  <1>5. /\ B \in Seq(DOMAIN f) /\ Len(B) = n + 1 /\ DOMAIN B = 1..n + 1 /\ B[h] = new /\ B # <<>>
        /\ \A j \in 1..n + 1 : B[j] = IF j < h THEN C[j] ELSE IF j = h THEN new ELSE C[j - 1]
    <2>1. PICK S : S = DOMAIN f
      OBVIOUS
    <2>2. C \in Seq(S) /\ new \in S /\ h \in 1..Len(C) + 1
      BY <2>1, <1>1, <1>2, <1>4
    <2>3. Inserted(S, C, h, new, InsertAt(C, h, new))
      BY <2>2, InsertAny
    <2>4. B = InsertAt(C, h, new)
      BY <1>4
    <2>5. QED BY <2>1, <2>3, <2>4, <1>2 DEF Inserted
  <1>6. \A j \in 1..n + 1 : \/ j < h /\ j \in 1..n /\ B[j] = C[j]
                            \/ j = h /\ B[j] = new
                            \/ j > h /\ j - 1 \in 1..n /\ B[j] = C[j - 1]
    <2>1. ASSUME NEW j \in 1..n + 1 PROVE j < h \/ j = h \/ j > h
      OBVIOUS
    <2>2. ASSUME NEW j \in 1..n + 1, j < h PROVE j \in 1..n /\ B[j] = C[j]
      BY <2>2, <1>5
    <2>3. ASSUME NEW j \in 1..n + 1, j > h PROVE j - 1 \in 1..n /\ B[j] = C[j - 1]
      BY <2>3, <1>5
    <2>4. QED BY <2>1, <2>2, <2>3, <1>5
  <1>16. \A j \in 1..n : C[j] \in DOMAIN f /\ C[j] # new
    BY <1>1, <1>2, SeqEnds DEF Range
  <1>7. DOMAIN g = DOMAIN f /\ \A j \in 1..n : C[j] \in DOMAIN f /\ C[j] # new
    BY <1>16, <1>3 DEF Wrote
  <1>8. g[C[x]] = node /\ g[new] = f[new] /\ \A j \in 1..n : j # x => g[C[j]] = f[C[j]]
    <2>1. C[x] \in DOMAIN f /\ C[x] # new
      BY <1>3, <1>7
    <2>2. \A j \in 1..n : j # x => C[j] # C[x]
      BY <1>2, <1>3 DEF ChainOK
    <2>3. QED BY <2>1, <2>2, <1>7 DEF Wrote
  <1>9. ASSUME NEW y \in 1..n + 1, NEW z \in 1..n + 1, B[y] = B[z] PROVE y = z
    <2>1. \A j, k \in 1..n : C[j] = C[k] => j = k
      BY <1>2 DEF ChainOK
    <2>2. QED BY <2>1, <1>6, <1>7, <1>9
  <1>10. \A j \in 1..n : f[C[j]].leaf /\ f[C[j]].next = IF j = n THEN NoPage ELSE C[j + 1]
    BY <1>2 DEF ChainOK
  <1>11. ASSUME NEW y \in 1..n + 1
         PROVE  g[B[y]].leaf /\ g[B[y]].next = IF y = n + 1 THEN NoPage ELSE B[y + 1]
    <2>1. CASE y < x
      <3>1. y < h /\ y \in 1..n /\ B[y] = C[y] /\ y # n + 1 /\ y # n /\ y # x
        BY <2>1, <1>3, <1>4, <1>6
      <3>2. y + 1 \in 1..n + 1 /\ y + 1 < h
        BY <2>1, <1>3, <1>4
      <3>3. B[y + 1] = C[y + 1]
        BY <3>2, <1>6
      <3>4. QED BY <3>1, <3>3, <1>8, <1>10
    <2>2. CASE y = x
      <3>1. B[y] = C[x] /\ y # n + 1 /\ y + 1 = h
        BY <2>2, <1>3, <1>4, <1>6
      <3>2. QED BY <3>1, <1>5, <1>8
    <2>3. CASE y = h
      <3>1. B[y] = new /\ (y = n + 1 <=> x = n)
        BY <2>3, <1>3, <1>4, <1>5
      <3>2. x # n => B[y + 1] = C[x + 1]
        <4>1. ASSUME x # n PROVE y + 1 \in 1..n + 1 /\ y + 1 > h /\ y + 1 - 1 = x + 1
          BY <4>1, <2>3, <1>3, <1>4
        <4>2. ASSUME x # n PROVE B[y + 1] = C[y + 1 - 1]
          <5>1. PICK u \in 1..n + 1 : u = y + 1 /\ u > h
            BY <4>1, <4>2
          <5>2. B[u] = C[u - 1]
            BY <5>1, <1>6
          <5>3. QED BY <5>1, <5>2
        <4>3. QED BY <4>1, <4>2
      <3>3. f[new].next = IF x = n THEN NoPage ELSE C[x + 1]
        BY <1>3, <1>10
      <3>4. QED BY <3>1, <3>2, <3>3, <1>8
    <2>4. CASE y > h
      <3>1. PICK j \in 1..n : j = y - 1 /\ B[y] = C[j]
        BY <2>4, <1>6
      <3>2. j # x /\ (y = n + 1 <=> j = n)
        BY <3>1, <2>4, <1>4
      <3>3. y # n + 1 => B[y + 1] = C[j + 1]
        <4>1. ASSUME y # n + 1 PROVE y + 1 \in 1..n + 1 /\ y + 1 > h /\ y + 1 - 1 = j + 1
          BY <4>1, <2>4, <3>1, <1>4
        <4>2. ASSUME y # n + 1 PROVE B[y + 1] = C[y + 1 - 1]
          <5>1. PICK u \in 1..n + 1 : u = y + 1 /\ u > h
            BY <4>1, <4>2
          <5>2. B[u] = C[u - 1]
            BY <5>1, <1>6
          <5>3. QED BY <5>1, <5>2
        <4>3. QED BY <4>1, <4>2
      <3>4. QED BY <3>1, <3>2, <3>3, <1>8, <1>10
    <2>5. QED BY <2>1, <2>2, <2>3, <2>4, <1>3, <1>4
  <1>12. ChainOK(g, B)
    BY <1>5, <1>7, <1>9, <1>11 DEF ChainOK
  <1>13. B[1] = C[1] /\ B[x] = C[x]
    <2>1. 1 < h /\ x < h /\ 1 \in 1..n + 1 /\ x \in 1..n + 1
      BY <1>3, <1>4
    <2>2. QED BY <2>1, <1>6
  <1>14. Range(B) = Range(C) \cup {new}
    <2>1. ASSUME NEW j \in 1..n PROVE C[j] \in Range(B)
      <3>1. CASE j < h
        <4>1. j \in 1..n + 1 /\ B[j] = C[j]
          BY <3>1, <1>5
        <4>2. QED BY <4>1, <1>5 DEF Range
      <3>2. CASE ~(j < h)
        <4>1. PICK u \in 1..n + 1 : u = j + 1 /\ u > h
          BY <3>2, <1>4
        <4>2. B[u] = C[u - 1] /\ u - 1 = j
          BY <4>1, <1>6
        <4>3. QED BY <4>2, <1>5 DEF Range
      <3>3. QED BY <3>1, <3>2
    <2>2. ASSUME NEW j \in 1..n + 1 PROVE B[j] \in Range(C) \cup {new}
      BY <1>2, <1>6 DEF Range
    <2>3. new \in Range(B)
      BY <1>5 DEF Range
    <2>4. Range(C) \subseteq Range(B)
      BY <2>1, <1>2 DEF Range
    <2>5. Range(B) \subseteq Range(C) \cup {new}
      BY <2>2, <1>5 DEF Range
    <2>6. QED BY <2>3, <2>4, <2>5
  <1>15. QED BY <1>2, <1>4, <1>5, <1>12, <1>13, <1>14

\* A node with children has a first one.
LEMMA FirstChild ==
  ASSUME NEW f, NEW n, Filed(f, n), NEW p \in DOMAIN f, f[p].children # <<>>
  PROVE  1 \in DOMAIN f[p].children /\ f[p].children[1] \in DOMAIN f
  <1>1. Sound(f[p], DOMAIN f) /\ f[p] \in Node
    BY DEF Filed, Sound, Closed
  <1>2. f[p].children \in Seq(PageId)
    BY <1>1, NodeFields
  <1>3. 1 \in DOMAIN f[p].children
    BY <1>2, SeqEnds
  <1>4. QED BY <1>1, <1>3 DEF Sound, Closed

\* The left half of a leaf is written, after its right half: the step that links the right half
\* into the chain.
LEMMA TreeSplitLeaf ==
  ASSUME NEW f, NEW C, NEW L, Tree(f, C, L), NEW x \in DOMAIN C, NEW id, id = C[x], id # Root,
         NEW new \in DOMAIN f, new \notin Range(C), f[new].leaf, f[new].next = f[id].next,
         NEW node, NEW g, Wrote(f, id, node, g), node.leaf, node.next = new, node.children = <<>>,
         Range(f[id].keys) \subseteq Range(node.keys) \cup Range(f[new].keys)
  PROVE  \E B : /\ Tree(g, B, L) /\ Evolved(f, C, g, B) /\ Len(B) = Len(C) + 1 /\ Safe(g, B, new)
                /\ ChainKeys(f, C) \subseteq ChainKeys(g, B) /\ Later(f, C, L, g, B, L)
  <1>1. PICK B : B = InsertAt(C, x + 1, new)
    OBVIOUS
  <1>2. ChainOK(f, C) /\ id \in Range(C) /\ id \in DOMAIN f
    BY SeqEnds DEF Tree, ChainOK, Range
  <1>3. Wrote(f, C[x], node, g) /\ f[new].next = f[C[x]].next
    OBVIOUS
  <1>4. /\ ChainOK(g, B) /\ Len(B) = Len(C) + 1 /\ B[1] = C[1]
        /\ Range(B) = Range(C) \cup {new} /\ DOMAIN C = 1..Len(C) /\ Len(C) \in Nat
        /\ \A j \in 1..Len(C) + 1 : B[j] = IF j < x + 1 THEN C[j] ELSE IF j = x + 1 THEN new ELSE C[j - 1]
    BY <1>1, <1>2, <1>3, ChainInsert
  <1>5. f[id].leaf
    BY <1>2 DEF ChainOK
  <1>6. /\ L \in Seq(DOMAIN f) /\ L # <<>> /\ L[1] = Root /\ L[Len(L)] = C[1] /\ Root \in DOMAIN f
    BY SeqEnds DEF Tree, LeftOK, JoinOK
  <1>7. ~f[Root].leaf
    <2>1. SUFFICES ASSUME f[Root].leaf PROVE FALSE
      OBVIOUS
    <2>2. Len(C) = 1 /\ C[1] = Root
      BY <2>1 DEF Tree, JoinOK
    <2>3. DOMAIN C = 1..1
      BY <2>2, <1>2, SeqEnds DEF ChainOK
    <2>4. QED BY <2>2, <2>3
  <1>8. new # Root /\ new # id
    BY <1>2, <1>7
  <1>9. DOMAIN g = DOMAIN f /\ g[id] = node /\ \A p \in DOMAIN f : p # id => g[p] = f[p]
    BY <1>2 DEF Wrote
  <1>10. ASSUME NEW c, Safe(f, C, c) PROVE Safe(g, B, c)
    <2>1. c \in DOMAIN g /\ c # Root
      BY <1>10, <1>9 DEF Safe
    <2>2. CASE c = id
      <3>1. g[c] # Blank
        BY <2>2, <1>9, EmptyNodes
      <3>2. QED BY <3>1, <2>1, <2>2, <1>2, <1>4 DEF Safe
    <2>3. CASE c # id
      <3>1. g[c] = f[c]
        BY <2>1, <2>3, <1>9
      <3>2. QED BY <3>1, <2>1, <1>10, <1>4 DEF Safe
    <2>4. QED BY <2>2, <2>3
  <1>11. FirstKept(f, g)
    <2>1. ASSUME NEW p \in DOMAIN f, ~f[p].leaf PROVE g[p] = f[p]
      BY <2>1, <1>5, <1>9
    <2>2. QED BY <2>1, <1>9 DEF FirstKept
  <1>12. LeftOK(g, L)
    <2>1. L \in Seq(DOMAIN g)
      BY <1>6, <1>9
    <2>2. ASSUME NEW y \in DOMAIN L, y # Len(L)
          PROVE  ~g[L[y]].leaf /\ g[L[y]].children # <<>> /\ g[L[y]].children[1] = L[y + 1]
      <3>1. L[y] \in DOMAIN f /\ ~f[L[y]].leaf /\ f[L[y]].children # <<>> /\ f[L[y]].children[1] = L[y + 1]
        BY <2>2, <1>6, SeqEnds DEF Tree, LeftOK
      <3>2. QED BY <3>1, <1>11 DEF FirstKept
    <2>3. g[L[Len(L)]].leaf
      <3>1. 1 \in DOMAIN B
        BY <1>4, SeqEnds DEF ChainOK
      <3>2. QED BY <3>1, <1>4, <1>6 DEF ChainOK
    <2>4. QED BY <2>1, <2>2, <2>3, <1>6 DEF LeftOK
  <1>13. JoinOK(g, B, L)
    <2>1. g[Root] = f[Root]
      BY <1>6, <1>9
    <2>2. QED BY <2>1, <1>4, <1>7 DEF Tree, JoinOK
  <1>14. \A p \in DOMAIN g : SafeNode(g[p], g, B)
    <2>0. SafeNode(node, f, C)
      BY DEF SafeNode
    <2>1. ASSUME NEW p \in DOMAIN g PROVE SafeNode(g[p], f, C)
      BY <2>0, <1>9 DEF Tree
    <2>2. QED BY <2>1, <1>10 DEF SafeNode
  <1>15. Safe(g, B, new)
    BY <1>4, <1>8, <1>9, EmptyNodes DEF Safe
  <1>16. ASSUME NEW y \in DOMAIN C PROVE Range(f[C[y]].keys) \subseteq ChainKeys(g, B)
    <2>1. \A b \in Range(B) : Range(g[b].keys) \subseteq ChainKeys(g, B)
      BY DEF ChainKeys, Range
    <2>2. C[y] \in Range(B) /\ C[y] \in DOMAIN f
      BY <1>2, <1>4, SeqEnds, ZenonT(40) DEF Range, ChainOK
    <2>3. CASE C[y] = id
      <3>1. Range(g[id].keys) \subseteq ChainKeys(g, B)
        BY <2>1, <2>2, <2>3
      <3>2. Range(g[new].keys) \subseteq ChainKeys(g, B) /\ g[new] = f[new]
        BY <2>1, <1>4, <1>8, <1>9
      <3>3. QED BY <3>1, <3>2, <2>3, <1>9
    <2>4. CASE C[y] # id
      BY <2>1, <2>2, <2>4, <1>9
    <2>5. QED BY <2>3, <2>4
  <1>17. ChainKeys(f, C) \subseteq ChainKeys(g, B)
    BY <1>16 DEF ChainKeys
  <1>18. Later(f, C, L, g, B, L)
    <2>1. PICK n \in Nat : n = Len(C) /\ DOMAIN C = 1..n /\ x \in 1..n
      BY <1>4
    <2>2. DOMAIN B = 1..n + 1 /\ Len(B) = n + 1
      BY <2>1, <1>4, SeqEnds DEF ChainOK
    <2>3. \A j \in 1..n : C[j] \in DOMAIN f /\ (C[j] = id => j = x)
      BY <2>1, <1>2, SeqEnds DEF ChainOK
    <2>4. ASSUME NEW y \in 1..n PROVE \E u \in 1..n + 1 : B[u] = C[y] /\ From(f, C, y) \subseteq From(g, B, u)
      <3>1. PICK u \in 1..n + 1 : u = IF y < x + 1 THEN y ELSE y + 1
        BY <2>1
      <3>2. B[u] = C[y]
        BY <3>1, <2>1, <1>4
      <3>3. ASSUME NEW z \in y..n PROVE Range(f[C[z]].keys) \subseteq From(g, B, u)
        <4>1. z \in 1..n
          BY <2>1
        <4>2. PICK v \in u..n + 1 : v = IF z < x + 1 THEN z ELSE z + 1
          BY <3>1, <2>1, <4>1
        <4>3. v \in 1..n + 1
          BY <3>1
        <4>4. B[v] = C[z]
          BY <4>1, <4>2, <4>3, <2>1, <1>4
        <4>5. \A t \in u..n + 1 : Range(g[B[t]].keys) \subseteq From(g, B, u)
          BY <2>2 DEF From
        <4>6. CASE z = x
          <5>1. x + 1 \in u..n + 1 /\ x + 1 \in 1..n + 1 /\ ~(x + 1 < x + 1)
            BY <4>6, <3>1, <2>1
          <5>2. B[x + 1] = new
            BY <5>1, <2>1, <1>4
          <5>3. Range(f[new].keys) \subseteq From(g, B, u)
            BY <4>5, <5>1, <5>2, <1>8, <1>9
          <5>4. Range(node.keys) \subseteq From(g, B, u)
            BY <4>2, <4>4, <4>5, <4>6, <1>9
          <5>5. QED BY <4>6, <5>3, <5>4
        <4>7. CASE z # x
          <5>1. g[C[z]] = f[C[z]]
            BY <4>1, <4>7, <2>3, <1>9
          <5>2. QED BY <5>1, <4>2, <4>4, <4>5
        <4>8. QED BY <4>6, <4>7
      <3>4. From(f, C, y) \subseteq From(g, B, u)
        BY <3>3, <2>1 DEF From
      <3>5. QED BY <3>2, <3>4
    <2>5. ~f[Root].leaf => ~g[Root].leaf
      BY <1>6, <1>9
    <2>6. QED BY <2>1, <2>2, <2>4, <2>5 DEF Later
  <1>19. Tree(g, B, L) /\ Evolved(f, C, g, B)
    BY <1>4, <1>10, <1>11, <1>12, <1>13, <1>14 DEF Tree, Evolved
  <1>20. QED BY <1>4, <1>15, <1>17, <1>18, <1>19

\* A sequence of two.
LEMMA Pair ==
  ASSUME NEW S, NEW a \in S, NEW b \in S
  PROVE  <<a, b>> \in Seq(S) /\ <<a, b>> # <<>> /\ Len(<<a, b>>) = 2 /\ DOMAIN <<a, b>> = {1, 2}
         /\ <<a, b>>[1] = a /\ <<a, b>>[2] = b
  <1>1. <<a, b>> \in Seq(S) /\ Len(<<a, b>>) = 2 /\ <<a, b>>[1] = a /\ <<a, b>>[2] = b
    OBVIOUS
  <1>2. DOMAIN <<a, b>> = 1..2
    BY <1>1, SeqDomain
  <1>3. QED BY <1>1, <1>2

\* The new root is written over a root that was a leaf: from then on its two halves are the chain.
LEMMA TreeRootLeaf ==
  ASSUME NEW f, NEW n, Filed(f, n), NEW C, NEW L, Tree(f, C, L), f[Root].leaf,
         NEW a \in DOMAIN f, NEW b \in DOMAIN f, a # Root, b # Root, a # b, f[a].leaf, f[b].leaf,
         f[a].next = b, f[b].next = f[Root].next,
         Range(f[Root].keys) \subseteq Range(f[a].keys) \cup Range(f[b].keys),
         NEW node, ~node.leaf, NEW g, Wrote(f, Root, node, g), DOMAIN node.children = {1, 2},
         node.children[1] = a, node.children[2] = b
  PROVE  \E B, M : /\ Tree(g, B, M) /\ ChainKeys(f, C) \subseteq ChainKeys(g, B)
                   /\ Len(B) = Len(C) + 1 /\ Len(M) = Len(L) + 1 /\ Later(f, C, L, g, B, M)
  <1>1. Root \in DOMAIN f /\ Len(C) = 1 /\ C[1] = Root /\ Len(L) = 1
    BY DEF Tree, JoinOK, Filed
  <1>2. PICK B, M : B = <<a, b>> /\ M = <<Root, a>>
    OBVIOUS
  <1>3. B \in Seq(DOMAIN f) /\ B # <<>> /\ Len(B) = 2 /\ DOMAIN B = {1, 2} /\ B[1] = a /\ B[2] = b
    BY <1>2, Pair
  <1>4. M \in Seq(DOMAIN f) /\ M # <<>> /\ Len(M) = 2 /\ DOMAIN M = {1, 2} /\ M[1] = Root /\ M[2] = a
    BY <1>1, <1>2, Pair
  <1>5. C \in Seq(DOMAIN f) /\ DOMAIN C = {1} /\ Range(C) = {Root}
    <2>1. C \in Seq(DOMAIN f) /\ C # <<>>
      BY DEF Tree, ChainOK
    <2>2. DOMAIN C = 1..1
      BY <2>1, <1>1, SeqEnds
    <2>3. QED BY <2>1, <2>2, <1>1 DEF Range
  <1>6. DOMAIN g = DOMAIN f /\ g[Root] = node /\ \A p \in DOMAIN f : p # Root => g[p] = f[p]
    BY <1>1 DEF Wrote
  <1>7. f[Root].next = NoPage
    BY <1>1, <1>5 DEF Tree, ChainOK
  <1>8. g[a] = f[a] /\ g[b] = f[b]
    BY <1>6
  <1>9. ChainOK(g, B)
    <2>1. B \in Seq(DOMAIN g)
      BY <1>3, <1>6
    <2>2. \A x, y \in DOMAIN B : B[x] = B[y] => x = y
      BY <1>3
    <2>3. \A x \in DOMAIN B : g[B[x]].leaf /\ g[B[x]].next = IF x = Len(B) THEN NoPage ELSE B[x + 1]
      BY <1>3, <1>7, <1>8
    <2>4. QED BY <2>1, <2>2, <2>3, <1>3 DEF ChainOK
  <1>10. node.children # <<>>
    <2>1. DOMAIN <<>> = {}
      OBVIOUS
    <2>2. QED BY <2>1
  <1>11. LeftOK(g, M)
    <2>1. M \in Seq(DOMAIN g)
      BY <1>4, <1>6
    <2>2. QED BY <2>1, <1>4, <1>6, <1>8, <1>10 DEF LeftOK
  <1>12. JoinOK(g, B, M)
    BY <1>3, <1>4, <1>6, <1>10, EmptyNodes DEF JoinOK
  <1>13. ASSUME NEW c, Safe(f, C, c) PROVE Safe(g, B, c)
    <2>1. c \in DOMAIN f /\ c # Root /\ ~f[c].leaf /\ f[c] # Blank
      BY <1>13, <1>5 DEF Safe
    <2>2. g[c] = f[c] /\ c \in DOMAIN g
      BY <2>1, <1>6
    <2>3. QED BY <2>1, <2>2 DEF Safe
  <1>14. Safe(g, B, a) /\ Safe(g, B, b)
    <2>1. a \in Range(B) /\ b \in Range(B)
      BY <1>3 DEF Range
    <2>2. QED BY <2>1, <1>6, <1>8, EmptyNodes DEF Safe
  <1>15. \A p \in DOMAIN g : SafeNode(g[p], g, B)
    <2>1. SafeNode(node, g, B)
      BY <1>14 DEF SafeNode
    <2>2. ASSUME NEW p \in DOMAIN g, p # Root PROVE SafeNode(g[p], g, B)
      <3>1. SafeNode(g[p], f, C)
        BY <2>2, <1>6 DEF Tree
      <3>2. QED BY <3>1, <1>13 DEF SafeNode
    <2>3. QED BY <2>1, <2>2, <1>6
  <1>16. ChainKeys(f, C) \subseteq ChainKeys(g, B)
    <2>1. ChainKeys(f, C) = Range(f[Root].keys)
      BY <1>1, <1>5 DEF ChainKeys
    <2>2. Range(f[a].keys) \subseteq ChainKeys(g, B) /\ Range(f[b].keys) \subseteq ChainKeys(g, B)
      BY <1>3, <1>8 DEF ChainKeys
    <2>3. QED BY <2>1, <2>2
  <1>17. Later(f, C, L, g, B, M)
    <2>1. Range(L) \subseteq Range(M)
      <3>1. L \in Seq(DOMAIN f) /\ L # <<>> /\ L[1] = Root
        BY DEF Tree, LeftOK
      <3>2. DOMAIN L = 1..1
        BY <3>1, <1>1, SeqEnds
      <3>3. Range(L) = {Root}
        BY <3>1, <3>2 DEF Range
      <3>4. QED BY <3>3, <1>4 DEF Range
    <2>2. QED BY <2>1, <1>1, <1>5, <1>6 DEF Later
  <1>18. QED BY <1>1, <1>3, <1>4, <1>9, <1>11, <1>12, <1>15, <1>16, <1>17 DEF Tree

\* The new root is written over an internal root: the left edge is one page longer.
LEMMA TreeRootInner ==
  ASSUME NEW f, NEW n, Filed(f, n), NEW C, NEW L, Tree(f, C, L), ~f[Root].leaf,
         NEW a \in DOMAIN f, NEW b \in DOMAIN f, a # Root, b # Root, ~f[a].leaf, ~f[b].leaf,
         f[a] # Blank, f[b] # Blank, f[a].children # <<>>, f[a].children[1] = f[Root].children[1],
         NEW node, ~node.leaf, NEW g, Wrote(f, Root, node, g), DOMAIN node.children = {1, 2},
         node.children[1] = a, node.children[2] = b
  PROVE  \E M : /\ Tree(g, C, M) /\ ChainKeys(f, C) = ChainKeys(g, C) /\ Len(M) = Len(L) + 1
                /\ Later(f, C, L, g, C, M)
  <1>1. Root \in DOMAIN f
    BY DEF Filed
  <1>2. DOMAIN g = DOMAIN f /\ g[Root] = node /\ \A p \in DOMAIN f : p # Root => g[p] = f[p]
    BY <1>1 DEF Wrote
  <1>3. C \in Seq(DOMAIN f) /\ C # <<>> /\ \A x \in DOMAIN C : C[x] \in DOMAIN f /\ C[x] # Root
    BY SeqEnds DEF Tree, ChainOK
  <1>4. PICK m \in Nat \ {0} : m = Len(L) /\ DOMAIN L = 1..m
    BY SeqEnds DEF Tree, LeftOK
  <1>5. /\ L \in Seq(DOMAIN f) /\ L[1] = Root /\ L[m] = C[1] /\ f[L[m]].leaf
        /\ \A x \in 1..m : x # m => ~f[L[x]].leaf /\ f[L[x]].children # <<>> /\ f[L[x]].children[1] = L[x + 1]
    BY <1>4 DEF Tree, LeftOK, JoinOK
  <1>6. m # 1
    BY <1>5
  <1>7. PICK M : M = InsertAt(L, 2, a)
    OBVIOUS
  <1>8. /\ M \in Seq(DOMAIN f) /\ Len(M) = m + 1 /\ DOMAIN M = 1..m + 1 /\ M # <<>>
        /\ \A j \in 1..m + 1 : M[j] = IF j < 2 THEN L[j] ELSE IF j = 2 THEN a ELSE L[j - 1]
    <2>1. PICK S : S = DOMAIN f
      OBVIOUS
    <2>2. L \in Seq(S) /\ a \in S /\ 2 \in 1..Len(L) + 1
      BY <2>1, <1>4, <1>5
    <2>3. Inserted(S, L, 2, a, InsertAt(L, 2, a))
      BY <2>2, InsertAny
    <2>4. QED BY <2>1, <2>3, <1>4, <1>7 DEF Inserted
  <1>9. M[1] = Root /\ M[2] = a /\ \A j \in 2..m : M[j + 1] = L[j]
    <2>1. 1 \in 1..m + 1 /\ 2 \in 1..m + 1
      BY <1>4
    <2>2. ASSUME NEW j \in 2..m PROVE M[j + 1] = L[j]
      <3>1. PICK u \in 1..m + 1 : u = j + 1 /\ ~(u < 2) /\ u # 2 /\ u - 1 = j
        OBVIOUS
      <3>2. QED BY <3>1, <1>8
    <2>3. QED BY <2>1, <2>2, <1>5, <1>8
  <1>10. \A j \in 2..m : L[j] \in DOMAIN f /\ L[j] # Root
    <2>1. ASSUME NEW j \in 2..m PROVE L[j] \in DOMAIN f /\ L[j] # Root
      <3>1. PICK u \in 1..m : u = j - 1 /\ u # m /\ u + 1 = j
        OBVIOUS
      <3>2. L[u] \in DOMAIN f /\ f[L[u]].children # <<>> /\ f[L[u]].children[1] = L[j]
        BY <3>1, <1>4, <1>5, SeqDomain
      <3>3. 1 \in DOMAIN f[L[u]].children
        BY <3>2, FirstChild
      <3>4. Safe(f, C, L[j])
        BY <3>2, <3>3 DEF Tree, SafeNode
      <3>5. QED BY <3>4 DEF Safe
    <2>2. QED BY <2>1
  <1>11. node.children # <<>>
    <2>1. DOMAIN <<>> = {}
      OBVIOUS
    <2>2. QED BY <2>1
  <1>12. LeftOK(g, M)
    <2>1. ASSUME NEW x \in 1..m + 1, x # m + 1
          PROVE  ~g[M[x]].leaf /\ g[M[x]].children # <<>> /\ g[M[x]].children[1] = M[x + 1]
      <3>1. CASE x = 1
        <4>1. M[x] = Root /\ M[x + 1] = a
          BY <3>1, <1>9
        <4>2. QED BY <4>1, <1>2, <1>11
      <3>2. CASE x = 2
        <4>1. M[x] = a /\ M[x + 1] = L[2] /\ g[a] = f[a]
          BY <3>2, <1>2, <1>4, <1>6, <1>9
        <4>2. f[Root].children[1] = L[2]
          <5>1. 1 \in 1..m /\ 1 # m
            BY <1>4, <1>6
          <5>2. QED BY <5>1, <1>5
        <4>3. QED BY <4>1, <4>2
      <3>3. CASE x # 1 /\ x # 2
        <4>1. PICK j \in 2..m : j + 1 = x /\ j # m /\ j + 1 \in 2..m
          <5>1. x - 1 \in 2..m /\ x - 1 + 1 = x /\ x - 1 # m /\ x - 1 + 1 \in 2..m
            BY <3>3, <2>1
          <5>2. QED BY <5>1
        <4>2. M[x] = L[j] /\ M[x + 1] = L[j + 1]
          BY <4>1, <1>9
        <4>3. j \in 1..m /\ L[j] \in DOMAIN f /\ g[L[j]] = f[L[j]]
          BY <4>1, <1>2, <1>10
        <4>4. QED BY <4>1, <4>2, <4>3, <1>5
      <3>4. QED BY <3>1, <3>2, <3>3
    <2>2. g[M[m + 1]].leaf
      <3>1. m \in 2..m
        BY <1>4, <1>6
      <3>2. M[m + 1] = L[m] /\ g[L[m]] = f[L[m]]
        BY <3>1, <1>2, <1>9, <1>10
      <3>3. QED BY <3>2, <1>5
    <2>3. QED BY <2>1, <2>2, <1>2, <1>8, <1>9 DEF LeftOK
  <1>13. JoinOK(g, C, M)
    <2>1. m \in 2..m
      BY <1>4, <1>6
    <2>2. M[Len(M)] = C[1]
      BY <2>1, <1>5, <1>8, <1>9
    <2>3. QED BY <2>2, <1>2, <1>11, EmptyNodes DEF JoinOK
  <1>14. ChainOK(g, C)
    BY <1>2, <1>3 DEF Tree, ChainOK
  <1>15. ASSUME NEW c, Safe(f, C, c) PROVE Safe(g, C, c)
    BY <1>2, <1>15 DEF Safe
  <1>16. Safe(g, C, a) /\ Safe(g, C, b)
    BY <1>2 DEF Safe
  <1>17. \A p \in DOMAIN g : SafeNode(g[p], g, C)
    <2>1. SafeNode(node, g, C)
      BY <1>16 DEF SafeNode
    <2>2. ASSUME NEW p \in DOMAIN g, p # Root PROVE SafeNode(g[p], g, C)
      <3>1. SafeNode(g[p], f, C)
        BY <2>2, <1>2 DEF Tree
      <3>2. QED BY <3>1, <1>15 DEF SafeNode
    <2>3. QED BY <2>1, <2>2, <1>2
  <1>18. ChainKeys(f, C) = ChainKeys(g, C)
    BY <1>2, <1>3 DEF ChainKeys
  <1>19. Later(f, C, L, g, C, M)
    <2>1. ASSUME NEW j \in 1..m PROVE L[j] \in Range(M)
      <3>1. CASE j = 1
        BY <3>1, <1>5, <1>8, <1>9 DEF Range
      <3>2. CASE j # 1
        <4>1. j \in 2..m /\ j + 1 \in 1..m + 1
          BY <3>2
        <4>2. M[j + 1] = L[j]
          BY <4>1, <1>9
        <4>3. QED BY <4>1, <4>2, <1>8 DEF Range
      <3>3. QED BY <3>1, <3>2
    <2>2. Range(L) \subseteq Range(M)
      BY <2>1, <1>4 DEF Range
    <2>3. ASSUME NEW x \in DOMAIN C PROVE From(f, C, x) \subseteq From(g, C, x)
      <3>1. PICK k \in Nat : k = Len(C) /\ DOMAIN C = 1..k
        BY SeqEnds DEF Tree, ChainOK
      <3>2. \A z \in x..k : z \in DOMAIN C
        BY <3>1
      <3>3. \A z \in x..k : g[C[z]] = f[C[z]]
        BY <3>2, <1>2, <1>3
      <3>4. QED BY <3>1, <3>3 DEF From
    <2>4. QED BY <2>2, <2>3, <1>2 DEF Later
  <1>20. QED BY <1>4, <1>8, <1>12, <1>13, <1>14, <1>17, <1>18, <1>19 DEF Tree

-----------------------------------------------------------------------------
(* The invariant, and the actions on values.                               *)

\* A growing writer that has not saved the copy of the root yet.
Before == {"growAlloc", "growBlank", "growSave"}

\* In split_child.
Splitting == Parting \cup {"split", "saveChild"}

\* Where a growing writer can be.
Growing == Before \cup Splitting \cup {"saveRoot"}

\* The i-th child of the last node of a path.
Child(p, i) == TopOf(p).children[i]

\* A frame with an internal node as the writer read or changed it: the page is internal and has
\* the same first child, and every child but the j-th is one a parent may point to.
InnerBut(fr, j, f, C) ==
  /\ fr.id \in DOMAIN f /\ ~fr.node.leaf /\ fr.node.children # <<>>
  /\ ~f[fr.id].leaf /\ f[fr.id].children # <<>> /\ fr.node.children[1] = f[fr.id].children[1]
  /\ \A y \in DOMAIN fr.node.children : y # j => Safe(f, C, fr.node.children[y])

\* A frame with a leaf: it is on the chain, and in memory it has lost no key and no link.
LeafFrame(fr, f, C) ==
  /\ fr.node.leaf /\ fr.id \in Range(C) /\ fr.node.next = f[fr.id].next
  /\ Range(f[fr.id].keys) \subseteq Range(fr.node.keys)

\* The path of a writer that is not growing the tree.
PathSafe(c, o, p, i, f, C) ==
  /\ p[1].id = Root
  /\ \A x \in DOMAIN p : x # Len(p) => InnerBut(p[x], 0, f, C)
  /\ c \in {"visit", "unwind"} => InnerBut(p[Len(p)], 0, f, C) \/ LeafFrame(p[Len(p)], f, C)
  /\ c \in Parting \cup {"split", "enter"} => InnerBut(p[Len(p)], 0, f, C)
  /\ c = "saveChild" => InnerBut(p[Len(p)], i + 1, f, C)
  /\ c = "unwind" /\ TopOf(p).leaf => o.key \in Range(TopOf(p).keys)

\* What a writer in split_child knows of the child and its halves.
Halved(c, p, i, g, kd, sb, f, C) ==
  /\ c = "split" => is_full(f[Child(p, i)])
  /\ c \in Parting \cup {"saveChild"} => f[Child(p, i)].keys # <<>> /\ sb = RightHalf(f[Child(p, i)])
  /\ c \in Parting => kd = LeftHalf(f[Child(p, i)])
  /\ c = "saveChild" =>
       /\ kd = WithNext(LeftHalf(f[Child(p, i)]), g) /\ Child(p, i + 1) = g
       /\ g \in DOMAIN f /\ g # Root /\ g # Child(p, i) /\ g \notin Range(C) /\ f[g] = sb

\* What a growing writer knows: the pages it has written are not part of the tree yet.
GrowSafe(c, gr, p, i, g, kd, f, C) ==
  /\ gr => c \in Growing
  /\ c \in Before \cup {"saveRoot"} => gr
  /\ c \in Before => kd = f[Root] /\ is_full(kd)
  /\ gr /\ c \in Splitting \cup {"saveRoot"} =>
       /\ i = 1 /\ DOMAIN TopOf(p).children = IF c \in {"saveChild", "saveRoot"} THEN {1, 2} ELSE {1}
       /\ Child(p, 1) \in DOMAIN f /\ Child(p, 1) # Root /\ Child(p, 1) \notin Range(C)
  /\ gr /\ c \in Splitting => f[Child(p, 1)] = f[Root]
  /\ c = "saveRoot" =>
       /\ Child(p, 2) = g /\ g \in DOMAIN f /\ g # Root /\ g # Child(p, 1) /\ f[Root].keys # <<>>
       /\ f[g] = RightHalf(f[Root]) /\ f[Child(p, 1)] = WithNext(LeftHalf(f[Root]), g)

\* The allocated page is the next one, and is blank until it is filled.
Alloc(c, g, f, n) ==
  /\ c \in {"growBlank", "splitBlank"} => g = n
  /\ c \in {"growSave", "saveNew"} => g \in DOMAIN f /\ f[g] = Blank

\* Chain and left edge are no longer than there are pages, and shorter as long as a page that was
\* allocated is not part of them.
Room(c, gr, n, C, L) ==
  /\ Len(C) <= n /\ Len(L) <= n
  /\ c \in {"growSave", "saveNew", "saveChild", "saveRoot"} \/ (gr /\ c \in Splitting) => Len(C) < n /\ Len(L) < n

\* The acknowledged keys K are on the chain, and so is the key of a writer that has saved its leaf.
Stored(K, c, o, p, f, C) ==
  K \subseteq ChainKeys(f, C) /\ (c = "unwind" /\ ~TopOf(p).leaf => o.key \in ChainKeys(f, C))

\* The inductive invariant of the tree with one writer, as a predicate of the values of its locals.
Intact(c, gr, o, p, i, g, kd, sb, f, n, K, C, L) ==
  /\ c # "panicked" /\ Tree(f, C, L) /\ Room(c, gr, n, C, L) /\ Stored(K, c, o, p, f, C)
  /\ Alloc(c, g, f, n) /\ GrowSafe(c, gr, p, i, g, kd, f, C) /\ Halved(c, p, i, g, kd, sb, f, C)
  /\ c \in Walking /\ ~gr => PathSafe(c, o, p, i, f, C)

\* A frame stays true when the pages evolve.
LEMMA FrameEvolves ==
  ASSUME NEW f, NEW C, NEW h, NEW B, Evolved(f, C, h, B), NEW fr, NEW j, InnerBut(fr, j, f, C)
  PROVE  InnerBut(fr, j, h, B)
  BY DEF Evolved, FirstKept, InnerBut

\* Return.
LEMMA IntactIdle ==
  ASSUME NEW c, NEW gr, NEW o, NEW p, NEW i, NEW g, NEW kd, NEW sb, NEW f, NEW n, NEW K, NEW C, NEW L,
         Intact(c, gr, o, p, i, g, kd, sb, f, n, K, C, L)
  PROVE  Intact("idle", FALSE, NoOp, <<>>, 0, 0, Blank, Blank, f, n, K, C, L)
  BY DEF Intact, Room, Stored, Alloc, GrowSafe, Halved, Before, Growing, Splitting, Walking, Parting

\* Insert.
LEMMA IntactInsert ==
  ASSUME NEW gr \in BOOLEAN, NEW o, NEW p, NEW i, NEW g, NEW kd, NEW sb, NEW f, NEW n, NEW K, NEW C, NEW L,
         Intact("idle", gr, o, p, i, g, kd, sb, f, n, K, C, L), NEW oo
  PROVE  Intact("start", gr, oo, p, i, g, kd, sb, f, n, K, C, L)
  BY DEF Intact, Room, Stored, Alloc, GrowSafe, Halved, Before, Growing, Splitting, Walking, Parting

\* ReadRoot, at a full root.
LEMMA IntactGrow ==
  ASSUME NEW gr \in BOOLEAN, NEW o, NEW p, NEW i, NEW g, NEW kd, NEW sb, NEW f, NEW n, NEW K, NEW C, NEW L,
         Intact("start", gr, o, p, i, g, kd, sb, f, n, K, C, L), is_full(f[Root])
  PROVE  Intact("growAlloc", TRUE, o, p, i, g, f[Root], sb, f, n, K, C, L)
  BY DEF Intact, Room, Stored, Alloc, GrowSafe, Halved, Before, Growing, Splitting, Walking, Parting

\* A frame with a node just read.
LEMMA NewFrame ==
  ASSUME NEW f, NEW n, Filed(f, n), NEW C, NEW L, Tree(f, C, L), NEW id \in DOMAIN f,
         f[id] # Blank, f[id].leaf => id \in Range(C), NEW fr, fr.id = id, fr.node = f[id]
  PROVE  InnerBut(fr, 0, f, C) \/ LeafFrame(fr, f, C)
  <1>1. CASE f[id].leaf
    BY <1>1 DEF LeafFrame
  <1>2. CASE ~f[id].leaf
    <2>1. SafeNode(f[id], f, C)
      BY DEF Tree
    <2>2. f[id].children # <<>>
      <3>1. Sound(f[id], DOMAIN f)
        BY DEF Filed
      <3>2. Len(f[id].children) = Len(f[id].keys) + 1 /\ f[id] \in Node
        BY <3>1, <1>2 DEF Sound, Shaped, Closed
      <3>3. Len(f[id].keys) \in Nat
        BY <3>2, NodeFields
      <3>4. Len(<<>>) = 0
        OBVIOUS
      <3>5. Len(f[id].children) # 0
        BY <3>2, <3>3
      <3>6. QED BY <3>4, <3>5
    <2>3. QED BY <2>1, <2>2, <1>2 DEF InnerBut, SafeNode
  <1>3. QED BY <1>1, <1>2

\* The root may be read.
LEMMA RootSafe ==
  ASSUME NEW f, NEW n, Filed(f, n), NEW C, NEW L, Tree(f, C, L)
  PROVE  Root \in DOMAIN f /\ f[Root] # Blank /\ (f[Root].leaf => Root \in Range(C))
  <1>1. f[Root].leaf => 1 \in DOMAIN C /\ C[1] = Root
    BY SeqEnds DEF Tree, ChainOK, JoinOK
  <1>2. QED BY <1>1 DEF Tree, JoinOK, Filed, Range

\* ReadRoot at another root, and RereadRoot.
LEMMA IntactRoot ==
  ASSUME NEW c, c \in {"start", "reread"}, NEW gr \in BOOLEAN, NEW o, NEW p, NEW i, NEW g, NEW kd, NEW sb,
         NEW f, NEW n, NEW K, NEW C, NEW L, Filed(f, n),
         Intact(c, gr, o, p, i, g, kd, sb, f, n, K, C, L),
         NEW q, q = <<[id |-> Root, node |-> f[Root]]>>
  PROVE  Intact("visit", gr, o, q, i, g, kd, sb, f, n, K, C, L)
  <1>1. PICK fr : fr = [id |-> Root, node |-> f[Root]]
    OBVIOUS
  <1>2. fr.id = Root /\ fr.node = f[Root] /\ q = <<fr>>
    BY <1>1
  <1>3. fr \in Frame
    <2>1. f[Root] \in Node
      BY DEF Filed, Sound, Closed
    <2>2. QED BY <2>1, <1>1 DEF Frame, PageId, Root
  <1>4. Len(q) = 1 /\ DOMAIN q = {1} /\ q[1] = fr
    BY <1>2
  <1>5. Tree(f, C, L) /\ (InnerBut(fr, 0, f, C) \/ LeafFrame(fr, f, C))
    <2>1. Tree(f, C, L)
      BY DEF Intact
    <2>2. QED BY <2>1, <1>2, RootSafe, NewFrame
  <1>6. PathSafe("visit", o, q, i, f, C)
    BY <1>2, <1>4, <1>5 DEF PathSafe, Parting
  <1>7. ~gr
    BY DEF Intact, GrowSafe, Growing, Before, Splitting, Parting
  <1>8. QED BY <1>6, <1>7 DEF Intact, Room, Stored, Alloc, GrowSafe, Halved, Before, Growing, Splitting, Parting

\* AllocatePage.
LEMMA IntactAllocate ==
  ASSUME NEW c, NEW d, <<c, d>> \in {<<"growAlloc", "growBlank">>, <<"splitAlloc", "splitBlank">>},
         NEW gr \in BOOLEAN, NEW o, NEW p, NEW i, NEW g, NEW kd, NEW sb,
         NEW f, NEW n, NEW K, NEW C, NEW L, Intact(c, gr, o, p, i, g, kd, sb, f, n, K, C, L)
  PROVE  Intact(d, gr, o, p, i, n, kd, sb, f, n, K, C, L)
  <1>1. CASE c = "growAlloc" /\ d = "growBlank"
    BY <1>1 DEF Intact, Room, Stored, Alloc, GrowSafe, Halved, Before, Growing, Splitting, Walking, Parting
  <1>2. CASE c = "splitAlloc" /\ d = "splitBlank"
    <2>1. ~gr => PathSafe(d, o, p, i, f, C)
      BY <1>2 DEF Intact, PathSafe, Walking, Parting
    <2>2. GrowSafe(d, gr, p, i, n, kd, f, C)
      BY <1>2 DEF Intact, GrowSafe, Before, Growing, Splitting, Parting
    <2>3. Halved(d, p, i, n, kd, sb, f, C)
      BY <1>2 DEF Intact, Halved, Parting
    <2>4. Alloc(d, n, f, n) /\ Room(d, gr, n, C, L) /\ Stored(K, d, o, p, f, C)
      BY <1>2 DEF Intact, Alloc, Room, Stored, Splitting, Parting
    <2>5. QED BY <2>1, <2>2, <2>3, <2>4, <1>2 DEF Intact
  <1>3. QED BY <1>1, <1>2

\* The halves of a node point to what the node points to.
LEMMA HalvesSafe ==
  ASSUME NEW S, NEW node, Sound(node, S), node.keys # <<>>, NEW f, NEW C, SafeNode(node, f, C)
  PROVE  SafeNode(LeftHalf(node), f, C) /\ SafeNode(RightHalf(node), f, C)
  <1>1. PICK l, r : l = LeftHalf(node) /\ r = RightHalf(node)
    OBVIOUS
  <1>2. CASE node.leaf
    <2>1. l.children = <<>> /\ r.children = <<>>
      BY <1>1, <1>2, LeafHalves
    <2>2. DOMAIN <<>> = {}
      OBVIOUS
    <2>3. QED BY <2>1, <2>2, <1>1 DEF SafeNode
  <1>3. CASE ~node.leaf
    <2>0. node \in Node
      BY DEF Sound, Closed
    <2>1. PICK k, m \in Nat : k = Len(node.keys) /\ m = Middle(node) /\ m \in 1..k
      BY <2>0, NodeFields, MiddleRange
    <2>7. Sound(l, S) /\ Sound(r, S)
      BY <1>1, HalvesSound
    <2>8. l \in Node /\ r \in Node
      BY <2>7 DEF Sound, Closed
    <2>9. /\ Sound(l, S) /\ Sound(r, S) /\ Len(node.children) = Len(node.keys) + 1 /\ Len(l.children) = Middle(node)
          /\ Len(r.children) = Len(node.keys) - Middle(node) + 1
          /\ \A j \in 1..Middle(node) : l.children[j] = node.children[j]
          /\ \A j \in 1..Len(node.keys) - Middle(node) + 1 : r.children[j] = node.children[Middle(node) + j]
      BY <1>1, <1>3, <2>7, InnerHalves
    <2>2. /\ l \in Node /\ r \in Node /\ Len(node.children) = k + 1 /\ Len(l.children) = m /\ Len(r.children) = k - m + 1
          /\ \A j \in 1..m : l.children[j] = node.children[j]
          /\ \A j \in 1..k - m + 1 : r.children[j] = node.children[m + j]
      BY <2>1, <2>8, <2>9
    <2>3. DOMAIN node.children = 1..k + 1 /\ DOMAIN l.children = 1..m /\ DOMAIN r.children = 1..k - m + 1
      BY <2>0, <2>2, NodeFields, SeqDomain, SMTT(30)
    <2>4. \A j \in 1..m : j \in 1..k + 1
      BY <2>1
    <2>5. \A j \in 1..k - m + 1 : m + j \in 1..k + 1
      BY <2>1
    <2>6. QED BY <1>1, <2>2, <2>3, <2>4, <2>5 DEF SafeNode
  <1>4. QED BY <1>2, <1>3

\* BlankPage.
LEMMA IntactBlank ==
  ASSUME NEW c, NEW d, <<c, d>> \in {<<"growBlank", "growSave">>, <<"splitBlank", "saveNew">>},
         NEW gr \in BOOLEAN, NEW o, NEW p, NEW i, NEW g, NEW kd, NEW sb,
         NEW f, NEW n, NEW K, NEW C, NEW L, Intact(c, gr, o, p, i, g, kd, sb, f, n, K, C, L), Filed(f, n),
         c = "splitBlank" => Child(p, i) \in DOMAIN f, NEW h, Wrote(f, g, Blank, h)
  PROVE  Intact(d, gr, o, p, i, g, kd, sb, h, n + 1, K, C, L) /\ Later(f, C, L, h, C, L)
  <1>1. g = n /\ n \in Nat /\ g \notin DOMAIN f
    BY DEF Intact, Alloc, Filed
  <1>2. Tree(h, C, L) /\ Evolved(f, C, h, C) /\ ChainKeys(h, C) = ChainKeys(f, C) /\ Later(f, C, L, h, C, L)
    <2>1. SafeNode(Blank, f, C)
      <3>1. DOMAIN <<>> = {}
        OBVIOUS
      <3>2. QED BY <3>1, EmptyNodes DEF SafeNode
    <2>2. Tree(f, C, L)
      BY DEF Intact
    <2>3. QED BY <1>1, <2>1, <2>2, TreeApart
  <1>3. \A x \in DOMAIN f : x \in DOMAIN h /\ h[x] = f[x]
    BY <1>1 DEF Wrote
  <1>4. g \in DOMAIN h /\ h[g] = Blank /\ Root \in DOMAIN f
    BY DEF Wrote, Filed
  <1>5. Room(d, gr, n + 1, C, L)
    <2>1. Len(C) \in Nat /\ Len(L) \in Nat
      BY SeqDomain DEF Intact, Tree, ChainOK, LeftOK
    <2>2. Len(C) <= n /\ Len(L) <= n
      BY DEF Intact, Room
    <2>3. Len(C) < n + 1 /\ Len(L) < n + 1 /\ Len(C) <= n + 1 /\ Len(L) <= n + 1
      BY <2>1, <2>2, <1>1
    <2>4. QED BY <2>3 DEF Room
  <1>6. Stored(K, d, o, p, h, C) /\ Alloc(d, g, h, n + 1)
    BY <1>2, <1>4 DEF Intact, Stored, Alloc
  <1>7. CASE c = "growBlank" /\ d = "growSave"
    <2>1. GrowSafe(d, gr, p, i, g, kd, h, C)
      BY <1>3, <1>4, <1>7 DEF Intact, GrowSafe, Before, Growing, Splitting, Parting
    <2>2. Halved(d, p, i, g, kd, sb, h, C)
      BY <1>7 DEF Halved, Parting
    <2>3. d \notin Walking /\ d # "panicked"
      BY <1>7 DEF Walking, Parting
    <2>4. QED BY <2>1, <2>2, <2>3, <1>2, <1>5, <1>6 DEF Intact
  <1>8. CASE c = "splitBlank" /\ d = "saveNew"
    <2>1. GrowSafe(d, gr, p, i, g, kd, h, C)
      BY <1>3, <1>4, <1>8 DEF Intact, GrowSafe, Before, Growing, Splitting, Parting
    <2>2. Halved(d, p, i, g, kd, sb, h, C)
      BY <1>3, <1>8 DEF Intact, Halved, Parting
    <2>3. ~gr => PathSafe(d, o, p, i, h, C)
      <3>1. SUFFICES ASSUME ~gr PROVE PathSafe(d, o, p, i, h, C)
        OBVIOUS
      <3>2. PathSafe(c, o, p, i, f, C)
        BY <3>1, <1>8 DEF Intact, Walking, Parting
      <3>3. \A fr : InnerBut(fr, 0, f, C) => InnerBut(fr, 0, h, C)
        BY <1>2, FrameEvolves
      <3>4. QED BY <3>2, <3>3, <1>8 DEF PathSafe, Parting
    <2>4. QED BY <2>1, <2>2, <2>3, <1>2, <1>5, <1>6, <1>8 DEF Intact
  <1>9. QED BY <1>7, <1>8

\* The path that GrowSave makes.
LEMMA NewPath ==
  ASSUME NEW S, S \subseteq Nat, NEW g \in S
  PROVE  /\ Child(<<[id |-> Root, node |-> [new_internal EXCEPT !.children = <<g>>]]>>, 1) = g
         /\ DOMAIN TopOf(<<[id |-> Root, node |-> [new_internal EXCEPT !.children = <<g>>]]>>).children = {1}
  <1>1. PICK root : root = [new_internal EXCEPT !.children = <<g>>]
    OBVIOUS
  <1>2. Sound(root, S) /\ root \in Node /\ Len(root.children) = 1 /\ root.children[1] = g
    <2>1. Sound(root, S) /\ root \in Node /\ ~root.leaf /\ Len(root.children) = 1
      BY <1>1, NewRoot, ZenonT(40)
    <2>2. root.children = <<g>>
      BY EmptyNodes, <1>1 DEF Node, Blank
    <2>3. QED BY <2>1, <2>2
  <1>3. DOMAIN root.children = 1..1
    BY <1>2, NodeFields, SeqDomain
  <1>4. PICK fr : fr = [id |-> Root, node |-> root]
    OBVIOUS
  <1>5. fr.node = root
    BY <1>4
  <1>6. TopOf(<<fr>>) = root
    BY <1>5 DEF TopOf
  <1>7. Child(<<fr>>, 1) = g /\ DOMAIN TopOf(<<fr>>).children = {1}
    BY <1>2, <1>3, <1>6 DEF Child
  <1>8. QED BY <1>1, <1>4, <1>7

\* GrowSave.
LEMMA IntactGrowSave ==
  ASSUME NEW gr \in BOOLEAN, NEW o, NEW p, NEW i, NEW g, NEW kd, NEW sb,
         NEW f, NEW n, NEW K, NEW C, NEW L, Intact("growSave", gr, o, p, i, g, kd, sb, f, n, K, C, L), Filed(f, n),
         NEW h, Wrote(f, g, kd, h),
         NEW q, q = <<[id |-> Root, node |-> [new_internal EXCEPT !.children = <<g>>]]>>
  PROVE  Intact("split", gr, o, q, 1, g, kd, sb, h, n, K, C, L) /\ Later(f, C, L, h, C, L)
  <1>1. gr /\ kd = f[Root] /\ is_full(kd) /\ g \in DOMAIN f /\ f[g] = Blank /\ Tree(f, C, L)
    BY DEF Intact, GrowSafe, Alloc, Before
  <1>2. Root \in DOMAIN f /\ DOMAIN f \subseteq Nat /\ f[Root] # Blank
    BY <1>1 DEF Filed, Tree, JoinOK
  <1>3. g # Root /\ g \notin Range(C)
    BY <1>1, <1>2, EmptyNodes DEF Tree, ChainOK, Range
  <1>4. Tree(h, C, L) /\ ChainKeys(h, C) = ChainKeys(f, C) /\ Later(f, C, L, h, C, L)
    <2>1. SafeNode(kd, f, C)
      BY <1>1, <1>2 DEF Tree
    <2>2. QED BY <1>1, <2>1, TreeApart
  <1>5. DOMAIN h = DOMAIN f /\ h[g] = f[Root] /\ h[Root] = f[Root]
    BY <1>1, <1>2, <1>3 DEF Wrote
  <1>11. Child(q, 1) = g /\ DOMAIN TopOf(q).children = {1}
    <2>1. PICK S : S = DOMAIN f
      OBVIOUS
    <2>2. S \subseteq Nat /\ g \in S
      BY <2>1, <1>1, <1>2
    <2>3. QED BY <2>2, NewPath
  <1>12. Room("split", gr, n, C, L)
    BY <1>1 DEF Intact, Room
  <1>13. Stored(K, "split", o, q, h, C) /\ Alloc("split", g, h, n)
    BY <1>4 DEF Intact, Stored, Alloc
  <1>14. GrowSafe("split", gr, q, 1, g, kd, h, C)
    BY <1>1, <1>3, <1>5, <1>11 DEF GrowSafe, Before, Growing, Splitting, Parting
  <1>15. Halved("split", q, 1, g, kd, sb, h, C)
    BY <1>1, <1>5, <1>11 DEF Halved, Parting
  <1>16. QED BY <1>1, <1>4, <1>12, <1>13, <1>14, <1>15 DEF Intact

\* SplitRead.
LEMMA IntactSplit ==
  ASSUME NEW gr \in BOOLEAN, NEW o, NEW p, NEW i, NEW g, NEW kd, NEW sb,
         NEW f, NEW n, NEW K, NEW C, NEW L, Intact("split", gr, o, p, i, g, kd, sb, f, n, K, C, L),
         f[Child(p, i)].keys # <<>>, p \in Seq(Frame), p # <<>>,
         NEW top \in Node, top.leaf = TopOf(p).leaf, top.children = TopOf(p).children, NEW q, q = Put(p, top)
  PROVE  Intact("splitAlloc", gr, o, q, i, g, LeftHalf(f[Child(p, i)]), RightHalf(f[Child(p, i)]), f, n, K, C, L)
  <1>1. /\ q # <<>> /\ Len(q) = Len(p) /\ TopOf(q) = top /\ q[Len(p)].id = p[Len(p)].id /\ q[Len(p)].node = top
        /\ DOMAIN q = DOMAIN p /\ \A j \in DOMAIN p : j # Len(p) => q[j] = p[j]
    BY PathWith
  <1>2. Child(q, i) = Child(p, i) /\ Child(q, 1) = Child(p, 1) /\ TopOf(q).children = TopOf(p).children
    BY <1>1 DEF Child
  <1>3. PICK l, r : l = LeftHalf(f[Child(p, i)]) /\ r = RightHalf(f[Child(p, i)])
    OBVIOUS
  <1>4. Tree(f, C, L) /\ Room("splitAlloc", gr, n, C, L) /\ Stored(K, "splitAlloc", o, q, f, C) /\ Alloc("splitAlloc", g, f, n)
    BY DEF Intact, Room, Stored, Alloc, Splitting, Parting
  <1>5. GrowSafe("splitAlloc", gr, q, i, g, l, f, C)
    BY <1>2 DEF Intact, GrowSafe, Before, Growing, Splitting, Parting
  <1>6. Halved("splitAlloc", q, i, g, l, r, f, C)
    BY <1>2, <1>3 DEF Halved, Parting
  <1>7. ~gr => PathSafe("splitAlloc", o, q, i, f, C)
    <2>1. SUFFICES ASSUME ~gr PROVE PathSafe("splitAlloc", o, q, i, f, C)
      OBVIOUS
    <2>2. PathSafe("split", o, p, i, f, C)
      BY <2>1 DEF Intact, Walking
    <2>3. InnerBut(q[Len(p)], 0, f, C)
      <3>1. InnerBut(p[Len(p)], 0, f, C)
        BY <2>2 DEF PathSafe
      <3>2. ~top.leaf
        BY <3>1 DEF InnerBut, TopOf
      <3>3. top.children = p[Len(p)].node.children
        BY DEF TopOf
      <3>4. QED BY <3>1, <3>2, <3>3, <1>1 DEF InnerBut
    <2>4. q[1].id = Root
      <3>1. p[1].id = Root
        BY <2>2 DEF PathSafe
      <3>2. 1 \in DOMAIN p
        BY SeqEnds
      <3>3. CASE Len(p) = 1
        BY <3>1, <3>3, <1>1
      <3>4. CASE Len(p) # 1
        BY <3>1, <3>2, <3>4, <1>1
      <3>5. QED BY <3>3, <3>4
    <2>5. QED BY <2>2, <2>3, <2>4, <1>1 DEF PathSafe, Parting
  <1>8. QED BY <1>3, <1>4, <1>5, <1>6, <1>7 DEF Intact

\* The child that is split is neither blank nor the root.
LEMMA ChildNotBlank ==
  ASSUME NEW c, c \in Splitting, NEW gr \in BOOLEAN, NEW o, NEW p, NEW i, NEW g, NEW kd, NEW sb,
         NEW f, NEW n, NEW K, NEW C, NEW L, Intact(c, gr, o, p, i, g, kd, sb, f, n, K, C, L),
         i \in DOMAIN TopOf(p).children, i \in Nat \ {0}
  PROVE  /\ f[Child(p, i)] # Blank /\ Child(p, i) \in DOMAIN f /\ Child(p, i) # Root
         /\ ~gr => Safe(f, C, Child(p, i))
         /\ gr => i = 1 /\ Child(p, i) \notin Range(C) /\ f[Child(p, i)] = f[Root]
  <1>1. CASE gr
    <2>1. i = 1 /\ Child(p, i) \in DOMAIN f /\ Child(p, i) # Root /\ Child(p, i) \notin Range(C) /\ f[Child(p, i)] = f[Root]
      BY <1>1 DEF Intact, GrowSafe
    <2>2. f[Root] # Blank
      BY DEF Intact, Tree, JoinOK
    <2>3. QED BY <2>1, <2>2, <1>1
  <1>2. CASE ~gr
    <2>1. PathSafe(c, o, p, i, f, C)
      BY <1>2 DEF Intact, Walking, Splitting
    <2>2. InnerBut(p[Len(p)], 0, f, C) \/ InnerBut(p[Len(p)], i + 1, f, C)
      BY <2>1 DEF PathSafe, Splitting
    <2>3. i # 0 => Safe(f, C, Child(p, i))
      <3>1. i # i + 1
        OBVIOUS
      <3>2. QED BY <2>2, <3>1 DEF InnerBut, Child, TopOf
    <2>5. Safe(f, C, Child(p, i))
      BY <2>3
    <2>6. QED BY <2>5, <1>2 DEF Safe
  <1>3. QED BY <1>1, <1>2

\* A path whose last node was changed while the pages evolved.
LEMMA PutPath ==
  ASSUME NEW p \in Seq(Frame), p # <<>>, NEW node \in Node, NEW q, q = Put(p, node),
         NEW f, NEW C, NEW h, NEW B, Evolved(f, C, h, B), p[1].id = Root,
         \A x \in DOMAIN p : x # Len(p) => InnerBut(p[x], 0, f, C)
  PROVE  /\ q # <<>> /\ Len(q) = Len(p) /\ q[1].id = Root /\ TopOf(q) = node
         /\ \A x \in DOMAIN q : x # Len(q) => InnerBut(q[x], 0, h, B)
         /\ q[Len(q)].id = p[Len(p)].id /\ q[Len(q)].node = node
  <1>1. /\ q # <<>> /\ Len(q) = Len(p) /\ TopOf(q) = node /\ q[Len(p)].id = p[Len(p)].id /\ q[Len(p)].node = node
        /\ DOMAIN q = DOMAIN p /\ \A j \in DOMAIN p : j # Len(p) => q[j] = p[j]
    BY PathWith
  <1>2. q[1].id = Root
    <2>1. 1 \in DOMAIN p
      BY SeqEnds
    <2>2. CASE Len(p) = 1
      BY <2>2, <1>1
    <2>3. CASE Len(p) # 1
      BY <2>1, <2>3, <1>1
    <2>4. QED BY <2>2, <2>3
  <1>3. \A x \in DOMAIN q : x # Len(q) => InnerBut(q[x], 0, h, B)
    <2>1. \A fr : InnerBut(fr, 0, f, C) => InnerBut(fr, 0, h, B)
      BY FrameEvolves
    <2>2. QED BY <2>1, <1>1
  <1>4. QED BY <1>1, <1>2, <1>3

\* new is the parent t with child g behind the i-th.
Added(t, i, g, new) ==
  /\ new \in Node /\ ~new.leaf /\ new.children # <<>>
  /\ new.children[i] = t.children[i] /\ new.children[i + 1] = g /\ new.children[1] = t.children[1]
  /\ \A j \in DOMAIN new.children : j # i + 1 =>
       \E x \in DOMAIN t.children : x # 0 /\ new.children[j] = t.children[x]
  /\ DOMAIN t.children = {1} => DOMAIN new.children = {1, 2}

\* WithChild does that.
LEMMA ChildAdded ==
  ASSUME NEW S, S \subseteq Nat, NEW t, Open(t, S), NEW i, i \in 1..Len(t.children), NEW g, g \in S,
         NEW new, new = WithChild(t, i, g)
  PROVE  Added(t, i, g, new)
  <1>1. t.children \in Seq(PageId) /\ new \in Node /\ ~new.leaf
    BY ParentSplitDone, NodeFields DEF Open, Closed
  <1>2. PICK n \in Nat : n = Len(t.children)
    BY <1>1
  <1>3. /\ Len(new.children) = n + 1 /\ i \in 1..n
        /\ \A j \in 1..n + 1 : new.children[j] =
             IF j < i + 1 THEN t.children[j] ELSE IF j = i + 1 THEN g ELSE t.children[j - 1]
    <2>1. PICK cs, ts, h : cs = InsertAt(t.children, i + 1, g) /\ ts = t.children /\ h = i + 1
      OBVIOUS
    <2>2. t \in Node /\ new = [t EXCEPT !.children = cs]
      BY <2>1 DEF WithChild, Open, Closed
    <2>3. new.children = cs
      BY <2>2 DEF Node
    <2>4. ts \in Seq(PageId) /\ h \in 1..Len(ts) + 1 /\ g \in PageId
      BY <1>1, <1>2, <2>1 DEF PageId
    <2>5. Inserted(PageId, ts, h, g, InsertAt(ts, h, g))
      BY <2>4, InsertAny
    <2>6. Inserted(PageId, ts, h, g, cs)
      BY <2>1, <2>5
    <2>7. QED BY <2>1, <2>3, <2>6, <1>2 DEF Inserted
  <1>4. DOMAIN new.children = 1..n + 1 /\ DOMAIN t.children = 1..n /\ new.children \in Seq(PageId)
    BY <1>1, <1>2, <1>3, NodeFields, SeqDomain
  <1>5. i \in 1..n + 1 /\ i < i + 1 /\ i + 1 \in 1..n + 1 /\ ~(i + 1 < i + 1) /\ 1 \in 1..n + 1 /\ 1 < i + 1
    BY <1>3
  <1>6. new.children[i] = t.children[i] /\ new.children[i + 1] = g /\ new.children[1] = t.children[1]
    BY <1>3, <1>5
  <1>7. ASSUME NEW j \in 1..n + 1, j # i + 1
        PROVE  \E x \in 1..n : x # 0 /\ new.children[j] = t.children[x]
    <2>1. CASE j < i + 1
      <3>1. j \in 1..n /\ j # 0 /\ new.children[j] = t.children[j]
        BY <2>1, <1>3
      <3>2. QED BY <3>1
    <2>2. CASE ~(j < i + 1)
      <3>1. j - 1 \in 1..n /\ j - 1 # 0 /\ new.children[j] = t.children[j - 1]
        BY <2>2, <1>3, <1>7
      <3>2. QED BY <3>1
    <2>3. QED BY <2>1, <2>2
  <1>8. new.children # <<>>
    <2>1. Len(<<>>) = 0 /\ n + 1 # 0
      OBVIOUS
    <2>2. QED BY <2>1, <1>3
  <1>9. 1..n = {1} => 1..n + 1 = {1, 2}
    <2>1. n \in 1..n
      BY <1>3
    <2>2. SUFFICES ASSUME 1..n = {1} PROVE 1..n + 1 = {1, 2}
      OBVIOUS
    <2>5. n \in {1}
      BY <2>1, <2>2, Zenon
    <2>3. n = 1
      BY <2>5
    <2>4. QED BY <2>3
  <1>10. QED BY <1>1, <1>4, <1>6, <1>7, <1>8, <1>9 DEF Added

\* SaveNew.
LEMMA IntactSaveNew ==
  ASSUME NEW gr \in BOOLEAN, NEW o, NEW p, NEW i, NEW g, NEW kd, NEW sb,
         NEW f, NEW n, NEW K, NEW C, NEW L, Intact("saveNew", gr, o, p, i, g, kd, sb, f, n, K, C, L), Filed(f, n),
         WriterInv("saveNew", o, p, i, g, kd, sb, DOMAIN f, n), NEW h, Wrote(f, g, sb, h),
         NEW q, q = Put(p, WithChild(TopOf(p), i, g)), NEW kk, kk = WithNext(kd, g)
  PROVE  Intact("saveChild", gr, o, q, i, g, kk, sb, h, n, K, C, L) /\ Later(f, C, L, h, C, L)
  <1>1. PICK S : S = DOMAIN f
    OBVIOUS
  <1>2. S \subseteq Nat /\ Root \in S
    BY <1>1 DEF Filed
  <1>3. /\ p \in Seq(Frame) /\ p # <<>> /\ Open(TopOf(p), S) /\ i \in 1..Len(TopOf(p).children)
    <2>1. WriterInv("saveNew", o, p, i, g, kd, sb, S, n)
      BY <1>1
    <2>2. p \in Seq(Frame) /\ p # <<>> /\ Open(TopOf(p), S)
      BY <2>1, TopSound DEF Walking, Parting
    <2>3. QED BY <2>1, <2>2 DEF WriterInv, Parting
  <1>4. PICK t, new : t = TopOf(p) /\ new = WithChild(t, i, g)
    OBVIOUS
  <1>5. g \in S /\ f[g] = Blank /\ Tree(f, C, L)
    BY <1>1 DEF Intact, Alloc
  <1>6. /\ new \in Node /\ ~new.leaf /\ new.children # <<>>
        /\ new.children[i] = t.children[i] /\ new.children[i + 1] = g /\ new.children[1] = t.children[1]
        /\ \A j \in DOMAIN new.children : j # i + 1 =>
             \E x \in DOMAIN t.children : x # 0 /\ new.children[j] = t.children[x]
        /\ DOMAIN t.children = {1} => DOMAIN new.children = {1, 2}
    <2>1. Open(t, S) /\ i \in 1..Len(t.children) /\ new = WithChild(t, i, g)
      BY <1>3, <1>4
    <2>2. Added(t, i, g, new)
      BY <2>1, <1>2, <1>5, ChildAdded
    <2>3. QED BY <2>2 DEF Added
  <1>7. q = Put(p, new) /\ TopOf(q) = new
    BY <1>3, <1>4, <1>6, PathWith
  <1>8. PICK c : c = Child(p, i)
    OBVIOUS
  <1>9. i \in Nat \ {0} /\ i \in DOMAIN TopOf(p).children
    <2>1. TopOf(p).children \in Seq(PageId)
      BY <1>3, NodeFields DEF Open, Closed
    <2>2. QED BY <2>1, <1>3, SeqDomain
  <1>10. /\ f[c] # Blank /\ c \in S /\ c # Root /\ (~gr => Safe(f, C, c))
         /\ (gr => i = 1 /\ c \notin Range(C) /\ f[c] = f[Root])
    <2>1. "saveNew" \in Splitting
      BY DEF Splitting, Parting
    <2>2. QED BY <2>1, <1>1, <1>8, <1>9, ChildNotBlank
  <1>11. f[c].keys # <<>> /\ sb = RightHalf(f[c]) /\ kd = LeftHalf(f[c])
    BY <1>8 DEF Intact, Halved, Parting
  <1>12. Sound(f[c], S)
    BY <1>1, <1>10 DEF Filed
  <1>13. /\ Tree(h, C, L) /\ Evolved(f, C, h, C) /\ ChainKeys(h, C) = ChainKeys(f, C)
         /\ Later(f, C, L, h, C, L)
    <2>1. SafeNode(f[c], f, C)
      BY <1>1, <1>5, <1>10 DEF Tree
    <2>2. PICK cn : cn = f[c]
      OBVIOUS
    <2>3. SafeNode(RightHalf(cn), f, C)
      BY <2>1, <2>2, <1>11, <1>12, HalvesSafe
    <2>4. SafeNode(sb, f, C)
      BY <2>2, <2>3, <1>11
    <2>5. QED BY <2>4, <1>5, TreeApart
  <1>14. g # Root /\ g # c /\ g \notin Range(C)
    <2>1. f[Root] # Blank
      BY <1>5 DEF Tree, JoinOK
    <2>2. g \notin Range(C)
      BY <1>5, EmptyNodes DEF Tree, ChainOK, Range
    <2>3. QED BY <2>1, <2>2, <1>5, <1>10
  <1>15. DOMAIN h = S /\ h[g] = sb /\ h[c] = f[c] /\ h[Root] = f[Root]
    BY <1>1, <1>2, <1>5, <1>10, <1>14 DEF Wrote
  <1>16. Child(q, i) = c /\ Child(q, i + 1) = g /\ Child(q, 1) = Child(p, 1)
    BY <1>4, <1>6, <1>7, <1>8 DEF Child
  <1>17. Halved("saveChild", q, i, g, kk, sb, h, C)
    BY <1>5, <1>11, <1>14, <1>15, <1>16 DEF Halved, Parting
  <1>18. GrowSafe("saveChild", gr, q, i, g, kk, h, C)
    <2>1. CASE gr
      <3>1. i = 1 /\ DOMAIN t.children = {1}
        BY <2>1, <1>4 DEF Intact, GrowSafe, Splitting, Parting
      <3>2. DOMAIN TopOf(q).children = {1, 2} /\ Child(q, 1) = c
        BY <3>1, <1>6, <1>7, <1>16
      <3>3. c \in DOMAIN h /\ c # Root /\ c \notin Range(C) /\ h[c] = h[Root]
        BY <2>1, <1>10, <1>15
      <3>4. QED BY <3>1, <3>2, <3>3 DEF GrowSafe, Growing, Before, Splitting, Parting
    <2>2. CASE ~gr
      BY <2>2 DEF GrowSafe, Before
    <2>3. QED BY <2>1, <2>2
  <1>19. ~gr => PathSafe("saveChild", o, q, i, h, C)
    <2>1. SUFFICES ASSUME ~gr PROVE PathSafe("saveChild", o, q, i, h, C)
      OBVIOUS
    <2>2. PathSafe("saveNew", o, p, i, f, C)
      BY <2>1 DEF Intact, Walking, Parting
    <2>3. /\ p[1].id = Root /\ InnerBut(p[Len(p)], 0, f, C)
          /\ \A x \in DOMAIN p : x # Len(p) => InnerBut(p[x], 0, f, C)
      BY <2>2 DEF PathSafe, Parting
    <2>4. /\ q # <<>> /\ Len(q) = Len(p) /\ q[1].id = Root /\ TopOf(q) = new
          /\ \A x \in DOMAIN q : x # Len(q) => InnerBut(q[x], 0, h, C)
          /\ q[Len(q)].id = p[Len(p)].id /\ q[Len(q)].node = new
      BY <2>3, <1>3, <1>6, <1>7, <1>13, PutPath
    <2>5. InnerBut(p[Len(p)], 0, h, C) /\ p[Len(p)].node = t
      BY <2>3, <1>4, <1>13, FrameEvolves DEF TopOf
    <2>6. InnerBut(q[Len(q)], i + 1, h, C)
      BY <2>4, <2>5, <1>6 DEF InnerBut
    <2>7. QED BY <2>4, <2>6 DEF PathSafe, Parting
  <1>20. Room("saveChild", gr, n, C, L)
    BY DEF Intact, Room
  <1>21. Stored(K, "saveChild", o, q, h, C) /\ Alloc("saveChild", g, h, n)
    BY <1>13 DEF Intact, Stored, Alloc
  <1>22. QED BY <1>13, <1>17, <1>18, <1>19, <1>20, <1>21 DEF Intact

\* Linking changes nothing but next.
LEMMA WithNextFacts ==
  ASSUME NEW node \in Node, NEW g \in Nat, NEW new, new = WithNext(node, g)
  PROVE  /\ new.leaf = node.leaf /\ new.keys = node.keys /\ new.children = node.children
         /\ (node.leaf => new.next = g) /\ (~node.leaf => new = node)
  <1>1. PICK x : x = IF node.leaf THEN g ELSE node.next
    OBVIOUS
  <1>2. new = [node EXCEPT !.next = x]
    BY <1>1 DEF WithNext
  <1>3. new.leaf = node.leaf /\ new.keys = node.keys /\ new.children = node.children /\ new.next = x
    BY <1>2 DEF Node
  <1>4. ~node.leaf => new = node
    BY <1>1, <1>2 DEF Node
  <1>5. QED BY <1>1, <1>3, <1>4

\* The halves kd and sb of the node old, the left one linked to page g.
Split(old, kd, sb, g, f, C) ==
  /\ kd.leaf = old.leaf /\ sb.leaf = old.leaf /\ SafeNode(kd, f, C)
  /\ old.leaf => /\ kd.children = <<>> /\ kd.next = g /\ sb.next = old.next
                 /\ Range(old.keys) = Range(kd.keys) \cup Range(sb.keys)
  /\ ~old.leaf => /\ kd # Blank /\ sb # Blank /\ old.children # <<>> /\ kd.children # <<>>
                  /\ kd.children[1] = old.children[1]

\* The elements of s are those of a and those of b.
Cut(s, a, b) == Range(s) = Range(a) \cup Range(b)

\* A sequence cut in two.
LEMMA CutKeys ==
  ASSUME NEW S, NEW s \in Seq(S), NEW m \in 1..Len(s), NEW a, a = SubSeq(s, 1, m - 1),
         NEW b, b = SubSeq(s, m, Len(s))
  PROVE  Cut(s, a, b)
  <1>1. PICK n \in Nat : n = Len(s)
    OBVIOUS
  <1>2. 1 \in 1..n + 1 /\ m - 1 \in 0..n /\ 1 <= m - 1 + 1 /\ m \in 1..n + 1 /\ n \in 0..n /\ m <= n + 1
        /\ m - 1 - 1 + 1 = m - 1 /\ m \in 1..n
    BY <1>1
  <1>3. a \in Seq(S) /\ Len(a) = m - 1 /\ \A j \in 1..m - 1 : a[j] = s[1 + j - 1]
    BY <1>1, <1>2, SubSeqFacts
  <1>4. b \in Seq(S) /\ Len(b) = n - m + 1 /\ \A j \in 1..n - m + 1 : b[j] = s[m + j - 1]
    BY <1>1, <1>2, SubSeqFacts
  <1>5. DOMAIN s = 1..n /\ DOMAIN a = 1..m - 1 /\ DOMAIN b = 1..n - m + 1
    BY <1>1, <1>3, <1>4, SeqDomain
  <1>6. ASSUME NEW j \in 1..n PROVE s[j] \in Range(a) \cup Range(b)
    <2>1. CASE j < m
      <3>1. j \in 1..m - 1 /\ a[j] = s[j]
        BY <2>1, <1>2, <1>3
      <3>2. QED BY <3>1, <1>5 DEF Range
    <2>2. CASE ~(j < m)
      <3>1. j - m + 1 \in 1..n - m + 1 /\ m + (j - m + 1) - 1 = j
        BY <2>2, <1>2
      <3>2. b[j - m + 1] = s[j]
        BY <3>1, <1>4
      <3>3. QED BY <3>1, <3>2, <1>5 DEF Range
    <2>3. QED BY <2>1, <2>2
  <1>7. ASSUME NEW j \in 1..m - 1 PROVE a[j] \in Range(s)
    <2>1. j \in 1..n /\ a[j] = s[j]
      BY <1>2, <1>3
    <2>2. QED BY <2>1, <1>5 DEF Range
  <1>8. ASSUME NEW j \in 1..n - m + 1 PROVE b[j] \in Range(s)
    <2>1. m + j - 1 \in 1..n
      BY <1>2
    <2>2. QED BY <2>1, <1>4, <1>5 DEF Range
  <1>9. Range(s) \subseteq Range(a) \cup Range(b)
    BY <1>5, <1>6 DEF Range
  <1>10. Range(a) \subseteq Range(s) /\ Range(b) \subseteq Range(s)
    BY <1>5, <1>7, <1>8 DEF Range
  <1>11. QED BY <1>9, <1>10 DEF Cut

\* The halves of a leaf have its keys.
LEMMA LeafHalvesKeys ==
  ASSUME NEW S, NEW node, Sound(node, S), node.leaf, node.keys # <<>>,
         NEW l, NEW r, l = LeftHalf(node), r = RightHalf(node)
  PROVE  Range(node.keys) = Range(l.keys) \cup Range(r.keys)
  <1>1. node \in Node /\ node.keys \in Seq(Keys) /\ node.values \in Seq(Value)
    BY NodeFields DEF Sound, Closed
  <1>2. PICK m : m = Middle(node)
    OBVIOUS
  <1>3. m \in 1..Len(node.keys)
    BY <1>1, <1>2, MiddleRange
  <1>4. PICK a, b : a = SubSeq(node.keys, 1, m - 1) /\ b = SubSeq(node.keys, m, Len(node.keys))
    OBVIOUS
  <1>5. PICK c, d : c = SubSeq(node.values, 1, m - 1) /\ d = SubSeq(node.values, m, Len(node.values))
    OBVIOUS
  <1>6. l = [node EXCEPT !.keys = a, !.values = c] /\ r = [node EXCEPT !.keys = b, !.values = d]
    BY <1>2, <1>4, <1>5 DEF LeftHalf, RightHalf
  <1>7. l.keys = a /\ r.keys = b
    BY <1>1, <1>6 DEF Node
  <1>8. PICK s \in Seq(Keys) : s = node.keys
    BY <1>1
  <1>9. m \in 1..Len(s) /\ a = SubSeq(s, 1, m - 1) /\ b = SubSeq(s, m, Len(s))
    BY <1>3, <1>4, <1>8
  <1>10. Cut(s, a, b)
    BY <1>9, CutKeys
  <1>11. QED BY <1>7, <1>8, <1>10 DEF Cut

\* LeftHalf and RightHalf are such halves.
LEMMA SplitFacts ==
  ASSUME NEW S, NEW old, Sound(old, S), old.keys # <<>>, NEW g \in Nat,
         NEW kd, kd = WithNext(LeftHalf(old), g), NEW sb, sb = RightHalf(old),
         NEW f, NEW C, SafeNode(old, f, C)
  PROVE  Split(old, kd, sb, g, f, C)
  <1>1. PICK l : l = LeftHalf(old)
    OBVIOUS
  <1>2. Sound(l, S) /\ Sound(sb, S) /\ SafeNode(l, f, C)
    <2>1. Sound(LeftHalf(old), S) /\ Sound(RightHalf(old), S)
      BY HalvesSound
    <2>2. SafeNode(LeftHalf(old), f, C)
      BY HalvesSafe
    <2>3. QED BY <2>1, <2>2, <1>1
  <1>3. l \in Node /\ old \in Node
    BY <1>2 DEF Sound, Closed
  <1>4. /\ kd.leaf = l.leaf /\ kd.keys = l.keys /\ kd.children = l.children
        /\ (l.leaf => kd.next = g) /\ (~l.leaf => kd = l)
    BY <1>1, <1>3, WithNextFacts
  <1>5. SafeNode(kd, f, C)
    BY <1>2, <1>4 DEF SafeNode
  <1>6. CASE old.leaf
    <2>1. /\ Sound(l, S) /\ Sound(sb, S) /\ l.leaf /\ sb.leaf /\ sb.next = old.next /\ l.children = <<>>
          /\ Range(old.keys) = Range(l.keys) \cup Range(sb.keys)
      <3>1. Sound(l, S) /\ Sound(sb, S) /\ l.leaf /\ sb.leaf /\ sb.next = old.next /\ l.children = <<>>
        BY <1>1, <1>6, LeafHalves, SMTT(30)
      <3>2. Range(old.keys) = Range(l.keys) \cup Range(sb.keys)
        BY <1>1, <1>6, LeafHalvesKeys
      <3>3. QED BY <3>1, <3>2
    <2>2. kd.leaf = old.leaf /\ sb.leaf = old.leaf
      <3>1. kd.leaf \in BOOLEAN /\ sb.leaf \in BOOLEAN /\ old.leaf \in BOOLEAN
        BY <1>2, <1>3, <1>4, NodeFields DEF Sound, Closed
      <3>2. kd.leaf
        BY <2>1, <1>4
      <3>3. QED BY <3>1, <3>2, <2>1, <1>6
    <2>3. QED BY <2>1, <2>2, <1>4, <1>5, <1>6 DEF Split
  <1>7. CASE ~old.leaf
    <2>1. Sound(l, S) /\ Sound(sb, S) /\ ~l.leaf /\ ~sb.leaf /\ l # Blank /\ sb # Blank
      BY <1>1, <1>7, InnerHalves
    <2>2. /\ Sound(l, S) /\ Sound(sb, S)
          /\ Len(old.children) = Len(old.keys) + 1 /\ Len(l.children) = Middle(old)
          /\ \A j \in 1..Middle(old) : l.children[j] = old.children[j]
      BY <1>1, <1>7, <2>1, InnerHalves
    <2>3. Middle(old) \in 1..Len(old.keys) /\ Len(old.keys) \in Nat
      BY <1>3, MiddleRange, NodeFields
    <2>4. 1 \in 1..Middle(old) /\ Middle(old) # 0 /\ Len(old.keys) + 1 # 0 /\ Len(<<>>) = 0
      BY <2>3
    <2>5. l.children # <<>> /\ old.children # <<>> /\ l.children[1] = old.children[1]
      BY <2>2, <2>4
    <2>6. kd.leaf = old.leaf /\ sb.leaf = old.leaf
      <3>1. kd.leaf \in BOOLEAN /\ sb.leaf \in BOOLEAN /\ old.leaf \in BOOLEAN
        BY <1>2, <1>3, <1>4, NodeFields DEF Sound, Closed
      <3>2. ~kd.leaf
        BY <2>1, <1>4
      <3>3. QED BY <3>1, <3>2, <2>1, <1>7
    <2>7. kd = l
      BY <2>1, <1>4
    <2>8. QED BY <2>1, <2>5, <2>6, <2>7, <1>5, <1>7 DEF Split
  <1>8. QED BY <1>6, <1>7

\* What SaveChild writes over: page id, whose right half is saved in page g.
SavedOK(gr, p, i, g, kd, sb, f, C, id) ==
  /\ Split(f[id], kd, sb, g, f, C) /\ id \in DOMAIN f /\ id # Root /\ f[id] # Blank /\ id # g
  /\ Child(p, i + 1) = g /\ g \in DOMAIN f /\ g # Root /\ g \notin Range(C) /\ f[g] = sb
  /\ kd = WithNext(LeftHalf(f[id]), g) /\ sb = RightHalf(f[id]) /\ f[id].keys # <<>>
  /\ ~gr => Safe(f, C, id)
  /\ gr => i = 1 /\ id \notin Range(C) /\ f[id] = f[Root]

\* SaveChild writes over such a page.
LEMMA SavedHalf ==
  ASSUME NEW gr \in BOOLEAN, NEW o, NEW p, NEW i, NEW g, NEW kd, NEW sb,
         NEW f, NEW n, NEW K, NEW C, NEW L, Intact("saveChild", gr, o, p, i, g, kd, sb, f, n, K, C, L), Filed(f, n),
         WriterInv("saveChild", o, p, i, g, kd, sb, DOMAIN f, n), NEW id, id = Child(p, i)
  PROVE  SavedOK(gr, p, i, g, kd, sb, f, C, id)
  <1>1. PICK S : S = DOMAIN f
    OBVIOUS
  <1>2. /\ f[id].keys # <<>> /\ sb = RightHalf(f[id]) /\ kd = WithNext(LeftHalf(f[id]), g) /\ Child(p, i + 1) = g
        /\ g \in S /\ g # Root /\ g # id /\ g \notin Range(C) /\ f[g] = sb
    BY <1>1 DEF Intact, Halved
  <1>3. i \in Nat \ {0} /\ i \in DOMAIN TopOf(p).children
    <2>0. WriterInv("saveChild", o, p, i, g, kd, sb, S, n)
      BY <1>1
    <2>1. PICK t : t = TopOf(p)
      OBVIOUS
    <2>2. ~t.leaf /\ i \in 1..Len(t.keys)
      BY <2>0, <2>1 DEF WriterInv
    <2>3. Sound(t, S) /\ t \in Node
      BY <2>0, <2>1, TopSound DEF Walking, Parting, Sound, Closed
    <2>4. t.keys # <<>>
      BY <2>2, <2>3, NodeFields, RangeNotEmpty
    <2>5. Len(t.children) = Len(t.keys) + 1
      BY <2>2, <2>3, <2>4, InnerSize
    <2>6. Len(t.keys) \in Nat /\ t.children \in Seq(PageId)
      BY <2>3, NodeFields
    <2>7. i \in 1..Len(t.children)
      BY <2>2, <2>5, <2>6
    <2>8. QED BY <2>1, <2>6, <2>7, SeqDomain
  <1>4. /\ f[id] # Blank /\ id \in S /\ id # Root /\ (~gr => Safe(f, C, id))
        /\ (gr => i = 1 /\ id \notin Range(C) /\ f[id] = f[Root])
    <2>1. "saveChild" \in Splitting
      BY DEF Splitting
    <2>2. QED BY <2>1, <1>1, <1>3, ChildNotBlank
  <1>5. Split(f[id], kd, sb, g, f, C)
    <2>1. PICK old : old = f[id]
      OBVIOUS
    <2>2. Sound(old, S)
      BY <2>1, <1>1, <1>4 DEF Filed
    <2>3. SafeNode(old, f, C)
      BY <2>1, <1>1, <1>4 DEF Intact, Tree
    <2>4. g \in Nat
      BY <1>1, <1>2 DEF Filed
    <2>5. old.keys # <<>> /\ kd = WithNext(LeftHalf(old), g) /\ sb = RightHalf(old)
      BY <2>1, <1>2
    <2>6. QED BY <2>1, <2>2, <2>3, <2>4, <2>5, SplitFacts
  <1>6. QED BY <1>1, <1>2, <1>4, <1>5 DEF SavedOK

\* SaveChild, of a growing writer.
LEMMA IntactSaveChildRoot ==
  ASSUME NEW gr \in BOOLEAN, gr, NEW o, NEW p, NEW i, NEW g, NEW kd, NEW sb,
         NEW f, NEW n, NEW K, NEW C, NEW L, Intact("saveChild", gr, o, p, i, g, kd, sb, f, n, K, C, L), Filed(f, n),
         WriterInv("saveChild", o, p, i, g, kd, sb, DOMAIN f, n), NEW h, Wrote(f, Child(p, i), kd, h)
  PROVE  Intact("saveRoot", gr, o, p, i, g, kd, sb, h, n, K, C, L) /\ Later(f, C, L, h, C, L)
  <1>1. PICK id : id = Child(p, i)
    OBVIOUS
  <1>2. /\ Split(f[id], kd, sb, g, f, C) /\ id \in DOMAIN f /\ id # Root /\ f[id] # Blank /\ id # g
        /\ Child(p, i + 1) = g /\ g \in DOMAIN f /\ g # Root /\ g \notin Range(C) /\ f[g] = sb
        /\ kd = WithNext(LeftHalf(f[id]), g) /\ sb = RightHalf(f[id]) /\ f[id].keys # <<>>
        /\ i = 1 /\ id \notin Range(C) /\ f[id] = f[Root]
    <2>1. SavedOK(gr, p, i, g, kd, sb, f, C, id)
      BY <1>1, SavedHalf
    <2>2. QED BY <2>1 DEF SavedOK
  <1>3. Tree(f, C, L) /\ Wrote(f, id, kd, h) /\ Root \in DOMAIN f
    BY <1>1 DEF Intact, Filed
  <1>4. Tree(h, C, L) /\ ChainKeys(h, C) = ChainKeys(f, C) /\ Later(f, C, L, h, C, L)
    <2>1. SafeNode(kd, f, C)
      BY <1>2 DEF Split
    <2>2. CASE f[id].leaf
      BY <2>1, <2>2, <1>2, <1>3, TreeApart
    <2>3. CASE ~f[id].leaf
      <3>1. ~kd.leaf /\ f[id].children # <<>> /\ kd.children # <<>> /\ kd.children[1] = f[id].children[1]
        BY <2>3, <1>2 DEF Split
      <3>2. QED BY <3>1, <2>1, <2>3, <1>2, <1>3, TreeInner
    <2>4. QED BY <2>2, <2>3
  <1>5. DOMAIN h = DOMAIN f /\ h[id] = kd /\ h[g] = sb /\ h[Root] = f[Root]
    BY <1>2, <1>3 DEF Wrote
  <1>6. DOMAIN TopOf(p).children = {1, 2}
    BY DEF Intact, GrowSafe, Splitting
  <1>7. Child(p, 1) = id /\ Child(p, 2) = g
    <2>1. 1 + 1 = 2
      OBVIOUS
    <2>2. QED BY <2>1, <1>1, <1>2
  <1>8. GrowSafe("saveRoot", gr, p, i, g, kd, h, C)
    BY <1>2, <1>5, <1>6, <1>7 DEF GrowSafe, Growing, Before, Splitting, Parting
  <1>9. Room("saveRoot", gr, n, C, L)
    BY DEF Intact, Room
  <1>10. Stored(K, "saveRoot", o, p, h, C) /\ Alloc("saveRoot", g, h, n) /\ Halved("saveRoot", p, i, g, kd, sb, h, C)
    BY <1>4 DEF Intact, Stored, Alloc, Halved, Parting
  <1>11. QED BY <1>4, <1>8, <1>9, <1>10 DEF Intact

\* SaveChild, of another: the chain is one leaf longer when the child is a leaf.
LEMMA IntactSaveChild ==
  ASSUME NEW gr \in BOOLEAN, ~gr, NEW o, NEW p, NEW i, NEW g, NEW kd, NEW sb,
         NEW f, NEW n, NEW K, NEW C, NEW L, Intact("saveChild", gr, o, p, i, g, kd, sb, f, n, K, C, L), Filed(f, n),
         WriterInv("saveChild", o, p, i, g, kd, sb, DOMAIN f, n), NEW h, Wrote(f, Child(p, i), kd, h)
  PROVE  \E B : Intact("enter", gr, o, p, i, g, kd, sb, h, n, K, B, L) /\ Later(f, C, L, h, B, L)
  <1>1. PICK id : id = Child(p, i)
    OBVIOUS
  <1>2. /\ Split(f[id], kd, sb, g, f, C) /\ id \in DOMAIN f /\ id # Root /\ f[id] # Blank /\ id # g
        /\ Child(p, i + 1) = g /\ g \in DOMAIN f /\ g # Root /\ g \notin Range(C) /\ f[g] = sb
        /\ Safe(f, C, id)
    <2>1. SavedOK(gr, p, i, g, kd, sb, f, C, id)
      BY <1>1, SavedHalf
    <2>2. QED BY <2>1 DEF SavedOK
  <1>3. Tree(f, C, L) /\ Wrote(f, id, kd, h)
    BY <1>1 DEF Intact
  <1>4. DOMAIN h = DOMAIN f /\ h[g] = sb
    BY <1>2, <1>3 DEF Wrote
  <1>5. Len(C) \in Nat /\ n \in Nat /\ Len(C) < n /\ Len(L) <= n
    <2>1. Len(C) \in Nat
      BY <1>3, SeqDomain DEF Tree, ChainOK
    <2>2. QED BY <2>1 DEF Intact, Room, Filed
  <1>6. PICK B : /\ Tree(h, B, L) /\ Evolved(f, C, h, B) /\ Safe(h, B, g) /\ Len(B) <= n
                 /\ ChainKeys(f, C) \subseteq ChainKeys(h, B) /\ Later(f, C, L, h, B, L)
    <2>1. CASE f[id].leaf
      <3>1. PICK x \in DOMAIN C : id = C[x]
        BY <2>1, <1>2 DEF Safe, Range
      <3>2. /\ kd.leaf /\ sb.leaf /\ kd.children = <<>> /\ kd.next = g /\ sb.next = f[id].next
            /\ Range(f[id].keys) = Range(kd.keys) \cup Range(sb.keys)
        BY <2>1, <1>2 DEF Split
      <3>3. Range(f[id].keys) \subseteq Range(kd.keys) \cup Range(f[g].keys) /\ f[g].leaf /\ f[g].next = f[id].next
        BY <3>2, <1>2
      <3>4. PICK B : /\ Tree(h, B, L) /\ Evolved(f, C, h, B) /\ Len(B) = Len(C) + 1 /\ Safe(h, B, g)
                     /\ ChainKeys(f, C) \subseteq ChainKeys(h, B) /\ Later(f, C, L, h, B, L)
        BY <3>1, <3>2, <3>3, <1>2, <1>3, TreeSplitLeaf
      <3>5. Len(B) <= n
        BY <3>4, <1>5
      <3>6. QED BY <3>4, <3>5
    <2>2. CASE ~f[id].leaf
      <3>1. /\ ~kd.leaf /\ ~sb.leaf /\ sb # Blank /\ f[id].children # <<>> /\ kd.children # <<>>
            /\ kd.children[1] = f[id].children[1] /\ SafeNode(kd, f, C)
        BY <2>2, <1>2 DEF Split
      <3>2. /\ Tree(h, C, L) /\ Evolved(f, C, h, C) /\ ChainKeys(h, C) = ChainKeys(f, C)
            /\ Later(f, C, L, h, C, L)
        BY <3>1, <2>2, <1>2, <1>3, TreeInner
      <3>3. Safe(h, C, g)
        BY <3>1, <1>2, <1>4 DEF Safe
      <3>4. Len(C) <= n
        BY <1>5
      <3>5. QED BY <3>2, <3>3, <3>4
    <2>3. QED BY <2>1, <2>2
  <1>7. PathSafe("enter", o, p, i, h, B)
    <2>1. PathSafe("saveChild", o, p, i, f, C)
      BY DEF Intact, Walking
    <2>2. /\ p[1].id = Root /\ InnerBut(p[Len(p)], i + 1, f, C)
          /\ \A x \in DOMAIN p : x # Len(p) => InnerBut(p[x], 0, f, C)
      BY <2>1 DEF PathSafe
    <2>3. /\ InnerBut(p[Len(p)], i + 1, h, B)
          /\ \A x \in DOMAIN p : x # Len(p) => InnerBut(p[x], 0, h, B)
      BY <2>2, <1>6, FrameEvolves
    <2>4. InnerBut(p[Len(p)], 0, h, B)
      <3>1. p[Len(p)].node.children[i + 1] = g
        BY <1>2 DEF Child, TopOf
      <3>2. QED BY <3>1, <2>3, <1>6 DEF InnerBut
    <2>5. QED BY <2>2, <2>3, <2>4 DEF PathSafe, Parting
  <1>8. Room("enter", gr, n, B, L)
    BY <1>5, <1>6 DEF Room
  <1>9. Stored(K, "enter", o, p, h, B)
    BY <1>6 DEF Intact, Stored
  <1>10. /\ Alloc("enter", g, h, n) /\ Halved("enter", p, i, g, kd, sb, h, B)
         /\ GrowSafe("enter", gr, p, i, g, kd, h, B)
    BY DEF Alloc, Halved, Parting, GrowSafe, Before
  <1>11. Intact("enter", gr, o, p, i, g, kd, sb, h, n, K, B, L)
    BY <1>6, <1>7, <1>8, <1>9, <1>10 DEF Intact
  <1>12. QED BY <1>6, <1>11

\* Pages that stay have evolved.
LEMMA EvolvedSame ==
  ASSUME NEW f, NEW C
  PROVE  Evolved(f, C, f, C)
  BY DEF Evolved, FirstKept

\* SaveRoot.
LEMMA IntactSaveRoot ==
  ASSUME NEW gr \in BOOLEAN, NEW o, NEW p, NEW i, NEW g, NEW kd, NEW sb,
         NEW f, NEW n, NEW K, NEW C, NEW L, Intact("saveRoot", gr, o, p, i, g, kd, sb, f, n, K, C, L), Filed(f, n),
         WriterInv("saveRoot", o, p, i, g, kd, sb, DOMAIN f, n), NEW h, Wrote(f, Root, TopOf(p), h)
  PROVE  \E B, M : Intact("reread", FALSE, o, p, i, g, kd, sb, h, n, K, B, M) /\ Later(f, C, L, h, B, M)
  <1>1. PICK S : S = DOMAIN f
    OBVIOUS
  <1>2. PICK a, old, top : a = Child(p, 1) /\ old = f[Root] /\ top = TopOf(p)
    OBVIOUS
  <1>3. /\ DOMAIN top.children = {1, 2} /\ a \in S /\ a # Root
        /\ top.children[1] = a /\ top.children[2] = g /\ g \in S /\ g # Root /\ g # a /\ old.keys # <<>>
        /\ f[g] = RightHalf(old) /\ f[a] = WithNext(LeftHalf(old), g)
    BY <1>1, <1>2 DEF Intact, GrowSafe, Before, Child
  <1>4. Sound(top, S)
    <2>1. WriterInv("saveRoot", o, p, i, g, kd, sb, S, n)
      BY <1>1
    <2>2. QED BY <2>1, <1>2, TopSound DEF Walking, Parting
  <1>5. ~top.leaf
    <2>1. top.leaf => top.children = <<>>
      BY <1>4 DEF Sound, Shaped
    <2>2. DOMAIN <<>> = {} /\ 1 \in {1, 2}
      OBVIOUS
    <2>3. top.children # <<>>
      BY <2>2, <1>3
    <2>4. QED BY <2>1, <2>3
  <1>6. Tree(f, C, L) /\ Sound(old, S) /\ SafeNode(old, f, C) /\ S \subseteq Nat /\ Root \in S
    BY <1>1, <1>2 DEF Filed, Intact, Tree
  <1>7. Split(old, f[a], f[g], g, f, C)
    <2>1. g \in Nat
      BY <1>3, <1>6
    <2>2. PICK kk, ss : kk = f[a] /\ ss = f[g]
      OBVIOUS
    <2>3. kk = WithNext(LeftHalf(old), g) /\ ss = RightHalf(old)
      BY <2>2, <1>3
    <2>4. Split(old, kk, ss, g, f, C)
      BY <2>1, <2>3, <1>3, <1>6, SplitFacts
    <2>5. QED BY <2>2, <2>4
  <1>8. Len(C) \in Nat /\ Len(L) \in Nat /\ n \in Nat /\ Len(C) < n /\ Len(L) < n
    <2>1. Len(C) \in Nat /\ Len(L) \in Nat
      BY <1>6, SeqDomain DEF Tree, ChainOK, LeftOK
    <2>2. QED BY <2>1 DEF Intact, Room, Filed
  <1>9. PICK B, M : /\ Tree(h, B, M) /\ ChainKeys(f, C) \subseteq ChainKeys(h, B)
                    /\ Len(B) <= n /\ Len(M) <= n /\ Later(f, C, L, h, B, M)
    <2>0. Wrote(f, Root, top, h)
      BY <1>2
    <2>1. CASE old.leaf
      <3>1. /\ f[a].leaf /\ f[g].leaf /\ f[a].next = g /\ f[g].next = f[Root].next
            /\ Range(f[Root].keys) \subseteq Range(f[a].keys) \cup Range(f[g].keys)
        BY <2>1, <1>2, <1>7 DEF Split
      <3>2. f[Root].leaf /\ a \in DOMAIN f /\ g \in DOMAIN f
        BY <2>1, <1>1, <1>2, <1>3
      <3>3. PICK B, M : /\ Tree(h, B, M) /\ ChainKeys(f, C) \subseteq ChainKeys(h, B)
                        /\ Len(B) = Len(C) + 1 /\ Len(M) = Len(L) + 1 /\ Later(f, C, L, h, B, M)
        BY <2>0, <3>1, <3>2, <1>3, <1>5, <1>6, TreeRootLeaf
      <3>4. Len(B) <= n /\ Len(M) <= n
        BY <3>3, <1>8
      <3>5. QED BY <3>3, <3>4
    <2>2. CASE ~old.leaf
      <3>1. /\ ~f[a].leaf /\ ~f[g].leaf /\ f[a] # Blank /\ f[g] # Blank /\ f[a].children # <<>>
            /\ f[a].children[1] = f[Root].children[1]
        BY <2>2, <1>2, <1>7 DEF Split
      <3>2. ~f[Root].leaf /\ a \in DOMAIN f /\ g \in DOMAIN f
        BY <2>2, <1>1, <1>2, <1>3
      <3>3. PICK M : /\ Tree(h, C, M) /\ ChainKeys(f, C) = ChainKeys(h, C) /\ Len(M) = Len(L) + 1
                     /\ Later(f, C, L, h, C, M)
        BY <2>0, <3>1, <3>2, <1>3, <1>5, <1>6, TreeRootInner
      <3>4. Len(C) <= n /\ Len(M) <= n
        BY <3>3, <1>8
      <3>5. QED BY <3>3, <3>4
    <2>3. QED BY <2>1, <2>2
  <1>10. Intact("reread", FALSE, o, p, i, g, kd, sb, h, n, K, B, M)
    <2>1. Room("reread", FALSE, n, B, M) /\ Stored(K, "reread", o, p, h, B)
      BY <1>9 DEF Intact, Room, Stored
    <2>2. /\ Alloc("reread", g, h, n) /\ GrowSafe("reread", FALSE, p, i, g, kd, h, B)
          /\ Halved("reread", p, i, g, kd, sb, h, B)
      BY DEF Alloc, GrowSafe, Halved, Parting, Before
    <2>3. QED BY <2>1, <2>2, <1>9 DEF Intact, Walking, Parting
  <1>11. QED BY <1>9, <1>10

\* VisitLeaf.
LEMMA IntactLeaf ==
  ASSUME NEW gr \in BOOLEAN, NEW o, NEW p, NEW i, NEW g, NEW kd, NEW sb,
         NEW f, NEW n, NEW K, NEW C, NEW L, Intact("visit", gr, o, p, i, g, kd, sb, f, n, K, C, L),
         p \in Seq(Frame), p # <<>>, TopOf(p).leaf, NEW new \in Node, new.leaf, new.next = TopOf(p).next,
         Range(TopOf(p).keys) \subseteq Range(new.keys), o.key \in Range(new.keys), NEW q, q = Put(p, new)
  PROVE  Intact("unwind", gr, o, q, i, g, kd, sb, f, n, K, C, L)
  <1>1. ~gr
    BY DEF Intact, GrowSafe, Growing, Before, Splitting, Parting
  <1>2. PathSafe("visit", o, p, i, f, C) /\ Evolved(f, C, f, C)
    BY <1>1, EvolvedSame DEF Intact, Walking
  <1>3. /\ p[1].id = Root /\ \A x \in DOMAIN p : x # Len(p) => InnerBut(p[x], 0, f, C)
        /\ LeafFrame(p[Len(p)], f, C)
    BY <1>2 DEF PathSafe, InnerBut, TopOf
  <1>4. /\ q # <<>> /\ Len(q) = Len(p) /\ q[1].id = Root /\ TopOf(q) = new
        /\ \A x \in DOMAIN q : x # Len(q) => InnerBut(q[x], 0, f, C)
        /\ q[Len(q)].id = p[Len(p)].id /\ q[Len(q)].node = new
    BY <1>2, <1>3, PutPath
  <1>5. LeafFrame(q[Len(q)], f, C)
    BY <1>3, <1>4 DEF LeafFrame, TopOf
  <1>6. PathSafe("unwind", o, q, i, f, C)
    BY <1>4, <1>5 DEF PathSafe, Parting
  <1>7. Stored(K, "unwind", o, q, f, C) /\ Room("unwind", gr, n, C, L)
    BY <1>1, <1>4 DEF Intact, Stored, Room
  <1>8. /\ Alloc("unwind", g, f, n) /\ GrowSafe("unwind", gr, q, i, g, kd, f, C)
        /\ Halved("unwind", q, i, g, kd, sb, f, C)
    BY <1>1 DEF Alloc, GrowSafe, Halved, Parting, Before
  <1>9. QED BY <1>6, <1>7, <1>8 DEF Intact

\* VisitInternal chooses a child; there is one.
LEMMA IntactChoose ==
  ASSUME NEW gr \in BOOLEAN, NEW o, NEW p, NEW i, NEW g, NEW kd, NEW sb,
         NEW f, NEW n, NEW K, NEW C, NEW L, Intact("visit", gr, o, p, i, g, kd, sb, f, n, K, C, L),
         ~TopOf(p).leaf, NEW j
  PROVE  /\ TopOf(p).children # <<>>
         /\ Intact("visit", gr, o, p, j, g, kd, sb, f, n, K, C, L)
         /\ is_full(f[Child(p, j)]) => Intact("split", gr, o, p, j, g, kd, sb, f, n, K, C, L)
  <1>1. ~gr
    BY DEF Intact, GrowSafe, Growing, Before, Splitting, Parting
  <1>2. PathSafe("visit", o, p, i, f, C)
    BY <1>1 DEF Intact, Walking
  <1>3. InnerBut(p[Len(p)], 0, f, C) /\ TopOf(p).children # <<>>
    BY <1>2 DEF PathSafe, InnerBut, LeafFrame, TopOf
  <1>4. PathSafe("visit", o, p, j, f, C) /\ PathSafe("split", o, p, j, f, C)
    BY <1>2, <1>3 DEF PathSafe, Parting
  <1>5. /\ Alloc("visit", g, f, n) /\ GrowSafe("visit", gr, p, j, g, kd, f, C)
        /\ Halved("visit", p, j, g, kd, sb, f, C)
    BY <1>1 DEF Alloc, GrowSafe, Halved, Parting, Before
  <1>6. Intact("visit", gr, o, p, j, g, kd, sb, f, n, K, C, L)
    BY <1>4, <1>5 DEF Intact
  <1>7. ASSUME is_full(f[Child(p, j)]) PROVE Intact("split", gr, o, p, j, g, kd, sb, f, n, K, C, L)
    <2>1. /\ Alloc("split", g, f, n) /\ GrowSafe("split", gr, p, j, g, kd, f, C)
          /\ Halved("split", p, j, g, kd, sb, f, C)
      BY <1>1, <1>7 DEF Alloc, GrowSafe, Halved, Parting, Before
    <2>2. Room("split", gr, n, C, L) /\ Stored(K, "split", o, p, f, C)
      BY <1>1 DEF Intact, Room, Stored
    <2>3. QED BY <2>1, <2>2, <1>4 DEF Intact
  <1>8. QED BY <1>3, <1>6, <1>7

\* VisitInternal and Enter go down to a child.
LEMMA IntactAppend ==
  ASSUME NEW c, c \in {"visit", "enter"}, NEW gr \in BOOLEAN, NEW o, NEW p, NEW i, NEW g, NEW kd, NEW sb,
         NEW f, NEW n, NEW K, NEW C, NEW L, Intact(c, gr, o, p, i, g, kd, sb, f, n, K, C, L), Filed(f, n),
         p \in Seq(Frame), p # <<>>, ~TopOf(p).leaf, NEW j \in DOMAIN TopOf(p).children, j # 0,
         NEW id, id = TopOf(p).children[j], NEW fr \in Frame, fr.id = id, fr.node = f[id], NEW q, q = Append(p, fr)
  PROVE  Intact("visit", gr, o, q, i, g, kd, sb, f, n, K, C, L)
  <1>1. ~gr
    BY DEF Intact, GrowSafe, Growing, Before, Splitting, Parting
  <1>2. PathSafe(c, o, p, i, f, C) /\ Tree(f, C, L)
    BY <1>1 DEF Intact, Walking
  <1>3. /\ InnerBut(p[Len(p)], 0, f, C) /\ p[1].id = Root
        /\ \A x \in DOMAIN p : x # Len(p) => InnerBut(p[x], 0, f, C)
    BY <1>2 DEF PathSafe, LeafFrame, TopOf
  <1>4. Safe(f, C, id)
    BY <1>3 DEF InnerBut, TopOf
  <1>5. InnerBut(fr, 0, f, C) \/ LeafFrame(fr, f, C)
    BY <1>2, <1>4, NewFrame DEF Safe
  <1>6. PICK m \in Nat : m = Len(p)
    OBVIOUS
  <1>7. Len(q) = m + 1 /\ DOMAIN q = 1..m + 1 /\ DOMAIN p = 1..m /\ 1 \in 1..m /\ q[m + 1] = fr
        /\ \A x \in 1..m : q[x] = p[x]
    <2>1. p \in Seq(Frame) /\ q = Append(p, fr) /\ m = Len(p) /\ m # 0
      BY <1>6
    <2>2. QED BY <2>1
  <1>8. q[1].id = Root /\ q[Len(q)] = fr
    BY <1>3, <1>7
  <1>9. \A x \in DOMAIN q : x # Len(q) => InnerBut(q[x], 0, f, C)
    <2>1. ASSUME NEW x \in 1..m + 1, x # m + 1 PROVE InnerBut(q[x], 0, f, C)
      <3>1. x \in 1..m
        BY <2>1
      <3>2. CASE x = m
        BY <3>1, <3>2, <1>3, <1>6, <1>7
      <3>3. CASE x # m
        BY <3>1, <3>3, <1>3, <1>6, <1>7
      <3>4. QED BY <3>2, <3>3
    <2>2. QED BY <2>1, <1>7
  <1>10. PathSafe("visit", o, q, i, f, C)
    BY <1>5, <1>8, <1>9 DEF PathSafe, Parting
  <1>11. Stored(K, "visit", o, q, f, C) /\ Room("visit", gr, n, C, L)
    BY <1>1 DEF Intact, Stored, Room
  <1>12. /\ Alloc("visit", g, f, n) /\ GrowSafe("visit", gr, q, i, g, kd, f, C)
         /\ Halved("visit", q, i, g, kd, sb, f, C)
    BY <1>1 DEF Alloc, GrowSafe, Halved, Parting, Before
  <1>13. QED BY <1>2, <1>10, <1>11, <1>12 DEF Intact

\* The last node of the path is saved on the way back.
LEMMA TopWritten ==
  ASSUME NEW gr \in BOOLEAN, NEW o, NEW p, NEW i, NEW g, NEW kd, NEW sb,
         NEW f, NEW n, NEW K, NEW C, NEW L, Intact("unwind", gr, o, p, i, g, kd, sb, f, n, K, C, L), Filed(f, n),
         WriterInv("unwind", o, p, i, g, kd, sb, DOMAIN f, n), NEW h, Wrote(f, p[Len(p)].id, TopOf(p), h)
  PROVE  /\ Tree(h, C, L) /\ Evolved(f, C, h, C) /\ K \subseteq ChainKeys(h, C) /\ o.key \in ChainKeys(h, C)
         /\ Later(f, C, L, h, C, L)
  <1>0. PICK S : S = DOMAIN f
    OBVIOUS
  <1>1. ~gr
    BY DEF Intact, GrowSafe, Growing, Before, Splitting, Parting
  <1>2. PathSafe("unwind", o, p, i, f, C) /\ Tree(f, C, L) /\ Stored(K, "unwind", o, p, f, C)
    BY <1>1 DEF Intact, Walking
  <1>3. PICK id, top : id = p[Len(p)].id /\ top = TopOf(p)
    OBVIOUS
  <1>4. Sound(top, S) /\ Wrote(f, id, top, h)
    <2>1. WriterInv("unwind", o, p, i, g, kd, sb, S, n)
      BY <1>0
    <2>2. Sound(top, S)
      BY <2>1, <1>3, TopSound DEF Walking, Parting
    <2>3. QED BY <2>2, <1>3
  <1>5. CASE top.leaf
    <2>1. LeafFrame(p[Len(p)], f, C) /\ o.key \in Range(top.keys)
      BY <1>2, <1>3, <1>5 DEF PathSafe, InnerBut, TopOf
    <2>2. /\ id \in Range(C) /\ top.next = f[id].next /\ Range(f[id].keys) \subseteq Range(top.keys)
          /\ top.children = <<>>
      BY <2>1, <1>3, <1>4, <1>5 DEF LeafFrame, TopOf, Sound, Shaped
    <2>3. /\ Tree(h, C, L) /\ Evolved(f, C, h, C) /\ ChainKeys(f, C) \subseteq ChainKeys(h, C)
          /\ Range(top.keys) \subseteq ChainKeys(h, C) /\ Later(f, C, L, h, C, L)
      BY <2>2, <1>2, <1>4, <1>5, TreeLeaf
    <2>4. QED BY <2>1, <2>3, <1>2 DEF Stored
  <1>6. CASE ~top.leaf
    <2>1. InnerBut(p[Len(p)], 0, f, C)
      BY <1>2, <1>3, <1>6 DEF PathSafe, LeafFrame, TopOf
    <2>2. /\ id \in DOMAIN f /\ ~f[id].leaf /\ f[id].children # <<>> /\ top.children # <<>>
          /\ top.children[1] = f[id].children[1]
          /\ \A y \in DOMAIN top.children : y # 0 => Safe(f, C, top.children[y])
      BY <2>1, <1>3 DEF InnerBut, TopOf
    <2>3. SafeNode(top, f, C)
      <3>1. top.children \in Seq(PageId)
        BY <1>4, NodeFields DEF Sound, Closed
      <3>2. \A y \in DOMAIN top.children : y # 0
        BY <3>1, SeqDomain
      <3>3. QED BY <3>2, <2>2 DEF SafeNode
    <2>4. /\ Tree(h, C, L) /\ Evolved(f, C, h, C) /\ ChainKeys(h, C) = ChainKeys(f, C)
          /\ Later(f, C, L, h, C, L)
      BY <2>2, <2>3, <1>2, <1>4, <1>6, TreeInner
    <2>5. K \subseteq ChainKeys(f, C) /\ o.key \in ChainKeys(f, C)
      BY <1>2, <1>3, <1>6 DEF Stored
    <2>6. QED BY <2>4, <2>5
  <1>7. QED BY <1>5, <1>6

\* Unwind.
LEMMA IntactUnwind ==
  ASSUME NEW gr \in BOOLEAN, NEW o, NEW p, NEW i, NEW g, NEW kd, NEW sb,
         NEW f, NEW n, NEW K, NEW C, NEW L, Intact("unwind", gr, o, p, i, g, kd, sb, f, n, K, C, L), Filed(f, n),
         WriterInv("unwind", o, p, i, g, kd, sb, DOMAIN f, n), NEW h, Wrote(f, p[Len(p)].id, TopOf(p), h),
         Len(p) > 1, NEW q, q = Front(p)
  PROVE  Intact("unwind", gr, o, q, i, g, kd, sb, h, n, K, C, L) /\ Later(f, C, L, h, C, L)
  <1>1. ~gr
    BY DEF Intact, GrowSafe, Growing, Before, Splitting, Parting
  <1>2. PathSafe("unwind", o, p, i, f, C)
    BY <1>1 DEF Intact, Walking
  <1>3. /\ Tree(h, C, L) /\ Evolved(f, C, h, C) /\ K \subseteq ChainKeys(h, C) /\ o.key \in ChainKeys(h, C)
        /\ Later(f, C, L, h, C, L)
    BY TopWritten
  <1>4. p \in Seq(Frame)
    BY DEF WriterInv
  <1>5. /\ q # <<>> /\ Len(q) = Len(p) - 1 /\ q \in Seq(Frame)
        /\ \A x \in DOMAIN q : x \in DOMAIN p /\ q[x] = p[x]
    BY <1>4, PathFront
  <1>6. DOMAIN q = 1..Len(p) - 1 /\ Len(p) \in Nat
    BY <1>4, <1>5, SeqDomain
  <1>7. \A x \in DOMAIN q : InnerBut(q[x], 0, h, C)
    <2>1. ASSUME NEW x \in DOMAIN q PROVE InnerBut(q[x], 0, h, C)
      <3>1. x # Len(p) /\ x \in DOMAIN p /\ q[x] = p[x]
        BY <1>5, <1>6
      <3>2. InnerBut(p[x], 0, f, C)
        BY <3>1, <1>2 DEF PathSafe
      <3>3. QED BY <3>1, <3>2, <1>3, FrameEvolves
    <2>2. QED BY <2>1
  <1>8. 1 \in DOMAIN q /\ Len(q) \in DOMAIN q
    BY <1>5, SeqEnds
  <1>9. q[1].id = Root
    BY <1>2, <1>5, <1>8 DEF PathSafe
  <1>10. ~TopOf(q).leaf
    BY <1>7, <1>8 DEF InnerBut, TopOf
  <1>11. PathSafe("unwind", o, q, i, h, C)
    BY <1>7, <1>8, <1>9, <1>10 DEF PathSafe, Parting
  <1>12. Stored(K, "unwind", o, q, h, C) /\ Room("unwind", gr, n, C, L)
    BY <1>1, <1>3 DEF Intact, Stored, Room
  <1>13. /\ Alloc("unwind", g, h, n) /\ GrowSafe("unwind", gr, q, i, g, kd, h, C)
         /\ Halved("unwind", q, i, g, kd, sb, h, C)
    BY <1>1 DEF Alloc, GrowSafe, Halved, Parting, Before
  <1>14. QED BY <1>3, <1>11, <1>12, <1>13 DEF Intact

\* Finish and SyncFail.
LEMMA IntactFinish ==
  ASSUME NEW gr \in BOOLEAN, NEW o, NEW p, NEW i, NEW g, NEW kd, NEW sb,
         NEW f, NEW n, NEW K, NEW C, NEW L, Intact("unwind", gr, o, p, i, g, kd, sb, f, n, K, C, L), Filed(f, n),
         WriterInv("unwind", o, p, i, g, kd, sb, DOMAIN f, n), NEW h, Wrote(f, Root, TopOf(p), h), Len(p) = 1,
         NEW H, H \subseteq K \cup {o.key}
  PROVE  Intact("idle", FALSE, NoOp, <<>>, 0, 0, Blank, Blank, h, n, H, C, L) /\ Later(f, C, L, h, C, L)
  <1>1. ~gr
    BY DEF Intact, GrowSafe, Growing, Before, Splitting, Parting
  <1>2. PathSafe("unwind", o, p, i, f, C)
    BY <1>1 DEF Intact, Walking
  <1>3. Wrote(f, p[Len(p)].id, TopOf(p), h)
    BY <1>2 DEF PathSafe
  <1>4. /\ Tree(h, C, L) /\ Evolved(f, C, h, C) /\ K \subseteq ChainKeys(h, C) /\ o.key \in ChainKeys(h, C)
        /\ Later(f, C, L, h, C, L)
    BY <1>3, TopWritten
  <1>5. Stored(H, "idle", NoOp, <<>>, h, C) /\ Room("idle", FALSE, n, C, L)
    BY <1>4 DEF Intact, Stored, Room
  <1>6. /\ Alloc("idle", 0, h, n) /\ GrowSafe("idle", FALSE, <<>>, 0, 0, Blank, h, C)
        /\ Halved("idle", <<>>, 0, 0, Blank, Blank, h, C)
    BY DEF Alloc, GrowSafe, Halved, Parting, Before
  <1>7. QED BY <1>4, <1>5, <1>6 DEF Intact, Walking, Parting

-----------------------------------------------------------------------------
(* The actions.                                                            *)

\* The invariant at writer w.
Holds(w, C, L) ==
  Intact(pc[w], growing[w], op[w], path[w], idx[w], page[w], kid[w], sib[w], pages, num_pages, Present, C, L)

\* After a step it holds again, of a chain and a left edge that serve a reader as well.
Grown(w, C, L) == \E B, M : Holds(w, B, M)' /\ Later(pages, C, L, pages', B, M)

\* A step that moves writer w to where the invariant holds.
LEMMA Kept ==
  ASSUME TypeInv, NEW w \in Writers, NEW c, NEW o, NEW gr, NEW p, NEW i, NEW g, NEW kd, NEW sb,
         Moved(w, c, o, gr, p, i, g, kd, sb), NEW f, f = pages, NEW h, h = pages', NEW m, m = num_pages',
         NEW K, K = Present', NEW C, NEW L, NEW B, NEW M,
         Intact(c, gr, o, p, i, g, kd, sb, h, m, K, B, M), Later(f, C, L, h, B, M)
  PROVE  Grown(w, C, L)
  <1>1. pc'[w] = c /\ op'[w] = o /\ growing'[w] = gr /\ path'[w] = p /\ idx'[w] = i /\ page'[w] = g
        /\ kid'[w] = kd /\ sib'[w] = sb
    BY DEF TypeInv, WritersOK, VarsOK, Moved
  <1>2. Holds(w, B, M)'
    BY <1>1 DEF Holds
  <1>3. QED BY <1>2 DEF Grown

\* Nothing was acknowledged.
LEMMA PresentSame ==
  ASSUME UNCHANGED acked
  PROVE  Present' = Present
  BY DEF Present

\* What TypeInv says of the pages and of writer w.
LEMMA HereFiled ==
  ASSUME TypeInv, NEW w \in Writers
  PROVE  /\ Filed(pages, num_pages) /\ num_pages \in Nat /\ growing[w] \in BOOLEAN
         /\ WriterInv(pc[w], op[w], path[w], idx[w], page[w], kid[w], sib[w], DOMAIN pages, num_pages)
  BY DEF TypeInv, WritersOK, VarsOK, WriterOK, PagesOK, Filed, D

\* WritePage, in terms of the pages before and after.
LEMMA HereWrote ==
  ASSUME NEW id, NEW node, WritePage(id, node)
  PROVE  Wrote(pages, id, node, pages')
  BY DEF WritePage, Wrote

\* A page written in place adds none.
LEMMA SizeKept ==
  ASSUME NEW id, id \in D, NEW node, WritePage(id, node)
  PROVE  num_pages' = num_pages
  BY DEF WritePage, num_pages, D

\* Nothing is lost for a reader when nothing happens.
LEMMA LaterStays ==
  ASSUME NEW f, NEW C, NEW L, Tree(f, C, L)
  PROVE  Later(f, C, L, f, C, L)
  BY LaterSame

\* A step that writes no page.
LEMMA KeptQuiet ==
  ASSUME TypeInv, NEW w \in Writers, NEW c, NEW o, NEW gr, NEW p, NEW i, NEW g, NEW kd, NEW sb,
         Moved(w, c, o, gr, p, i, g, kd, sb), NEW f, f = pages, NEW n, n = num_pages, NEW K, K = Present,
         UNCHANGED <<pages, acked>>, NEW C, NEW L, Intact(c, gr, o, p, i, g, kd, sb, f, n, K, C, L)
  PROVE  Grown(w, C, L)
  <1>1. Later(f, C, L, f, C, L)
    BY LaterStays DEF Intact
  <1>2. f = pages' /\ n = num_pages' /\ K = Present'
    BY PresentSame DEF num_pages
  <1>3. QED BY <1>1, <1>2, Kept

\* A step that writes one page in place.
LEMMA KeptWrite ==
  ASSUME TypeInv, NEW w \in Writers, NEW c, NEW o, NEW gr, NEW p, NEW i, NEW g, NEW kd, NEW sb,
         Moved(w, c, o, gr, p, i, g, kd, sb), NEW f, f = pages, NEW h, h = pages', NEW n, n = num_pages,
         NEW K, K = Present, UNCHANGED acked, NEW id, id \in D, NEW node, WritePage(id, node),
         NEW C, NEW L, NEW B, NEW M, Intact(c, gr, o, p, i, g, kd, sb, h, n, K, B, M), Later(f, C, L, h, B, M)
  PROVE  Grown(w, C, L)
  <1>1. n = num_pages' /\ K = Present'
    BY PresentSame, SizeKept
  <1>2. QED BY <1>1, Kept

\* Insert.
LEMMA InsertTree ==
  ASSUME TypeInv, NEW w \in Writers, NEW k \in Keys, NEW wt \in Weights, Insert(w, k, wt),
         NEW C, NEW L, Holds(w, C, L)
  PROVE  Grown(w, C, L)
  <1>1. PICK o, gr, p, i, g, kd, sb, f, n, K : o = op[w] /\ gr = growing[w] /\ p = path[w] /\ i = idx[w] /\ g = page[w]
          /\ kd = kid[w] /\ sb = sib[w] /\ f = pages /\ n = num_pages /\ K = Present
    OBVIOUS
  <1>2. PICK oo : oo = [key |-> k, val |-> [n |-> inserts + 1, w |-> wt]]
    OBVIOUS
  <1>3. Moved(w, "start", oo, gr, p, i, g, kd, sb)
    BY <1>1, <1>2, Stays DEF Insert, Goto, Moved, TypeInv, WritersOK
  <1>4. Intact("idle", gr, o, p, i, g, kd, sb, f, n, K, C, L) /\ gr \in BOOLEAN
    BY <1>1, HereFiled DEF Holds, Insert
  <1>5. Intact("start", gr, oo, p, i, g, kd, sb, f, n, K, C, L)
    BY <1>4, IntactInsert
  <1>6. UNCHANGED <<pages, acked>>
    BY DEF Insert
  <1>7. QED BY <1>1, <1>3, <1>5, <1>6, KeptQuiet

\* ReadRoot.
LEMMA ReadRootTree ==
  ASSUME TypeInv, NEW w \in Writers, ReadRoot(w), NEW C, NEW L, Holds(w, C, L)
  PROVE  Grown(w, C, L)
  <1>1. PICK o, gr, p, i, g, kd, sb, f, n, K : o = op[w] /\ gr = growing[w] /\ p = path[w] /\ i = idx[w] /\ g = page[w]
          /\ kd = kid[w] /\ sb = sib[w] /\ f = pages /\ n = num_pages /\ K = Present
    OBVIOUS
  <1>2. Intact("start", gr, o, p, i, g, kd, sb, f, n, K, C, L) /\ gr \in BOOLEAN /\ Filed(f, n)
    BY <1>1, HereFiled DEF Holds, ReadRoot
  <1>3. UNCHANGED <<pages, acked>>
    BY DEF ReadRoot, history
  <1>4. CASE is_full(f[Root])
    <2>1. PICK root : root = f[Root]
      OBVIOUS
    <2>2. Moved(w, "growAlloc", o, TRUE, p, i, g, root, sb)
      BY <1>1, <1>4, <2>1, Stays DEF ReadRoot, Goto, Moved, TypeInv, WritersOK
    <2>3. Intact("growAlloc", TRUE, o, p, i, g, root, sb, f, n, K, C, L)
      BY <1>2, <1>4, <2>1, IntactGrow
    <2>4. QED BY <1>1, <1>3, <2>2, <2>3, KeptQuiet
  <1>5. CASE ~is_full(f[Root])
    <2>1. PICK q : q = <<[id |-> Root, node |-> f[Root]]>>
      OBVIOUS
    <2>2. Moved(w, "visit", o, gr, q, i, g, kd, sb)
      BY <1>1, <1>5, <2>1, Stays DEF ReadRoot, Goto, Moved, TypeInv, WritersOK
    <2>3. Intact("visit", gr, o, q, i, g, kd, sb, f, n, K, C, L)
      BY <1>2, <2>1, IntactRoot
    <2>4. QED BY <1>1, <1>3, <2>2, <2>3, KeptQuiet
  <1>6. QED BY <1>4, <1>5

\* AllocatePage.
LEMMA AllocateTree ==
  ASSUME TypeInv, NEW w \in Writers, NEW c, NEW d,
         <<c, d>> \in {<<"growAlloc", "growBlank">>, <<"splitAlloc", "splitBlank">>}, AllocatePage(w, c, d),
         NEW C, NEW L, Holds(w, C, L)
  PROVE  Grown(w, C, L)
  <1>1. PICK o, gr, p, i, g, kd, sb, f, n, K : o = op[w] /\ gr = growing[w] /\ p = path[w] /\ i = idx[w] /\ g = page[w]
          /\ kd = kid[w] /\ sb = sib[w] /\ f = pages /\ n = num_pages /\ K = Present
    OBVIOUS
  <1>0. pc[w] = c
    BY DEF AllocatePage
  <1>2. Intact(c, gr, o, p, i, g, kd, sb, f, n, K, C, L) /\ gr \in BOOLEAN
    BY <1>0, <1>1, HereFiled DEF Holds
  <1>3. UNCHANGED <<pages, acked>>
    BY DEF AllocatePage, history
  <1>4. Moved(w, d, o, gr, p, i, n, kd, sb)
    BY <1>1, Stays DEF AllocatePage, Goto, Moved, TypeInv, WritersOK
  <1>5. Intact(d, gr, o, p, i, n, kd, sb, f, n, K, C, L)
    BY <1>2, IntactAllocate
  <1>6. QED BY <1>1, <1>3, <1>4, <1>5, KeptQuiet

\* BlankPage.
LEMMA BlankTree ==
  ASSUME TypeInv, NEW w \in Writers, NEW c, NEW d,
         <<c, d>> \in {<<"growBlank", "growSave">>, <<"splitBlank", "saveNew">>}, BlankPage(w, c, d),
         NEW C, NEW L, Holds(w, C, L)
  PROVE  Grown(w, C, L)
  <1>1. PICK o, gr, p, i, g, kd, sb, f, n, K, h : o = op[w] /\ gr = growing[w] /\ p = path[w] /\ i = idx[w] /\ g = page[w]
          /\ kd = kid[w] /\ sb = sib[w] /\ f = pages /\ n = num_pages /\ K = Present /\ h = pages'
    OBVIOUS
  <1>0. pc[w] = c
    BY DEF BlankPage
  <1>2. Intact(c, gr, o, p, i, g, kd, sb, f, n, K, C, L) /\ gr \in BOOLEAN /\ Filed(f, n)
    BY <1>0, <1>1, HereFiled DEF Holds
  <1>3. Wrote(f, g, Blank, h)
    BY <1>1, HereWrote DEF BlankPage
  <1>4. c = "splitBlank" => Child(p, i) \in DOMAIN f
    <2>1. pc[w] = "splitBlank" => ChildPage(w) \in D
      BY ChildHere DEF Parting
    <2>2. Child(p, i) = ChildPage(w)
      BY <1>1, TopIs DEF Child, ChildPage
    <2>3. QED BY <2>1, <2>2, <1>0, <1>1 DEF D
  <1>5. Intact(d, gr, o, p, i, g, kd, sb, h, n + 1, K, C, L) /\ Later(f, C, L, h, C, L)
    BY <1>2, <1>3, <1>4, IntactBlank
  <1>6. Moved(w, d, o, gr, p, i, g, kd, sb)
    BY <1>1, Stays DEF BlankPage, Goto, Moved, TypeInv, WritersOK, locals
  <1>7. num_pages' = n + 1
    <2>1. g = n /\ g \notin D
      BY <1>1, <1>2 DEF Intact, Alloc, Filed, D
    <2>2. g \in 0..num_pages
      BY <1>1, PageHere
    <2>3. Sound(Blank, D) /\ Fits(Blank)
      BY EmptyNodes, SizeAssumption DEF Fits
    <2>4. PagesOK /\ WritePage(g, Blank)
      BY <1>1 DEF BlankPage, TypeInv
    <2>5. QED BY <2>1, <2>2, <2>3, <2>4, <1>1, PagesStep
  <1>8. K = Present'
    BY <1>1, PresentSame DEF BlankPage, history
  <1>9. PICK m : m = n + 1
    OBVIOUS
  <1>10. QED BY <1>1, <1>5, <1>6, <1>7, <1>8, <1>9, Kept

\* GrowSave.
LEMMA GrowSaveTree ==
  ASSUME TypeInv, NEW w \in Writers, GrowSave(w), NEW C, NEW L, Holds(w, C, L)
  PROVE  Grown(w, C, L)
  <1>1. PICK o, gr, p, i, g, kd, sb, f, n, K, h : o = op[w] /\ gr = growing[w] /\ p = path[w] /\ i = idx[w] /\ g = page[w]
          /\ kd = kid[w] /\ sb = sib[w] /\ f = pages /\ n = num_pages /\ K = Present /\ h = pages'
    OBVIOUS
  <1>2. Intact("growSave", gr, o, p, i, g, kd, sb, f, n, K, C, L) /\ gr \in BOOLEAN /\ Filed(f, n)
    BY <1>1, HereFiled DEF Holds, GrowSave
  <1>3. WritePage(g, kd) /\ Wrote(f, g, kd, h) /\ g \in D
    BY <1>1, HereWrote, PageHere DEF GrowSave, SaveNode
  <1>4. PICK q : q = <<[id |-> Root, node |-> [new_internal EXCEPT !.children = <<g>>]]>>
    OBVIOUS
  <1>5. Moved(w, "split", o, gr, q, 1, g, kd, sb)
    BY <1>1, <1>4, Stays DEF GrowSave, Goto, Moved, TypeInv, WritersOK
  <1>6. Intact("split", gr, o, q, 1, g, kd, sb, h, n, K, C, L) /\ Later(f, C, L, h, C, L)
    BY <1>2, <1>3, <1>4, IntactGrowSave
  <1>7. UNCHANGED acked
    BY DEF GrowSave, history
  <1>8. QED BY <1>1, <1>3, <1>5, <1>6, <1>7, KeptWrite

\* What setting key k does to a leaf.
LeafMore(node, k, new) ==
  new.leaf /\ new.next = node.next /\ Range(node.keys) \subseteq Range(new.keys) /\ k \in Range(new.keys)

\* LeafWith does that.
LEMMA LeafWithMore ==
  ASSUME NEW S, NEW node, Sound(node, S), node.leaf, NEW k \in Keys, NEW v \in Value,
         NEW new \in LeafWith(node, k, v)
  PROVE  Sound(new, S) /\ LeafMore(node, k, new)
  BY LeafWithFacts, SMTT(30) DEF LeafMore

\* SplitRead.
LEMMA SplitReadTree ==
  ASSUME TypeInv, NEW w \in Writers, SplitRead(w), NEW C, NEW L, Holds(w, C, L)
  PROVE  Grown(w, C, L)
  <1>1. PICK o, gr, p, i, g, kd, sb, f, n, K : o = op[w] /\ gr = growing[w] /\ p = path[w] /\ i = idx[w] /\ g = page[w]
          /\ kd = kid[w] /\ sb = sib[w] /\ f = pages /\ n = num_pages /\ K = Present
    OBVIOUS
  <1>2. Intact("split", gr, o, p, i, g, kd, sb, f, n, K, C, L) /\ gr \in BOOLEAN
    BY <1>1, HereFiled DEF Holds, SplitRead
  <1>3. UNCHANGED <<pages, acked>>
    BY DEF SplitRead, history
  <1>4. PICK child, t : child = f[Child(p, i)] /\ t = TopOf(p)
    OBVIOUS
  <1>5. ChildPage(w) \in D /\ ChildPage(w) = Child(p, i) /\ ~t.leaf /\ i \in 1..Len(t.children)
    BY <1>1, <1>4, ChildHere, TopIs DEF SplitRead, ChildPage, Child
  <1>6. Sound(child, D) /\ child = pages[ChildPage(w)]
    BY <1>1, <1>4, <1>5, PageRead
  <1>7. child.keys # <<>>
    <2>1. is_full(child)
      BY <1>2, <1>4 DEF Intact, Halved
    <2>2. QED BY <2>1, <1>6, FullHasKeys
  <1>8. p \in Seq(Frame) /\ p # <<>> /\ Sound(t, D)
    BY <1>1, <1>4, WhereHere, TopIs DEF SplitRead, Walking, Parting
  <1>9. PICK k, top : k = child.keys[Middle(child)] /\ top = WithKey(t, i, k)
    OBVIOUS
  <1>10. top \in Node /\ top.leaf = t.leaf /\ top.children = t.children
    <2>1. k \in Keys
      BY <1>6, <1>7, <1>9, MiddleRange DEF Sound, Closed
    <2>a. PICK S : S = D
      OBVIOUS
    <2>b. Sound(t, S) /\ ~t.leaf /\ i \in 1..Len(t.children) /\ top = [t EXCEPT !.keys = InsertAt(@, i, k)]
      BY <2>a, <1>5, <1>8, <1>9 DEF WithKey
    <2>2. Open(top, S) /\ top \in Node /\ ~top.leaf /\ top.children = t.children
      BY <2>1, <2>b, ParentSplit
    <2>3. top.leaf \in BOOLEAN /\ t.leaf \in BOOLEAN
      BY <2>2, <1>8, NodeFields DEF Sound, Closed
    <2>4. QED BY <2>2, <2>3, <1>5
  <1>11. PICK q, l, r : q = Put(p, top) /\ l = LeftHalf(child) /\ r = RightHalf(child)
    OBVIOUS
  <1>12. Moved(w, "splitAlloc", o, gr, q, i, g, l, r)
    <2>1. q = [p EXCEPT ![Len(p)].node.keys = InsertAt(@, i, child.keys[Middle(child)])]
      <3>1. t = p[Len(p)].node
        BY <1>4 DEF TopOf
      <3>2. QED BY <3>1, <1>9, <1>11 DEF Put, WithKey
    <2>2. path' = [path EXCEPT ![w] = q]
      BY <2>1, <1>1, <1>6, <1>7 DEF SplitRead
    <2>3. QED BY <2>2, <1>1, <1>6, <1>7, <1>11, Stays DEF SplitRead, Goto, Moved, TypeInv, WritersOK
  <1>13. Intact("splitAlloc", gr, o, q, i, g, l, r, f, n, K, C, L)
    <2>1. f[Child(p, i)].keys # <<>> /\ top.leaf = TopOf(p).leaf /\ top.children = TopOf(p).children
      BY <1>4, <1>7, <1>10
    <2>2. Intact("splitAlloc", gr, o, q, i, g, LeftHalf(f[Child(p, i)]), RightHalf(f[Child(p, i)]), f, n, K, C, L)
      BY <2>1, <1>2, <1>8, <1>10, <1>11, IntactSplit
    <2>3. QED BY <2>2, <1>4, <1>11
  <1>14. QED BY <1>1, <1>3, <1>12, <1>13, KeptQuiet

\* SaveNew.
LEMMA SaveNewTree ==
  ASSUME TypeInv, NEW w \in Writers, SaveNew(w), NEW C, NEW L, Holds(w, C, L)
  PROVE  Grown(w, C, L)
  <1>1. PICK o, gr, p, i, g, kd, sb, f, n, K, h : o = op[w] /\ gr = growing[w] /\ p = path[w] /\ i = idx[w] /\ g = page[w]
          /\ kd = kid[w] /\ sb = sib[w] /\ f = pages /\ n = num_pages /\ K = Present /\ h = pages'
    OBVIOUS
  <1>2. /\ Intact("saveNew", gr, o, p, i, g, kd, sb, f, n, K, C, L) /\ gr \in BOOLEAN /\ Filed(f, n)
        /\ WriterInv("saveNew", o, p, i, g, kd, sb, DOMAIN f, n)
    BY <1>1, HereFiled DEF Holds, SaveNew
  <1>3. WritePage(g, sb) /\ Wrote(f, g, sb, h) /\ g \in D
    BY <1>1, HereWrote, PageHere DEF SaveNew, SaveNode
  <1>4. PICK q, kk : q = Put(p, WithChild(TopOf(p), i, g)) /\ kk = WithNext(kd, g)
    OBVIOUS
  <1>5. Moved(w, "saveChild", o, gr, q, i, g, kk, sb)
    <2>1. path' = [path EXCEPT ![w] = q]
      BY <1>1, <1>4 DEF SaveNew, Put, WithChild, TopOf
    <2>2. kid' = [kid EXCEPT ![w] = kk]
      BY <1>1, <1>4 DEF SaveNew, WithNext
    <2>3. QED BY <2>1, <2>2, <1>1, Stays DEF SaveNew, Goto, Moved, TypeInv, WritersOK
  <1>6. Intact("saveChild", gr, o, q, i, g, kk, sb, h, n, K, C, L) /\ Later(f, C, L, h, C, L)
    BY <1>2, <1>3, <1>4, IntactSaveNew
  <1>7. UNCHANGED acked
    BY DEF SaveNew, history
  <1>8. QED BY <1>1, <1>3, <1>5, <1>6, <1>7, KeptWrite

\* SaveChild.
LEMMA SaveChildTree ==
  ASSUME TypeInv, NEW w \in Writers, SaveChild(w), NEW C, NEW L, Holds(w, C, L)
  PROVE  Grown(w, C, L)
  <1>1. PICK o, gr, p, i, g, kd, sb, f, n, K, h : o = op[w] /\ gr = growing[w] /\ p = path[w] /\ i = idx[w] /\ g = page[w]
          /\ kd = kid[w] /\ sb = sib[w] /\ f = pages /\ n = num_pages /\ K = Present /\ h = pages'
    OBVIOUS
  <1>2. /\ Intact("saveChild", gr, o, p, i, g, kd, sb, f, n, K, C, L) /\ gr \in BOOLEAN /\ Filed(f, n)
        /\ WriterInv("saveChild", o, p, i, g, kd, sb, DOMAIN f, n)
    BY <1>1, HereFiled DEF Holds, SaveChild
  <1>3. PICK id : id = Child(p, i)
    OBVIOUS
  <1>4. WritePage(id, kd) /\ Wrote(f, Child(p, i), kd, h) /\ id \in D
    <2>1. id = ChildPage(w)
      BY <1>1, <1>3, TopIs DEF Child, ChildPage
    <2>2. WritePage(id, kd) /\ id \in D
      BY <2>1, <1>1, ChildHere DEF SaveChild, SaveNode
    <2>3. QED BY <2>2, <1>1, <1>3, HereWrote
  <1>5. UNCHANGED acked
    BY DEF SaveChild, history
  <1>6. CASE gr
    <2>1. Moved(w, "saveRoot", o, gr, p, i, g, kd, sb)
      BY <1>1, <1>6, Stays DEF SaveChild, Goto, Moved, TypeInv, WritersOK, locals
    <2>2. Intact("saveRoot", gr, o, p, i, g, kd, sb, h, n, K, C, L) /\ Later(f, C, L, h, C, L)
      BY <1>2, <1>4, <1>6, IntactSaveChildRoot
    <2>3. QED BY <2>1, <2>2, <1>1, <1>4, <1>5, KeptWrite
  <1>7. CASE ~gr
    <2>1. Moved(w, "enter", o, gr, p, i, g, kd, sb)
      BY <1>1, <1>7, Stays DEF SaveChild, Goto, Moved, TypeInv, WritersOK, locals
    <2>2. PICK B : Intact("enter", gr, o, p, i, g, kd, sb, h, n, K, B, L) /\ Later(f, C, L, h, B, L)
      BY <1>2, <1>4, <1>7, IntactSaveChild
    <2>3. QED BY <2>1, <2>2, <1>1, <1>4, <1>5, KeptWrite
  <1>8. QED BY <1>6, <1>7

\* SaveRoot.
LEMMA SaveRootTree ==
  ASSUME TypeInv, NEW w \in Writers, SaveRoot(w), NEW C, NEW L, Holds(w, C, L)
  PROVE  Grown(w, C, L)
  <1>1. PICK o, gr, p, i, g, kd, sb, f, n, K, h : o = op[w] /\ gr = growing[w] /\ p = path[w] /\ i = idx[w] /\ g = page[w]
          /\ kd = kid[w] /\ sb = sib[w] /\ f = pages /\ n = num_pages /\ K = Present /\ h = pages'
    OBVIOUS
  <1>2. /\ Intact("saveRoot", gr, o, p, i, g, kd, sb, f, n, K, C, L) /\ gr \in BOOLEAN /\ Filed(f, n)
        /\ WriterInv("saveRoot", o, p, i, g, kd, sb, DOMAIN f, n)
    BY <1>1, HereFiled DEF Holds, SaveRoot
  <1>3. PICK id, node : id = Root /\ node = TopOf(p)
    OBVIOUS
  <1>4. WritePage(id, node) /\ Wrote(f, Root, TopOf(p), h) /\ id \in D
    <2>1. WritePage(id, node) /\ id \in D
      BY <1>1, <1>3, TopIs DEF SaveRoot, SaveNode, TypeInv, PagesOK
    <2>2. QED BY <2>1, <1>1, <1>3, HereWrote
  <1>5. UNCHANGED acked
    BY DEF SaveRoot, history
  <1>6. Moved(w, "reread", o, FALSE, p, i, g, kd, sb)
    BY <1>1, Stays DEF SaveRoot, Goto, Moved, TypeInv, WritersOK
  <1>7. PICK B, M : Intact("reread", FALSE, o, p, i, g, kd, sb, h, n, K, B, M) /\ Later(f, C, L, h, B, M)
    BY <1>2, <1>4, IntactSaveRoot
  <1>8. QED BY <1>1, <1>4, <1>5, <1>6, <1>7, KeptWrite

\* RereadRoot.
LEMMA RereadTree ==
  ASSUME TypeInv, NEW w \in Writers, RereadRoot(w), NEW C, NEW L, Holds(w, C, L)
  PROVE  Grown(w, C, L)
  <1>1. PICK o, gr, p, i, g, kd, sb, f, n, K : o = op[w] /\ gr = growing[w] /\ p = path[w] /\ i = idx[w] /\ g = page[w]
          /\ kd = kid[w] /\ sb = sib[w] /\ f = pages /\ n = num_pages /\ K = Present
    OBVIOUS
  <1>2. Intact("reread", gr, o, p, i, g, kd, sb, f, n, K, C, L) /\ gr \in BOOLEAN /\ Filed(f, n)
    BY <1>1, HereFiled DEF Holds, RereadRoot
  <1>3. UNCHANGED <<pages, acked>>
    BY DEF RereadRoot, history
  <1>4. PICK q : q = <<[id |-> Root, node |-> f[Root]]>>
    OBVIOUS
  <1>5. Moved(w, "visit", o, gr, q, i, g, kd, sb)
    BY <1>1, <1>4, Stays DEF RereadRoot, Goto, Moved, TypeInv, WritersOK
  <1>6. Intact("visit", gr, o, q, i, g, kd, sb, f, n, K, C, L)
    BY <1>2, <1>4, IntactRoot
  <1>7. QED BY <1>1, <1>3, <1>5, <1>6, KeptQuiet

\* VisitLeaf.
LEMMA VisitLeafTree ==
  ASSUME TypeInv, NEW w \in Writers, VisitLeaf(w), NEW C, NEW L, Holds(w, C, L)
  PROVE  Grown(w, C, L)
  <1>1. PICK o, gr, p, i, g, kd, sb, f, n, K : o = op[w] /\ gr = growing[w] /\ p = path[w] /\ i = idx[w] /\ g = page[w]
          /\ kd = kid[w] /\ sb = sib[w] /\ f = pages /\ n = num_pages /\ K = Present
    OBVIOUS
  <1>2. Intact("visit", gr, o, p, i, g, kd, sb, f, n, K, C, L) /\ gr \in BOOLEAN
    BY <1>1, HereFiled DEF Holds, VisitLeaf
  <1>3. UNCHANGED <<pages, acked>>
    BY DEF VisitLeaf, history
  <1>4. PICK t : t = TopOf(p)
    OBVIOUS
  <1>5. t = Top(w) /\ t.leaf /\ p \in Seq(Frame) /\ p # <<>> /\ Sound(t, D)
    BY <1>1, <1>4, TopIs, WhereHere DEF VisitLeaf, Walking, Parting
  <1>6. PICK new : new \in LeafWith(t, o.key, o.val) /\ path' = [path EXCEPT ![w][Len(path[w])].node = new]
    BY <1>1, <1>5 DEF VisitLeaf
  <1>7. /\ Sound(new, D) /\ new.leaf /\ new.next = t.next
        /\ Range(t.keys) \subseteq Range(new.keys) /\ o.key \in Range(new.keys)
    <2>1. o.key \in Keys /\ o.val \in Value
      BY <1>1, OpHere DEF VisitLeaf
    <2>2. PICK k \in Keys, v \in Value : k = o.key /\ v = o.val
      BY <2>1
    <2>3. new \in LeafWith(t, k, v)
      BY <2>2, <1>6
    <2>a. PICK S : S = D
      OBVIOUS
    <2>b. Sound(t, S)
      BY <2>a, <1>5
    <2>4. Sound(new, S) /\ LeafMore(t, k, new)
      BY <2>3, <2>b, <1>5, LeafWithMore
    <2>5. QED BY <2>2, <2>4, <2>a DEF LeafMore
  <1>8. PICK q : q = Put(p, new)
    OBVIOUS
  <1>9. Moved(w, "unwind", o, gr, q, i, g, kd, sb)
    <2>1. path' = [path EXCEPT ![w] = q]
      BY <1>1, <1>6, <1>8 DEF Put
    <2>2. QED BY <2>1, <1>1, Stays DEF VisitLeaf, Goto, Moved, TypeInv, WritersOK
  <1>10. Intact("unwind", gr, o, q, i, g, kd, sb, f, n, K, C, L)
    <2>1. TopOf(p).leaf /\ new \in Node /\ new.next = TopOf(p).next /\ Range(TopOf(p).keys) \subseteq Range(new.keys)
      BY <1>4, <1>5, <1>7 DEF Sound, Closed
    <2>2. QED BY <2>1, <1>2, <1>5, <1>7, <1>8, IntactLeaf
  <1>11. QED BY <1>1, <1>3, <1>9, <1>10, KeptQuiet

\* VisitInternal.
LEMMA VisitInternalTree ==
  ASSUME TypeInv, NEW w \in Writers, VisitInternal(w), NEW C, NEW L, Holds(w, C, L)
  PROVE  Grown(w, C, L)
  <1>1. PICK o, gr, p, i, g, kd, sb, f, n, K : o = op[w] /\ gr = growing[w] /\ p = path[w] /\ i = idx[w] /\ g = page[w]
          /\ kd = kid[w] /\ sb = sib[w] /\ f = pages /\ n = num_pages /\ K = Present
    OBVIOUS
  <1>2. Intact("visit", gr, o, p, i, g, kd, sb, f, n, K, C, L) /\ gr \in BOOLEAN /\ Filed(f, n)
    BY <1>1, HereFiled DEF Holds, VisitInternal
  <1>3. UNCHANGED <<pages, acked>>
    BY DEF VisitInternal, history
  <1>4. PICK S, t : S = D /\ t = TopOf(p)
    OBVIOUS
  <1>5. t = Top(w) /\ ~t.leaf /\ p \in Seq(Frame) /\ p # <<>> /\ Sound(t, S)
    BY <1>1, <1>4, TopIs, WhereHere DEF VisitInternal, Walking, Parting
  <1>6. t.children # <<>>
    BY <1>2, <1>4, <1>5, IntactChoose
  <1>7. PICK j \in ChildIndexes(t, o.key) :
           /\ idx' = [idx EXCEPT ![w] = j]
           /\ IF is_full(f[t.children[j]])
              THEN Goto(w, "split") /\ UNCHANGED path
              ELSE /\ path' = [path EXCEPT ![w] = Append(@, [id |-> t.children[j], node |-> f[t.children[j]]])]
                   /\ UNCHANGED pc
    BY <1>1, <1>5, <1>6 DEF VisitInternal
  <1>8. j \in 1..Len(t.children)
    BY <1>5, <1>6, <1>7, ChildRange
  <1>9. j \in DOMAIN t.children /\ j # 0 /\ t.children[j] \in S /\ Len(t.children) \in Nat
    BY <1>5, <1>8, NodeFields, SeqDomain DEF Sound, Closed
  <1>10. PICK id, node : id = t.children[j] /\ node = f[id]
    OBVIOUS
  <1>11. node \in Node /\ id \in Nat
    BY <1>1, <1>4, <1>9, <1>10, PageRead DEF TypeInv, PagesOK
  <1>12. /\ Intact("visit", gr, o, p, j, g, kd, sb, f, n, K, C, L)
         /\ is_full(node) => Intact("split", gr, o, p, j, g, kd, sb, f, n, K, C, L)
    BY <1>2, <1>4, <1>5, <1>10, IntactChoose DEF Child
  <1>13. CASE is_full(node)
    <2>1. Moved(w, "split", o, gr, p, j, g, kd, sb)
      BY <1>1, <1>7, <1>10, <1>13, Stays DEF VisitInternal, Goto, Moved, TypeInv, WritersOK
    <2>2. QED BY <2>1, <1>1, <1>3, <1>12, <1>13, KeptQuiet
  <1>14. CASE ~is_full(node)
    <2>1. PICK fr : fr = [id |-> id, node |-> node]
      OBVIOUS
    <2>2. fr \in Frame /\ fr.id = id /\ fr.node = f[id]
      BY <2>1, <1>10, <1>11 DEF Frame, PageId
    <2>3. PICK q : q = Append(p, fr)
      OBVIOUS
    <2>4. Moved(w, "visit", o, gr, q, j, g, kd, sb)
      <3>1. path' = [path EXCEPT ![w] = q]
        BY <1>1, <1>7, <1>10, <1>14, <2>1, <2>3
      <3>2. pc' = [pc EXCEPT ![w] = "visit"]
        BY <1>7, <1>10, <1>14, Stays DEF VisitInternal, TypeInv, WritersOK
      <3>3. QED BY <3>1, <3>2, <1>1, <1>7, Stays DEF VisitInternal, Moved, TypeInv, WritersOK
    <2>5. Intact("visit", gr, o, q, j, g, kd, sb, f, n, K, C, L)
      BY <1>2, <1>4, <1>5, <1>9, <1>10, <1>12, <2>2, <2>3, IntactAppend
    <2>6. QED BY <2>4, <2>5, <1>1, <1>3, KeptQuiet
  <1>15. QED BY <1>13, <1>14

\* Enter.
LEMMA EnterTree ==
  ASSUME TypeInv, NEW w \in Writers, Enter(w), NEW C, NEW L, Holds(w, C, L)
  PROVE  Grown(w, C, L)
  <1>1. PICK o, gr, p, i, g, kd, sb, f, n, K : o = op[w] /\ gr = growing[w] /\ p = path[w] /\ i = idx[w] /\ g = page[w]
          /\ kd = kid[w] /\ sb = sib[w] /\ f = pages /\ n = num_pages /\ K = Present
    OBVIOUS
  <1>2. Intact("enter", gr, o, p, i, g, kd, sb, f, n, K, C, L) /\ gr \in BOOLEAN /\ Filed(f, n)
    BY <1>1, HereFiled DEF Holds, Enter
  <1>3. UNCHANGED <<pages, acked>>
    BY DEF Enter, history
  <1>4. PICK S, t, j : S = D /\ t = TopOf(p) /\ j = HalfFor(w)
    OBVIOUS
  <1>5. WriterInv("enter", o, p, i, g, kd, sb, S, n)
    BY <1>1, <1>4, HereFiled DEF Enter, D
  <1>6. j \in {i, i + 1}
    BY <1>1, <1>4 DEF HalfFor
  <1>7. p \in Seq(Frame) /\ p # <<>> /\ ~t.leaf /\ Sound(t, S)
    BY <1>1, <1>4, TopIs, WhereHere, ChildHere DEF Enter, Walking, Parting
  <1>8. j \in DOMAIN t.children /\ t.children[j] \in S /\ j \in 1..Len(t.children)
    BY <1>4, <1>5, <1>6, EnterRange
  <1>9. j # 0
    BY <1>8, <1>7, NodeFields DEF Sound, Closed
  <1>10. PICK id, node : id = t.children[j] /\ node = f[id]
    OBVIOUS
  <1>11. node \in Node /\ id \in Nat
    BY <1>1, <1>4, <1>8, <1>10, PageRead DEF TypeInv, PagesOK
  <1>12. PICK fr : fr = [id |-> id, node |-> node]
    OBVIOUS
  <1>13. fr \in Frame /\ fr.id = id /\ fr.node = f[id]
    BY <1>10, <1>11, <1>12 DEF Frame, PageId
  <1>14. PICK q : q = Append(p, fr)
    OBVIOUS
  <1>15. Moved(w, "visit", o, gr, q, i, g, kd, sb)
    <2>1. path' = [path EXCEPT ![w] = q]
      BY <1>1, <1>4, <1>10, <1>12, <1>14, TopIs DEF Enter
    <2>2. QED BY <2>1, <1>1, Stays DEF Enter, Goto, Moved, TypeInv, WritersOK
  <1>16. Intact("visit", gr, o, q, i, g, kd, sb, f, n, K, C, L)
    BY <1>2, <1>4, <1>7, <1>8, <1>9, <1>10, <1>13, <1>14, IntactAppend
  <1>17. QED BY <1>1, <1>3, <1>15, <1>16, KeptQuiet

\* Unwind.
LEMMA UnwindTree ==
  ASSUME TypeInv, NEW w \in Writers, Unwind(w), NEW C, NEW L, Holds(w, C, L)
  PROVE  Grown(w, C, L)
  <1>1. PICK o, gr, p, i, g, kd, sb, f, n, K, h : o = op[w] /\ gr = growing[w] /\ p = path[w] /\ i = idx[w] /\ g = page[w]
          /\ kd = kid[w] /\ sb = sib[w] /\ f = pages /\ n = num_pages /\ K = Present /\ h = pages'
    OBVIOUS
  <1>2. /\ Intact("unwind", gr, o, p, i, g, kd, sb, f, n, K, C, L) /\ gr \in BOOLEAN /\ Filed(f, n)
        /\ WriterInv("unwind", o, p, i, g, kd, sb, DOMAIN f, n)
    BY <1>1, HereFiled DEF Holds, Unwind
  <1>3. PICK id, node : id = p[Len(p)].id /\ node = TopOf(p)
    OBVIOUS
  <1>4. WritePage(id, node) /\ Wrote(f, p[Len(p)].id, TopOf(p), h) /\ id \in D
    <2>1. WritePage(id, node)
      BY <1>1, <1>3, TopIs DEF Unwind, SaveNode, Last
    <2>2. id \in D
      BY <1>1, <1>3, WhereHere DEF Unwind, Walking
    <2>3. QED BY <2>1, <2>2, <1>1, <1>3, HereWrote
  <1>5. UNCHANGED acked
    BY DEF Unwind, history
  <1>6. Len(p) > 1
    BY <1>1 DEF Unwind
  <1>7. PICK q : q = Front(p)
    OBVIOUS
  <1>8. Moved(w, "unwind", o, gr, q, i, g, kd, sb)
    <2>1. pc' = [pc EXCEPT ![w] = "unwind"]
      BY Stays DEF Unwind, TypeInv, WritersOK
    <2>2. path' = [path EXCEPT ![w] = q]
      BY <1>1, <1>7 DEF Unwind
    <2>3. QED BY <2>1, <2>2, <1>1, Stays DEF Unwind, Moved, TypeInv, WritersOK
  <1>9. Intact("unwind", gr, o, q, i, g, kd, sb, h, n, K, C, L) /\ Later(f, C, L, h, C, L)
    BY <1>2, <1>4, <1>6, <1>7, IntactUnwind
  <1>10. QED BY <1>1, <1>4, <1>5, <1>8, <1>9, KeptWrite

\* The writer saves the root and is done, whatever becomes of the acknowledgement.
LEMMA EndTree ==
  ASSUME TypeInv, NEW w \in Writers, pc[w] = "unwind", Len(path[w]) = 1, SaveNode(Root, Top(w)), Return(w),
         Present' \subseteq Present \cup {op[w].key}, NEW C, NEW L, Holds(w, C, L)
  PROVE  Grown(w, C, L)
  <1>1. PICK o, gr, p, i, g, kd, sb, f, n, K, h, H : o = op[w] /\ gr = growing[w] /\ p = path[w] /\ i = idx[w] /\ g = page[w]
          /\ kd = kid[w] /\ sb = sib[w] /\ f = pages /\ n = num_pages /\ K = Present /\ h = pages' /\ H = Present'
    OBVIOUS
  <1>2. /\ Intact("unwind", gr, o, p, i, g, kd, sb, f, n, K, C, L) /\ gr \in BOOLEAN /\ Filed(f, n)
        /\ WriterInv("unwind", o, p, i, g, kd, sb, DOMAIN f, n)
    BY <1>1, HereFiled DEF Holds
  <1>3. PICK id, node : id = Root /\ node = TopOf(p)
    OBVIOUS
  <1>4. WritePage(id, node) /\ Wrote(f, Root, TopOf(p), h) /\ id \in D
    <2>1. WritePage(id, node) /\ id \in D
      BY <1>1, <1>3, TopIs DEF SaveNode, TypeInv, PagesOK
    <2>2. QED BY <2>1, <1>1, <1>3, HereWrote
  <1>5. PICK gg, oo, pp, ee, kk, ss, ii : gg = FALSE /\ oo = NoOp /\ pp = <<>> /\ ee = 0 /\ kk = Blank /\ ss = Blank /\ ii = 0
    OBVIOUS
  <1>6. Moved(w, "idle", oo, gg, pp, ii, ee, kk, ss)
    BY <1>5 DEF Return, Goto, Moved
  <1>7. Intact("idle", gg, oo, pp, ii, ee, kk, ss, h, n, H, C, L) /\ Later(f, C, L, h, C, L)
    <2>1. H \subseteq K \cup {o.key} /\ Len(p) = 1
      BY <1>1
    <2>2. QED BY <2>1, <1>2, <1>4, <1>5, IntactFinish, ZenonT(40)
  <1>8. n = num_pages'
    BY <1>1, <1>4, SizeKept
  <1>9. QED BY <1>1, <1>6, <1>7, <1>8, Kept

\* Finish.
LEMMA FinishTree ==
  ASSUME TypeInv, NEW w \in Writers, Finish(w), NEW C, NEW L, Holds(w, C, L)
  PROVE  Grown(w, C, L)
  <1>1. Present' \subseteq Present \cup {op[w].key}
    BY DEF Present, Finish, TypeInv, WritersOK, VarsOK
  <1>2. QED BY <1>1, EndTree DEF Finish

\* SyncFail.
LEMMA SyncFailTree ==
  ASSUME TypeInv, NEW w \in Writers, SyncFail(w), NEW C, NEW L, Holds(w, C, L)
  PROVE  Grown(w, C, L)
  <1>1. Present' \subseteq Present \cup {op[w].key}
    BY PresentSame DEF SyncFail
  <1>2. QED BY <1>1, EndTree DEF SyncFail

\* Fail.
LEMMA FailTree ==
  ASSUME TypeInv, NEW w \in Writers, Fail(w), NEW C, NEW L, Holds(w, C, L)
  PROVE  Grown(w, C, L)
  <1>1. PICK c, o, gr, p, i, g, kd, sb, f, n, K : c = pc[w] /\ o = op[w] /\ gr = growing[w] /\ p = path[w] /\ i = idx[w]
          /\ g = page[w] /\ kd = kid[w] /\ sb = sib[w] /\ f = pages /\ n = num_pages /\ K = Present
    OBVIOUS
  <1>2. Intact(c, gr, o, p, i, g, kd, sb, f, n, K, C, L)
    BY <1>1 DEF Holds
  <1>3. UNCHANGED <<pages, acked>> /\ Return(w)
    BY DEF Fail
  <1>5. PICK gg, oo, pp, ee, kk, ss, ii : gg = FALSE /\ oo = NoOp /\ pp = <<>> /\ ee = 0 /\ kk = Blank /\ ss = Blank /\ ii = 0
    OBVIOUS
  <1>6. Moved(w, "idle", oo, gg, pp, ii, ee, kk, ss)
    BY <1>3, <1>5 DEF Return, Goto, Moved
  <1>7. Intact("idle", gg, oo, pp, ii, ee, kk, ss, f, n, K, C, L)
    BY <1>2, <1>5, IntactIdle
  <1>8. QED BY <1>1, <1>3, <1>6, <1>7, KeptQuiet

\* Every step of the writer.
LEMMA StepTree ==
  ASSUME TypeInv, NEW w \in Writers, Step(w), NEW C, NEW L, Holds(w, C, L)
  PROVE  Grown(w, C, L)
  <1>1. CASE \E k \in Keys, wt \in Weights : Insert(w, k, wt)
    BY <1>1, InsertTree
  <1>2. CASE ReadRoot(w)
    BY <1>2, ReadRootTree
  <1>3. CASE AllocatePage(w, "growAlloc", "growBlank")
    BY <1>3, AllocateTree
  <1>4. CASE BlankPage(w, "growBlank", "growSave")
    BY <1>4, BlankTree
  <1>5. CASE GrowSave(w)
    BY <1>5, GrowSaveTree
  <1>6. CASE SplitRead(w)
    BY <1>6, SplitReadTree
  <1>7. CASE AllocatePage(w, "splitAlloc", "splitBlank")
    BY <1>7, AllocateTree
  <1>8. CASE BlankPage(w, "splitBlank", "saveNew")
    BY <1>8, BlankTree
  <1>9. CASE SaveNew(w)
    BY <1>9, SaveNewTree
  <1>10. CASE SaveChild(w)
    BY <1>10, SaveChildTree
  <1>11. CASE SaveRoot(w)
    BY <1>11, SaveRootTree
  <1>12. CASE RereadRoot(w)
    BY <1>12, RereadTree
  <1>13. CASE VisitLeaf(w)
    BY <1>13, VisitLeafTree
  <1>14. CASE VisitInternal(w)
    BY <1>14, VisitInternalTree
  <1>15. CASE Enter(w)
    BY <1>15, EnterTree
  <1>16. CASE Unwind(w)
    BY <1>16, UnwindTree
  <1>17. CASE Finish(w)
    BY <1>17, FinishTree
  <1>18. CASE SyncFail(w)
    BY <1>18, SyncFailTree
  <1>19. CASE Fail(w)
    BY <1>19, FailTree
  <1>20. QED BY <1>1, <1>2, <1>3, <1>4, <1>5, <1>6, <1>7, <1>8, <1>9, <1>10, <1>11, <1>12, <1>13, <1>14, <1>15,
              <1>16, <1>17, <1>18, <1>19 DEF Step

-----------------------------------------------------------------------------
(* What readers make of it.                                                *)

\* FirstLeaf goes down the left edge.
LEMMA WalkDown ==
  ASSUME NEW f, NEW n, Filed(f, n), NEW L, LeftOK(f, L), Len(L) <= n,
         NEW F, F = [p \in DOMAIN f |-> IF f[p].leaf \/ f[p].children = <<>> THEN p ELSE f[p].children[1]]
  PROVE  Iterate(F, Root, n) = L[Len(L)]
  <1>1. PICK S : S = DOMAIN f
    OBVIOUS
  <1>2. PICK a : a = Len(L)
    OBVIOUS
  <1>3. /\ L \in Seq(S) /\ L[1] = Root /\ a \in Nat \ {0} /\ \A x \in 1..a : L[x] \in S
        /\ \A x \in 1..a : x # a => ~f[L[x]].leaf /\ f[L[x]].children # <<>> /\ f[L[x]].children[1] = L[x + 1]
        /\ f[L[a]].leaf
    BY <1>1, <1>2, SeqEnds DEF LeftOK
  <1>4. n \in Nat /\ a <= n /\ Root \in S
    BY <1>1, <1>2 DEF Filed
  <1>5. F \in [S -> S]
    <2>1. ASSUME NEW p \in S PROVE (IF f[p].leaf \/ f[p].children = <<>> THEN p ELSE f[p].children[1]) \in S
      <3>1. Sound(f[p], S) /\ f[p].children \in Seq(PageId)
        BY <1>1, NodeFields DEF Filed, Sound, Closed
      <3>2. CASE f[p].children # <<>>
        <4>1. 1 \in DOMAIN f[p].children
          BY <3>1, <3>2, SeqEnds
        <4>2. QED BY <4>1, <3>1 DEF Sound, Closed
      <3>3. QED BY <3>2
    <2>2. QED BY <2>1, <1>1
  <1>6. PICK it \in [0..n -> S] : it[0] = Root /\ (\A i \in 1..n : it[i] = F[it[i - 1]]) /\ Iterate(F, Root, n) = it[n]
    <2>1. \E it \in [0..n -> S] : Walk(it, F, Root, n)
      BY <1>4, <1>5, IterateDef, ZenonT(40)
    <2>2. QED BY <2>1 DEF Walk
  <1> DEFINE T == {m \in 0..n : it[m] = IF m < a THEN L[m + 1] ELSE L[a]}
  <1>7. 0 \in T
    BY <1>3, <1>4, <1>6
  <1>8. ASSUME NEW m \in 1..n, m - 1 \in T PROVE m \in T
    <2>1. it[m] = F[it[m - 1]]
      BY <1>6
    <2>2. it[m - 1] = IF m - 1 < a THEN L[m] ELSE L[a]
      BY <1>8
    <2>3. CASE m < a
      <3>1. m \in 1..a /\ m # a /\ it[m - 1] = L[m] /\ L[m] \in S
        BY <2>2, <2>3, <1>3
      <3>2. F[L[m]] = L[m + 1]
        BY <3>1, <1>1, <1>3
      <3>3. QED BY <2>1, <2>3, <3>1, <3>2
    <2>4. CASE ~(m < a)
      <3>1. it[m - 1] = L[a] /\ L[a] \in S
        <4>1. m - 1 < a => m = a
          BY <2>4, <1>3
        <4>2. a \in 1..a
          BY <1>3
        <4>3. QED BY <4>1, <4>2, <2>2, <1>3
      <3>2. F[L[a]] = L[a]
        BY <3>1, <1>1, <1>3
      <3>3. QED BY <2>1, <2>4, <3>1, <3>2
    <2>5. QED BY <2>3, <2>4
  <1> HIDE DEF T
  <1>9. n \in T
    BY <1>4, <1>7, <1>8, UpToEnd
  <1>10. it[n] = L[a]
    BY <1>9, <1>3, <1>4 DEF T
  <1>11. QED BY <1>2, <1>6, <1>10

\* Chain goes through the whole chain.
LEMMA WalkRight ==
  ASSUME NEW f, NEW n, Filed(f, n), NEW C, ChainOK(f, C), Len(C) <= n,
         NEW G, G = [S \in SUBSET DOMAIN f |-> S \cup ({f[p].next : p \in S} \ {NoPage})]
  PROVE  Range(C) \subseteq Iterate(G, {C[1]}, n)
  <1>1. PICK S : S = DOMAIN f
    OBVIOUS
  <1>2. PICK a : a = Len(C)
    OBVIOUS
  <1>3. /\ C \in Seq(S) /\ a \in Nat \ {0} /\ DOMAIN C = 1..a /\ \A x \in 1..a : C[x] \in S
        /\ \A x \in 1..a : f[C[x]].next = IF x = a THEN NoPage ELSE C[x + 1]
    BY <1>1, <1>2, SeqEnds DEF ChainOK
  <1>4. n \in Nat /\ a <= n
    BY <1>2 DEF Filed
  <1>5. G \in [SUBSET S -> SUBSET S]
    <2>1. ASSUME NEW R \in SUBSET S PROVE R \cup ({f[p].next : p \in R} \ {NoPage}) \in SUBSET S
      <3>1. \A p \in R : f[p].next \in S \cup {NoPage}
        BY <1>1 DEF Filed, Sound, Closed
      <3>2. QED BY <3>1
    <2>2. QED BY <2>1, <1>1
  <1>6. PICK x0 : x0 = {C[1]}
    OBVIOUS
  <1>7. x0 \in SUBSET S
    BY <1>3, <1>6
  <1>8. PICK it \in [0..n -> SUBSET S] : it[0] = x0 /\ (\A i \in 1..n : it[i] = G[it[i - 1]]) /\ Iterate(G, x0, n) = it[n]
    <2>1. PICK U : U = SUBSET S
      OBVIOUS
    <2>2. G \in [U -> U] /\ x0 \in U
      BY <2>1, <1>5, <1>7
    <2>3. \E it \in [0..n -> U] : Walk(it, G, x0, n)
      BY <2>2, <1>4, IterateDef
    <2>4. QED BY <2>1, <2>3 DEF Walk
  <1> DEFINE T == {m \in 0..n : \A x \in 1..a : x <= m + 1 => C[x] \in it[m]}
  <1>9. 0 \in T
    BY <1>3, <1>4, <1>6, <1>8
  <1>10. ASSUME NEW m \in 1..n, m - 1 \in T PROVE m \in T
    <2>a. m - 1 \in 0..n /\ m \in 1..n
      BY <1>4
    <2>1. it[m] = G[it[m - 1]] /\ it[m - 1] \in SUBSET S
      BY <2>a, <1>8
    <2>2. it[m] = it[m - 1] \cup ({f[p].next : p \in it[m - 1]} \ {NoPage})
      BY <2>1, <1>1
    <2>3. ASSUME NEW x \in 1..a, x <= m + 1 PROVE C[x] \in it[m]
      <3>1. CASE x <= m
        <4>1. C[x] \in it[m - 1]
          BY <3>1, <1>10
        <4>2. QED BY <4>1, <2>2
      <3>2. CASE ~(x <= m)
        <4>1. x = m + 1 /\ m \in 1..a /\ m # a /\ m <= m - 1 + 1
          BY <3>2, <2>3, <1>3
        <4>2. C[m] \in it[m - 1]
          BY <4>1, <1>10
        <4>3. f[C[m]].next = C[x] /\ C[x] \in S
          BY <4>1, <1>3
        <4>4. C[x] # NoPage
          BY <4>3, <1>1 DEF Filed, NoPage
        <4>5. QED BY <4>2, <4>3, <4>4, <2>2
      <3>3. QED BY <3>1, <3>2
    <2>4. QED BY <2>3
  <1> HIDE DEF T
  <1>11. n \in T
    BY <1>4, <1>9, <1>10, UpToEnd
  <1>12. ASSUME NEW x \in 1..a PROVE C[x] \in it[n]
    <2>1. x <= n + 1
      BY <1>3, <1>4
    <2>2. \A y \in 1..a : y <= n + 1 => C[y] \in it[n]
      BY <1>11 DEF T
    <2>3. QED BY <2>1, <2>2
  <1>13. Range(C) \subseteq it[n]
    BY <1>3, <1>12 DEF Range
  <1>14. Iterate(G, {C[1]}, n) = it[n]
    BY <1>6, <1>8
  <1>15. QED BY <1>13, <1>14

\* Reachable meets no blank page.
LEMMA WalkTree ==
  ASSUME NEW f, NEW n, Filed(f, n), NEW C, NEW L, Tree(f, C, L),
         NEW G, G = [S \in SUBSET DOMAIN f |-> S \cup UNION {Range(f[p].children) : p \in S}]
  PROVE  \A p \in Iterate(G, {Root}, n) : p \in DOMAIN f /\ f[p] # Blank
  <1>1. PICK S, R : S = DOMAIN f /\ R = {p \in DOMAIN f : f[p] # Blank}
    OBVIOUS
  <1>2. n \in Nat /\ Root \in R
    BY <1>1, RootSafe DEF Filed
  <1>3. ASSUME NEW p \in S PROVE Range(f[p].children) \subseteq R
    BY <1>1, <1>3 DEF Tree, SafeNode, Safe, Range
  <1>4. G \in [SUBSET S -> SUBSET S]
    <2>1. R \subseteq S
      BY <1>1
    <2>2. QED BY <1>1, <1>3, <2>1
  <1>6. PICK x0 : x0 = {Root}
    OBVIOUS
  <1>7. x0 \in SUBSET S /\ x0 \subseteq R
    BY <1>1, <1>2, <1>6
  <1>8. PICK it \in [0..n -> SUBSET S] : it[0] = x0 /\ (\A i \in 1..n : it[i] = G[it[i - 1]]) /\ Iterate(G, x0, n) = it[n]
    <2>1. PICK U : U = SUBSET S
      OBVIOUS
    <2>2. G \in [U -> U] /\ x0 \in U
      BY <2>1, <1>4, <1>7
    <2>3. \E it \in [0..n -> U] : Walk(it, G, x0, n)
      BY <2>2, <1>2, IterateDef
    <2>4. QED BY <2>1, <2>3 DEF Walk
  <1> DEFINE T == {m \in 0..n : it[m] \subseteq R}
  <1>9. 0 \in T
    BY <1>2, <1>7, <1>8
  <1>10. ASSUME NEW m \in 1..n, m - 1 \in T PROVE m \in T
    <2>1. it[m] = G[it[m - 1]] /\ it[m - 1] \in SUBSET S /\ it[m - 1] \subseteq R
      BY <1>8, <1>10
    <2>2. it[m] = it[m - 1] \cup UNION {Range(f[p].children) : p \in it[m - 1]}
      BY <2>1, <1>1
    <2>3. QED BY <2>1, <2>2, <1>3
  <1> HIDE DEF T
  <1>11. n \in T
    BY <1>2, <1>9, <1>10, UpToEnd
  <1>12. QED BY <1>1, <1>6, <1>8, <1>11 DEF T

\* The invariant implies ScanComplete.
LEMMA ScanHolds ==
  ASSUME TypeInv, NEW w \in Writers, NEW C, NEW L, Holds(w, C, L)
  PROVE  ScanComplete
  <1>1. PICK f, n, K : f = pages /\ n = num_pages /\ K = Present
    OBVIOUS
  <1>2. Filed(f, n)
    BY <1>1, HereFiled
  <1>3. Tree(f, C, L) /\ Len(C) <= n /\ Len(L) <= n /\ K \subseteq ChainKeys(f, C)
    BY <1>1 DEF Holds, Intact, Room, Stored
  <1>4. FirstLeaf = C[1]
    <2>1. PICK F : F = [p \in DOMAIN f |-> IF f[p].leaf \/ f[p].children = <<>> THEN p ELSE f[p].children[1]]
      OBVIOUS
    <2>2. FirstLeaf = Iterate(F, Root, n)
      BY <2>1, <1>1 DEF FirstLeaf
    <2>3. QED BY <2>1, <2>2, <1>2, <1>3, WalkDown DEF Tree, JoinOK
  <1>5. Range(C) \subseteq Chain
    <2>1. PICK G : G = [S \in SUBSET DOMAIN f |-> S \cup ({f[p].next : p \in S} \ {NoPage})]
      OBVIOUS
    <2>2. Chain = Iterate(G, {C[1]}, n)
      BY <2>1, <1>1, <1>4 DEF Chain
    <2>3. QED BY <2>1, <2>2, <1>2, <1>3, WalkRight DEF Tree
  <1>6. ASSUME NEW x \in DOMAIN C PROVE C[x] \in Chain /\ f[C[x]].leaf
    BY <1>3, <1>5 DEF Range, Tree, ChainOK
  <1>7. ChainKeys(f, C) \subseteq Scanned
    BY <1>1, <1>6 DEF ChainKeys, Scanned
  <1>8. QED BY <1>1, <1>3, <1>7 DEF ScanComplete

\* With one writer it implies NoBlankReached.
LEMMA ReachHolds ==
  ASSUME TypeInv, NEW w, Writers = {w}, NEW C, NEW L, Holds(w, C, L)
  PROVE  NoBlankReached
  <1>1. PICK f, n : f = pages /\ n = num_pages
    OBVIOUS
  <1>2. Filed(f, n) /\ Tree(f, C, L)
    BY <1>1, HereFiled DEF Holds, Intact
  <1>3. PICK G : G = [S \in SUBSET DOMAIN f |-> S \cup UNION {Range(f[p].children) : p \in S}]
    OBVIOUS
  <1>4. Reachable = Iterate(G, {Root}, n)
    BY <1>1, <1>3 DEF Reachable, Subtree, Children
  <1>5. \A p \in Reachable : pages[p] # Blank
    <2>1. \A p \in Iterate(G, {Root}, n) : p \in DOMAIN f /\ f[p] # Blank
      BY <1>2, <1>3, WalkTree
    <2>2. QED BY <2>1, <1>1, <1>4
  <1>6. \A v \in Writers : pc[v] # "panicked"
    BY DEF Holds, Intact
  <1>7. QED BY <1>5, <1>6 DEF NoBlankReached

\* It holds at the start: the root is the chain and the left edge.
LEMMA InitHolds ==
  ASSUME Init, NEW w \in Writers
  PROVE  \E C, L : Holds(w, C, L)
  <1>1. PICK C, L : C = <<Root>> /\ L = <<Root>>
    OBVIOUS
  <1>2. PICK f, n : f = pages /\ n = num_pages
    OBVIOUS
  <1>3. DOMAIN f = {Root} /\ f[Root] = new_leaf
    BY <1>2 DEF Init
  <1>4. /\ C \in Seq(DOMAIN f) /\ C # <<>> /\ Len(C) = 1 /\ DOMAIN C = {1} /\ C[1] = Root /\ Range(C) = {Root}
        /\ L = C
    BY <1>1, <1>3 DEF Range
  <1>5. n = 1
    BY <1>2, <1>3, FS_Singleton DEF num_pages
  <1>6. Tree(f, C, L)
    <2>1. new_leaf.leaf /\ new_leaf.next = NoPage /\ new_leaf.children = <<>> /\ new_leaf # Blank /\ DOMAIN <<>> = {}
      BY EmptyNodes
    <2>2. ChainOK(f, C)
      BY <1>3, <1>4, <2>1 DEF ChainOK
    <2>3. LeftOK(f, L)
      BY <1>3, <1>4, <2>1 DEF LeftOK
    <2>4. JoinOK(f, C, L)
      BY <1>3, <1>4, <2>1 DEF JoinOK
    <2>5. \A p \in DOMAIN f : SafeNode(f[p], f, C)
      BY <1>3, <2>1 DEF SafeNode
    <2>6. QED BY <2>2, <2>3, <2>4, <2>5 DEF Tree
  <1>7. pc[w] = "idle" /\ growing[w] = FALSE /\ Present = {}
    BY DEF Init, Present
  <1>8. PICK c, gr, o, p, i, g, kd, sb, K : c = pc[w] /\ gr = growing[w] /\ o = op[w] /\ p = path[w] /\ i = idx[w]
          /\ g = page[w] /\ kd = kid[w] /\ sb = sib[w] /\ K = Present
    OBVIOUS
  <1>9. c = "idle" /\ ~gr /\ K = {}
    BY <1>7, <1>8
  <1>10. Intact(c, gr, o, p, i, g, kd, sb, f, n, K, C, L)
    <2>1. Room(c, gr, n, C, L)
      <3>0. Len(C) = 1 /\ L = C
        BY <1>4
      <3>1. Len(C) <= n /\ Len(L) <= n
        <4>1. Len(C) = n /\ Len(L) = n /\ n \in Nat
          BY <3>0, <1>5
        <4>2. QED BY <4>1
      <3>2. ~(c \in {"growSave", "saveNew", "saveChild", "saveRoot"} \/ (gr /\ c \in Splitting))
        BY <1>9
      <3>3. QED BY <3>1, <3>2 DEF Room
    <2>2. Stored(K, c, o, p, f, C)
      BY <1>9 DEF Stored
    <2>3. Alloc(c, g, f, n)
      BY <1>9 DEF Alloc
    <2>4. GrowSafe(c, gr, p, i, g, kd, f, C)
      BY <1>9 DEF GrowSafe, Before
    <2>5. Halved(c, p, i, g, kd, sb, f, C)
      BY <1>9 DEF Halved, Parting
    <2>6. c \notin Walking /\ c # "panicked"
      BY <1>9 DEF Walking, Parting
    <2>7. QED BY <1>6, <2>1, <2>2, <2>3, <2>4, <2>5, <2>6 DEF Intact
  <1>11. QED BY <1>2, <1>8, <1>10 DEF Holds

-----------------------------------------------------------------------------
(* The theorems about the tree.                                            *)

\* It holds when nothing happens.
LEMMA HoldsSame ==
  ASSUME UNCHANGED vars, NEW w, NEW C, NEW L, Holds(w, C, L)
  PROVE  Holds(w, C, L)'
  BY DEF Holds, Present, num_pages, vars

\* Every step, with one writer.
LEMMA NextTree ==
  ASSUME TypeInv, NEW w, Writers = {w}, Next, NEW C, NEW L, Holds(w, C, L)
  PROVE  Grown(w, C, L)
  BY StepTree DEF Next

\* The inductive invariant of ScanComplete and NoBlankReached.
TreeInv(w) == TypeInv /\ \E C, L : Holds(w, C, L)

\* It is inductive when w is the only writer.
LEMMA TreeNext ==
  ASSUME NEW w, Writers = {w}, TreeInv(w), [Next]_vars
  PROVE  TreeInv(w)'
  <1>1. TypeInv'
    BY TypeNext DEF TreeInv
  <1>2. PICK C, L : Holds(w, C, L)
    BY DEF TreeInv
  <1>3. \E B, M : Holds(w, B, M)'
    <2>1. CASE Next
      BY <2>1, <1>2, NextTree DEF TreeInv, Grown
    <2>2. CASE UNCHANGED vars
      BY <2>2, <1>2, HoldsSame
    <2>3. QED BY <2>1, <2>2
  <1>4. QED BY <1>1, <1>3 DEF TreeInv

\* It holds in every state.
LEMMA TreeAlways ==
  ASSUME NEW CONSTANT w, Writers = {w}
  PROVE  Spec => []TreeInv(w)
  <1>1. Init => TreeInv(w)
    BY TypeInit, InitHolds DEF TreeInv
  <1>2. TreeInv(w) /\ [Next]_vars => TreeInv(w)'
    BY TreeNext
  <1>3. QED BY <1>1, <1>2, PTL DEF Spec

\* With one writer a key whose insert returned Ok is on the leaf chain in every state, between any
\* two writes of a split and after inserts that failed half way: no scan loses a row (btree.rs
\* split_child, insert).
THEOREM ScanCorrect ==
  ASSUME NEW CONSTANT w, Writers = {w}
  PROVE  Spec => []ScanComplete
  <1>1. TreeInv(w) => ScanComplete
    BY ScanHolds DEF TreeInv
  <1>2. QED BY <1>1, TreeAlways, PTL

\* With one writer no pointer of the tree leads to a page that was allocated but not filled, and
\* no insert panics at a node without children (btree.rs allocate_page, split_child).
THEOREM ReachCorrect ==
  ASSUME NEW CONSTANT w, Writers = {w}
  PROVE  Spec => []NoBlankReached
  <1>1. TreeInv(w) => NoBlankReached
    BY ReachHolds DEF TreeInv
  <1>2. QED BY <1>1, TreeAlways, PTL

\* No page is ever removed.
LEMMA PagesStay ==
  ASSUME Next
  PROVE  D \subseteq D'
  <1>1. ASSUME NEW id, NEW node, WritePage(id, node) PROVE D \subseteq D'
    BY <1>1 DEF WritePage, D
  <1>2. (\E id, node : WritePage(id, node)) \/ UNCHANGED pages
    BY DEF Next, Step, Insert, ReadRoot, AllocatePage, BlankPage, GrowSave, SplitRead, SaveNew, SaveChild, SaveRoot,
           RereadRoot, VisitLeaf, VisitInternal, Enter, Unwind, Finish, SyncFail, Fail, SaveNode
  <1>3. QED BY <1>1, <1>2 DEF D

\* The type invariant of the scan is inductive.
LEMMA ScanTypeStep ==
  ASSUME TypeInv, ScanTypeOK, [TreeScanNext]_<<vars, scanVars>>
  PROVE  ScanTypeOK'
  <1>1. \A p \in D : /\ Range(pages[p].keys) \subseteq Keys /\ pages[p].next \in D \cup {NoPage}
                     /\ pages[p].children # <<>> => pages[p].children[1] \in D
    <2>1. ASSUME NEW p \in D
          PROVE  /\ Range(pages[p].keys) \subseteq Keys /\ pages[p].next \in D \cup {NoPage}
                 /\ pages[p].children # <<>> => pages[p].children[1] \in D
      <3>1. PICK node, S : node = pages[p] /\ S = D
        OBVIOUS
      <3>2. Sound(node, S) /\ node \in Node
        BY <3>1, PageRead
      <3>3. node.keys \in Seq(Keys) /\ node.children \in Seq(PageId)
        BY <3>2, NodeFields
      <3>4. Range(node.keys) \subseteq Keys
        BY <3>3, SeqDomain DEF Range
      <3>5. node.children # <<>> => node.children[1] \in S
        BY <3>2, <3>3, SeqEnds DEF Sound, Closed
      <3>6. QED BY <3>1, <3>2, <3>4, <3>5 DEF Sound, Closed
    <2>2. QED BY <2>1
  <1>2. Present \subseteq Keys
    BY DEF Present
  <1>3. CASE Next /\ UNCHANGED scanVars
    BY <1>3, PagesStay DEF ScanTypeOK, scanVars, D
  <1>4. ASSUME UNCHANGED pages PROVE D' = D
    BY <1>4 DEF D
  <1>5. CASE BeginScan /\ UNCHANGED vars
    BY <1>2, <1>4, <1>5 DEF BeginScan, ScanTypeOK, vars, D, TypeInv, PagesOK
  <1>6. CASE Descend /\ UNCHANGED vars
    BY <1>1, <1>4, <1>6 DEF Descend, ScanTypeOK, vars, D
  <1>7. CASE ReadLeaf /\ UNCHANGED vars
    BY <1>1, <1>4, <1>7 DEF ReadLeaf, ScanTypeOK, vars, D
  <1>8. CASE ReadInternal /\ UNCHANGED vars
    <2>1. at' \in {"done", "panicked"} /\ strayed' = TRUE /\ UNCHANGED <<current, seen, due, pages>>
      BY <1>8 DEF ReadInternal, vars
    <2>2. QED BY <2>1 DEF ScanTypeOK
  <1>9. CASE UNCHANGED <<vars, scanVars>>
    BY <1>9 DEF ScanTypeOK, vars, scanVars
  <1>10. QED BY <1>3, <1>5, <1>6, <1>7, <1>8, <1>9 DEF TreeScanNext, ScanStep

\* The steps of the scan are none of the writers.
LEMMA ScanWriter ==
  ASSUME [TreeScanNext]_<<vars, scanVars>>
  PROVE  [Next]_vars
  BY DEF TreeScanNext, vars

\* Type correctness of the scan, for any number of writers: it never follows a pointer out of the
\* file (engine.rs scan_table_with_filter).
THEOREM ScanTypeCorrect == TreeScanSpec => [](TypeOK /\ ScanTypeOK)
  <1> DEFINE I == TypeInv /\ ScanTypeOK
  <1>1. TreeScanInit => I
    <2>1. ASSUME TreeScanInit PROVE I
      <3>1. Init /\ ScanInit
        BY <2>1 DEF TreeScanInit
      <3>2. TypeInv /\ Root \in DOMAIN pages
        BY <3>1, TypeInit DEF TypeInv, PagesOK, D
      <3>3. QED BY <3>1, <3>2 DEF ScanInit, ScanTypeOK
    <2>2. QED BY <2>1
  <1>2. I /\ [TreeScanNext]_<<vars, scanVars>> => I'
    BY ScanTypeStep, ScanWriter, TypeNext
  <1>3. I => TypeOK /\ ScanTypeOK
    BY TypeImplied
  <1>4. QED BY <1>1, <1>2, <1>3, PTL DEF TreeScanSpec

-----------------------------------------------------------------------------
(* The scan.                                                               *)

\* Where the scan is: on the left edge; or at a leaf of the chain with what it is due ahead of it or
\* seen; or at the root, which was a leaf when it got there; or done.
Spot(a, cur, sn, du, st, f, K, C, L) ==
  /\ a = "idle" => sn = {} /\ du = {}
  /\ a \in {"idle", "descend", "leaf"} => ~st
  /\ a = "descend" => cur \in Range(L) /\ sn = {} /\ du \subseteq K
  /\ a = "leaf" => \/ cur = Root /\ ~f[Root].leaf
                   \/ \E x \in DOMAIN C : cur = C[x] /\ du \subseteq sn \cup From(f, C, x)
  /\ a = "done" /\ ~st => du \subseteq sn
  /\ st => cur = Root

\* The steps of the writer do not disturb it.
LEMMA SpotLater ==
  ASSUME NEW a, NEW cur, NEW sn, NEW du, NEW st, NEW f, NEW K, NEW C, NEW L, Spot(a, cur, sn, du, st, f, K, C, L),
         NEW h, NEW B, NEW M, Later(f, C, L, h, B, M), NEW H, K \subseteq H
  PROVE  Spot(a, cur, sn, du, st, h, H, B, M)
  <1>1. a = "descend" => cur \in Range(M) /\ sn = {} /\ du \subseteq H
    BY DEF Spot, Later
  <1>2. ASSUME a = "leaf"
        PROVE  \/ cur = Root /\ ~h[Root].leaf
               \/ \E y \in DOMAIN B : cur = B[y] /\ du \subseteq sn \cup From(h, B, y)
    <2>1. CASE cur = Root /\ ~f[Root].leaf
      BY <2>1 DEF Later
    <2>2. CASE \E x \in DOMAIN C : cur = C[x] /\ du \subseteq sn \cup From(f, C, x)
      <3>1. PICK x \in DOMAIN C : cur = C[x] /\ du \subseteq sn \cup From(f, C, x)
        BY <2>2
      <3>2. CASE C[x] = Root /\ ~h[Root].leaf
        BY <3>1, <3>2
      <3>3. CASE \E y \in DOMAIN B : B[y] = C[x] /\ From(f, C, x) \subseteq From(h, B, y)
        BY <3>1, <3>3
      <3>4. QED BY <3>2, <3>3 DEF Later
    <2>3. QED BY <1>2, <2>1, <2>2 DEF Spot
  <1>3. QED BY <1>1, <1>2 DEF Spot

\* BeginScan.
LEMMA SpotBegin ==
  ASSUME NEW sn, NEW du, NEW cur, NEW f, NEW n, NEW K, NEW C, NEW L, Tree(f, C, L), NEW st,
         Spot("idle", cur, sn, du, st, f, K, C, L)
  PROVE  Spot("descend", Root, sn, K, st, f, K, C, L)
  <1>1. Root \in Range(L)
    BY SeqEnds DEF Tree, LeftOK, Range
  <1>2. QED BY <1>1 DEF Spot

\* Descend.
LEMMA SpotDown ==
  ASSUME NEW f, NEW n, Filed(f, n), NEW K, NEW C, NEW L, Tree(f, C, L), K \subseteq ChainKeys(f, C),
         NEW cur, NEW sn, NEW du, NEW st, Spot("descend", cur, sn, du, st, f, K, C, L)
  PROVE  /\ f[cur].leaf \/ f[cur].children = <<>> => Spot("leaf", cur, sn, du, st, f, K, C, L)
         /\ ~(f[cur].leaf \/ f[cur].children = <<>>) => Spot("descend", f[cur].children[1], sn, du, st, f, K, C, L)
  <1>1. PICK x \in DOMAIN L : cur = L[x]
    BY DEF Spot, Range
  <1>2. PICK a \in Nat : a = Len(L) /\ DOMAIN L = 1..a
    BY SeqEnds DEF Tree, LeftOK
  <1>3. ~st /\ sn = {} /\ du \subseteq K
    BY DEF Spot
  <1>4. CASE x = a
    <2>1. cur = C[1] /\ f[cur].leaf
      BY <1>1, <1>2, <1>4 DEF Tree, LeftOK, JoinOK
    <2>2. 1 \in DOMAIN C
      BY SeqEnds DEF Tree, ChainOK
    <2>3. ChainKeys(f, C) = From(f, C, 1)
      <3>1. DOMAIN C = 1..Len(C)
        BY SeqEnds DEF Tree, ChainOK
      <3>2. QED BY <3>1 DEF ChainKeys, From
    <2>4. du \subseteq sn \cup From(f, C, 1)
      BY <1>3, <2>3
    <2>5. Spot("leaf", cur, sn, du, st, f, K, C, L)
      BY <1>3, <2>1, <2>2, <2>4 DEF Spot
    <2>6. QED BY <2>1, <2>5
  <1>5. CASE x # a
    <2>1. ~f[cur].leaf /\ f[cur].children # <<>> /\ f[cur].children[1] = L[x + 1]
      BY <1>1, <1>2, <1>5 DEF Tree, LeftOK
    <2>2. x + 1 \in DOMAIN L
      BY <1>2, <1>5
    <2>3. f[cur].children[1] \in Range(L)
      BY <2>1, <2>2 DEF Range
    <2>4. QED BY <2>1, <2>3, <1>3 DEF Spot
  <1>6. QED BY <1>4, <1>5

\* ReadLeaf.
LEMMA SpotLeaf ==
  ASSUME NEW f, NEW n, Filed(f, n), NEW K, NEW C, NEW L, Tree(f, C, L), NEW cur, f[cur].leaf,
         NEW sn, NEW du, NEW st, Spot("leaf", cur, sn, du, st, f, K, C, L),
         NEW tn, tn = sn \cup Range(f[cur].keys)
  PROVE  /\ f[cur].next \in {NoPage, cur} => Spot("done", cur, tn, du, st, f, K, C, L)
         /\ f[cur].next \notin {NoPage, cur} => Spot("leaf", f[cur].next, tn, du, st, f, K, C, L)
  <1>1. PICK x \in DOMAIN C : cur = C[x] /\ du \subseteq sn \cup From(f, C, x)
    BY DEF Spot
  <1>2. PICK a \in Nat : a = Len(C) /\ DOMAIN C = 1..a
    BY SeqEnds DEF Tree, ChainOK
  <1>3. ~st
    BY DEF Spot
  <1>4. f[cur].next = IF x = a THEN NoPage ELSE C[x + 1]
    BY <1>1, <1>2 DEF Tree, ChainOK
  <1>5. CASE x = a
    <2>1. From(f, C, x) \subseteq Range(f[cur].keys)
      BY <1>1, <1>2, <1>5 DEF From
    <2>2. du \subseteq tn
      BY <1>1, <2>1
    <2>3. Spot("done", cur, tn, du, st, f, K, C, L)
      BY <1>3, <2>2 DEF Spot
    <2>4. QED BY <2>3, <1>4, <1>5
  <1>6. CASE x # a
    <2>1. x + 1 \in DOMAIN C /\ x + 1 # x
      BY <1>2, <1>6
    <2>2. C[x + 1] # C[x] /\ C[x + 1] \in DOMAIN f
      BY <2>1, SeqEnds DEF Tree, ChainOK
    <2>3. C[x + 1] # NoPage
      BY <2>2 DEF Filed, NoPage
    <2>4. From(f, C, x) \subseteq Range(f[cur].keys) \cup From(f, C, x + 1)
      <3>1. \A z \in x..a : z = x \/ z \in x + 1..a
        BY <1>2
      <3>2. QED BY <3>1, <1>1, <1>2 DEF From
    <2>5. du \subseteq tn \cup From(f, C, x + 1)
      BY <1>1, <2>4
    <2>6. f[cur].next = C[x + 1]
      BY <1>4, <1>6
    <2>7. Spot("leaf", f[cur].next, tn, du, st, f, K, C, L)
      BY <1>3, <2>1, <2>5, <2>6 DEF Spot
    <2>8. QED BY <2>7, <2>2, <2>3, <2>6, <1>1
  <1>7. QED BY <1>5, <1>6

\* ReadInternal.
LEMMA SpotInner ==
  ASSUME NEW f, NEW K, NEW C, NEW L, Tree(f, C, L), NEW cur, ~f[cur].leaf,
         NEW sn, NEW du, NEW st, Spot("leaf", cur, sn, du, st, f, K, C, L),
         NEW a, a \in {"done", "panicked"}, NEW tt, tt = TRUE
  PROVE  Spot(a, cur, sn, du, tt, f, K, C, L)
  <1>1. cur = Root
    <2>1. ~\E x \in DOMAIN C : cur = C[x]
      BY DEF Tree, ChainOK
    <2>2. QED BY <2>1 DEF Spot
  <1>2. QED BY <1>1 DEF Spot

\* The same of the variables of the scan.
Placed(C, L) == Spot(at, current, seen, due, strayed, pages, Present, C, L)

\* The inductive invariant of ScanReturnsAll and StraysOnlyAtRoot.
ScanInv(w) == TypeInv /\ \E C, L : Holds(w, C, L) /\ Placed(C, L)

\* An acknowledged key stays acknowledged.
LEMMA PresentGrows ==
  ASSUME TypeInv, Next
  PROVE  Present \subseteq Present'
  <1>1. ASSUME NEW w \in Writers, Finish(w) PROVE Present \subseteq Present'
    <2>1. op[w].val \in Value
      BY <1>1, OpHere DEF Finish
    <2>2. op[w].val # NoValue
      BY <2>1 DEF Value, NoValue
    <2>3. acked' = [acked EXCEPT ![op[w].key] = op[w].val] /\ acked \in [Keys -> Value \cup {NoValue}]
      BY <1>1 DEF Finish, TypeInv, WritersOK, VarsOK
    <2>4. QED BY <2>2, <2>3 DEF Present
  <1>2. ASSUME NEW w \in Writers, Step(w), ~Finish(w) PROVE UNCHANGED acked
    BY <1>2 DEF Step, Insert, ReadRoot, AllocatePage, BlankPage, GrowSave, SplitRead, SaveNew, SaveChild, SaveRoot,
           RereadRoot, VisitLeaf, VisitInternal, Enter, Unwind, SyncFail, Fail, history
  <1>3. PICK w \in Writers : Step(w)
    BY DEF Next
  <1>4. CASE Finish(w)
    BY <1>1, <1>4
  <1>5. CASE ~Finish(w)
    BY <1>2, <1>3, <1>5, PresentSame
  <1>6. QED BY <1>4, <1>5

\* A step of the writer keeps it.
LEMMA ScanWriterStep ==
  ASSUME NEW w, Writers = {w}, ScanInv(w), Next, UNCHANGED scanVars
  PROVE  ScanInv(w)'
  <1>1. PICK C, L : Holds(w, C, L) /\ Placed(C, L)
    BY DEF ScanInv
  <1>2. PICK B, M : Holds(w, B, M)' /\ Later(pages, C, L, pages', B, M)
    BY <1>1, NextTree DEF ScanInv, Grown
  <1>3. PICK f, h, K, H : f = pages /\ h = pages' /\ K = Present /\ H = Present'
    OBVIOUS
  <1>4. PICK a, cur, sn, du, st : a = at /\ cur = current /\ sn = seen /\ du = due /\ st = strayed
    OBVIOUS
  <1>5. a = at' /\ cur = current' /\ sn = seen' /\ du = due' /\ st = strayed'
    BY <1>4 DEF scanVars
  <1>6. Spot(a, cur, sn, du, st, f, K, C, L) /\ K \subseteq H /\ Later(f, C, L, h, B, M)
    BY <1>1, <1>2, <1>3, <1>4, PresentGrows DEF Placed, ScanInv
  <1>7. Spot(a, cur, sn, du, st, h, H, B, M)
    BY <1>6, SpotLater
  <1>8. Placed(B, M)'
    BY <1>3, <1>5, <1>7 DEF Placed
  <1>9. TypeInv'
    BY TypeNext DEF ScanInv
  <1>10. QED BY <1>2, <1>8, <1>9 DEF ScanInv

\* A step of the scan keeps it.
LEMMA ScanScanStep ==
  ASSUME NEW w, w \in Writers, ScanInv(w), ScanStep, UNCHANGED vars
  PROVE  ScanInv(w)'
  <1>1. PICK C, L : Holds(w, C, L) /\ Placed(C, L)
    BY DEF ScanInv
  <1>2. Holds(w, C, L)' /\ TypeInv'
    BY <1>1, HoldsSame, TypeStutter DEF ScanInv
  <1>3. PICK f, n, K : f = pages /\ n = num_pages /\ K = Present
    OBVIOUS
  <1>4. f = pages' /\ K = Present'
    BY <1>3 DEF vars, Present
  <1>5. PICK a, cur, sn, du, st : a = at /\ cur = current /\ sn = seen /\ du = due /\ st = strayed
    OBVIOUS
  <1>6. PICK b, cr, tn, dd, tt : b = at' /\ cr = current' /\ tn = seen' /\ dd = due' /\ tt = strayed'
    OBVIOUS
  <1>7. Spot(a, cur, sn, du, st, f, K, C, L) /\ Filed(f, n) /\ Tree(f, C, L) /\ K \subseteq ChainKeys(f, C)
    BY <1>1, <1>3, <1>5, HereFiled DEF Placed, Holds, Intact, Stored, ScanInv
  <1>8. Spot(b, cr, tn, dd, tt, f, K, C, L)
    <2>1. CASE BeginScan
      <3>1. a = "idle" /\ b = "descend" /\ cr = Root /\ dd = K /\ tn = sn /\ tt = st
        BY <2>1, <1>3, <1>5, <1>6 DEF BeginScan
      <3>2. QED BY <3>1, <1>7, SpotBegin
    <2>2. CASE Descend
      <3>1. a = "descend" /\ dd = du /\ tn = sn /\ tt = st
        BY <2>2, <1>5, <1>6 DEF Descend
      <3>2. CASE f[cur].leaf \/ f[cur].children = <<>>
        <4>1. b = "leaf" /\ cr = cur
          BY <2>2, <3>2, <1>3, <1>5, <1>6 DEF Descend
        <4>2. QED BY <3>1, <3>2, <4>1, <1>7, SpotDown
      <3>3. CASE ~(f[cur].leaf \/ f[cur].children = <<>>)
        <4>1. b = "descend" /\ cr = f[cur].children[1]
          BY <2>2, <3>1, <3>3, <1>3, <1>5, <1>6 DEF Descend
        <4>2. QED BY <3>1, <3>3, <4>1, <1>7, SpotDown
      <3>4. QED BY <3>2, <3>3
    <2>3. CASE ReadLeaf
      <3>1. a = "leaf" /\ dd = du /\ tn = sn \cup Range(f[cur].keys) /\ tt = st /\ f[cur].leaf
        BY <2>3, <1>3, <1>5, <1>6 DEF ReadLeaf
      <3>2. CASE f[cur].next \in {NoPage, cur}
        <4>1. b = "done" /\ cr = cur
          BY <2>3, <3>2, <1>3, <1>5, <1>6 DEF ReadLeaf
        <4>2. QED BY <3>1, <3>2, <4>1, <1>7, SpotLeaf
      <3>3. CASE f[cur].next \notin {NoPage, cur}
        <4>1. b = "leaf" /\ cr = f[cur].next
          BY <2>3, <3>1, <3>3, <1>3, <1>5, <1>6 DEF ReadLeaf
        <4>2. QED BY <3>1, <3>3, <4>1, <1>7, SpotLeaf
      <3>4. QED BY <3>2, <3>3
    <2>4. CASE ReadInternal
      <3>1. a = "leaf" /\ b \in {"done", "panicked"} /\ tt = TRUE /\ cr = cur /\ tn = sn /\ dd = du /\ ~f[cur].leaf
        BY <2>4, <1>3, <1>5, <1>6 DEF ReadInternal
      <3>2. QED BY <3>1, <1>7, SpotInner
    <2>5. QED BY <2>1, <2>2, <2>3, <2>4 DEF ScanStep
  <1>9. Placed(C, L)'
    BY <1>4, <1>6, <1>8 DEF Placed
  <1>10. QED BY <1>2, <1>9 DEF ScanInv

\* It holds at the start.
LEMMA ScanStart ==
  ASSUME NEW w, w \in Writers, TreeScanInit
  PROVE  ScanInv(w)
  <1>1. Init /\ ScanInit
    BY DEF TreeScanInit
  <1>2. PICK C, L : Holds(w, C, L)
    BY <1>1, InitHolds
  <1>3. Placed(C, L)
    BY <1>1 DEF Placed, Spot, ScanInit
  <1>4. QED BY <1>1, <1>2, <1>3, TypeInit DEF ScanInv

\* It is inductive when w is the only writer.
LEMMA ScanNext ==
  ASSUME NEW w, Writers = {w}, ScanInv(w), [TreeScanNext]_<<vars, scanVars>>
  PROVE  ScanInv(w)'
  <1>1. CASE Next /\ UNCHANGED scanVars
    BY <1>1, ScanWriterStep
  <1>2. CASE ScanStep /\ UNCHANGED vars
    BY <1>2, ScanScanStep
  <1>3. CASE UNCHANGED <<vars, scanVars>>
    <2>1. PICK C, L : Holds(w, C, L) /\ Placed(C, L)
      BY DEF ScanInv
    <2>2. Holds(w, C, L)' /\ TypeInv'
      BY <1>3, <2>1, HoldsSame, TypeStutter DEF ScanInv
    <2>3. Placed(C, L)'
      BY <1>3, <2>1 DEF Placed, vars, scanVars, Present
    <2>4. QED BY <2>2, <2>3 DEF ScanInv
  <1>4. QED BY <1>1, <1>2, <1>3 DEF TreeScanNext

\* It holds in every state.
LEMMA ScanAlways ==
  ASSUME NEW CONSTANT w, Writers = {w}
  PROVE  TreeScanSpec => []ScanInv(w)
  <1>1. TreeScanInit => ScanInv(w)
    BY ScanStart
  <1>2. ScanInv(w) /\ [TreeScanNext]_<<vars, scanVars>> => ScanInv(w)'
    BY ScanNext
  <1>3. QED BY <1>1, <1>2, PTL DEF TreeScanSpec

\* With one writer a scan returns every row stored before it began, however many splits happen
\* while it runs, unless it read an internal node for a leaf (engine.rs scan_table_with_filter).
THEOREM ReturnsAllCorrect ==
  ASSUME NEW CONSTANT w, Writers = {w}
  PROVE  TreeScanSpec => []ScanReturnsAll
  <1>1. ScanInv(w) => ScanReturnsAll
    BY DEF ScanInv, Placed, Spot, ScanReturnsAll
  <1>2. QED BY <1>1, ScanAlways, PTL

\* With one writer the only page at which a scan can read an internal node for a leaf is the root
\* (engine.rs scan_table_with_filter, btree.rs insert).
THEOREM StraysCorrect ==
  ASSUME NEW CONSTANT w, Writers = {w}
  PROVE  TreeScanSpec => []StraysOnlyAtRoot
  <1>1. ScanInv(w) => StraysOnlyAtRoot
    BY DEF ScanInv, Placed, Spot, StraysOnlyAtRoot
  <1>2. QED BY <1>1, ScanAlways, PTL
=============================================================================
