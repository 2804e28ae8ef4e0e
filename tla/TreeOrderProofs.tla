-------------------------- MODULE TreeOrderProofs --------------------------
(*****************************************************************************)
(* The order of the tree, with one writer: nodes that were tested for room   *)
(* fit their pages again, and between any two page writes every leaf is at   *)
(* the same depth and the keys below a child lie between its separators.     *)
(*****************************************************************************)
EXTENDS TreeScanProofs

-----------------------------------------------------------------------------
(* Room.                                                                   *)

\* What is known of the locals of a writer.
Sane(c, gr, o, p, i, g, kd, sb, f, n, K, C, L) ==
  /\ gr \in BOOLEAN /\ Intact(c, gr, o, p, i, g, kd, sb, f, n, K, C, L) /\ Filed(f, n)
  /\ WriterInv(c, o, p, i, g, kd, sb, DOMAIN f, n)

\* The page of the last node of a path; the separator when a node is split; a new root with the
\* copy c of the old one.
TopId(p) == p[Len(p)].id
Mid(node) == node.keys[Middle(node)]
NewRootOver(c) == [new_internal EXCEPT !.children = <<c>>]

\* The last node of the path as it was before the split.
Base(gr, p, f) == IF gr THEN NewRootOver(Child(p, 1)) ELSE f[TopId(p)]

\* How the last node of the path has become what it is.
Copies(c, gr, p, i, g, f) ==
  /\ c = "visit" => TopOf(p) = f[TopId(p)]
  /\ c = "split" => TopOf(p) = Base(gr, p, f)
  /\ c \in Parting => TopOf(p) = WithKey(Base(gr, p, f), i, Mid(f[Child(p, i)]))
  /\ c = "saveChild" => TopOf(p) = WithChild(WithKey(Base(gr, p, f), i, Mid(f[Child(p, i)])), i, g)
  /\ c = "saveRoot" => TopOf(p) = WithChild(WithKey(Base(gr, p, f), 1, Mid(f[Root])), 1, g) /\ is_full(f[Root])
  /\ c \in Splitting => is_full(f[Child(p, i)]) /\ i \in 1..Len(Base(gr, p, f).children)
  /\ c \in Splitting /\ ~gr => ~is_full(f[TopId(p)])
  /\ c = "enter" => Len(TopOf(p).keys) = Len(f[TopId(p)].keys) + 1

\* The last node of the path was made by a split: its parent has a key more than its page.
Longer(p, f) == Len(p) > 1 /\ Len(p[Len(p) - 1].node.keys) = Len(f[p[Len(p) - 1].id].keys) + 1

\* An internal node is saved with at most one separator and one child more than one that is not full.
InnerSmall(f) == \A q \in DOMAIN f : ~f[q].leaf => Size(f[q]) <= FullSize + 2

\* How large the nodes in memory are.
Sized(c, o, p, i, f) ==
  /\ InnerSmall(f)
  /\ c \in Walking => \A x \in DOMAIN p : x # Len(p) => Size(p[x].node) <= FullSize + 2
  /\ c = "visit" => Size(TopOf(p)) <= FullSize \/ (TopOf(p).leaf /\ Longer(p, f))
  /\ c = "enter" => Size(TopOf(p)) <= FullSize + 2
  /\ c = "enter" => \A y \in {i, i + 1} : f[Child(p, y)].leaf \/ Size(f[Child(p, y)]) <= FullSize
  /\ c = "reread" => ~f[Root].leaf /\ Size(f[Root]) <= FullSize
  /\ c = "unwind" => IF TopOf(p).leaf THEN Size(TopOf(p)) <= FullSize + 1 + o.val.w \/ Longer(p, f)
                     ELSE Size(TopOf(p)) <= FullSize + 2

\* The two together.
Exact(c, gr, o, p, i, g, f) == Copies(c, gr, p, i, g, f) /\ Sized(c, o, p, i, f)

\* A node that is full or not has a size to compare.
LEMMA FullOrNot ==
  ASSUME NEW S, NEW node, Sound(node, S)
  PROVE  Size(node) \in Nat /\ (is_full(node) <=> ~(Size(node) <= FullSize))
  <1>1. Size(node) \in Nat /\ FullSize \in Nat
    BY NodeFields, SizeAssumption DEF Sound, Closed
  <1>2. QED BY <1>1 DEF is_full

\* An internal node with a keys and b children.
Counts(node, a, b) == node \in Node /\ node.values = <<>> /\ Len(node.keys) = a /\ Len(node.children) = b

\* Its size.
LEMMA InnerSizeIs ==
  ASSUME NEW node, NEW a, NEW b, Counts(node, a, b)
  PROVE  a \in Nat /\ b \in Nat /\ Size(node) = a + b
  <1>1. PICK z : z = Weight(node.values)
    OBVIOUS
  <1>2. z = 0
    BY <1>1, WeightEmpty DEF Counts
  <1>3. a \in Nat /\ b \in Nat
    BY NodeFields DEF Counts
  <1>4. Size(node) = a + b + z
    BY <1>1 DEF Size, Counts
  <1>5. QED BY <1>2, <1>3, <1>4

\* The elements of a sequence from the a-th, less 1, to the b-th.
LEMMA CutFacts ==
  ASSUME NEW S, NEW s \in Seq(S), NEW n, n = Len(s), NEW a \in Nat, NEW b \in Nat, a <= b, b <= n,
         NEW t, t = SubSeq(s, a + 1, b)
  PROVE  t \in Seq(S) /\ Len(t) = b - a /\ \A j \in 1..b - a : t[j] = s[a + j]
  <1>1. PICK c : c = a + 1
    OBVIOUS
  <1>2. n \in Nat
    BY SeqDomain
  <1>3. c \in 1..Len(s) + 1 /\ b \in 0..Len(s) /\ c <= b + 1 /\ t = SubSeq(s, c, b)
    BY <1>1, <1>2
  <1>4. /\ t \in Seq(S) /\ Len(t) = b - c + 1
        /\ \A i \in 1..b - c + 1 : t[i] = s[c + i - 1]
    BY <1>3, SubSeqFacts
  <1>5. b - c + 1 = b - a
    BY <1>1
  <1>6. ASSUME NEW j \in 1..b - a PROVE t[j] = s[a + j]
    <2>1. c + j - 1 = a + j /\ j \in 1..b - c + 1
      BY <1>1
    <2>2. QED BY <2>1, <1>4
  <1>7. QED BY <1>4, <1>5, <1>6

\* The middle of k keys.
LEMMA HalfOf ==
  ASSUME NEW k \in Nat, k # 0, NEW m, m = k \div 2 + 1
  PROVE  m \in Nat /\ 1 <= m /\ m <= k /\ 2 * (m - 1) <= k /\ k <= 2 * (m - 1) + 1
  <1>1. PICK d : d = k \div 2
    OBVIOUS
  <1>2. d \in Nat /\ 2 * d <= k /\ k <= 2 * d + 1
    BY <1>1
  <1>3. m = d + 1
    BY <1>1
  <1>4. QED BY <1>2, <1>3

\* Node, internal, with n keys, is taken apart at its m-th into l and r.
InnerCut(node, n, m, l, r) ==
  /\ n \in Nat /\ m \in 1..n /\ m = n \div 2 + 1 /\ m = Middle(node)
  /\ node \in Node /\ Len(node.keys) = n /\ Len(node.children) = n + 1 /\ node.values = <<>>
  /\ l \in Node /\ ~l.leaf /\ Len(l.keys) = m - 1 /\ Len(l.children) = m /\ l.values = <<>>
  /\ r \in Node /\ ~r.leaf /\ Len(r.keys) = n - m /\ Len(r.children) = n - m + 1 /\ r.values = <<>>
  /\ \A j \in 1..m - 1 : l.keys[j] = node.keys[j]
  /\ \A j \in 1..m : l.children[j] = node.children[j]
  /\ \A j \in 1..n - m : r.keys[j] = node.keys[m + j]
  /\ \A j \in 1..n - m + 1 : r.children[j] = node.children[m + j]

\* LeftHalf and RightHalf do that.
LEMMA InnerCutFacts ==
  ASSUME NEW S, NEW node, Sound(node, S), ~node.leaf, node.keys # <<>>,
         NEW l, NEW r, l = LeftHalf(node), r = RightHalf(node)
  PROVE  \E n, m : InnerCut(node, n, m, l, r)
  <1>1. node \in Node /\ node.values = <<>>
    BY DEF Sound, Closed, Shaped
  <1>2. PICK ks, cs, n, m : ks = node.keys /\ cs = node.children /\ n = Len(ks) /\ m = Middle(node)
    OBVIOUS
  <1>3. ks \in Seq(Keys) /\ cs \in Seq(PageId) /\ n \in Nat /\ m \in 1..n
    BY <1>1, <1>2, NodeFields, MiddleRange
  <1>4. Len(cs) = n + 1
    BY <1>2, InnerSize
  <1>5. PICK lk, lc, rk, rc : /\ lk = SubSeq(ks, 0 + 1, m - 1) /\ lc = SubSeq(cs, 0 + 1, m)
                              /\ rk = SubSeq(ks, m + 1, n) /\ rc = SubSeq(cs, m + 1, n + 1)
    OBVIOUS
  <1>6. lk \in Seq(Keys) /\ Len(lk) = m - 1 /\ \A j \in 1..m - 1 : lk[j] = ks[j]
    <2>1. m - 1 \in Nat /\ 0 <= m - 1 /\ m - 1 <= n /\ m - 1 - 0 = m - 1 /\ 0 \in Nat
      BY <1>3
    <2>2. /\ lk \in Seq(Keys) /\ Len(lk) = m - 1 - 0 /\ \A j \in 1..m - 1 - 0 : lk[j] = ks[0 + j]
      BY <2>1, <1>2, <1>3, <1>5, CutFacts, SMTT(60)
    <2>3. QED BY <2>1, <2>2
  <1>7. lc \in Seq(PageId) /\ Len(lc) = m /\ \A j \in 1..m : lc[j] = cs[j]
    <2>1. m \in Nat /\ 0 <= m /\ m <= n + 1 /\ m - 0 = m /\ 0 \in Nat
      BY <1>3
    <2>2. /\ lc \in Seq(PageId) /\ Len(lc) = m - 0 /\ \A j \in 1..m - 0 : lc[j] = cs[0 + j]
      BY <2>1, <1>3, <1>4, <1>5, CutFacts
    <2>3. QED BY <2>1, <2>2
  <1>8. rk \in Seq(Keys) /\ Len(rk) = n - m /\ \A j \in 1..n - m : rk[j] = ks[m + j]
    <2>1. m \in Nat /\ m <= n /\ n <= n /\ n \in Nat
      BY <1>3
    <2>2. n = Len(ks) /\ ks \in Seq(Keys) /\ rk = SubSeq(ks, m + 1, n)
      BY <1>2, <1>3, <1>5
    <2>3. QED BY <2>1, <2>2, CutFacts
  <1>9. rc \in Seq(PageId) /\ Len(rc) = n + 1 - m /\ \A j \in 1..n + 1 - m : rc[j] = cs[m + j]
    <2>1. PICK b : b = n + 1
      OBVIOUS
    <2>2. m \in Nat /\ m <= b /\ b \in Nat /\ b <= b
      BY <2>1, <1>3
    <2>3. b = Len(cs) /\ cs \in Seq(PageId) /\ rc = SubSeq(cs, m + 1, b)
      BY <2>1, <1>3, <1>4, <1>5
    <2>4. rc \in Seq(PageId) /\ Len(rc) = b - m /\ \A j \in 1..b - m : rc[j] = cs[m + j]
      BY <2>2, <2>3, CutFacts, SMTT(60)
    <2>5. Len(rc) = n + 1 - m
      BY <1>3, <2>1, <2>2, <2>4
    <2>6. ASSUME NEW j \in 1..n + 1 - m PROVE rc[j] = cs[m + j]
      <3>1. j \in 1..b - m
        BY <1>3, <2>1, <2>2
      <3>2. QED BY <3>1, <2>4
    <2>7. QED BY <2>4, <2>5, <2>6
  <1>10. n + 1 - m = n - m + 1
    BY <1>3
  <1>11. l = [node EXCEPT !.keys = lk, !.children = lc]
         /\ r = [node EXCEPT !.keys = rk, !.children = rc, !.next = NoPage]
    BY <1>2, <1>4, <1>5 DEF LeftHalf, RightHalf
  <1>12. l \in Node /\ ~l.leaf /\ l.keys = lk /\ l.children = lc /\ l.values = <<>>
    BY <1>6, <1>7, <1>11, <1>1 DEF Node
  <1>13. r \in Node /\ ~r.leaf /\ r.keys = rk /\ r.children = rc /\ r.values = <<>>
    BY <1>8, <1>9, <1>11, <1>1 DEF Node
  <1>14. m = n \div 2 + 1
    BY <1>2 DEF Middle
  <1>15. InnerCut(node, n, m, l, r)
    BY <1>1, <1>2, <1>3, <1>4, <1>6, <1>7, <1>8, <1>9, <1>10, <1>12, <1>13, <1>14 DEF InnerCut
  <1>16. QED BY <1>15

\* The halves of an internal node that was saved are not full, and no half is larger than the node.
LEMMA InnerHalfSizes ==
  ASSUME NEW S, NEW node, Sound(node, S), ~node.leaf, node.keys # <<>>,
         NEW l, NEW r, l = LeftHalf(node), r = RightHalf(node)
  PROVE  /\ ~l.leaf /\ ~r.leaf /\ Size(l) <= Size(node) /\ Size(r) <= Size(node)
         /\ Size(node) <= FullSize + 2 => Size(l) <= FullSize /\ Size(r) <= FullSize
  <1>1. PICK k, m : InnerCut(node, k, m, l, r)
    BY InnerCutFacts
  <1>2. k \in Nat /\ m \in 1..k /\ m = k \div 2 + 1
    BY <1>1 DEF InnerCut
  <1>3. 2 * (m - 1) <= k /\ k <= 2 * (m - 1) + 1
    BY <1>2, HalfOf
  <1>4. Counts(node, k, k + 1) /\ Counts(l, m - 1, m) /\ Counts(r, k - m, k - m + 1)
    BY <1>1 DEF InnerCut, Counts
  <1>5. Size(node) = k + (k + 1) /\ Size(l) = (m - 1) + m
    BY <1>4, InnerSizeIs
  <1>6. Size(r) = (k - m) + (k - m + 1)
    BY <1>4, InnerSizeIs
  <1>10. PICK u, v, q : u = Size(node) /\ v = Size(l) /\ q = Size(r)
    OBVIOUS
  <1>11. u = k + (k + 1) /\ v = (m - 1) + m /\ q = (k - m) + (k - m + 1)
    BY <1>4, <1>5, <1>6, <1>10
  <1>12. FullSize \in Nat /\ 3 <= FullSize
    BY SizeAssumption
  <1>13. v <= u /\ q <= u /\ (u <= FullSize + 2 => v <= FullSize /\ q <= FullSize)
    BY <1>2, <1>3, <1>11, <1>12
  <1>14. ~l.leaf /\ ~r.leaf
    BY <1>1 DEF InnerCut
  <1>15. QED BY <1>10, <1>13, <1>14

\* The same for any node.
LEMMA HalfSizes ==
  ASSUME NEW S, NEW node, Sound(node, S), node.keys # <<>>,
         NEW l, NEW r, l = LeftHalf(node), r = RightHalf(node)
  PROVE  /\ l.leaf = node.leaf /\ r.leaf = node.leaf /\ Size(l) <= Size(node) /\ Size(r) <= Size(node)
         /\ ~node.leaf /\ Size(node) <= FullSize + 2 => Size(l) <= FullSize /\ Size(r) <= FullSize
  <1>1. node.leaf \in BOOLEAN
    BY NodeFields DEF Sound, Closed
  <1>2. l.leaf \in BOOLEAN /\ r.leaf \in BOOLEAN
    BY HalvesSound, NodeFields DEF Sound, Closed
  <1>3. CASE node.leaf
    <2>1. l.leaf /\ r.leaf /\ Size(l) <= Size(node) /\ Size(r) <= Size(node)
      BY <1>3, LeafHalves
    <2>2. QED BY <2>1, <1>3, <1>2
  <1>4. CASE ~node.leaf
    <2>1. ~l.leaf /\ ~r.leaf
      BY <1>4, InnerHalfSizes
    <2>2. /\ Size(l) <= Size(node) /\ Size(r) <= Size(node)
          /\ Size(node) <= FullSize + 2 => Size(l) <= FullSize /\ Size(r) <= FullSize
      BY <1>4, InnerHalfSizes
    <2>3. l.leaf = node.leaf /\ r.leaf = node.leaf
      BY <2>1, <1>4, <1>2, <1>1
    <2>4. QED BY <2>2, <2>3
  <1>5. QED BY <1>1, <1>3, <1>4

\* A link does not make a node larger.
LEMMA WithNextSize ==
  ASSUME NEW node \in Node, NEW g \in Nat, NEW new, new = WithNext(node, g)
  PROVE  new.leaf = node.leaf /\ Size(new) = Size(node)
  <1>1. new.leaf = node.leaf /\ new.keys = node.keys /\ new.children = node.children
    BY WithNextFacts
  <1>2. new.values = node.values
    BY DEF WithNext, Node
  <1>3. QED BY <1>1, <1>2 DEF Size

\* A child g was added to t, which had n + 1.
ChildDone(t, S, i, g, n, new) ==
  /\ Sound(new, S) /\ new \in Node /\ ~new.leaf /\ new.keys = t.keys /\ Len(new.children) = n + 2
  /\ \A j \in 1..n + 2 : new.children[j] =
       IF j < i + 1 THEN t.children[j] ELSE IF j = i + 1 THEN g ELSE t.children[j - 1]
  /\ Size(new) = Size(t) + 1

\* WithChild does that.
LEMMA ParentDoneChild ==
  ASSUME NEW S, S \subseteq Nat, NEW t, Open(t, S), NEW i, i \in 1..Len(t.children), NEW g, g \in S,
         NEW new, new = WithChild(t, i, g), NEW n \in Nat, Len(t.children) = n + 1
  PROVE  ChildDone(t, S, i, g, n, new)
  <1>1. Sound(new, S) /\ new \in Node /\ ~new.leaf
    BY ParentSplitDone
  <1>2. t \in Node
    BY DEF Open, Closed
  <1>3. PICK ts, cs, h : ts = t.children /\ cs = InsertAt(ts, i + 1, g) /\ h = i + 1
    OBVIOUS
  <1>4. ts \in Seq(PageId) /\ Len(ts) = n + 1
    BY <1>2, <1>3, NodeFields
  <1>5. h \in 1..Len(ts) + 1 /\ g \in PageId
    BY <1>3, <1>4 DEF PageId
  <1>6. Inserted(PageId, ts, h, g, InsertAt(ts, h, g))
    BY <1>4, <1>5, InsertAny
  <1>7. Inserted(PageId, ts, h, g, cs)
    BY <1>3, <1>6
  <1>8. /\ cs \in Seq(PageId) /\ Len(cs) = n + 1 + 1
        /\ \A j \in 1..n + 1 + 1 : cs[j] = IF j < h THEN ts[j] ELSE IF j = h THEN g ELSE ts[j - 1]
    BY <1>4, <1>7 DEF Inserted
  <1>9. new = [t EXCEPT !.children = cs]
    BY <1>3 DEF WithChild
  <1>10. new.keys = t.keys /\ new.children = cs /\ new.values = t.values
    BY <1>2, <1>8, <1>9 DEF Node
  <1>11. n + 1 + 1 = n + 2
    OBVIOUS
  <1>12. \A j \in 1..n + 2 : new.children[j] =
           IF j < i + 1 THEN t.children[j] ELSE IF j = i + 1 THEN g ELSE t.children[j - 1]
    BY <1>3, <1>8, <1>10, <1>11
  <1>13. Size(new) = Size(t) + 1
    <2>1. PICK a, k : a = Weight(t.values) /\ k = Len(t.keys)
      OBVIOUS
    <2>2. a \in Nat /\ k \in Nat
      BY <2>1, <1>2, NodeFields
    <2>3. Size(t) = k + (n + 1) + a
      BY <2>1, <1>3, <1>4 DEF Size
    <2>4. Size(new) = k + (n + 2) + a
      BY <2>1, <1>8, <1>10, <1>11 DEF Size
    <2>5. QED BY <2>2, <2>3, <2>4
  <1>14. QED BY <1>1, <1>8, <1>10, <1>11, <1>12, <1>13 DEF ChildDone

\* A parent after a split: key k and child g in place i, n keys before.
Parted(node, i, k, g, n, new) ==
  /\ new \in Node /\ ~new.leaf /\ Len(new.keys) = n + 1 /\ Len(new.children) = n + 2
  /\ \A j \in 1..n + 1 : new.keys[j] = IF j < i THEN node.keys[j] ELSE IF j = i THEN k ELSE node.keys[j - 1]
  /\ \A j \in 1..n + 2 : new.children[j] =
       IF j < i + 1 THEN node.children[j] ELSE IF j = i + 1 THEN g ELSE node.children[j - 1]

\* What follows of sizes and shapes.
Regrown(S, node, i, k, g, n, new) ==
  /\ Sound(new, S) /\ Parted(node, i, k, g, n, new) /\ Size(new) = Size(node) + 2
  /\ n \in Nat /\ Len(node.children) = n + 1 /\ i \in 1..n + 1

\* The parent after a split, in terms of what it was.
LEMMA ParentDone ==
  ASSUME NEW S, S \subseteq Nat, NEW node, Sound(node, S), ~node.leaf, NEW i, i \in 1..Len(node.children),
         NEW k, k \in Keys, NEW g, g \in S, NEW new, new = WithChild(WithKey(node, i, k), i, g),
         NEW n, n = Len(node.keys)
  PROVE  Regrown(S, node, i, k, g, n, new)
  <1>1. PICK t, cs, ks : t = WithKey(node, i, k) /\ cs = node.children /\ ks = node.keys
    OBVIOUS
  <1>2. t = [node EXCEPT !.keys = InsertAt(@, i, k)]
    BY <1>1 DEF WithKey
  <1>3. node \in Node
    BY DEF Sound, Closed
  <1>4. cs \in Seq(PageId) /\ ks \in Seq(Keys) /\ n \in Nat /\ Len(cs) \in Nat
    BY <1>1, <1>3, NodeFields
  <1>5. cs # <<>>
    BY <1>1, <1>4, EmptySeq
  <1>6. Len(cs) = n + 1
    BY <1>1, <1>5, InnerSize
  <1>7. i \in 1..n + 1
    BY <1>1, <1>6
  <1>8. /\ Open(t, S) /\ t \in Node /\ ~t.leaf /\ t.children = cs /\ t.keys = InsertAt(ks, i, k)
        /\ Size(t) = Size(node) + 1
    BY <1>1, <1>2, ParentSplit
  <1>20. n = Len(ks)
    BY <1>1
  <1>21. Inserted(Keys, ks, i, k, InsertAt(ks, i, k))
    BY <1>4, <1>7, <1>20, InsertAny
  <1>9. \A j \in 1..n + 1 : t.keys[j] = IF j < i THEN ks[j] ELSE IF j = i THEN k ELSE ks[j - 1]
    BY <1>8, <1>20, <1>21 DEF Inserted
  <1>10. Len(t.keys) = n + 1
    BY <1>8, <1>20, <1>21 DEF Inserted
  <1>11. i \in 1..Len(t.children) /\ new = WithChild(t, i, g)
    BY <1>1, <1>8
  <1>12. ChildDone(t, S, i, g, n, new)
    BY <1>4, <1>6, <1>8, <1>11, ParentDoneChild
  <1>13. /\ Sound(new, S) /\ new \in Node /\ ~new.leaf /\ new.keys = t.keys /\ Len(new.children) = n + 2
         /\ \A j \in 1..n + 2 : new.children[j] =
              IF j < i + 1 THEN cs[j] ELSE IF j = i + 1 THEN g ELSE cs[j - 1]
         /\ Size(new) = Size(t) + 1
    BY <1>8, <1>12 DEF ChildDone
  <1>14. Size(node) \in Nat
    BY FullOrNot
  <1>15. Size(new) = Size(node) + 2
    BY <1>8, <1>13, <1>14
  <1>16. Parted(node, i, k, g, n, new)
    BY <1>1, <1>9, <1>10, <1>13 DEF Parted
  <1>17. QED BY <1>1, <1>4, <1>6, <1>7, <1>13, <1>15, <1>16 DEF Regrown

-----------------------------------------------------------------------------
(* What the actions do to these sizes, one lemma per action.               *)

\* Where the last node of the path is, and of what kind.
LEMMA SaneTop ==
  ASSUME NEW c, NEW gr, NEW o, NEW p, NEW i, NEW g, NEW kd, NEW sb, NEW f, NEW n, NEW K, NEW C, NEW L,
         Sane(c, gr, o, p, i, g, kd, sb, f, n, K, C, L), c \in Walking
  PROVE  /\ p \in Seq(Frame) /\ p # <<>> /\ Len(p) \in Nat /\ Len(p) >= 1 /\ DOMAIN p = 1..Len(p)
         /\ Len(p) \in DOMAIN p /\ TopId(p) \in DOMAIN f /\ DOMAIN f \subseteq Nat /\ TopOf(p) \in Node
         /\ IF c \in Parting THEN Open(TopOf(p), DOMAIN f) ELSE Sound(TopOf(p), DOMAIN f)
  <1>1. WriterInv(c, o, p, i, g, kd, sb, DOMAIN f, n) /\ Filed(f, n)
    BY DEF Sane
  <1>2. /\ p \in Seq(Frame) /\ p # <<>> /\ p[Len(p)].id \in DOMAIN f
        /\ IF c \in Parting THEN Open(TopOf(p), DOMAIN f) ELSE Sound(TopOf(p), DOMAIN f)
    BY <1>1, TopSound
  <1>3. Len(p) \in DOMAIN p /\ Len(p) \in Nat /\ Len(p) >= 1 /\ TopOf(p) \in Node
    BY <1>2, PathTop
  <1>4. DOMAIN p = 1..Len(p)
    BY <1>2, SeqDomain
  <1>5. DOMAIN f \subseteq Nat
    BY <1>1 DEF Filed
  <1>6. QED BY <1>2, <1>3, <1>4, <1>5 DEF TopId

\* A page is sound.
LEMMA SanePage ==
  ASSUME NEW f, NEW n, Filed(f, n), NEW q \in DOMAIN f
  PROVE  Sound(f[q], DOMAIN f) /\ f[q] \in Node /\ f[q].leaf \in BOOLEAN
  BY NodeFields DEF Filed, Sound, Closed

\* The child that a writer splits or has split.
LEMMA SaneChild ==
  ASSUME NEW c, NEW gr, NEW o, NEW p, NEW i, NEW g, NEW kd, NEW sb, NEW f, NEW n, NEW K, NEW C, NEW L,
         Sane(c, gr, o, p, i, g, kd, sb, f, n, K, C, L), c \in Splitting \cup {"enter"}
  PROVE  /\ ~TopOf(p).leaf /\ i \in 1..Len(TopOf(p).children) /\ DOMAIN TopOf(p).children = 1..Len(TopOf(p).children)
         /\ i \in Nat /\ i # 0 /\ Child(p, i) \in DOMAIN f
  <1>1. c \in Walking
    BY DEF Splitting, Parting, Walking
  <1>2. /\ TopOf(p) \in Node
        /\ IF c \in Parting THEN Open(TopOf(p), DOMAIN f) ELSE Sound(TopOf(p), DOMAIN f)
    BY <1>1, SaneTop
  <1>3. PICK ks, cs, k, l : ks = TopOf(p).keys /\ cs = TopOf(p).children /\ k = Len(ks) /\ l = Len(cs)
    OBVIOUS
  <1>4. ks \in Seq(Keys) /\ cs \in Seq(PageId) /\ k \in Nat /\ l \in Nat
    BY <1>2, <1>3, NodeFields
  <1>5. WriterInv(c, o, p, i, g, kd, sb, DOMAIN f, n)
    BY DEF Sane
  <1>6. ~TopOf(p).leaf /\ i \in 1..l
    <2>1. CASE c \in Parting \cup {"split"}
      BY <2>1, <1>3, <1>5 DEF WriterInv
    <2>2. CASE c \in {"saveChild", "enter"}
      <3>1. ~TopOf(p).leaf /\ i \in 1..k
        BY <2>2, <1>3, <1>5 DEF WriterInv
      <3>2. ks # <<>>
        BY <3>1, <1>3, <1>4, RangeNotEmpty
      <3>3. l = k + 1
        BY <2>2, <3>1, <3>2, <1>2, <1>3, InnerSize DEF Parting
      <3>4. QED BY <3>1, <3>3, <1>4
    <2>3. QED BY <2>1, <2>2 DEF Splitting
  <1>7. DOMAIN cs = 1..l
    BY <1>3, <1>4, SeqDomain
  <1>8. \A y \in DOMAIN cs : cs[y] \in DOMAIN f
    BY <1>2, <1>3 DEF Sound, Open, Closed
  <1>9. QED BY <1>3, <1>4, <1>6, <1>7, <1>8 DEF Child

\* The page of the last node of the path, when it is internal and the tree does not grow.
LEMMA SaneInner ==
  ASSUME NEW c, NEW gr, NEW o, NEW p, NEW i, NEW g, NEW kd, NEW sb, NEW f, NEW n, NEW K, NEW C, NEW L,
         Sane(c, gr, o, p, i, g, kd, sb, f, n, K, C, L), c \in Splitting \cup {"enter"}, ~gr
  PROVE  /\ TopId(p) \in DOMAIN f /\ ~f[TopId(p)].leaf /\ f[TopId(p)].children # <<>>
         /\ f[TopId(p)].children[1] = Child(p, 1)
  <1>1. PathSafe(c, o, p, i, f, C)
    BY DEF Sane, Intact, Splitting, Parting, Walking
  <1>2. \E j : InnerBut(p[Len(p)], j, f, C)
    BY <1>1 DEF PathSafe, Splitting
  <1>3. QED BY <1>2 DEF InnerBut, TopId, Child, TopOf

\* Internal pages stay small when a node that is a leaf or small is written.
LEMMA SmallWrote ==
  ASSUME NEW f, InnerSmall(f), NEW id, NEW node, NEW h, Wrote(f, id, node, h),
         ~node.leaf => Size(node) <= FullSize + 2
  PROVE  InnerSmall(h)
  <1>1. ASSUME NEW q \in DOMAIN h, ~h[q].leaf PROVE Size(h[q]) <= FullSize + 2
    <2>1. CASE q = id
      BY <2>1, <1>1 DEF Wrote
    <2>2. CASE q # id
      BY <2>2, <1>1 DEF Wrote, InnerSmall
    <2>3. QED BY <2>1, <2>2
  <1>2. QED BY <1>1 DEF InnerSmall

\* Nothing is known of the path before there is one.
LEMMA ExactRest ==
  ASSUME NEW c, c \in {"idle", "start"} \cup Before, NEW gr, NEW o, NEW p, NEW i, NEW g, NEW f, InnerSmall(f)
  PROVE  Exact(c, gr, o, p, i, g, f)
  BY DEF Exact, Copies, Sized, Before, Splitting, Parting, Walking

\* ReadRoot at a root that is not full, and RereadRoot.
LEMMA ExactRoot ==
  ASSUME NEW gr, NEW o, NEW i, NEW g, NEW f, NEW n, Filed(f, n), InnerSmall(f), Size(f[Root]) <= FullSize,
         NEW q, q = <<[id |-> Root, node |-> f[Root]]>>
  PROVE  Exact("visit", gr, o, q, i, g, f)
  <1>1. PICK fr : fr = [id |-> Root, node |-> f[Root]]
    OBVIOUS
  <1>2. Root \in DOMAIN f /\ f[Root] \in Node
    BY SanePage DEF Filed
  <1>3. fr \in Frame /\ fr.id = Root /\ fr.node = f[Root]
    BY <1>1, <1>2 DEF Frame, Filed, PageId, Root
  <1>4. q = <<fr>> /\ Len(q) = 1 /\ DOMAIN q = 1..1 /\ q[1] = fr
    BY <1>1, <1>3, PathOne
  <1>5. TopOf(q) = f[Root] /\ TopId(q) = Root
    BY <1>3, <1>4 DEF TopOf, TopId
  <1>6. Copies("visit", gr, q, i, g, f)
    BY <1>5 DEF Copies, Splitting, Parting
  <1>7. Sized("visit", o, q, i, f)
    BY <1>4, <1>5 DEF Sized
  <1>8. QED BY <1>6, <1>7 DEF Exact

\* AllocatePage in split_child.
LEMMA ExactAllocate ==
  ASSUME NEW gr, NEW o, NEW p, NEW i, NEW g, NEW f, Exact("splitAlloc", gr, o, p, i, g, f), NEW m
  PROVE  Exact("splitBlank", gr, o, p, i, m, f)
  BY DEF Exact, Copies, Sized, Splitting, Parting, Walking

\* BlankPage in split_child.
LEMMA ExactBlank ==
  ASSUME NEW gr, NEW o, NEW p, NEW i, NEW g, NEW kd, NEW sb, NEW f, NEW n, NEW K, NEW C, NEW L,
         Sane("splitBlank", gr, o, p, i, g, kd, sb, f, n, K, C, L), Exact("splitBlank", gr, o, p, i, g, f),
         NEW h, Wrote(f, g, Blank, h)
  PROVE  Exact("saveNew", gr, o, p, i, g, h)
  <1>1. "splitBlank" \in Walking /\ "splitBlank" \in Splitting \cup {"enter"}
    BY DEF Walking, Splitting, Parting
  <1>2. TopId(p) \in DOMAIN f /\ Child(p, i) \in DOMAIN f
    BY <1>1, SaneTop, SaneChild
  <1>3. g \notin DOMAIN f
    BY DEF Sane, Intact, Alloc, Filed
  <1>4. h[TopId(p)] = f[TopId(p)] /\ h[Child(p, i)] = f[Child(p, i)]
    BY <1>2, <1>3 DEF Wrote
  <1>5. InnerSmall(h)
    <2>1. Size(Blank) = 0 /\ 0 <= FullSize + 2
      BY EmptyNodes, SizeAssumption
    <2>2. QED BY <2>1, SmallWrote DEF Exact, Sized
  <1>6. Base(gr, p, h) = Base(gr, p, f)
    BY <1>4 DEF Base
  <1>7. Copies("saveNew", gr, p, i, g, h)
    BY <1>4, <1>6 DEF Exact, Copies, Splitting, Parting
  <1>8. Sized("saveNew", o, p, i, h)
    BY <1>5 DEF Exact, Sized, Walking, Parting
  <1>9. QED BY <1>7, <1>8 DEF Exact

\* GrowSave.
LEMMA ExactGrowSave ==
  ASSUME NEW gr, NEW o, NEW p, NEW i, NEW g, NEW kd, NEW sb, NEW f, NEW n, NEW K, NEW C, NEW L,
         Sane("growSave", gr, o, p, i, g, kd, sb, f, n, K, C, L), Exact("growSave", gr, o, p, i, g, f),
         NEW h, Wrote(f, g, kd, h),
         NEW q, q = <<[id |-> Root, node |-> [new_internal EXCEPT !.children = <<g>>]]>>
  PROVE  Exact("split", gr, o, q, 1, g, h)
  <1>1. gr /\ kd = f[Root] /\ is_full(kd)
    BY DEF Sane, Intact, GrowSafe, Before
  <1>2. g \in DOMAIN f /\ DOMAIN f \subseteq Nat /\ Root \in DOMAIN f
    BY DEF Sane, Intact, Alloc, Filed
  <1>3. PICK fr : fr = [id |-> Root, node |-> [new_internal EXCEPT !.children = <<g>>]]
    OBVIOUS
  <1>4. PICK root : root = [new_internal EXCEPT !.children = <<g>>]
    OBVIOUS
  <1>5. root \in Node /\ root.children[1] = g
    <2>1. PICK S : S = DOMAIN f
      OBVIOUS
    <2>2. S \subseteq Nat /\ g \in S
      BY <2>1, <1>2
    <2>3. root \in Node
      BY <2>2, <1>4, NewRoot
    <2>4. root.children = <<g>> /\ root.children[1] = g
      BY <1>4 DEF new_internal, new_leaf
    <2>5. QED BY <2>3, <2>4
  <1>6. fr \in Frame /\ fr.node = root
    BY <1>3, <1>4, <1>5 DEF Frame, PageId, Root
  <1>7. q = <<fr>> /\ Len(q) = 1 /\ DOMAIN q = 1..1 /\ q[1] = fr
    BY <1>3, <1>6, PathOne
  <1>8. TopOf(q) = root /\ Child(q, 1) = g
    BY <1>5, <1>6, <1>7 DEF TopOf, Child
  <1>9. Base(gr, q, h) = TopOf(q)
    BY <1>1, <1>4, <1>8 DEF Base, NewRootOver
  <1>10. is_full(h[Child(q, 1)])
    BY <1>1, <1>8 DEF Wrote
  <1>11. InnerSmall(h)
    <2>1. ~kd.leaf => Size(kd) <= FullSize + 2
      BY <1>1, <1>2 DEF Exact, Sized, InnerSmall
    <2>2. QED BY <2>1, SmallWrote DEF Exact, Sized
  <1>15. root.children = <<g>>
    BY <1>4 DEF new_internal, new_leaf
  <1>16. 1 \in 1..Len(Base(gr, q, h).children)
    BY <1>8, <1>9, <1>15
  <1>12. Copies("split", gr, q, 1, g, h)
    BY <1>1, <1>9, <1>10, <1>16 DEF Copies, Splitting, Parting
  <1>13. Sized("split", o, q, 1, h)
    BY <1>7, <1>11 DEF Sized
  <1>14. QED BY <1>12, <1>13 DEF Exact

\* The last node of a path is changed in memory.
LEMMA PutFacts ==
  ASSUME NEW p \in Seq(Frame), p # <<>>, NEW node \in Node, NEW q, q = Put(p, node)
  PROVE  /\ q \in Seq(Frame) /\ q # <<>> /\ Len(q) = Len(p) /\ DOMAIN q = DOMAIN p
         /\ TopOf(q) = node /\ TopId(q) = TopId(p) /\ q[Len(p)].node = node /\ q[Len(p)].id = TopId(p)
         /\ \A j \in DOMAIN p : j # Len(p) => q[j] = p[j]
  BY PathWith DEF TopId

\* q is the path p, of length l, with the frame fr added.
Extended(p, l, fr, q) ==
  /\ q \in Seq(Frame) /\ q # <<>> /\ Len(q) = l + 1 /\ DOMAIN q = 1..l + 1 /\ q[l + 1] = fr
  /\ TopOf(q) = fr.node /\ TopId(q) = fr.id /\ \A x \in 1..l : q[x] = p[x]

\* q is the path p, of length l, without its last frame.
Shortened(p, l, q) ==
  /\ q \in Seq(Frame) /\ q # <<>> /\ Len(q) = l - 1 /\ DOMAIN q = 1..l - 1
  /\ TopOf(q) = p[l - 1].node /\ TopId(q) = p[l - 1].id /\ \A x \in 1..l - 1 : q[x] = p[x]

\* Append does the one.
LEMMA ExtendedFacts ==
  ASSUME NEW p \in Seq(Frame), NEW l, l = Len(p), NEW fr \in Frame, NEW q, q = Append(p, fr)
  PROVE  Extended(p, l, fr, q)
  <1>1. l \in Nat /\ q \in Seq(Frame) /\ Len(q) = l + 1
    OBVIOUS
  <1>2. q[l + 1] = fr /\ \A x \in 1..l : q[x] = p[x]
    OBVIOUS
  <1>3. DOMAIN q = 1..l + 1
    BY <1>1, SeqDomain
  <1>4. q # <<>>
    OBVIOUS
  <1>5. TopOf(q) = fr.node /\ TopId(q) = fr.id
    BY <1>1, <1>2 DEF TopOf, TopId
  <1>6. QED BY <1>1, <1>2, <1>3, <1>4, <1>5 DEF Extended

\* Front does the other.
LEMMA ShortenedFacts ==
  ASSUME NEW p \in Seq(Frame), NEW l \in Nat, l = Len(p), l > 1, NEW q, q = Front(p)
  PROVE  Shortened(p, l, q)
  <1>1. 1 \in 1..l + 1 /\ l - 1 \in 0..l /\ 1 <= l - 1 + 1 /\ l - 1 - 1 + 1 = l - 1
    OBVIOUS
  <1>2. q \in Seq(Frame) /\ Len(q) = l - 1 /\ \A j \in 1..l - 1 : q[j] = p[1 + j - 1]
    BY <1>1, SubSeqFacts DEF Front
  <1>3. \A j \in 1..l - 1 : q[j] = p[j]
    BY <1>2
  <1>4. DOMAIN q = 1..l - 1
    BY <1>2, SeqDomain
  <1>5. l - 1 \in 1..l - 1
    OBVIOUS
  <1>6. q # <<>>
    BY <1>4, <1>5
  <1>7. TopOf(q) = p[l - 1].node /\ TopId(q) = p[l - 1].id
    BY <1>2, <1>3, <1>5 DEF TopOf, TopId
  <1>8. QED BY <1>2, <1>3, <1>4, <1>6, <1>7 DEF Shortened

\* SplitRead at a child that has keys.
LEMMA ExactSplit ==
  ASSUME NEW gr, NEW o, NEW p, NEW i, NEW g, NEW kd, NEW sb, NEW f, NEW n, NEW K, NEW C, NEW L,
         Sane("split", gr, o, p, i, g, kd, sb, f, n, K, C, L), Exact("split", gr, o, p, i, g, f),
         NEW q, q = Put(p, TopOf(q)), TopOf(q) \in Node, TopOf(q) = WithKey(TopOf(p), i, Mid(f[Child(p, i)]))
  PROVE  Exact("splitAlloc", gr, o, q, i, g, f)
  <1>1. "split" \in Walking /\ "split" \in Splitting
    BY DEF Walking, Splitting
  <1>2. p \in Seq(Frame) /\ p # <<>> /\ TopOf(p) \in Node
    BY <1>1, SaneTop
  <1>3. PICK node : node = TopOf(q)
    OBVIOUS
  <1>4. /\ Len(q) = Len(p) /\ DOMAIN q = DOMAIN p /\ TopId(q) = TopId(p)
        /\ \A j \in DOMAIN p : j # Len(p) => q[j] = p[j]
    BY <1>2, <1>3, PutFacts
  <1>5. TopOf(q).children = TopOf(p).children
    BY <1>2 DEF WithKey, Node
  <1>6. Child(q, i) = Child(p, i) /\ Base(gr, q, f) = Base(gr, p, f)
    BY <1>4, <1>5 DEF Child, Base
  <1>7. Copies("splitAlloc", gr, q, i, g, f)
    BY <1>4, <1>6 DEF Exact, Copies, Splitting, Parting
  <1>8. Sized("splitAlloc", o, q, i, f)
    BY <1>1, <1>4 DEF Exact, Sized
  <1>9. QED BY <1>7, <1>8 DEF Exact

\* The page for the new node is none that the writer relies on.
LEMMA SaneFresh ==
  ASSUME NEW gr, NEW o, NEW p, NEW i, NEW g, NEW kd, NEW sb, NEW f, NEW n, NEW K, NEW C, NEW L,
         Sane("saveNew", gr, o, p, i, g, kd, sb, f, n, K, C, L), Exact("saveNew", gr, o, p, i, g, f)
  PROVE  g \in DOMAIN f /\ g # Child(p, i) /\ (~gr => g # TopId(p)) /\ g # Root
  <1>1. "saveNew" \in Splitting /\ "saveNew" \in Splitting \cup {"enter"}
    BY DEF Splitting, Parting
  <1>2. g \in DOMAIN f /\ f[g] = Blank /\ f[Root] # Blank
    BY DEF Sane, Intact, Alloc, Tree, JoinOK
  <1>3. ~is_full(Blank)
    BY EmptyNodes, SizeAssumption DEF is_full
  <1>4. is_full(f[Child(p, i)])
    BY <1>1 DEF Exact, Copies
  <1>5. ~gr => f[TopId(p)].children # <<>>
    BY <1>1, SaneInner
  <1>6. Blank.children = <<>>
    BY EmptyNodes
  <1>7. QED BY <1>2, <1>3, <1>4, <1>5, <1>6

\* SaveNew.
LEMMA ExactSaveNew ==
  ASSUME NEW gr, NEW o, NEW p, NEW i, NEW g, NEW kd, NEW sb, NEW f, NEW n, NEW K, NEW C, NEW L,
         Sane("saveNew", gr, o, p, i, g, kd, sb, f, n, K, C, L), Exact("saveNew", gr, o, p, i, g, f),
         NEW h, Wrote(f, g, sb, h), NEW q, q = Put(p, TopOf(q)), TopOf(q) = WithChild(TopOf(p), i, g)
  PROVE  Exact("saveChild", gr, o, q, i, g, h)
  <1>1. "saveNew" \in Walking /\ "saveNew" \in Parting /\ "saveNew" \in Splitting /\ "saveNew" \in Splitting \cup {"enter"}
        /\ "saveChild" \in Walking /\ "saveChild" \in Splitting /\ "saveChild" \notin Parting
    BY DEF Walking, Splitting, Parting
  <1>2. /\ p \in Seq(Frame) /\ p # <<>> /\ TopOf(p) \in Node /\ Open(TopOf(p), DOMAIN f) /\ DOMAIN f \subseteq Nat
        /\ TopId(p) \in DOMAIN f
    BY <1>1, SaneTop
  <1>3. /\ i \in 1..Len(TopOf(p).children) /\ Child(p, i) \in DOMAIN f /\ i \in Nat /\ i # 0
    BY <1>1, SaneChild
  <1>4. g \in DOMAIN f /\ g # Child(p, i) /\ (~gr => g # TopId(p))
    BY SaneFresh
  <1>5. PICK node, top, k : node = TopOf(q) /\ top = TopOf(p) /\ k = Len(top.children) - 1
    OBVIOUS
  <1>6. Len(top.children) \in Nat
    BY <1>2, <1>5, NodeFields
  <1>7. k \in Nat /\ Len(top.children) = k + 1 /\ i \in 1..k + 1
    BY <1>3, <1>5, <1>6
  <1>8. ChildDone(top, DOMAIN f, i, g, k, node)
    BY <1>2, <1>4, <1>5, <1>7, ParentDoneChild
  <1>9. node \in Node /\ node.children[i] = top.children[i] /\ node.children[1] = top.children[1]
    <2>1. i \in 1..k + 2 /\ i < i + 1 /\ 1 \in 1..k + 2 /\ 1 < i + 1
      BY <1>3, <1>7
    <2>2. QED BY <2>1, <1>8 DEF ChildDone
  <1>10. /\ Len(q) = Len(p) /\ DOMAIN q = DOMAIN p /\ TopId(q) = TopId(p)
         /\ \A j \in DOMAIN p : j # Len(p) => q[j] = p[j]
    BY <1>2, <1>5, <1>9, PutFacts
  <1>11. Child(q, i) = Child(p, i) /\ Child(q, 1) = Child(p, 1)
    BY <1>5, <1>9 DEF Child
  <1>12. h[Child(p, i)] = f[Child(p, i)] /\ (~gr => h[TopId(p)] = f[TopId(p)])
    BY <1>2, <1>3, <1>4 DEF Wrote
  <1>13. Base(gr, q, h) = Base(gr, p, f)
    BY <1>10, <1>11, <1>12 DEF Base
  <1>14. InnerSmall(h)
    <2>1. sb = RightHalf(f[Child(p, i)]) /\ f[Child(p, i)].keys # <<>>
      BY <1>1 DEF Sane, Intact, Halved
    <2>2. Sound(f[Child(p, i)], DOMAIN f)
      BY <1>3, SanePage DEF Sane
    <2>3. ~f[Child(p, i)].leaf => Size(f[Child(p, i)]) <= FullSize + 2
      BY <1>3 DEF Exact, Sized, InnerSmall
    <2>4. PICK c, l : c = f[Child(p, i)] /\ l = LeftHalf(c)
      OBVIOUS
    <2>5. sb.leaf = c.leaf /\ (~c.leaf /\ Size(c) <= FullSize + 2 => Size(sb) <= FullSize)
      BY <2>1, <2>2, <2>4, HalfSizes
    <2>6. ~sb.leaf => Size(sb) <= FullSize
      BY <2>3, <2>4, <2>5
    <2>7. Size(sb) \in Nat /\ FullSize \in Nat
      BY <2>1, <2>2, HalvesSound, FullOrNot, SizeAssumption
    <2>8. ~sb.leaf => Size(sb) <= FullSize + 2
      BY <2>6, <2>7
    <2>9. QED BY <2>8, SmallWrote DEF Exact, Sized
  <1>15. Copies("saveChild", gr, q, i, g, h)
    BY <1>1, <1>5, <1>10, <1>11, <1>12, <1>13 DEF Exact, Copies
  <1>16. Sized("saveChild", o, q, i, h)
    BY <1>1, <1>10, <1>14 DEF Exact, Sized
  <1>17. QED BY <1>15, <1>16 DEF Exact

\* The parent as split_child leaves it, against what it was before.
LEMMA ParentGrown ==
  ASSUME NEW gr, NEW o, NEW p, NEW i, NEW g, NEW kd, NEW sb, NEW f, NEW n, NEW K, NEW C, NEW L,
         Sane("saveChild", gr, o, p, i, g, kd, sb, f, n, K, C, L), Exact("saveChild", gr, o, p, i, g, f)
  PROVE  \E base, m : /\ base = Base(gr, p, f) /\ m = Len(base.keys) /\ Sound(base, DOMAIN f) /\ ~base.leaf
                      /\ Parted(base, i, Mid(f[Child(p, i)]), g, m, TopOf(p)) /\ Size(TopOf(p)) = Size(base) + 2
                      /\ m \in Nat /\ Len(base.children) = m + 1 /\ i \in 1..m + 1 /\ Mid(f[Child(p, i)]) \in Keys
  <1>1. "saveChild" \in Splitting \cup {"enter"} /\ "saveChild" \in Walking /\ "saveChild" \notin Parting
    BY DEF Splitting, Parting, Walking
  <1>2. PICK S : S = DOMAIN f
    OBVIOUS
  <1>3. /\ S \subseteq Nat /\ Child(p, i) \in S /\ TopId(p) \in S /\ ~TopOf(p).leaf
        /\ i \in 1..Len(TopOf(p).children) /\ TopOf(p) \in Node
    BY <1>1, <1>2, SaneTop, SaneChild
  <1>4. /\ g \in S /\ f[Child(p, i)].keys # <<>>
        /\ gr => i = 1 /\ DOMAIN TopOf(p).children = {1, 2} /\ Child(p, 1) \in S
    BY <1>2, <1>1 DEF Sane, Intact, Halved, GrowSafe, Splitting, Parting
  <1>5. PICK base, k, new, m : /\ base = Base(gr, p, f) /\ k = Mid(f[Child(p, i)]) /\ new = TopOf(p)
                               /\ m = Len(base.keys)
    OBVIOUS
  <1>6. k \in Keys
    <2>1. f[Child(p, i)] \in Node
      BY <1>2, <1>3, SanePage DEF Sane
    <2>2. QED BY <2>1, <1>4, <1>5, MiddleRange DEF Mid
  <1>7. new = WithChild(WithKey(base, i, k), i, g)
    BY <1>5 DEF Exact, Copies
  <1>8. Sound(base, S) /\ ~base.leaf /\ base.children # <<>>
    <2>1. CASE gr
      <3>1. PICK a, root : a = Child(p, 1) /\ root = [new_internal EXCEPT !.children = <<a>>]
        OBVIOUS
      <3>2. base = root
        BY <2>1, <3>1, <1>5 DEF Base, NewRootOver
      <3>3. Sound(root, S) /\ ~root.leaf
        BY <2>1, <3>1, <1>3, <1>4, NewRoot
      <3>4. root.children = <<a>>
        BY <3>1 DEF new_internal, new_leaf
      <3>5. QED BY <3>2, <3>3, <3>4
    <2>2. CASE ~gr
      <3>1. base = f[TopId(p)]
        BY <2>2, <1>5 DEF Base
      <3>2. ~base.leaf /\ base.children # <<>>
        BY <2>2, <3>1, <1>1, SaneInner
      <3>3. Sound(base, S)
        BY <3>1, <1>2, <1>3, SanePage DEF Sane
      <3>4. QED BY <3>2, <3>3
    <2>3. QED BY <2>1, <2>2
  <1>9. PICK j : j = Len(base.children)
    OBVIOUS
  <1>10. base \in Node
    BY <1>8 DEF Sound, Closed
  <1>11. m \in Nat /\ j = m + 1
    BY <1>5, <1>8, <1>9, <1>10, InnerSize, NodeFields
  <1>12. i \in 1..j
    BY <1>1, <1>5, <1>9 DEF Exact, Copies, Splitting
  <1>13. Regrown(S, base, i, k, g, m, new)
    BY <1>3, <1>4, <1>5, <1>6, <1>7, <1>8, <1>9, <1>12, ParentDone
  <1>14. /\ Parted(base, i, k, g, m, new) /\ Size(new) = Size(base) + 2
         /\ m \in Nat /\ Len(base.children) = m + 1 /\ i \in 1..m + 1
    BY <1>13 DEF Regrown
  <1>15. QED BY <1>2, <1>5, <1>6, <1>8, <1>14

\* What is known of the halves when the child is saved.
LEMMA SaneHalves ==
  ASSUME NEW gr, NEW o, NEW p, NEW i, NEW g, NEW kd, NEW sb, NEW f, NEW n, NEW K, NEW C, NEW L,
         Sane("saveChild", gr, o, p, i, g, kd, sb, f, n, K, C, L), Exact("saveChild", gr, o, p, i, g, f)
  PROVE  /\ Child(p, i) \in DOMAIN f /\ g \in DOMAIN f /\ g # Child(p, i) /\ g # Root /\ Child(p, i + 1) = g
         /\ Sound(f[Child(p, i)], DOMAIN f) /\ f[Child(p, i)].keys # <<>>
         /\ kd = WithNext(LeftHalf(f[Child(p, i)]), g) /\ f[g] = RightHalf(f[Child(p, i)])
         /\ kd.leaf \/ Size(kd) <= FullSize
         /\ f[g].leaf \/ Size(f[g]) <= FullSize
         /\ Size(kd) <= Size(f[Child(p, i)])
  <1>1. "saveChild" \in Splitting \cup {"enter"}
    BY DEF Splitting
  <1>2. PICK id, c, l, r : id = Child(p, i) /\ c = f[id] /\ l = LeftHalf(c) /\ r = RightHalf(c)
    OBVIOUS
  <1>3. /\ id \in DOMAIN f /\ g \in DOMAIN f /\ g # id /\ g # Root /\ Child(p, i + 1) = g
        /\ c.keys # <<>> /\ kd = WithNext(l, g) /\ f[g] = r
    BY <1>1, <1>2, SaneChild DEF Sane, Intact, Halved
  <1>4. Sound(c, DOMAIN f) /\ DOMAIN f \subseteq Nat
    BY <1>2, <1>3, SanePage DEF Sane, Filed
  <1>5. ~c.leaf => Size(c) <= FullSize + 2
    BY <1>2, <1>3 DEF Exact, Sized, InnerSmall
  <1>6. l.leaf = c.leaf /\ r.leaf = c.leaf /\ Size(l) <= Size(c)
    BY <1>2, <1>3, <1>4, HalfSizes
  <1>7. ~c.leaf => Size(l) <= FullSize /\ Size(r) <= FullSize
    BY <1>2, <1>3, <1>4, <1>5, HalfSizes
  <1>8. l \in Node
    BY <1>2, <1>3, <1>4, HalvesSound DEF Sound, Closed
  <1>9. kd.leaf = l.leaf /\ Size(kd) = Size(l)
    BY <1>3, <1>4, <1>8, WithNextSize
  <1>10. QED BY <1>2, <1>3, <1>4, <1>6, <1>7, <1>9

\* SaveChild, when the tree does not grow.
LEMMA ExactSaveChild ==
  ASSUME NEW gr, NEW o, NEW p, NEW i, NEW g, NEW kd, NEW sb, NEW f, NEW n, NEW K, NEW C, NEW L,
         Sane("saveChild", gr, o, p, i, g, kd, sb, f, n, K, C, L), Exact("saveChild", gr, o, p, i, g, f), ~gr,
         NEW h, Wrote(f, Child(p, i), kd, h)
  PROVE  Exact("enter", gr, o, p, i, g, h)
  <1>1. "saveChild" \in Splitting /\ "saveChild" \in Splitting \cup {"enter"} /\ "saveChild" \in Walking
    BY DEF Splitting, Walking
  <1>2. /\ Child(p, i) \in DOMAIN f /\ g \in DOMAIN f /\ g # Child(p, i) /\ Child(p, i + 1) = g
        /\ kd.leaf \/ Size(kd) <= FullSize
        /\ f[g].leaf \/ Size(f[g]) <= FullSize
    BY SaneHalves
  <1>3. /\ ~is_full(f[TopId(p)]) /\ is_full(f[Child(p, i)]) /\ TopId(p) \in DOMAIN f
    BY <1>1, SaneInner DEF Exact, Copies
  <1>4. h[TopId(p)] = f[TopId(p)] /\ h[Child(p, i)] = kd /\ h[g] = f[g]
    BY <1>2, <1>3 DEF Wrote
  <1>5. PICK base, m : /\ base = Base(gr, p, f) /\ m = Len(base.keys) /\ Size(TopOf(p)) = Size(base) + 2
                       /\ Parted(base, i, Mid(f[Child(p, i)]), g, m, TopOf(p))
    BY ParentGrown
  <1>6. base = f[TopId(p)]
    BY <1>5 DEF Base
  <1>7. Len(TopOf(p).keys) = m + 1
    BY <1>5 DEF Parted
  <1>8. Len(TopOf(p).keys) = Len(h[TopId(p)].keys) + 1
    BY <1>4, <1>5, <1>6, <1>7
  <1>9. Size(TopOf(p)) <= FullSize + 2
    <2>1. Sound(base, DOMAIN f)
      BY <1>3, <1>6, SanePage DEF Sane
    <2>2. PICK z : z = Size(base)
      OBVIOUS
    <2>3. z \in Nat /\ z <= FullSize /\ FullSize \in Nat
      BY <2>1, <2>2, <1>3, <1>6, FullOrNot, SizeAssumption
    <2>4. QED BY <2>2, <2>3, <1>5
  <1>10. InnerSmall(h)
    <2>1. PICK z : z = Size(kd)
      OBVIOUS
    <2>2. z \in Nat /\ FullSize \in Nat
      BY <2>1, FullOrNot, SizeAssumption DEF Sane, WriterInv
    <2>3. ~kd.leaf => z <= FullSize + 2
      BY <2>1, <2>2, <1>2
    <2>4. QED BY <2>1, <2>3, SmallWrote DEF Exact, Sized
  <1>11. \A y \in {i, i + 1} : h[Child(p, y)].leaf \/ Size(h[Child(p, y)]) <= FullSize
    BY <1>2, <1>4
  <1>12. Copies("enter", gr, p, i, g, h)
    BY <1>8 DEF Copies, Splitting, Parting
  <1>13. Sized("enter", o, p, i, h)
    BY <1>1, <1>9, <1>10, <1>11 DEF Exact, Sized
  <1>14. QED BY <1>12, <1>13 DEF Exact

\* SaveChild, when the tree grows.
LEMMA ExactSaveHalf ==
  ASSUME NEW gr, NEW o, NEW p, NEW i, NEW g, NEW kd, NEW sb, NEW f, NEW n, NEW K, NEW C, NEW L,
         Sane("saveChild", gr, o, p, i, g, kd, sb, f, n, K, C, L), Exact("saveChild", gr, o, p, i, g, f), gr,
         NEW h, Wrote(f, Child(p, i), kd, h)
  PROVE  Exact("saveRoot", gr, o, p, i, g, h)
  <1>1. "saveChild" \in Splitting /\ "saveRoot" \in Walking /\ "saveChild" \in Walking
        /\ "saveRoot" \notin Splitting /\ "saveRoot" \notin Parting
    BY DEF Splitting, Walking, Parting
  <1>2. i = 1 /\ Child(p, 1) # Root /\ f[Child(p, 1)] = f[Root] /\ Root \in DOMAIN f
    BY <1>1 DEF Sane, Intact, GrowSafe, Filed
  <1>3. h[Root] = f[Root] /\ f[Child(p, i)] = f[Root]
    BY <1>2 DEF Wrote
  <1>4. Base(gr, p, h) = Base(gr, p, f)
    BY DEF Base
  <1>5. InnerSmall(h)
    <2>1. PICK z : z = Size(kd)
      OBVIOUS
    <2>2. z \in Nat /\ FullSize \in Nat
      BY <2>1, FullOrNot, SizeAssumption DEF Sane, WriterInv
    <2>3. kd.leaf \/ z <= FullSize
      BY <2>1, SaneHalves
    <2>4. ~kd.leaf => z <= FullSize + 2
      BY <2>2, <2>3
    <2>5. QED BY <2>1, <2>4, SmallWrote DEF Exact, Sized
  <1>6. Copies("saveRoot", gr, p, i, g, h)
    BY <1>1, <1>2, <1>3, <1>4 DEF Exact, Copies
  <1>7. Sized("saveRoot", o, p, i, h)
    BY <1>1, <1>5 DEF Exact, Sized
  <1>8. QED BY <1>6, <1>7 DEF Exact

\* SaveRoot.
LEMMA ExactSaveRoot ==
  ASSUME NEW gr, NEW o, NEW p, NEW i, NEW g, NEW kd, NEW sb, NEW f, NEW n, NEW K, NEW C, NEW L,
         Sane("saveRoot", gr, o, p, i, g, kd, sb, f, n, K, C, L), Exact("saveRoot", gr, o, p, i, g, f),
         NEW h, Wrote(f, Root, TopOf(p), h), NEW d
  PROVE  Exact("reread", d, o, p, i, g, h) /\ Size(TopOf(p)) = 3
  <1>1. gr /\ Child(p, 1) \in DOMAIN f /\ g \in DOMAIN f /\ f[Root].keys # <<>> /\ Root \in DOMAIN f
    BY DEF Sane, Intact, GrowSafe, Filed
  <1>2. PICK S, a, k, base, new : /\ S = DOMAIN f /\ a = Child(p, 1) /\ k = Mid(f[Root]) /\ new = TopOf(p)
                                  /\ base = [new_internal EXCEPT !.children = <<a>>]
    OBVIOUS
  <1>3. S \subseteq Nat /\ a \in S /\ g \in S
    BY <1>1, <1>2 DEF Sane, Filed
  <1>4. k \in Keys
    <2>1. f[Root] \in Node
      BY <1>1, SanePage DEF Sane
    <2>2. QED BY <2>1, <1>1, <1>2, MiddleRange DEF Mid
  <1>5. new = WithChild(WithKey(base, 1, k), 1, g)
    BY <1>1, <1>2 DEF Exact, Copies, Base, NewRootOver
  <1>6. Sound(base, S) /\ ~base.leaf
    BY <1>2, <1>3, NewRoot
  <1>7. Size(base) = 1
    BY <1>2, <1>3, NewRoot, ZenonT(40)
  <1>8. base.children = <<a>>
    BY <1>2 DEF new_internal, new_leaf
  <1>9. 1 \in 1..Len(base.children)
    BY <1>8
  <1>10. PICK m : m = Len(base.keys)
    OBVIOUS
  <1>11. Regrown(S, base, 1, k, g, m, new)
    BY <1>3, <1>4, <1>5, <1>6, <1>9, <1>10, ParentDone
  <1>12. Size(new) = 3 /\ ~new.leaf
    BY <1>7, <1>11 DEF Regrown, Parted
  <1>13. FullSize \in Nat /\ 3 <= FullSize
    BY SizeAssumption
  <1>14. Size(new) <= FullSize + 2 /\ Size(new) <= FullSize
    BY <1>12, <1>13
  <1>15. InnerSmall(h)
    BY <1>2, <1>14, SmallWrote DEF Exact, Sized
  <1>16. h[Root] = new
    BY <1>2 DEF Wrote
  <1>17. Exact("reread", d, o, p, i, g, h)
    BY <1>12, <1>14, <1>15, <1>16 DEF Exact, Copies, Sized, Splitting, Parting, Walking
  <1>18. QED BY <1>2, <1>12, <1>17

\* VisitLeaf.
LEMMA ExactLeaf ==
  ASSUME NEW gr, NEW o, NEW p, NEW i, NEW g, NEW kd, NEW sb, NEW f, NEW n, NEW K, NEW C, NEW L,
         Sane("visit", gr, o, p, i, g, kd, sb, f, n, K, C, L), Exact("visit", gr, o, p, i, g, f),
         TopOf(p).leaf, NEW new \in Node, new.leaf, Size(new) <= Size(TopOf(p)) + 1 + o.val.w,
         NEW q, q = Put(p, new)
  PROVE  Exact("unwind", gr, o, q, i, g, f)
  <1>1. "visit" \in Walking /\ "visit" \notin Parting
    BY DEF Walking, Parting
  <1>2. p \in Seq(Frame) /\ p # <<>> /\ Sound(TopOf(p), DOMAIN f) /\ DOMAIN p = 1..Len(p) /\ Len(p) \in Nat
    BY <1>1, SaneTop
  <1>3. /\ Len(q) = Len(p) /\ DOMAIN q = DOMAIN p /\ TopOf(q) = new
        /\ \A j \in DOMAIN p : j # Len(p) => q[j] = p[j]
    BY <1>2, PutFacts
  <1>4. Longer(p, f) => Longer(q, f)
    <2>1. SUFFICES ASSUME Longer(p, f) PROVE Longer(q, f)
      OBVIOUS
    <2>2. PICK l \in Nat : l = Len(p)
      BY <1>2
    <2>3. l > 1
      BY <2>1, <2>2 DEF Longer
    <2>4. l - 1 \in 1..l /\ l - 1 # l
      BY <2>3
    <2>5. q[l - 1] = p[l - 1]
      BY <2>2, <2>4, <1>2, <1>3
    <2>6. QED BY <2>1, <2>2, <2>5, <1>3 DEF Longer
  <1>5. Size(new) <= FullSize + 1 + o.val.w \/ Longer(q, f)
    <2>1. Size(TopOf(p)) <= FullSize \/ Longer(p, f)
      BY DEF Exact, Sized
    <2>2. PICK a, b, v : a = Size(TopOf(p)) /\ b = Size(new) /\ v = o.val.w
      OBVIOUS
    <2>3. a \in Nat /\ b \in Nat /\ FullSize \in Nat
      BY <2>2, <1>2, FullOrNot, NodeFields, SizeAssumption
    <2>4. v \in Nat
      <3>1. o \in [key : Keys, val : Value]
        BY DEF Sane, WriterInv
      <3>2. QED BY <3>1, <2>2, KeyAssumption DEF Value
    <2>5. b <= a + 1 + v
      BY <2>2
    <2>6. a <= FullSize => b <= FullSize + 1 + v
      BY <2>3, <2>4, <2>5
    <2>7. QED BY <2>1, <2>2, <2>6, <1>4
  <1>6. Copies("unwind", gr, q, i, g, f)
    BY DEF Copies, Splitting, Parting
  <1>7. Sized("unwind", o, q, i, f)
    BY <1>1, <1>3, <1>5 DEF Exact, Sized
  <1>8. QED BY <1>6, <1>7 DEF Exact

\* VisitInternal at a child that is full.
LEMMA ExactChoose ==
  ASSUME NEW gr, NEW o, NEW p, NEW i, NEW g, NEW kd, NEW sb, NEW f, NEW n, NEW K, NEW C, NEW L,
         Sane("visit", gr, o, p, i, g, kd, sb, f, n, K, C, L), Exact("visit", gr, o, p, i, g, f),
         ~TopOf(p).leaf, NEW j, j \in 1..Len(TopOf(p).children), is_full(f[Child(p, j)])
  PROVE  Exact("split", gr, o, p, j, g, f) /\ ~gr
  <1>1. "visit" \in Walking /\ "visit" \notin Parting /\ "split" \in Walking /\ "split" \notin Parting
    BY DEF Walking, Parting
  <1>2. ~gr
    BY DEF Sane, Intact, GrowSafe, Growing, Before, Splitting, Parting
  <1>3. TopOf(p) = f[TopId(p)] /\ Size(TopOf(p)) <= FullSize
    BY DEF Exact, Copies, Sized
  <1>4. Sound(TopOf(p), DOMAIN f)
    BY <1>1, SaneTop
  <1>5. ~is_full(f[TopId(p)])
    BY <1>3, <1>4, FullOrNot
  <1>6. Base(gr, p, f) = TopOf(p)
    BY <1>2, <1>3 DEF Base
  <1>7. Copies("split", gr, p, j, g, f)
    BY <1>1, <1>5, <1>6 DEF Copies
  <1>8. Sized("split", o, p, j, f)
    BY <1>1 DEF Exact, Sized
  <1>9. QED BY <1>2, <1>7, <1>8 DEF Exact

\* VisitInternal at another child, and Enter.
LEMMA ExactAppend ==
  ASSUME NEW c, c \in {"visit", "enter"}, NEW gr, NEW o, NEW p, NEW i, NEW g, NEW kd, NEW sb, NEW f, NEW n, NEW K, NEW C, NEW L,
         Sane(c, gr, o, p, i, g, kd, sb, f, n, K, C, L), Exact(c, gr, o, p, i, g, f),
         ~TopOf(p).leaf, NEW j, IF c = "visit" THEN Size(f[Child(p, j)]) <= FullSize ELSE j \in {i, i + 1},
         NEW fr \in Frame, fr.id = Child(p, j), fr.node = f[Child(p, j)], NEW q, q = Append(p, fr), NEW d
  PROVE  Exact("visit", gr, o, q, d, g, f)
  <1>1. c \in Walking /\ c \notin Parting /\ "visit" \in Walking
    BY DEF Walking, Parting
  <1>2. p \in Seq(Frame) /\ p # <<>> /\ DOMAIN p = 1..Len(p) /\ Len(p) \in Nat /\ Len(p) >= 1 /\ Sound(TopOf(p), DOMAIN f)
    BY <1>1, SaneTop
  <1>3. PICK l \in Nat : l = Len(p) /\ l >= 1
    BY <1>2
  <1>11. Extended(p, l, fr, q)
    BY <1>2, <1>3, ExtendedFacts
  <1>4. TopId(q) = Child(p, j) /\ TopOf(q) = f[Child(p, j)]
    BY <1>11 DEF Extended
  <1>5. Size(TopOf(p)) <= FullSize + 2
    <2>1. PICK z : z = Size(TopOf(p))
      OBVIOUS
    <2>2. z \in Nat /\ FullSize \in Nat
      BY <2>1, <1>2, FullOrNot, SizeAssumption
    <2>3. z <= FullSize \/ z <= FullSize + 2
      BY <2>1 DEF Exact, Sized
    <2>4. QED BY <2>1, <2>2, <2>3
  <1>6. \A x \in DOMAIN q : x # Len(q) => Size(q[x].node) <= FullSize + 2
    <2>1. SUFFICES ASSUME NEW x \in DOMAIN q, x # Len(q) PROVE Size(q[x].node) <= FullSize + 2
      OBVIOUS
    <2>2. x \in 1..l + 1 /\ x # l + 1
      BY <2>1, <1>11 DEF Extended
    <2>3. x \in 1..l
      BY <2>2
    <2>4. q[x] = p[x] /\ x \in DOMAIN p
      BY <2>3, <1>2, <1>3, <1>11 DEF Extended
    <2>5. CASE x = l
      BY <2>4, <2>5, <1>3, <1>5 DEF TopOf
    <2>6. CASE x # l
      BY <2>4, <2>6, <1>1, <1>3 DEF Exact, Sized
    <2>7. QED BY <2>5, <2>6
  <1>7. Size(TopOf(q)) <= FullSize \/ (TopOf(q).leaf /\ Longer(q, f))
    <2>1. CASE c = "visit"
      BY <2>1, <1>4
    <2>2. CASE c = "enter"
      <3>1. TopOf(q).leaf \/ Size(TopOf(q)) <= FullSize
        BY <2>2, <1>4 DEF Exact, Sized
      <3>2. Len(TopOf(p).keys) = Len(f[TopId(p)].keys) + 1
        BY <2>2 DEF Exact, Copies
      <3>3. l \in 1..l /\ l + 1 > 1 /\ l + 1 - 1 = l
        BY <1>3
      <3>4. q[l] = p[Len(p)] /\ Len(q) = l + 1
        BY <3>3, <1>3, <1>11 DEF Extended
      <3>5. Longer(q, f)
        BY <3>2, <3>3, <3>4 DEF Longer, TopOf, TopId
      <3>6. QED BY <3>1, <3>5
    <2>3. QED BY <2>1, <2>2
  <1>8. Copies("visit", gr, q, d, g, f)
    BY <1>4 DEF Copies, Splitting, Parting
  <1>9. Sized("visit", o, q, d, f)
    BY <1>6, <1>7 DEF Exact, Sized
  <1>10. QED BY <1>8, <1>9 DEF Exact

\* The last node of the path is written back.
LEMMA ExactBack ==
  ASSUME NEW gr, NEW o, NEW p, NEW i, NEW g, NEW kd, NEW sb, NEW f, NEW n, NEW K, NEW C, NEW L,
         Sane("unwind", gr, o, p, i, g, kd, sb, f, n, K, C, L), Exact("unwind", gr, o, p, i, g, f),
         NEW h, Wrote(f, TopId(p), TopOf(p), h)
  PROVE  InnerSmall(h)
  <1>1. ~TopOf(p).leaf => Size(TopOf(p)) <= FullSize + 2
    BY DEF Exact, Sized
  <1>2. QED BY <1>1, SmallWrote DEF Exact, Sized

\* Unwind.
LEMMA ExactUnwind ==
  ASSUME NEW gr, NEW o, NEW p, NEW i, NEW g, NEW kd, NEW sb, NEW f, NEW n, NEW K, NEW C, NEW L,
         Sane("unwind", gr, o, p, i, g, kd, sb, f, n, K, C, L), Exact("unwind", gr, o, p, i, g, f),
         NEW h, Wrote(f, TopId(p), TopOf(p), h), Len(p) > 1, NEW q, q = Front(p)
  PROVE  Exact("unwind", gr, o, q, i, g, h)
  <1>1. "unwind" \in Walking
    BY DEF Walking
  <1>2. p \in Seq(Frame) /\ p # <<>> /\ DOMAIN p = 1..Len(p) /\ Len(p) \in Nat
    BY <1>1, SaneTop
  <1>3. PICK l \in Nat : l = Len(p) /\ l > 1
    BY <1>2
  <1>4. Shortened(p, l, q)
    BY <1>2, <1>3, ShortenedFacts
  <1>5. ~gr
    BY DEF Sane, Intact, GrowSafe, Growing, Before, Splitting, Parting
  <1>6. PathSafe("unwind", o, p, i, f, C)
    BY <1>1, <1>5 DEF Sane, Intact
  <1>14. l - 1 \in 1..l /\ l - 1 # l
    BY <1>3
  <1>7. l - 1 \in DOMAIN p /\ l - 1 # Len(p) /\ TopOf(q) = p[l - 1].node
    BY <1>2, <1>3, <1>4, <1>14 DEF Shortened
  <1>8. ~TopOf(q).leaf /\ Size(TopOf(q)) <= FullSize + 2
    BY <1>1, <1>6, <1>7 DEF PathSafe, InnerBut, Exact, Sized
  <1>9. \A x \in DOMAIN q : x # Len(q) => Size(q[x].node) <= FullSize + 2
    <2>1. SUFFICES ASSUME NEW x \in DOMAIN q PROVE Size(q[x].node) <= FullSize + 2
      OBVIOUS
    <2>2. x \in 1..l - 1
      BY <1>4 DEF Shortened
    <2>3. x \in 1..l /\ x # l
      BY <2>2
    <2>4. x \in DOMAIN p /\ q[x] = p[x] /\ x # Len(p)
      BY <2>2, <2>3, <1>2, <1>3, <1>4 DEF Shortened
    <2>5. QED BY <2>4, <1>1 DEF Exact, Sized
  <1>10. InnerSmall(h)
    BY ExactBack
  <1>11. Copies("unwind", gr, q, i, g, h)
    BY DEF Copies, Splitting, Parting
  <1>12. Sized("unwind", o, q, i, h)
    BY <1>8, <1>9, <1>10 DEF Sized
  <1>13. QED BY <1>11, <1>12 DEF Exact
-----------------------------------------------------------------------------
(* The steps, as relations between the values of the locals and the pages  *)
(* before and after.                                                       *)

\* Where a writer holds nothing that matters here.
Resting == {"idle", "start"} \cup Before

\* Insert, ReadRoot at a full root, AllocatePage of a growing writer and Fail.
DidRest(c, gr, f, d, h) == h = f /\ d \in Resting /\ (c \in Resting \/ d = "idle")

\* ReadRoot at a root with room, and RereadRoot.
DidRoot(c, gr, o, f, d, ge, oo, q, h) ==
  /\ c \in {"start", "reread"} /\ d = "visit" /\ ~ge /\ oo = o /\ h = f
  /\ q = <<[id |-> Root, node |-> f[Root]]>>
  /\ c = "start" => Size(f[Root]) <= FullSize

\* AllocatePage in split_child.
DidAllocate(c, gr, o, p, i, f, d, ge, oo, q, j, h) ==
  c = "splitAlloc" /\ d = "splitBlank" /\ ge = gr /\ oo = o /\ q = p /\ j = i /\ h = f

\* BlankPage.
DidBlank(c, gr, o, p, i, g, f, d, ge, oo, q, j, e, h) ==
  /\ <<c, d>> \in {<<"growBlank", "growSave">>, <<"splitBlank", "saveNew">>}
  /\ ge = gr /\ oo = o /\ q = p /\ j = i /\ e = g /\ g \notin DOMAIN f /\ Wrote(f, g, Blank, h)

\* GrowSave.
DidGrowSave(c, gr, o, g, kd, f, d, ge, oo, q, j, e, h) ==
  /\ c = "growSave" /\ d = "split" /\ ge = gr /\ oo = o /\ j = 1 /\ e = g /\ Wrote(f, g, kd, h)
  /\ q = <<[id |-> Root, node |-> [new_internal EXCEPT !.children = <<g>>]]>>

\* SplitRead.
DidSplit(c, gr, o, p, i, g, f, d, ge, oo, q, j, e, h) ==
  /\ c = "split" /\ d = "splitAlloc" /\ ge = gr /\ oo = o /\ j = i /\ e = g /\ h = f
  /\ q = Put(p, TopOf(q)) /\ TopOf(q) \in Node /\ TopOf(q) = WithKey(TopOf(p), i, Mid(f[Child(p, i)]))

\* SaveNew.
DidSaveNew(c, gr, o, p, i, g, sb, f, d, ge, oo, q, j, e, h) ==
  /\ c = "saveNew" /\ d = "saveChild" /\ ge = gr /\ oo = o /\ j = i /\ e = g /\ Wrote(f, g, sb, h)
  /\ q = Put(p, TopOf(q)) /\ TopOf(q) = WithChild(TopOf(p), i, g)

\* SaveChild.
DidSaveChild(c, gr, o, p, i, g, kd, f, d, ge, oo, q, j, e, h) ==
  /\ c = "saveChild" /\ d = IF gr THEN "saveRoot" ELSE "enter"
  /\ ge = gr /\ oo = o /\ q = p /\ j = i /\ e = g /\ Wrote(f, Child(p, i), kd, h)

\* SaveRoot.
DidSaveRoot(c, o, p, i, g, f, d, ge, oo, q, j, e, h) ==
  /\ c = "saveRoot" /\ d = "reread" /\ ~ge /\ ge = FALSE /\ oo = o /\ q = p /\ j = i /\ e = g
  /\ Wrote(f, Root, TopOf(p), h)

\* VisitLeaf.
DidLeaf(c, gr, o, p, f, d, ge, oo, q, h) ==
  /\ c = "visit" /\ d = "unwind" /\ TopOf(p).leaf /\ ge = gr /\ oo = o /\ h = f
  /\ \E new \in LeafWith(TopOf(p), o.key, o.val) : q = Put(p, new)

\* VisitInternal at a full child.
DidChoose(c, gr, o, p, f, d, ge, oo, q, j, h) ==
  /\ c = "visit" /\ d = "split" /\ ~TopOf(p).leaf /\ ge = gr /\ oo = o /\ q = p /\ h = f
  /\ j \in ChildIndexes(TopOf(p), o.key) /\ is_full(f[Child(p, j)])

\* The half a key belongs to.
Half(p, i, k) == IF k > TopOf(p).keys[i] THEN i + 1 ELSE i

\* VisitInternal at a child with room, and Enter: y is the child.
DidDown(c, gr, o, p, i, f, d, ge, oo, q, h) ==
  /\ c \in {"visit", "enter"} /\ d = "visit" /\ ~TopOf(p).leaf /\ ge = gr /\ oo = o /\ h = f
  /\ \E y, fr : /\ fr \in Frame /\ fr.id = Child(p, y) /\ fr.node = f[Child(p, y)] /\ q = Append(p, fr)
                /\ IF c = "visit" THEN y \in ChildIndexes(TopOf(p), o.key) /\ Size(f[Child(p, y)]) <= FullSize
                   ELSE y = Half(p, i, o.key)

\* Unwind.
DidUnwind(c, gr, o, p, f, d, ge, oo, q, h) ==
  /\ c = "unwind" /\ d = "unwind" /\ ge = gr /\ oo = o /\ Len(p) > 1 /\ q = Front(p)
  /\ Wrote(f, TopId(p), TopOf(p), h)

\* Finish and SyncFail.
DidEnd(c, p, f, d, h) == c = "unwind" /\ d = "idle" /\ Len(p) = 1 /\ Wrote(f, Root, TopOf(p), h)

\* A step.
Did(c, gr, o, p, i, g, kd, sb, f, d, ge, oo, q, j, e, h) ==
  \/ DidRest(c, gr, f, d, h)
  \/ DidRoot(c, gr, o, f, d, ge, oo, q, h)
  \/ DidAllocate(c, gr, o, p, i, f, d, ge, oo, q, j, h)
  \/ DidBlank(c, gr, o, p, i, g, f, d, ge, oo, q, j, e, h)
  \/ DidGrowSave(c, gr, o, g, kd, f, d, ge, oo, q, j, e, h)
  \/ DidSplit(c, gr, o, p, i, g, f, d, ge, oo, q, j, e, h)
  \/ DidSaveNew(c, gr, o, p, i, g, sb, f, d, ge, oo, q, j, e, h)
  \/ DidSaveChild(c, gr, o, p, i, g, kd, f, d, ge, oo, q, j, e, h)
  \/ DidSaveRoot(c, o, p, i, g, f, d, ge, oo, q, j, e, h)
  \/ DidLeaf(c, gr, o, p, f, d, ge, oo, q, h)
  \/ DidChoose(c, gr, o, p, f, d, ge, oo, q, j, h)
  \/ DidDown(c, gr, o, p, i, f, d, ge, oo, q, h)
  \/ DidUnwind(c, gr, o, p, f, d, ge, oo, q, h)
  \/ DidEnd(c, p, f, d, h)

\* The values of the locals of w and the pages are these...
Now(w, c, gr, o, p, i, g, kd, sb, f) ==
  /\ pc[w] = c /\ growing[w] = gr /\ op[w] = o /\ path[w] = p /\ idx[w] = i /\ page[w] = g
  /\ kid[w] = kd /\ sib[w] = sb /\ pages = f

\* ... and after a step these.
Then(w, d, ge, oo, q, j, e, h) ==
  /\ pc'[w] = d /\ growing'[w] = ge /\ op'[w] = oo /\ path'[w] = q /\ idx'[w] = j /\ page'[w] = e /\ pages' = h

\* What TypeInv and Holds say of them.
LEMMA NowSane ==
  ASSUME TypeInv, NEW w \in Writers, NEW C, NEW L, Holds(w, C, L),
         NEW c, NEW gr, NEW o, NEW p, NEW i, NEW g, NEW kd, NEW sb, NEW f,
         Now(w, c, gr, o, p, i, g, kd, sb, f)
  PROVE  \E n, K : Sane(c, gr, o, p, i, g, kd, sb, f, n, K, C, L) /\ n = num_pages /\ K = Present
  <1>1. PICK n, K : n = num_pages /\ K = Present
    OBVIOUS
  <1>2. /\ Filed(f, n) /\ gr \in BOOLEAN /\ WriterInv(c, o, p, i, g, kd, sb, DOMAIN f, n)
        /\ Intact(c, gr, o, p, i, g, kd, sb, f, n, K, C, L)
    BY <1>1, HereFiled DEF Now, Holds
  <1>3. QED BY <1>1, <1>2 DEF Sane

\* A step that moves w: the values after it.
LEMMA ThenMoved ==
  ASSUME TypeInv, NEW w \in Writers, NEW c, NEW o, NEW gr, NEW p, NEW i, NEW g, NEW kd, NEW sb,
         Moved(w, c, o, gr, p, i, g, kd, sb),
         NEW d, NEW ge, NEW oo, NEW q, NEW j, NEW e, NEW h, Then(w, d, ge, oo, q, j, e, h)
  PROVE  d = c /\ ge = gr /\ oo = o /\ q = p /\ j = i /\ e = g
  BY DEF Then, TypeInv, WritersOK, VarsOK, Moved

\* Both, in a state of which TypeInv and Holds are true.
Watched(w, c, gr, o, p, i, g, kd, sb, f, d, ge, oo, q, j, e, h) ==
  /\ TypeInv /\ w \in Writers /\ \E C, L : Holds(w, C, L)
  /\ Now(w, c, gr, o, p, i, g, kd, sb, f) /\ Then(w, d, ge, oo, q, j, e, h)

\* What is known of the values before.
LEMMA WatchedSane ==
  ASSUME NEW w, NEW c, NEW gr, NEW o, NEW p, NEW i, NEW g, NEW kd, NEW sb, NEW f,
         NEW d, NEW ge, NEW oo, NEW q, NEW j, NEW e, NEW h,
         Watched(w, c, gr, o, p, i, g, kd, sb, f, d, ge, oo, q, j, e, h)
  PROVE  \E n, K, C, L : Sane(c, gr, o, p, i, g, kd, sb, f, n, K, C, L) /\ n = num_pages
  BY NowSane DEF Watched

\* The steps that write nothing and walk nowhere.
Rester(w, f) ==
  \/ \E k \in Keys, wt \in Weights : Insert(w, k, wt)
  \/ ReadRoot(w) /\ is_full(f[Root])
  \/ AllocatePage(w, "growAlloc", "growBlank")
  \/ Fail(w)

\* What they do.
LEMMA WatchRest ==
  ASSUME NEW w, NEW c, NEW gr, NEW o, NEW p, NEW i, NEW g, NEW kd, NEW sb, NEW f,
         NEW d, NEW ge, NEW oo, NEW q, NEW j, NEW e, NEW h,
         Watched(w, c, gr, o, p, i, g, kd, sb, f, d, ge, oo, q, j, e, h), Rester(w, f)
  PROVE  DidRest(c, gr, f, d, h)
  <1>1. CASE \E k \in Keys, wt \in Weights : Insert(w, k, wt)
    BY <1>1 DEF Insert, DidRest, Resting, Before, Watched, Now, Then, TypeInv, WritersOK, VarsOK, Goto
  <1>2. CASE ReadRoot(w) /\ is_full(f[Root])
    BY <1>2 DEF ReadRoot, DidRest, Resting, Before, Watched, Now, Then, TypeInv, WritersOK, VarsOK, Goto
  <1>3. CASE AllocatePage(w, "growAlloc", "growBlank")
    BY <1>3 DEF AllocatePage, DidRest, Resting, Before, Watched, Now, Then, TypeInv, WritersOK, VarsOK, Goto
  <1>4. CASE Fail(w)
    BY <1>4 DEF Fail, Return, DidRest, Resting, Watched, Now, Then, TypeInv, WritersOK, VarsOK, Goto
  <1>5. QED BY <1>1, <1>2, <1>3, <1>4 DEF Rester

\* ReadRoot at a root with room, and RereadRoot.
LEMMA WatchRoot ==
  ASSUME NEW w, NEW c, NEW gr, NEW o, NEW p, NEW i, NEW g, NEW kd, NEW sb, NEW f,
         NEW d, NEW ge, NEW oo, NEW q, NEW j, NEW e, NEW h,
         Watched(w, c, gr, o, p, i, g, kd, sb, f, d, ge, oo, q, j, e, h), (ReadRoot(w) /\ ~is_full(f[Root])) \/ RereadRoot(w)
  PROVE  DidRoot(c, gr, o, f, d, ge, oo, q, h)
  <1>1. PICK n, K, C, L : Sane(c, gr, o, p, i, g, kd, sb, f, n, K, C, L)
    BY WatchedSane
  <1>2. CASE ReadRoot(w) /\ ~is_full(f[Root])
    <2>1. c = "start" /\ d = "visit" /\ oo = o /\ ge = gr /\ q = <<[id |-> Root, node |-> f[Root]]>> /\ h = f
      BY <1>2 DEF ReadRoot, Watched, Now, Then, TypeInv, WritersOK, VarsOK, Goto
    <2>2. ~gr
      BY <1>1, <2>1 DEF Sane, Intact, GrowSafe, Growing, Before, Splitting, Parting
    <2>3. Sound(f[Root], DOMAIN f)
      BY <1>1 DEF Sane, Filed
    <2>4. Size(f[Root]) <= FullSize
      BY <1>2, <2>3, FullOrNot
    <2>5. QED BY <2>1, <2>2, <2>4 DEF DidRoot
  <1>3. CASE RereadRoot(w)
    <2>1. c = "reread" /\ d = "visit" /\ oo = o /\ ge = gr /\ q = <<[id |-> Root, node |-> f[Root]]>> /\ h = f
      BY <1>3 DEF RereadRoot, Watched, Now, Then, TypeInv, WritersOK, VarsOK, Goto
    <2>2. ~gr
      BY <1>1, <2>1 DEF Sane, Intact, GrowSafe, Growing, Before, Splitting, Parting
    <2>3. QED BY <2>1, <2>2 DEF DidRoot
  <1>4. QED BY <1>2, <1>3

\* AllocatePage in split_child.
LEMMA WatchAllocate ==
  ASSUME NEW w, NEW c, NEW gr, NEW o, NEW p, NEW i, NEW g, NEW kd, NEW sb, NEW f,
         NEW d, NEW ge, NEW oo, NEW q, NEW j, NEW e, NEW h,
         Watched(w, c, gr, o, p, i, g, kd, sb, f, d, ge, oo, q, j, e, h), AllocatePage(w, "splitAlloc", "splitBlank")
  PROVE  DidAllocate(c, gr, o, p, i, f, d, ge, oo, q, j, h)
  BY DEF AllocatePage, DidAllocate, Watched, Now, Then, TypeInv, WritersOK, VarsOK, Goto

\* BlankPage.
LEMMA WatchBlank ==
  ASSUME NEW w, NEW c, NEW gr, NEW o, NEW p, NEW i, NEW g, NEW kd, NEW sb, NEW f,
         NEW d, NEW ge, NEW oo, NEW q, NEW j, NEW e, NEW h,
         Watched(w, c, gr, o, p, i, g, kd, sb, f, d, ge, oo, q, j, e, h), NEW a, NEW b, <<a, b>> \in {<<"growBlank", "growSave">>, <<"splitBlank", "saveNew">>},
         BlankPage(w, a, b)
  PROVE  DidBlank(c, gr, o, p, i, g, f, d, ge, oo, q, j, e, h)
  <1>1. PICK n, K, C, L : Sane(c, gr, o, p, i, g, kd, sb, f, n, K, C, L)
    BY WatchedSane
  <1>2. c = a /\ d = b /\ ge = gr /\ oo = o /\ q = p /\ j = i /\ e = g
    BY DEF BlankPage, locals, Watched, Now, Then, TypeInv, WritersOK, VarsOK, Goto
  <1>3. Wrote(f, g, Blank, h)
    BY HereWrote DEF BlankPage, Watched, Now, Then
  <1>4. g = n /\ DOMAIN f = 0..n - 1 /\ n \in Nat
    BY <1>1, <1>2 DEF Sane, Intact, Alloc, Filed
  <1>5. g \notin DOMAIN f
    BY <1>4
  <1>6. QED BY <1>2, <1>3, <1>5 DEF DidBlank

\* GrowSave.
LEMMA WatchGrowSave ==
  ASSUME NEW w, NEW c, NEW gr, NEW o, NEW p, NEW i, NEW g, NEW kd, NEW sb, NEW f,
         NEW d, NEW ge, NEW oo, NEW q, NEW j, NEW e, NEW h,
         Watched(w, c, gr, o, p, i, g, kd, sb, f, d, ge, oo, q, j, e, h), GrowSave(w)
  PROVE  DidGrowSave(c, gr, o, g, kd, f, d, ge, oo, q, j, e, h)
  <1>1. Wrote(f, g, kd, h)
    BY HereWrote DEF GrowSave, SaveNode, Watched, Now, Then
  <1>2. QED BY <1>1 DEF GrowSave, DidGrowSave, Watched, Now, Then, TypeInv, WritersOK, VarsOK, Goto

\* SaveChild.
LEMMA WatchSaveChild ==
  ASSUME NEW w, NEW c, NEW gr, NEW o, NEW p, NEW i, NEW g, NEW kd, NEW sb, NEW f,
         NEW d, NEW ge, NEW oo, NEW q, NEW j, NEW e, NEW h,
         Watched(w, c, gr, o, p, i, g, kd, sb, f, d, ge, oo, q, j, e, h), SaveChild(w)
  PROVE  DidSaveChild(c, gr, o, p, i, g, kd, f, d, ge, oo, q, j, e, h)
  <1>1. ChildPage(w) = Child(p, i)
    BY TopIs DEF Child, ChildPage, Watched, Now
  <1>2. Wrote(f, Child(p, i), kd, h)
    BY <1>1, HereWrote DEF SaveChild, SaveNode, Watched, Now, Then
  <1>3. QED BY <1>2 DEF SaveChild, DidSaveChild, locals, Watched, Now, Then, TypeInv, WritersOK, VarsOK, Goto

\* SaveRoot.
LEMMA WatchSaveRoot ==
  ASSUME NEW w, NEW c, NEW gr, NEW o, NEW p, NEW i, NEW g, NEW kd, NEW sb, NEW f,
         NEW d, NEW ge, NEW oo, NEW q, NEW j, NEW e, NEW h,
         Watched(w, c, gr, o, p, i, g, kd, sb, f, d, ge, oo, q, j, e, h), SaveRoot(w)
  PROVE  DidSaveRoot(c, o, p, i, g, f, d, ge, oo, q, j, e, h)
  <1>1. Top(w) = TopOf(p)
    BY TopIs DEF Watched, Now
  <1>2. Wrote(f, Root, TopOf(p), h)
    BY <1>1, HereWrote DEF SaveRoot, SaveNode, Watched, Now, Then
  <1>3. QED BY <1>2 DEF SaveRoot, DidSaveRoot, Watched, Now, Then, TypeInv, WritersOK, VarsOK, Goto

\* SplitRead.
LEMMA WatchSplit ==
  ASSUME NEW w, NEW c, NEW gr, NEW o, NEW p, NEW i, NEW g, NEW kd, NEW sb, NEW f,
         NEW d, NEW ge, NEW oo, NEW q, NEW j, NEW e, NEW h,
         Watched(w, c, gr, o, p, i, g, kd, sb, f, d, ge, oo, q, j, e, h), SplitRead(w)
  PROVE  DidSplit(c, gr, o, p, i, g, f, d, ge, oo, q, j, e, h)
  <1>1. PICK n, K, C, L : Sane(c, gr, o, p, i, g, kd, sb, f, n, K, C, L)
    BY WatchedSane
  <1>2. PICK a : a = Child(p, i)
    OBVIOUS
  <1>3. ChildPage(w) = a /\ c = "split" /\ path \in [Writers -> Seq(Frame)] /\ w \in Writers
    BY <1>2, TopIs DEF Child, ChildPage, SplitRead, Watched, Now, Then, TypeInv, WritersOK, VarsOK, Goto
  <1>4. a \in DOMAIN f /\ is_full(f[a]) /\ i \in 1..Len(TopOf(p).children)
    BY <1>1, <1>2, <1>3, SaneChild DEF Splitting, Sane, Intact, Halved
  <1>5. Sound(f[a], DOMAIN f) /\ f[a].keys # <<>>
    BY <1>1, <1>4, SanePage, FullHasKeys DEF Sane
  <1>6. /\ d = "splitAlloc" /\ ge = gr /\ oo = o /\ j = i /\ e = g /\ h = f
        /\ path' = [path EXCEPT ![w][Len(path[w])].node.keys = InsertAt(@, idx[w], f[a].keys[Middle(f[a])])]
    BY <1>3, <1>5 DEF SplitRead, Watched, Now, Then, TypeInv, WritersOK, VarsOK, Goto
  <1>7. q = [p EXCEPT ![Len(p)].node.keys = InsertAt(@, i, f[a].keys[Middle(f[a])])]
    BY <1>3, <1>6 DEF Watched, Now, Then
  <1>8. PICK S, child, t, k, top : /\ S = DOMAIN f /\ child = f[a] /\ t = TopOf(p) /\ k = child.keys[Middle(child)]
                                   /\ top = WithKey(t, i, k)
    OBVIOUS
  <1>9. q = Put(p, top)
    BY <1>7, <1>8 DEF Put, WithKey, TopOf
  <1>10. Sound(child, S) /\ child.keys # <<>> /\ Sound(t, S) /\ ~t.leaf /\ p \in Seq(Frame) /\ p # <<>>
    <2>1. c \in Walking /\ c \notin Parting /\ c \in Splitting
      BY <1>3 DEF Walking, Parting, Splitting
    <2>2. Sound(TopOf(p), DOMAIN f) /\ p \in Seq(Frame) /\ p # <<>>
      BY <2>1, <1>1, SaneTop
    <2>3. ~TopOf(p).leaf
      BY <2>1, <1>1, SaneChild
    <2>4. QED BY <2>2, <2>3, <1>5, <1>8
  <1>11. top \in Node
    <2>1. k \in Keys
      BY <1>8, <1>10, MiddleRange DEF Sound, Closed
    <2>2. i \in 1..Len(t.children) /\ top = [t EXCEPT !.keys = InsertAt(@, i, k)]
      BY <1>4, <1>8 DEF WithKey
    <2>3. QED BY <2>1, <2>2, <1>10, ParentSplit
  <1>12. TopOf(q) = top /\ top = WithKey(TopOf(p), i, Mid(f[Child(p, i)]))
    <2>1. TopOf(q) = top
      BY <1>9, <1>10, <1>11, PutFacts
    <2>2. QED BY <2>1, <1>2, <1>8 DEF Mid
  <1>13. QED BY <1>3, <1>6, <1>9, <1>11, <1>12 DEF DidSplit

\* SaveNew.
LEMMA WatchSaveNew ==
  ASSUME NEW w, NEW c, NEW gr, NEW o, NEW p, NEW i, NEW g, NEW kd, NEW sb, NEW f,
         NEW d, NEW ge, NEW oo, NEW q, NEW j, NEW e, NEW h,
         Watched(w, c, gr, o, p, i, g, kd, sb, f, d, ge, oo, q, j, e, h), SaveNew(w)
  PROVE  DidSaveNew(c, gr, o, p, i, g, sb, f, d, ge, oo, q, j, e, h)
  <1>1. PICK n, K, C, L : Sane(c, gr, o, p, i, g, kd, sb, f, n, K, C, L)
    BY WatchedSane
  <1>2. Wrote(f, g, sb, h)
    BY HereWrote DEF SaveNew, SaveNode, Watched, Now, Then
  <1>3. c = "saveNew" /\ d = "saveChild" /\ ge = gr /\ oo = o /\ j = i /\ e = g
    BY DEF SaveNew, Watched, Now, Then, TypeInv, WritersOK, VarsOK, Goto
  <1>4. q = [p EXCEPT ![Len(p)].node.children = InsertAt(@, i + 1, g)]
    BY DEF SaveNew, Watched, Now, Then, TypeInv, WritersOK, VarsOK, Goto
  <1>5. q = Put(p, WithChild(TopOf(p), i, g))
    BY <1>4 DEF Put, WithChild, TopOf
  <1>6. PICK S, kk : S = DOMAIN f /\ kk = WithNext(kd, g)
    OBVIOUS
  <1>7. S \subseteq Nat /\ g \in S /\ WriterInv("saveNew", o, p, i, g, kd, sb, S, n)
    BY <1>1, <1>3, <1>6 DEF Sane, Filed, Intact, Alloc
  <1>8. TopOf(q) = WithChild(TopOf(p), i, g)
    BY <1>5, <1>6, <1>7, WriterSaveNew
  <1>9. QED BY <1>2, <1>3, <1>5, <1>8 DEF DidSaveNew

\* VisitLeaf.
LEMMA WatchLeaf ==
  ASSUME NEW w, NEW c, NEW gr, NEW o, NEW p, NEW i, NEW g, NEW kd, NEW sb, NEW f,
         NEW d, NEW ge, NEW oo, NEW q, NEW j, NEW e, NEW h,
         Watched(w, c, gr, o, p, i, g, kd, sb, f, d, ge, oo, q, j, e, h), VisitLeaf(w)
  PROVE  DidLeaf(c, gr, o, p, f, d, ge, oo, q, h)
  <1>1. Top(w) = TopOf(p)
    BY TopIs DEF Watched, Now
  <1>2. PICK new : new \in LeafWith(TopOf(p), o.key, o.val) /\ path' = [path EXCEPT ![w][Len(path[w])].node = new]
    BY <1>1 DEF VisitLeaf, Watched, Now
  <1>3. q = Put(p, new)
    BY <1>2 DEF Put, Watched, Now, Then, TypeInv, WritersOK, VarsOK, Goto
  <1>4. c = "visit" /\ d = "unwind" /\ TopOf(p).leaf /\ ge = gr /\ oo = o /\ h = f
    BY <1>1 DEF VisitLeaf, Watched, Now, Then, TypeInv, WritersOK, VarsOK, Goto
  <1>5. QED BY <1>2, <1>3, <1>4 DEF DidLeaf

\* VisitInternal.
LEMMA WatchInternal ==
  ASSUME NEW w, NEW c, NEW gr, NEW o, NEW p, NEW i, NEW g, NEW kd, NEW sb, NEW f,
         NEW d, NEW ge, NEW oo, NEW q, NEW j, NEW e, NEW h,
         Watched(w, c, gr, o, p, i, g, kd, sb, f, d, ge, oo, q, j, e, h), VisitInternal(w)
  PROVE  \/ DidChoose(c, gr, o, p, f, d, ge, oo, q, j, h)
         \/ DidDown(c, gr, o, p, i, f, d, ge, oo, q, h)
  <1>1. PICK n, K, C, L : Sane(c, gr, o, p, i, g, kd, sb, f, n, K, C, L)
    BY WatchedSane
  <1>2. PICK t, S : t = TopOf(p) /\ S = DOMAIN f
    OBVIOUS
  <1>3. Top(w) = t /\ c = "visit" /\ ~t.leaf /\ ge = gr /\ oo = o /\ h = f
    BY <1>2, TopIs DEF VisitInternal, Watched, Now, Then, TypeInv, WritersOK, VarsOK, Goto
  <1>4. t.children # <<>> /\ Sound(t, S)
    <2>1. gr \in BOOLEAN /\ Intact("visit", gr, o, p, i, g, kd, sb, f, n, K, C, L) /\ ~TopOf(p).leaf
      BY <1>1, <1>2, <1>3 DEF Sane
    <2>2. TopOf(p).children # <<>>
      BY <2>1, IntactChoose
    <2>3. c \in Walking /\ c \notin Parting
      BY <1>3 DEF Walking, Parting
    <2>4. QED BY <2>2, <2>3, <1>1, <1>2, SaneTop
  <1>5. PICK y \in ChildIndexes(t, o.key) :
           /\ idx' = [idx EXCEPT ![w] = y]
           /\ IF is_full(f[t.children[y]])
              THEN Goto(w, "split") /\ UNCHANGED path
              ELSE /\ path' = [path EXCEPT ![w] = Append(@, [id |-> t.children[y], node |-> f[t.children[y]]])]
                   /\ UNCHANGED pc
    BY <1>3, <1>4 DEF VisitInternal, Watched, Now
  <1>6. y \in 1..Len(t.children) /\ y \in DOMAIN t.children /\ t.children[y] \in S
    <2>1. y \in 1..Len(t.children)
      BY <1>3, <1>4, <1>5, ChildRange
    <2>2. QED BY <2>1, <1>4, NodeFields, SeqDomain DEF Sound, Closed
  <1>7. PICK id, node : id = t.children[y] /\ node = f[id] /\ id = Child(p, y)
    BY <1>2 DEF Child
  <1>8. node \in Node /\ id \in Nat /\ Sound(node, S)
    <2>1. Filed(f, n) /\ id \in DOMAIN f
      BY <1>1, <1>2, <1>6, <1>7 DEF Sane
    <2>2. Sound(node, S) /\ node \in Node
      BY <2>1, <1>2, <1>7, SanePage
    <2>3. id \in Nat
      BY <2>1 DEF Filed
    <2>4. QED BY <2>2, <2>3
  <1>9. CASE is_full(node)
    <2>1. j = y /\ d = "split" /\ q = p
      BY <1>5, <1>7, <1>9 DEF Watched, Now, Then, TypeInv, WritersOK, VarsOK, Goto
    <2>2. j \in ChildIndexes(TopOf(p), o.key) /\ is_full(f[Child(p, j)])
      BY <2>1, <1>2, <1>5, <1>7, <1>9
    <2>3. QED BY <2>1, <2>2, <1>2, <1>3 DEF DidChoose
  <1>10. CASE ~is_full(node)
    <2>1. PICK fr : fr = [id |-> id, node |-> node]
      OBVIOUS
    <2>2. fr \in Frame /\ fr.id = id /\ fr.node = node
      BY <2>1, <1>8 DEF Frame, PageId
    <2>3. q = Append(p, fr) /\ d = "visit"
      BY <2>1, <1>3, <1>5, <1>7, <1>10 DEF Watched, Now, Then, TypeInv, WritersOK, VarsOK, Goto
    <2>4. Size(node) <= FullSize
      BY <1>8, <1>10, FullOrNot
    <2>5. /\ fr \in Frame /\ fr.id = Child(p, y) /\ fr.node = f[Child(p, y)] /\ q = Append(p, fr)
          /\ y \in ChildIndexes(TopOf(p), o.key) /\ Size(f[Child(p, y)]) <= FullSize
      BY <2>2, <2>3, <2>4, <1>2, <1>5, <1>7
    <2>6. QED BY <2>3, <2>5, <1>2, <1>3 DEF DidDown
  <1>11. QED BY <1>9, <1>10

\* Enter.
LEMMA WatchEnter ==
  ASSUME NEW w, NEW c, NEW gr, NEW o, NEW p, NEW i, NEW g, NEW kd, NEW sb, NEW f,
         NEW d, NEW ge, NEW oo, NEW q, NEW j, NEW e, NEW h,
         Watched(w, c, gr, o, p, i, g, kd, sb, f, d, ge, oo, q, j, e, h), Enter(w)
  PROVE  DidDown(c, gr, o, p, i, f, d, ge, oo, q, h)
  <1>1. PICK n, K, C, L : Sane(c, gr, o, p, i, g, kd, sb, f, n, K, C, L)
    BY WatchedSane
  <1>2. PICK t, S, y : t = TopOf(p) /\ S = DOMAIN f /\ y = Half(p, i, o.key)
    OBVIOUS
  <1>3. Top(w) = t /\ c = "enter" /\ d = "visit" /\ ge = gr /\ oo = o /\ h = f
    BY <1>2, TopIs DEF Enter, Watched, Now, Then, TypeInv, WritersOK, VarsOK, Goto
  <1>4. ~TopOf(p).leaf
    BY <1>1, <1>3, SaneChild
  <1>5. HalfFor(w) = y
    BY <1>2, <1>3 DEF HalfFor, Half, Watched, Now
  <1>6. y \in DOMAIN t.children /\ t.children[y] \in S
    <2>1. WriterInv("enter", o, p, i, g, kd, sb, S, n) /\ y \in {i, i + 1}
      BY <1>1, <1>2, <1>3 DEF Sane, Half
    <2>2. QED BY <2>1, <1>2, EnterRange
  <1>7. PICK id, node : id = t.children[y] /\ node = f[id] /\ id = Child(p, y)
    BY <1>2 DEF Child
  <1>8. node \in Node /\ id \in Nat
    <2>1. Filed(f, n) /\ id \in DOMAIN f
      BY <1>1, <1>2, <1>6, <1>7 DEF Sane
    <2>2. f[id] \in Node
      BY <2>1, SanePage
    <2>3. QED BY <2>1, <2>2, <1>7 DEF Filed
  <1>9. PICK fr : fr = [id |-> id, node |-> node]
    OBVIOUS
  <1>10. fr \in Frame /\ fr.id = id /\ fr.node = node
    BY <1>8, <1>9 DEF Frame, PageId
  <1>11. q = Append(p, fr)
    <2>1. path' = [path EXCEPT ![w] = Append(@, [id |-> t.children[y], node |-> f[t.children[y]]])]
      BY <1>3, <1>5 DEF Enter, Watched, Now
    <2>2. QED BY <2>1, <1>7, <1>9 DEF Watched, Now, Then, TypeInv, WritersOK, VarsOK, Goto
  <1>12. fr.id = Child(p, y) /\ fr.node = f[Child(p, y)] /\ y = Half(p, i, o.key)
    BY <1>2, <1>7, <1>10
  <1>13. QED BY <1>3, <1>4, <1>10, <1>11, <1>12 DEF DidDown

\* Unwind.
LEMMA WatchUnwind ==
  ASSUME NEW w, NEW c, NEW gr, NEW o, NEW p, NEW i, NEW g, NEW kd, NEW sb, NEW f,
         NEW d, NEW ge, NEW oo, NEW q, NEW j, NEW e, NEW h,
         Watched(w, c, gr, o, p, i, g, kd, sb, f, d, ge, oo, q, j, e, h), Unwind(w)
  PROVE  DidUnwind(c, gr, o, p, f, d, ge, oo, q, h)
  <1>1. Top(w) = TopOf(p) /\ Last(path[w]).id = TopId(p)
    BY TopIs DEF Last, TopId, Watched, Now
  <1>2. Wrote(f, TopId(p), TopOf(p), h)
    BY <1>1, HereWrote DEF Unwind, SaveNode, Watched, Now, Then
  <1>3. QED BY <1>2 DEF Unwind, DidUnwind, Watched, Now, Then, TypeInv, WritersOK, VarsOK, Goto

\* Finish and SyncFail.
LEMMA WatchEnd ==
  ASSUME NEW w, NEW c, NEW gr, NEW o, NEW p, NEW i, NEW g, NEW kd, NEW sb, NEW f,
         NEW d, NEW ge, NEW oo, NEW q, NEW j, NEW e, NEW h,
         Watched(w, c, gr, o, p, i, g, kd, sb, f, d, ge, oo, q, j, e, h), Finish(w) \/ SyncFail(w)
  PROVE  DidEnd(c, p, f, d, h)
  <1>1. Top(w) = TopOf(p)
    BY TopIs DEF Watched, Now
  <1>2. Wrote(f, Root, TopOf(p), h)
    BY <1>1, HereWrote DEF Finish, SyncFail, SaveNode, Watched, Now, Then
  <1>3. QED BY <1>2 DEF Finish, SyncFail, Return, DidEnd, Watched, Now, Then, TypeInv, WritersOK, VarsOK, Goto

\* Every step of the writer.
LEMMA StepDid ==
  ASSUME NEW w, NEW c, NEW gr, NEW o, NEW p, NEW i, NEW g, NEW kd, NEW sb, NEW f,
         NEW d, NEW ge, NEW oo, NEW q, NEW j, NEW e, NEW h,
         Watched(w, c, gr, o, p, i, g, kd, sb, f, d, ge, oo, q, j, e, h), Step(w)
  PROVE  Did(c, gr, o, p, i, g, kd, sb, f, d, ge, oo, q, j, e, h)
  <1>1. CASE Rester(w, f)
    <2>1. DidRest(c, gr, f, d, h)
      BY <1>1, WatchRest
    <2>2. QED BY <2>1 DEF Did
  <1>2. CASE (ReadRoot(w) /\ ~is_full(f[Root])) \/ RereadRoot(w)
    BY <1>2, WatchRoot DEF Did
  <1>3. CASE BlankPage(w, "growBlank", "growSave")
    BY <1>3, WatchBlank DEF Did
  <1>4. CASE BlankPage(w, "splitBlank", "saveNew")
    BY <1>4, WatchBlank DEF Did
  <1>5. CASE GrowSave(w)
    BY <1>5, WatchGrowSave DEF Did
  <1>6. CASE SplitRead(w)
    BY <1>6, WatchSplit DEF Did
  <1>7. CASE AllocatePage(w, "splitAlloc", "splitBlank")
    BY <1>7, WatchAllocate DEF Did
  <1>8. CASE SaveNew(w)
    BY <1>8, WatchSaveNew DEF Did
  <1>9. CASE SaveChild(w)
    BY <1>9, WatchSaveChild DEF Did
  <1>10. CASE SaveRoot(w)
    BY <1>10, WatchSaveRoot DEF Did
  <1>11. CASE VisitLeaf(w)
    BY <1>11, WatchLeaf DEF Did
  <1>12. CASE VisitInternal(w)
    BY <1>12, WatchInternal DEF Did
  <1>13. CASE Enter(w)
    BY <1>13, WatchEnter DEF Did
  <1>14. CASE Unwind(w)
    BY <1>14, WatchUnwind DEF Did
  <1>15. CASE Finish(w) \/ SyncFail(w)
    BY <1>15, WatchEnd DEF Did
  <1>16. QED BY <1>1, <1>2, <1>3, <1>4, <1>5, <1>6, <1>7, <1>8, <1>9, <1>10, <1>11, <1>12, <1>13, <1>14, <1>15 DEF Step, Rester

-----------------------------------------------------------------------------
(* Nodes that were tested for room fit.                                    *)

\* Every step keeps what is known of the sizes.
LEMMA ExactStep ==
  ASSUME NEW c, NEW gr, NEW o, NEW p, NEW i, NEW g, NEW kd, NEW sb, NEW f, NEW n, NEW K, NEW C, NEW L,
         Sane(c, gr, o, p, i, g, kd, sb, f, n, K, C, L), Exact(c, gr, o, p, i, g, f),
         NEW d, NEW ge, NEW oo, NEW q, NEW j, NEW e, NEW h,
         Did(c, gr, o, p, i, g, kd, sb, f, d, ge, oo, q, j, e, h)
  PROVE  Exact(d, ge, oo, q, j, e, h)
  <1>0. InnerSmall(f) /\ Filed(f, n)
    BY DEF Exact, Sized, Sane
  <1>1. CASE DidRest(c, gr, f, d, h)
    BY <1>0, <1>1, ExactRest DEF DidRest, Resting
  <1>2. CASE DidRoot(c, gr, o, f, d, ge, oo, q, h)
    <2>1. Size(f[Root]) <= FullSize
      BY <1>2 DEF DidRoot, Exact, Sized
    <2>2. QED BY <1>0, <1>2, <2>1, ExactRoot DEF DidRoot
  <1>3. CASE DidAllocate(c, gr, o, p, i, f, d, ge, oo, q, j, h)
    BY <1>3, ExactAllocate DEF DidAllocate
  <1>4. CASE DidBlank(c, gr, o, p, i, g, f, d, ge, oo, q, j, e, h)
    <2>1. CASE c = "growBlank"
      <3>1. d = "growSave" /\ Wrote(f, g, Blank, h)
        BY <1>4, <2>1 DEF DidBlank
      <3>2. ~Blank.leaf => Size(Blank) <= FullSize + 2
        BY EmptyNodes, SizeAssumption
      <3>3. InnerSmall(h)
        BY <1>0, <3>1, <3>2, SmallWrote
      <3>4. QED BY <3>1, <3>3, ExactRest DEF Before
    <2>2. CASE c # "growBlank"
      BY <1>4, <2>2, ExactBlank DEF DidBlank
    <2>3. QED BY <2>1, <2>2
  <1>5. CASE DidGrowSave(c, gr, o, g, kd, f, d, ge, oo, q, j, e, h)
    BY <1>5, ExactGrowSave DEF DidGrowSave
  <1>6. CASE DidSplit(c, gr, o, p, i, g, f, d, ge, oo, q, j, e, h)
    BY <1>6, ExactSplit DEF DidSplit
  <1>7. CASE DidSaveNew(c, gr, o, p, i, g, sb, f, d, ge, oo, q, j, e, h)
    BY <1>7, ExactSaveNew DEF DidSaveNew
  <1>8. CASE DidSaveChild(c, gr, o, p, i, g, kd, f, d, ge, oo, q, j, e, h)
    <2>1. CASE gr
      BY <1>8, <2>1, ExactSaveHalf DEF DidSaveChild
    <2>2. CASE ~gr
      BY <1>8, <2>2, ExactSaveChild DEF DidSaveChild
    <2>3. QED BY <2>1, <2>2
  <1>9. CASE DidSaveRoot(c, o, p, i, g, f, d, ge, oo, q, j, e, h)
    BY <1>9, ExactSaveRoot DEF DidSaveRoot
  <1>10. CASE DidLeaf(c, gr, o, p, f, d, ge, oo, q, h)
    <2>1. PICK new : new \in LeafWith(TopOf(p), o.key, o.val) /\ q = Put(p, new)
      BY <1>10 DEF DidLeaf
    <2>2. c = "visit" /\ TopOf(p).leaf /\ d = "unwind" /\ ge = gr /\ oo = o /\ h = f
      BY <1>10 DEF DidLeaf
    <2>3. PICK t, S, k, v : t = TopOf(p) /\ S = DOMAIN f /\ k = o.key /\ v = o.val
      OBVIOUS
    <2>4. Sound(t, S)
      BY <2>2, <2>3, SaneTop DEF Walking, Parting
    <2>5. k \in Keys /\ v \in Value
      BY <2>2, <2>3 DEF Sane, WriterInv
    <2>6. Sound(new, S) /\ new.leaf /\ Size(new) <= Size(t) + 1 + v.w
      BY <2>1, <2>2, <2>3, <2>4, <2>5, LeafWithFacts
    <2>7. new \in Node /\ Size(new) <= Size(TopOf(p)) + 1 + o.val.w
      BY <2>3, <2>6 DEF Sound, Closed
    <2>8. Exact("unwind", gr, o, q, j, e, f)
      <3>1. Exact("unwind", gr, o, q, i, g, f)
        BY <2>1, <2>2, <2>6, <2>7, ExactLeaf
      <3>2. QED BY <3>1 DEF Exact, Copies, Sized, Parting, Splitting
    <2>9. QED BY <2>2, <2>8
  <1>11. CASE DidChoose(c, gr, o, p, f, d, ge, oo, q, j, h)
    <2>1. c = "visit" /\ ~TopOf(p).leaf /\ d = "split" /\ ge = gr /\ oo = o /\ q = p /\ h = f
          /\ j \in ChildIndexes(TopOf(p), o.key) /\ is_full(f[Child(p, j)])
      BY <1>11 DEF DidChoose
    <2>2. j \in 1..Len(TopOf(p).children)
      <3>1. PICK t, S : t = TopOf(p) /\ S = DOMAIN f
        OBVIOUS
      <3>2. Sound(t, S)
        BY <2>1, <3>1, SaneTop DEF Walking, Parting
      <3>3. gr \in BOOLEAN /\ Intact("visit", gr, o, p, i, g, kd, sb, f, n, K, C, L)
        BY <2>1 DEF Sane
      <3>4. TopOf(p).children # <<>>
        BY <2>1, <3>3, IntactChoose
      <3>5. QED BY <2>1, <3>1, <3>2, <3>4, ChildRange
    <2>3. Exact("split", gr, o, p, j, g, f)
      BY <2>1, <2>2, ExactChoose
    <2>4. Exact("split", gr, o, p, j, e, f)
      BY <2>3 DEF Exact, Copies, Sized, Parting, Splitting
    <2>5. QED BY <2>1, <2>4
  <1>12. CASE DidDown(c, gr, o, p, i, f, d, ge, oo, q, h)
    <2>1. c \in {"visit", "enter"} /\ d = "visit" /\ ~TopOf(p).leaf /\ ge = gr /\ oo = o /\ h = f
      BY <1>12 DEF DidDown
    <2>2. PICK y, fr : /\ fr \in Frame /\ fr.id = Child(p, y) /\ fr.node = f[Child(p, y)] /\ q = Append(p, fr)
                       /\ IF c = "visit" THEN y \in ChildIndexes(TopOf(p), o.key) /\ Size(f[Child(p, y)]) <= FullSize
                          ELSE y = Half(p, i, o.key)
      BY <1>12 DEF DidDown
    <2>3. IF c = "visit" THEN Size(f[Child(p, y)]) <= FullSize ELSE y \in {i, i + 1}
      BY <2>2 DEF Half
    <2>4. Exact("visit", gr, o, q, j, g, f)
      <3>1. fr \in Frame /\ fr.id = Child(p, y) /\ fr.node = f[Child(p, y)] /\ q = Append(p, fr)
        BY <2>2
      <3>2. CASE c = "visit"
        BY <2>1, <2>3, <3>1, <3>2, ExactAppend
      <3>3. CASE c = "enter"
        BY <2>1, <2>3, <3>1, <3>3, ExactAppend
      <3>4. QED BY <2>1, <3>2, <3>3
    <2>5. Exact("visit", gr, o, q, j, e, f)
      BY <2>4 DEF Exact, Copies, Sized, Parting, Splitting
    <2>6. QED BY <2>1, <2>5
  <1>13. CASE DidUnwind(c, gr, o, p, f, d, ge, oo, q, h)
    <2>1. Exact("unwind", gr, o, q, i, g, h)
      BY <1>13, ExactUnwind DEF DidUnwind
    <2>2. Exact("unwind", gr, o, q, j, e, h)
      BY <2>1 DEF Exact, Copies, Sized, Parting, Splitting
    <2>3. QED BY <2>2, <1>13 DEF DidUnwind
  <1>14. CASE DidEnd(c, p, f, d, h)
    <2>1. c = "unwind" /\ d = "idle" /\ Len(p) = 1 /\ Wrote(f, Root, TopOf(p), h)
      BY <1>14 DEF DidEnd
    <2>2. TopId(p) = Root
      <3>1. ~gr /\ c \in Walking
        BY <2>1 DEF Sane, Intact, GrowSafe, Growing, Before, Splitting, Parting, Walking
      <3>2. p[1].id = Root
        BY <3>1 DEF Sane, Intact, PathSafe
      <3>3. QED BY <3>2, <2>1 DEF TopId
    <2>3. InnerSmall(h)
      BY <2>1, <2>2, ExactBack
    <2>4. QED BY <2>1, <2>3, ExactRest
  <1>15. QED BY <1>1, <1>2, <1>3, <1>4, <1>5, <1>6, <1>7, <1>8, <1>9, <1>10, <1>11, <1>12, <1>13, <1>14 DEF Did

\* The inductive invariant of NoOverflow.
RoomInv(w) == TreeInv(w) /\ Exact(pc[w], growing[w], op[w], path[w], idx[w], page[w], pages)

\* It holds at first.
LEMMA RoomInit ==
  ASSUME Init, NEW w \in Writers
  PROVE  RoomInv(w)
  <1>1. TreeInv(w)
    BY TypeInit, InitHolds DEF TreeInv
  <1>2. pc[w] = "idle" /\ InnerSmall(pages)
    BY EmptyNodes DEF Init, InnerSmall
  <1>3. QED BY <1>1, <1>2, ExactRest DEF RoomInv

\* It is inductive when w is the only writer.
LEMMA RoomNext ==
  ASSUME NEW w, Writers = {w}, RoomInv(w), [Next]_vars
  PROVE  RoomInv(w)'
  <1>1. TreeInv(w)'
    BY TreeNext DEF RoomInv
  <1>2. CASE Next
    <2>1. PICK c, gr, o, p, i, g, kd, sb, f : Now(w, c, gr, o, p, i, g, kd, sb, f)
      BY DEF Now
    <2>2. PICK d, ge, oo, q, j, e, h : Then(w, d, ge, oo, q, j, e, h)
      BY DEF Then
    <2>3. Watched(w, c, gr, o, p, i, g, kd, sb, f, d, ge, oo, q, j, e, h)
      BY <2>1, <2>2 DEF Watched, RoomInv, TreeInv
    <2>4. Step(w)
      BY <1>2 DEF Next
    <2>5. Did(c, gr, o, p, i, g, kd, sb, f, d, ge, oo, q, j, e, h)
      BY <2>3, <2>4, StepDid
    <2>6. PICK n, K, C, L : Sane(c, gr, o, p, i, g, kd, sb, f, n, K, C, L)
      BY <2>3, WatchedSane
    <2>7. Exact(c, gr, o, p, i, g, f)
      BY <2>1 DEF Now, RoomInv
    <2>8. Exact(d, ge, oo, q, j, e, h)
      BY <2>5, <2>6, <2>7, ExactStep
    <2>9. QED BY <1>1, <2>2, <2>8 DEF Then, RoomInv
  <1>3. CASE UNCHANGED vars
    BY <1>1, <1>3 DEF RoomInv, vars
  <1>4. QED BY <1>2, <1>3

\* It holds in every state.
LEMMA RoomAlways ==
  ASSUME NEW CONSTANT w, Writers = {w}
  PROVE  Spec => []RoomInv(w)
  <1>1. Init => RoomInv(w)
    BY RoomInit
  <1>2. RoomInv(w) /\ [Next]_vars => RoomInv(w)'
    BY RoomNext
  <1>3. QED BY <1>1, <1>2, PTL DEF Spec

\* What a writer is about to save, as Saving has it.
Saves(c, p, kd, sb, node) ==
  \/ c \in {"growSave", "saveChild"} /\ node = kd
  \/ c = "saveNew" /\ node = sb
  \/ c \in {"saveRoot", "unwind"} /\ node = TopOf(p)

\* It fits, or is one of the two halves of a leaf.
LEMMA SavesFits ==
  ASSUME NEW c, NEW gr, NEW o, NEW p, NEW i, NEW g, NEW kd, NEW sb, NEW f, NEW n, NEW K, NEW C, NEW L,
         Sane(c, gr, o, p, i, g, kd, sb, f, n, K, C, L), Exact(c, gr, o, p, i, g, f),
         \A a \in DOMAIN f : Fits(f[a]), NEW node, Saves(c, p, kd, sb, node),
         c # "idle" => o.val.w + 1 <= PageSize - FullSize
  PROVE  Fits(node) \/ (node.leaf /\ c = "unwind" /\ Longer(p, f))
  <1>0. PageSize \in Nat /\ FullSize \in Nat /\ 3 <= FullSize /\ FullSize < PageSize
    BY SizeAssumption
  <1>1. CASE c = "growSave"
    <2>1. node = f[Root] /\ Root \in DOMAIN f
      BY <1>1 DEF Saves, Sane, Intact, GrowSafe, Before, Filed
    <2>2. QED BY <2>1
  <1>2. CASE c = "saveNew"
    <2>1. c \in Splitting /\ c \in Parting
      BY <1>2 DEF Splitting, Parting
    <2>2. PICK S, old, l : S = DOMAIN f /\ old = f[Child(p, i)] /\ l = LeftHalf(old)
      OBVIOUS
    <2>3. Child(p, i) \in DOMAIN f /\ Filed(f, n)
      BY <2>1, SaneChild DEF Sane
    <2>4. Sound(old, S) /\ Fits(old)
      BY <2>2, <2>3, SanePage
    <2>5. node = RightHalf(old) /\ old.keys # <<>>
      BY <1>2, <2>1, <2>2 DEF Saves, Sane, Intact, Halved
    <2>6. Size(node) <= Size(old)
      BY <2>2, <2>4, <2>5, HalfSizes
    <2>7. Sound(node, S)
      BY <2>4, <2>5, HalvesSound
    <2>8. Size(node) \in Nat /\ Size(old) \in Nat
      BY <2>4, <2>7, FullOrNot
    <2>9. QED BY <2>4, <2>6, <2>8, <1>0 DEF Fits
  <1>3. CASE c = "saveChild"
    <2>1. PICK a : a = f[Child(p, i)]
      OBVIOUS
    <2>2. Size(kd) <= Size(a) /\ Child(p, i) \in DOMAIN f /\ Sound(a, DOMAIN f)
      BY <2>1, <1>3, SaneHalves
    <2>3. Sound(kd, DOMAIN f) /\ node = kd
      BY <1>3 DEF Sane, WriterInv, Saves
    <2>4. Fits(a) /\ Size(kd) \in Nat /\ Size(a) \in Nat
      BY <2>1, <2>2, <2>3, FullOrNot
    <2>5. QED BY <2>2, <2>3, <2>4, <1>0 DEF Fits
  <1>4. CASE c = "saveRoot"
    <2>1. PICK h : h = [x \in DOMAIN f \cup {Root} |-> IF x = Root THEN TopOf(p) ELSE f[x]]
      OBVIOUS
    <2>2. Wrote(f, Root, TopOf(p), h)
      BY <2>1 DEF Wrote
    <2>3. Size(TopOf(p)) = 3
      BY <2>2, <1>4, ExactSaveRoot
    <2>4. QED BY <2>3, <1>0, <1>4 DEF Fits, Saves
  <1>5. CASE c = "unwind"
    <2>1. node = TopOf(p)
      BY <1>5 DEF Saves
    <2>2. IF node.leaf THEN Size(node) <= FullSize + 1 + o.val.w \/ Longer(p, f) ELSE Size(node) <= FullSize + 2
      BY <2>1, <1>5 DEF Exact, Sized
    <2>3. o \in [key : Keys, val : Value]
      BY <1>5 DEF Sane, WriterInv
    <2>4. o.val.w \in Nat \ {0}
      BY <2>3, KeyAssumption DEF Value
    <2>5. Sound(node, DOMAIN f)
      BY <2>1, <1>5, SaneTop DEF Walking, Parting
    <2>6. PICK u, v : u = Size(node) /\ v = o.val.w
      OBVIOUS
    <2>7. u \in Nat /\ v \in Nat \ {0} /\ v + 1 <= PageSize - FullSize
      BY <1>5, <2>4, <2>5, <2>6, FullOrNot
    <2>8. CASE node.leaf
      <3>1. u <= FullSize + 1 + v \/ Longer(p, f)
        BY <2>2, <2>6, <2>8
      <3>2. u <= FullSize + 1 + v => u <= PageSize
        BY <2>7, <1>0
      <3>3. QED BY <3>1, <3>2, <2>6, <2>8, <1>5 DEF Fits
    <2>9. CASE ~node.leaf
      <3>1. u <= FullSize + 2
        BY <2>2, <2>6, <2>9
      <3>2. u <= PageSize
        BY <3>1, <2>7, <1>0
      <3>3. QED BY <3>2, <2>6 DEF Fits
    <2>10. QED BY <2>8, <2>9
  <1>6. QED BY <1>1, <1>2, <1>3, <1>4, <1>5 DEF Saves

\* NoOverflow follows.
LEMMA OverflowHolds ==
  ASSUME NEW w, Writers = {w}, RoomInv(w)
  PROVE  NoOverflow
  <1>1. SUFFICES ASSUME EntriesWithin(PageSize - FullSize), NEW node \in Saving(w)
                 PROVE  Fits(node) \/ (node.leaf /\ JustSplit(w))
    BY DEF NoOverflow
  <1>2. PICK c, gr, o, p, i, g, kd, sb, f : Now(w, c, gr, o, p, i, g, kd, sb, f)
    BY DEF Now
  <1>3. TypeInv /\ w \in Writers
    BY DEF RoomInv, TreeInv
  <1>4. PICK C, L : Holds(w, C, L)
    BY DEF RoomInv, TreeInv
  <1>5. PICK n, K : Sane(c, gr, o, p, i, g, kd, sb, f, n, K, C, L)
    BY <1>2, <1>3, <1>4, NowSane
  <1>6. Exact(c, gr, o, p, i, g, f)
    BY <1>2 DEF Now, RoomInv
  <1>7. \A a \in DOMAIN f : Fits(f[a])
    BY <1>2, <1>3, PageRead DEF Now, D
  <1>8. Saves(c, p, kd, sb, node)
    BY <1>1, <1>2, TopIs DEF Saving, Saves, Now
  <1>9. o.val.w + 1 <= PageSize - FullSize
    BY <1>1, <1>2, <1>3 DEF EntriesWithin, Now
  <1>10. Fits(node) \/ (node.leaf /\ c = "unwind" /\ Longer(p, f))
    BY <1>5, <1>6, <1>7, <1>8, <1>9, SavesFits
  <1>11. ASSUME c = "unwind", Longer(p, f) PROVE JustSplit(w)
    <2>1. PICK l \in Nat : l = Len(p)
      BY <1>5, <1>11, SaneTop DEF Walking
    <2>2. PICK fr : fr = p[l - 1]
      OBVIOUS
    <2>3. l > 1 /\ Len(fr.node.keys) = Len(f[fr.id].keys) + 1
      BY <2>1, <2>2, <1>11 DEF Longer
    <2>4. fr.id \in DOMAIN f
      <3>1. l - 1 \in 1..l
        BY <2>1, <2>3
      <3>2. l - 1 \in DOMAIN p
        BY <3>1, <2>1, <1>5, <1>11, SaneTop DEF Walking
      <3>3. QED BY <3>2, <2>2, <1>5 DEF Sane, WriterInv
    <2>5. Len(f[fr.id].keys) \in Nat
      BY <2>4, <1>5, SanePage, NodeFields DEF Sane
    <2>6. fr.node # f[fr.id]
      BY <2>3, <2>5
    <2>7. QED BY <2>1, <2>2, <2>3, <2>6, <1>2 DEF JustSplit, Now
  <1>12. QED BY <1>10, <1>11

\* With one writer a node that was tested for room fits its page whenever it is saved, at every
\* level, as long as an entry takes no more than a quarter of the page: only a half of a leaf
\* that was split can be too large (btree.rs is_full, split_child, to_bytes).
THEOREM OverflowCorrect ==
  ASSUME NEW CONSTANT w, Writers = {w}
  PROVE  Spec => []NoOverflow
  <1>1. RoomInv(w) => NoOverflow
    BY OverflowHolds
  <1>2. QED BY <1>1, RoomAlways, PTL

-----------------------------------------------------------------------------
(* Order.                                                                  *)

\* A sequence of keys ascends; a key k has its place left of the y-th.
Ascending(ks) == \A a, b \in DOMAIN ks : a < b => ks[a] <= ks[b]
Admits(ks, y, k) == \A a \in DOMAIN ks : (a < y => ks[a] <= k) /\ (a >= y => k <= ks[a])

\* R are the pages of the tree, H their heights, Z[q] holds every key that is or was below q:
\* page x is the y-th child of a node with keys ks, height m and keys S below it.
Under(ks, x, y, m, S, R, H, Z) ==
  x \in R /\ H[x] + 1 = m /\ Z[x] \subseteq S /\ \A k \in Z[x] : Admits(ks, y, k)

\* A node in its place: a leaf or not, with keys ks and children cs.
GoodAt(lf, ks, cs, m, S, R, H, Z) ==
  /\ Ascending(ks) /\ Range(ks) \subseteq S
  /\ lf => m = 0
  /\ ~lf => cs # <<>>
  /\ \A y \in DOMAIN cs : Under(ks, cs[y], y, m, S, R, H, Z)
  /\ \A y, z \in DOMAIN cs : cs[y] = cs[z] => y = z
Good(node, m, S, R, H, Z) == GoodAt(node.leaf, node.keys, node.children, m, S, R, H, Z)

\* The pages f are ordered, and no page has two parents.
Forest(f, R, H, Z) ==
  /\ R \subseteq DOMAIN f /\ Root \in R /\ H \in [R -> Nat] /\ Z \in [R -> SUBSET Keys] /\ Z[Root] = Keys
  /\ \A q \in R : Good(f[q], H[q], Z[q], R, H, Z)
  /\ \A q, r \in R : \A x \in Range(f[q].children) \cap Range(f[r].children) : q = r

\* No page of the tree points to page x.
Orphan(x, f, R) == \A q \in R : x \notin Range(f[q].children)

\* A node in memory against its page: a child that is new is nobody else's, the others only have
\* narrower bounds.
AheadAt(ks, cs, old, f, R) ==
  \A y \in DOMAIN cs :
    \/ Orphan(cs[y], f, R)
    \/ \E z \in DOMAIN old.children : old.children[z] = cs[y] /\ \A k \in Keys : Admits(ks, y, k) => Admits(old.keys, z, k)
Ahead(node, old, f, R) == AheadAt(node.keys, node.children, old, f, R)

\* A frame whose node may be saved.
FrameOK(fr, f, R, H, Z) ==
  Good(fr.node, H[fr.id], Z[fr.id], R, H, Z) /\ Ahead(fr.node, f[fr.id], f, R)

\* The way down to where the key belongs.
Road(o, p, f, R, H, Z) ==
  /\ \A x \in DOMAIN p : p[x].id \in R /\ o.key \in Z[p[x].id]
  /\ \A x, y \in DOMAIN p : x < y => H[p[y].id] < H[p[x].id]
  /\ \A x \in DOMAIN p : x # Len(p) => FrameOK(p[x], f, R, H, Z)

\* The path of a writer that is not growing the tree.
PathSorted(c, o, p, i, g, f, R, H, Z) ==
  /\ Road(o, p, f, R, H, Z)
  /\ c \in {"enter", "unwind"} => FrameOK(p[Len(p)], f, R, H, Z)
  /\ c \in Splitting => Admits(f[TopId(p)].keys, i, o.key)
  /\ c = "saveChild" => g \notin R
  /\ c = "enter" => Admits(TopOf(p).keys, Half(p, i, o.key), o.key)

\* The invariant; a growing tree keeps its new pages apart until the new root is saved.
Sorted(c, gr, o, p, i, g, f, R, H, Z) ==
  /\ Forest(f, R, H, Z)
  /\ c \in Walking /\ ~gr => PathSorted(c, o, p, i, g, f, R, H, Z)
  /\ c \in Walking /\ gr => Child(p, 1) \notin R /\ (c \in {"saveChild", "saveRoot"} => g \notin R)

\* Keys lk and children lc are those of ks and cs from the a-th on.
PartOf(lk, lc, ks, cs, a) ==
  /\ a \in Int
  /\ DOMAIN lk \subseteq Int /\ DOMAIN lc \subseteq Int
  /\ \A j \in DOMAIN lk : a + j \in DOMAIN ks /\ lk[j] = ks[a + j]
  /\ \A y \in DOMAIN lc : a + y \in DOMAIN cs /\ lc[y] = cs[a + y]

\* Pages cs stay in the tree, as high as they were, and with no more keys below them.
Narrower(cs, H, Z, R, I, Y) == \A x \in Range(cs) : x \in R /\ I[x] = H[x] /\ Y[x] \subseteq Z[x]

\* A part of a good node is good, for the keys T in between.
LEMMA PartGood ==
  ASSUME NEW lf \in BOOLEAN, NEW ks, NEW cs, NEW m, NEW S, NEW R, NEW H, NEW Z, GoodAt(lf, ks, cs, m, S, R, H, Z),
         NEW lk, NEW lc, NEW a, PartOf(lk, lc, ks, cs, a), ~lf => lc # <<>>,
         NEW Q, NEW I, NEW Y, Narrower(cs, H, Z, Q, I, Y),
         NEW T, Range(lk) \subseteq T, \A y \in DOMAIN lc : Y[lc[y]] \subseteq T
  PROVE  GoodAt(lf, lk, lc, m, T, Q, I, Y)
  <1>1. Ascending(lk)
    <2>1. ASSUME NEW x \in DOMAIN lk, NEW y \in DOMAIN lk, x < y PROVE lk[x] <= lk[y]
      <3>1. a + x \in DOMAIN ks /\ a + y \in DOMAIN ks /\ lk[x] = ks[a + x] /\ lk[y] = ks[a + y] /\ a + x < a + y
        BY <2>1 DEF PartOf
      <3>2. QED BY <3>1 DEF GoodAt, Ascending
    <2>2. QED BY <2>1 DEF Ascending
  <1>2. (lf => m = 0) /\ (~lf => lc # <<>>)
    BY DEF GoodAt
  <1>3. ASSUME NEW y \in DOMAIN lc PROVE Under(lk, lc[y], y, m, T, Q, I, Y)
    <2>1. PICK z, x : z = a + y /\ x = cs[z]
      OBVIOUS
    <2>2. z \in DOMAIN cs /\ lc[y] = x /\ y \in Int
      BY <2>1 DEF PartOf
    <2>3. Under(ks, x, z, m, S, R, H, Z)
      BY <2>1, <2>2 DEF GoodAt
    <2>4. x \in Q /\ I[x] = H[x] /\ Y[x] \subseteq Z[x]
      BY <2>1, <2>2 DEF Narrower, Range
    <2>5. Y[x] \subseteq T
      BY <2>2
    <2>6. ASSUME NEW k \in Y[x] PROVE Admits(lk, y, k)
      <3>1. Admits(ks, z, k)
        BY <2>3, <2>4, <2>6 DEF Under
      <3>2. ASSUME NEW j \in DOMAIN lk PROVE (j < y => lk[j] <= k) /\ (j >= y => k <= lk[j])
        <4>1. a + j \in DOMAIN ks /\ lk[j] = ks[a + j] /\ j \in Int /\ a \in Int
          BY <3>2 DEF PartOf
        <4>2. (j < y => a + j < z) /\ (j >= y => a + j >= z)
          BY <4>1, <2>1, <2>2
        <4>3. QED BY <4>1, <4>2, <3>1 DEF Admits
      <3>3. QED BY <3>2 DEF Admits
    <2>7. QED BY <2>2, <2>3, <2>4, <2>5, <2>6 DEF Under
  <1>4. ASSUME NEW y \in DOMAIN lc, NEW z \in DOMAIN lc, lc[y] = lc[z] PROVE y = z
    <2>1. a + y \in DOMAIN cs /\ a + z \in DOMAIN cs /\ cs[a + y] = cs[a + z] /\ a \in Int /\ y \in Int /\ z \in Int
      BY <1>4 DEF PartOf
    <2>2. a + y = a + z
      BY <2>1 DEF GoodAt
    <2>3. QED BY <2>1, <2>2
  <1>5. QED BY <1>1, <1>2, <1>3, <1>4 DEF GoodAt

\* The same node with less below it.
LEMMA GoodMono ==
  ASSUME NEW node, NEW S, Sound(node, S), NEW m, NEW T, NEW R, NEW H, NEW Z, Good(node, m, T, R, H, Z),
         NEW Q, NEW I, NEW Y, Narrower(node.children, H, Z, Q, I, Y), NEW V, T \subseteq V
  PROVE  Good(node, m, V, Q, I, Y)
  <1>1. PICK lf, ks, cs : lf = node.leaf /\ ks = node.keys /\ cs = node.children
    OBVIOUS
  <1>2. lf \in BOOLEAN /\ ks \in Seq(Keys) /\ cs \in Seq(PageId)
    BY <1>1, NodeFields DEF Sound, Closed
  <1>3. GoodAt(lf, ks, cs, m, T, R, H, Z) /\ Narrower(cs, H, Z, Q, I, Y)
    BY <1>1 DEF Good
  <1>4. DOMAIN ks \subseteq Int /\ DOMAIN cs \subseteq Int
    BY <1>2, SeqDomain
  <1>5. PartOf(ks, cs, ks, cs, 0)
    BY <1>4 DEF PartOf
  <1>6. Range(ks) \subseteq V /\ (~lf => cs # <<>>)
    BY <1>3 DEF GoodAt
  <1>7. \A y \in DOMAIN cs : Y[cs[y]] \subseteq V
    BY <1>3 DEF GoodAt, Under, Narrower, Range
  <1>8. GoodAt(lf, ks, cs, m, V, Q, I, Y)
    BY <1>2, <1>3, <1>5, <1>6, <1>7, PartGood
  <1>9. QED BY <1>1, <1>8 DEF Good

\* Two halves of the keys ks and children cs of a node that is a leaf or not, cut at the m-th key.
HalvesOf(lf, ks, cs, m, lk, lc, rk, rc) ==
  \E a : /\ PartOf(lk, lc, ks, cs, 0) /\ PartOf(rk, rc, ks, cs, a)
         /\ ~lf => lc # <<>> /\ rc # <<>>
         /\ \A j \in DOMAIN lk : j <= m
         /\ \A j \in DOMAIN rk : m <= a + j
         /\ \A y \in DOMAIN lc : y <= m
         /\ \A y \in DOMAIN rc : m < a + y
         /\ m \in DOMAIN ks /\ m \in Int

\* LeftHalf and RightHalf are that.
LEMMA HalvesParts ==
  ASSUME NEW S, NEW node, Sound(node, S), node.keys # <<>>, NEW m, m = Middle(node),
         NEW l, NEW r, l = LeftHalf(node), r = RightHalf(node)
  PROVE  HalvesOf(node.leaf, node.keys, node.children, m, l.keys, l.children, r.keys, r.children)
  <1>1. PICK lf, ks, cs, n : lf = node.leaf /\ ks = node.keys /\ cs = node.children /\ n = Len(ks)
    OBVIOUS
  <1>2. PICK lk, lc, rk, rc : lk = l.keys /\ lc = l.children /\ rk = r.keys /\ rc = r.children
    OBVIOUS
  <1>3. /\ lf \in BOOLEAN /\ ks \in Seq(Keys) /\ cs \in Seq(PageId) /\ n \in Nat /\ m \in 1..n /\ DOMAIN ks = 1..n
        /\ node \in Node
    BY <1>1, NodeFields, MiddleRange, SeqDomain DEF Sound, Closed
  <1>4. Sound(l, S) /\ Sound(r, S)
    BY HalvesSound
  <1>5. lk \in Seq(Keys) /\ lc \in Seq(PageId) /\ rk \in Seq(Keys) /\ rc \in Seq(PageId)
    BY <1>2, <1>4, NodeFields DEF Sound, Closed
  <1>6. DOMAIN lk = 1..Len(lk) /\ DOMAIN lc = 1..Len(lc) /\ DOMAIN rk = 1..Len(rk) /\ DOMAIN rc = 1..Len(rc)
        /\ DOMAIN cs = 1..Len(cs)
    BY <1>3, <1>5, SeqDomain
  <1>7. CASE lf
    <2>1. PICK a : a = m - 1
      OBVIOUS
    <2>21. PICK uk, vk : uk = SubSeq(ks, 0 + 1, m - 1) /\ vk = SubSeq(ks, a + 1, n)
      OBVIOUS
    <2>22. a \in Nat /\ a <= n /\ 0 \in Nat /\ 0 <= m - 1 /\ m - 1 \in Nat /\ m - 1 <= n /\ n <= n /\ m - 1 - 0 = m - 1
           /\ n - a = n - m + 1
      BY <2>1, <1>3
    <2>26. a + 1 = m /\ 0 + 1 = 1
      BY <2>1, <1>3
    <2>23. uk \in Seq(Keys) /\ Len(uk) = m - 1 /\ \A j \in 1..m - 1 : uk[j] = ks[0 + j]
      <3>1. PICK b : b = m - 1
        OBVIOUS
      <3>3. b \in Nat /\ 0 \in Nat /\ 0 <= b /\ b <= n /\ uk = SubSeq(ks, 0 + 1, b) /\ n = Len(ks) /\ ks \in Seq(Keys)
        BY <3>1, <2>21, <1>1, <1>3
      <3>4. uk \in Seq(Keys) /\ Len(uk) = b - 0 /\ \A j \in 1..b - 0 : uk[j] = ks[0 + j]
        BY <3>3, CutFacts
      <3>5. b - 0 = m - 1
        BY <3>1, <1>3
      <3>2. QED BY <3>4, <3>5
    <2>24. vk \in Seq(Keys) /\ Len(vk) = n - m + 1 /\ \A j \in 1..n - m + 1 : vk[j] = ks[a + j]
      <3>1. vk \in Seq(Keys) /\ Len(vk) = n - a /\ \A j \in 1..n - a : vk[j] = ks[a + j]
        BY <2>21, <2>22, <1>1, <1>3, CutFacts
      <3>2. QED BY <3>1, <2>22
    <2>25. lk = uk /\ rk = vk /\ lc = <<>> /\ rc = <<>>
      <3>1. PICK lv, rv : lv = SubSeq(node.values, 1, m - 1) /\ rv = SubSeq(node.values, m, Len(node.values))
        OBVIOUS
      <3>2. uk = SubSeq(node.keys, 1, m - 1) /\ vk = SubSeq(node.keys, m, Len(node.keys))
        BY <2>21, <2>26, <1>1
      <3>3. l = [node EXCEPT !.keys = uk, !.values = lv] /\ r = [node EXCEPT !.keys = vk, !.values = rv]
        BY <1>1, <1>7, <3>1, <3>2 DEF LeftHalf, RightHalf
      <3>4. node.children = <<>>
        BY <1>1, <1>7 DEF Sound, Shaped
      <3>5. QED BY <1>2, <1>3, <3>3, <3>4 DEF Node
    <2>2. /\ lc = <<>> /\ rc = <<>> /\ Len(lk) = m - 1 /\ (\A j \in 1..m - 1 : lk[j] = ks[0 + j])
          /\ Len(rk) = n - m + 1 /\ \A j \in 1..n - m + 1 : rk[j] = ks[a + j]
      BY <2>23, <2>24, <2>25
    <2>3. DOMAIN lk = 1..m - 1 /\ DOMAIN rk = 1..n - m + 1 /\ DOMAIN lc = {} /\ DOMAIN rc = {}
      BY <1>6, <2>2
    <2>4. \A j \in 1..m - 1 : j \in Int /\ 0 + j \in 1..n /\ lk[j] = ks[0 + j] /\ j <= m
      BY <1>3, <2>2
    <2>5. \A j \in 1..n - m + 1 : j \in Int /\ a + j \in 1..n /\ a + j = m + j - 1 /\ m <= a + j
      BY <1>3, <2>1
    <2>6. \A j \in 1..n - m + 1 : rk[j] = ks[a + j]
      BY <2>2
    <2>7. PartOf(lk, lc, ks, cs, 0)
      BY <1>3, <2>3, <2>4 DEF PartOf
    <2>8. PartOf(rk, rc, ks, cs, a)
      BY <1>3, <2>1, <2>3, <2>5, <2>6 DEF PartOf
    <2>9. HalvesOf(lf, ks, cs, m, lk, lc, rk, rc)
      BY <1>3, <1>7, <2>3, <2>4, <2>5, <2>7, <2>8 DEF HalvesOf
    <2>10. QED BY <2>9, <1>1, <1>2
  <1>8. CASE ~lf
    <2>1. PICK nn, mm : InnerCut(node, nn, mm, l, r)
      BY <1>1, <1>8, InnerCutFacts
    <2>2. /\ nn = n /\ mm = m /\ Len(cs) = n + 1
          /\ Len(lk) = m - 1 /\ Len(lc) = m /\ Len(rk) = n - m /\ Len(rc) = n - m + 1
          /\ (\A j \in 1..m - 1 : lk[j] = ks[j]) /\ (\A j \in 1..m : lc[j] = cs[j])
          /\ (\A j \in 1..n - m : rk[j] = ks[m + j]) /\ (\A j \in 1..n - m + 1 : rc[j] = cs[m + j])
      BY <1>1, <1>2, <2>1, ZenonT(40) DEF InnerCut
    <2>3. DOMAIN lk = 1..m - 1 /\ DOMAIN rk = 1..n - m /\ DOMAIN lc = 1..m /\ DOMAIN rc = 1..n - m + 1 /\ DOMAIN cs = 1..n + 1
      BY <1>6, <2>2
    <2>20. \A j \in 1..m : j \in Int /\ 0 + j = j /\ j \in 1..n /\ j \in 1..n + 1 /\ j <= m
      BY <1>3
    <2>21. \A j \in 1..m - 1 : j \in 1..m
      BY <1>3
    <2>4. \A j \in 1..m - 1 : j \in Int /\ 0 + j \in 1..n /\ lk[j] = ks[0 + j] /\ j <= m
      BY <2>20, <2>21, <2>2
    <2>5. \A j \in 1..m : j \in Int /\ 0 + j \in 1..n + 1 /\ lc[j] = cs[0 + j] /\ j <= m
      BY <2>20, <2>2
    <2>22. \A j \in 1..n - m : j \in Int /\ m + j \in 1..n /\ m <= m + j
      BY <1>3
    <2>6. \A j \in 1..n - m : j \in Int /\ m + j \in 1..n /\ m <= m + j /\ rk[j] = ks[m + j]
      BY <2>22, <2>2
    <2>23. \A j \in 1..n - m + 1 : j \in Int /\ m + j \in 1..n + 1 /\ m < m + j
      BY <1>3
    <2>7. \A j \in 1..n - m + 1 : j \in Int /\ m + j \in 1..n + 1 /\ m < m + j /\ rc[j] = cs[m + j]
      BY <2>23, <2>2
    <2>24. m \in Int /\ 1..n - m \subseteq Int /\ 1..n - m + 1 \subseteq Int
      BY <1>3
    <2>8. PartOf(lk, lc, ks, cs, 0)
      BY <1>3, <2>3, <2>4, <2>5 DEF PartOf
    <2>9. PartOf(rk, rc, ks, cs, m)
      BY <1>3, <2>24, <2>3, <2>6, <2>7 DEF PartOf
    <2>10. lc # <<>> /\ rc # <<>>
      <3>1. 1 \in DOMAIN lc /\ 1 \in DOMAIN rc
        BY <1>3, <2>3
      <3>2. QED BY <3>1
    <2>13. /\ \A j \in DOMAIN lk : j <= m
           /\ \A j \in DOMAIN rk : m <= m + j
           /\ \A y \in DOMAIN lc : y <= m
           /\ \A y \in DOMAIN rc : m < m + y
      BY <2>3, <2>4, <2>5, <2>6, <2>7
    <2>11. HalvesOf(lf, ks, cs, m, lk, lc, rk, rc)
      BY <1>3, <2>24, <2>13, <2>8, <2>9, <2>10 DEF HalvesOf
    <2>12. QED BY <2>11, <1>1, <1>2
  <1>9. QED BY <1>3, <1>7, <1>8

\* The keys up to x and from x on.
Upto(S, x) == {k \in S : k <= x}
Onward(S, x) == {k \in S : k >= x}

\* The halves of a good node are good, each for its side of the separator x, and share no child.
HalvesFine(lf, cs, h, S, x, lk, lc, rk, rc, Q, I, Y) ==
  /\ GoodAt(lf, lk, lc, h, Upto(S, x), Q, I, Y) /\ GoodAt(lf, rk, rc, h, Onward(S, x), Q, I, Y)
  /\ Range(lc) \subseteq Range(cs) /\ Range(rc) \subseteq Range(cs) /\ Range(lc) \cap Range(rc) = {} /\ x \in S

\* HalvesOf gives that.
LEMMA HalvesOfGood ==
  ASSUME NEW lf \in BOOLEAN, NEW ks, NEW cs, NEW m, NEW lk, NEW lc, NEW rk, NEW rc,
         HalvesOf(lf, ks, cs, m, lk, lc, rk, rc), NEW h, NEW S, S \subseteq Int, NEW R, NEW H, NEW Z,
         GoodAt(lf, ks, cs, h, S, R, H, Z), NEW Q, NEW I, NEW Y, Narrower(cs, H, Z, Q, I, Y), NEW x, x = ks[m]
  PROVE  HalvesFine(lf, cs, h, S, x, lk, lc, rk, rc, Q, I, Y)
  <1>1. PICK a : /\ PartOf(lk, lc, ks, cs, 0) /\ PartOf(rk, rc, ks, cs, a)
                 /\ ~lf => lc # <<>> /\ rc # <<>>
                 /\ \A j \in DOMAIN lk : j <= m
                 /\ \A j \in DOMAIN rk : m <= a + j
                 /\ \A y \in DOMAIN lc : y <= m
                 /\ \A y \in DOMAIN rc : m < a + y
                 /\ m \in DOMAIN ks /\ m \in Int
    BY DEF HalvesOf
  <1>2. x \in S /\ Range(ks) \subseteq S /\ Ascending(ks)
    BY <1>1 DEF GoodAt, Range
  <1>3. Range(lk) \subseteq Upto(S, x)
    <2>1. ASSUME NEW j \in DOMAIN lk PROVE lk[j] \in Upto(S, x)
      <3>1. 0 + j = j
        BY <1>1 DEF PartOf
      <3>2. j \in DOMAIN ks /\ lk[j] = ks[j] /\ j \in Int /\ j <= m
        BY <1>1, <3>1 DEF PartOf
      <3>3. ks[j] <= x
        <4>1. CASE j = m
          BY <1>2, <4>1
        <4>2. CASE j # m
          <5>1. j < m
            BY <4>2, <3>2, <1>1
          <5>2. QED BY <5>1, <1>1, <1>2, <3>2 DEF Ascending
        <4>3. QED BY <4>1, <4>2
      <3>4. ks[j] \in S
        BY <3>2, <1>2 DEF Range
      <3>5. QED BY <3>2, <3>3, <3>4 DEF Upto
    <2>2. QED BY <2>1 DEF Range
  <1>4. Range(rk) \subseteq Onward(S, x)
    <2>1. ASSUME NEW j \in DOMAIN rk PROVE rk[j] \in Onward(S, x)
      <3>1. PICK b : b = a + j
        OBVIOUS
      <3>2. b \in DOMAIN ks /\ rk[j] = ks[b] /\ b \in Int /\ m <= b
        BY <1>1, <3>1 DEF PartOf
      <3>3. ks[b] \in S
        BY <3>2, <1>2 DEF Range
      <3>4. ks[b] >= x
        <4>1. CASE b = m
          BY <1>2, <4>1
        <4>2. CASE b # m
          <5>1. m < b
            BY <4>2, <3>2, <1>1
          <5>2. x <= ks[b]
            BY <5>1, <1>1, <1>2, <3>2 DEF Ascending
          <5>3. QED BY <5>2, <3>3, <1>2
        <4>3. QED BY <4>1, <4>2
      <3>5. QED BY <3>2, <3>3, <3>4 DEF Onward
    <2>2. QED BY <2>1 DEF Range
  <1>5. ASSUME NEW y \in DOMAIN lc PROVE Y[lc[y]] \subseteq Upto(S, x) /\ lc[y] \in Range(cs)
    <2>1. 0 + y = y
      BY <1>1 DEF PartOf
    <2>2. y \in DOMAIN cs /\ lc[y] = cs[y] /\ y <= m /\ y \in Int
      BY <1>1, <2>1 DEF PartOf
    <2>3. Under(ks, cs[y], y, h, S, R, H, Z) /\ Y[cs[y]] \subseteq Z[cs[y]]
      BY <2>2 DEF GoodAt, Narrower, Range
    <2>4. ASSUME NEW k \in Y[cs[y]] PROVE k \in S /\ k <= x
      <3>1. k \in S /\ Admits(ks, y, k) /\ m >= y
        BY <2>2, <2>3, <1>1, <2>4 DEF Under
      <3>2. QED BY <3>1, <1>1 DEF Admits
    <2>5. QED BY <2>2, <2>4 DEF Upto, Range
  <1>6. ASSUME NEW y \in DOMAIN rc PROVE Y[rc[y]] \subseteq Onward(S, x) /\ rc[y] \in Range(cs)
    <2>1. PICK b : b = a + y
      OBVIOUS
    <2>2. b \in DOMAIN cs /\ rc[y] = cs[b] /\ m < b /\ b \in Int
      BY <1>1, <2>1 DEF PartOf
    <2>3. Under(ks, cs[b], b, h, S, R, H, Z) /\ Y[cs[b]] \subseteq Z[cs[b]]
      BY <2>2 DEF GoodAt, Narrower, Range
    <2>4. ASSUME NEW k \in Y[cs[b]] PROVE k \in S /\ k >= x
      <3>1. k \in S /\ Admits(ks, b, k)
        BY <2>3, <2>4 DEF Under
      <3>2. x <= k
        BY <3>1, <1>1, <2>2 DEF Admits
      <3>3. QED BY <3>1, <3>2, <1>2
    <2>5. QED BY <2>2, <2>4 DEF Onward, Range
  <1>7. Range(lc) \cap Range(rc) = {}
    <2>1. ASSUME NEW y \in DOMAIN lc, NEW z \in DOMAIN rc, lc[y] = rc[z] PROVE FALSE
      <3>1. 0 + y = y
        BY <1>1 DEF PartOf
      <3>2. PICK b : b = a + z
        OBVIOUS
      <3>3. y \in DOMAIN cs /\ b \in DOMAIN cs /\ cs[y] = cs[b] /\ y \in Int /\ b \in Int /\ y <= m /\ m < b
        BY <1>1, <2>1, <3>1, <3>2 DEF PartOf
      <3>4. y = b
        BY <3>3 DEF GoodAt
      <3>5. QED BY <3>3, <3>4, <1>1
    <2>2. QED BY <2>1 DEF Range
  <1>8. GoodAt(lf, lk, lc, h, Upto(S, x), Q, I, Y)
    BY <1>1, <1>3, <1>5, PartGood
  <1>9. GoodAt(lf, rk, rc, h, Onward(S, x), Q, I, Y)
    BY <1>1, <1>4, <1>6, PartGood
  <1>10. Range(lc) \subseteq Range(cs) /\ Range(rc) \subseteq Range(cs)
    <2>1. ASSUME NEW b \in Range(lc) PROVE b \in Range(cs)
      <3>1. PICK y \in DOMAIN lc : b = lc[y]
        BY <2>1 DEF Range
      <3>2. QED BY <3>1, <1>5
    <2>2. ASSUME NEW b \in Range(rc) PROVE b \in Range(cs)
      <3>1. PICK y \in DOMAIN rc : b = rc[y]
        BY <2>2 DEF Range
      <3>2. QED BY <3>1, <1>6
    <2>3. QED BY <2>1, <2>2
  <1>11. QED BY <1>2, <1>7, <1>8, <1>9, <1>10 DEF HalvesFine

\* The pages of the tree are in h as they are in f.
Same(f, h, R) == \A q \in R : q \in DOMAIN h /\ h[q] = f[q]

\* Pages outside the tree do not matter.
LEMMA ForestOn ==
  ASSUME NEW f, NEW h, NEW R, NEW H, NEW Z, Forest(f, R, H, Z), Same(f, h, R)
  PROVE  /\ Forest(h, R, H, Z)
         /\ \A x : Orphan(x, f, R) => Orphan(x, h, R)
         /\ \A fr : fr.id \in R /\ FrameOK(fr, f, R, H, Z) => FrameOK(fr, h, R, H, Z)
  <1>1. \A q \in R : q \in DOMAIN h /\ h[q] = f[q]
    BY DEF Same
  <1>2. Forest(h, R, H, Z)
    <2>1. \A q \in R : Good(h[q], H[q], Z[q], R, H, Z)
      BY <1>1 DEF Forest
    <2>2. \A q, r \in R : \A x \in Range(h[q].children) \cap Range(h[r].children) : q = r
      BY <1>1 DEF Forest
    <2>3. R \subseteq DOMAIN h
      BY <1>1
    <2>4. QED BY <2>1, <2>2, <2>3 DEF Forest
  <1>3. ASSUME NEW x, Orphan(x, f, R) PROVE Orphan(x, h, R)
    BY <1>1, <1>3 DEF Orphan
  <1>4. ASSUME NEW fr, fr.id \in R, FrameOK(fr, f, R, H, Z) PROVE FrameOK(fr, h, R, H, Z)
    <2>1. h[fr.id] = f[fr.id]
      BY <1>1, <1>4
    <2>2. Ahead(fr.node, h[fr.id], h, R)
      BY <2>1, <1>3, <1>4 DEF FrameOK, Ahead, AheadAt
    <2>3. QED BY <2>2, <1>4 DEF FrameOK
  <1>5. QED BY <1>2, <1>3, <1>4

\* What the path says of its own.
LEMMA RoadOn ==
  ASSUME NEW f, NEW h, NEW R, NEW H, NEW Z, Forest(f, R, H, Z), Same(f, h, R), NEW o, NEW p, Road(o, p, f, R, H, Z)
  PROVE  Road(o, p, h, R, H, Z)
  <1>1. \A x \in DOMAIN p : p[x].id \in R
    BY DEF Road
  <1>2. \A fr : fr.id \in R /\ FrameOK(fr, f, R, H, Z) => FrameOK(fr, h, R, H, Z)
    BY ForestOn
  <1>3. QED BY <1>1, <1>2 DEF Road

\* The whole invariant is kept when a page outside the tree is written.
LEMMA SortedOn ==
  ASSUME NEW c, NEW gr, NEW o, NEW p, NEW i, NEW g, NEW f, NEW h, NEW R, NEW H, NEW Z,
         Sorted(c, gr, o, p, i, g, f, R, H, Z), Same(f, h, R), c \in Walking => Len(p) \in DOMAIN p
  PROVE  Sorted(c, gr, o, p, i, g, h, R, H, Z)
  <1>1. Forest(f, R, H, Z)
    BY DEF Sorted
  <1>2. Forest(h, R, H, Z) /\ \A fr : fr.id \in R /\ FrameOK(fr, f, R, H, Z) => FrameOK(fr, h, R, H, Z)
    BY <1>1, ForestOn
  <1>3. ASSUME c \in Walking, ~gr PROVE PathSorted(c, o, p, i, g, h, R, H, Z)
    <2>1. PathSorted(c, o, p, i, g, f, R, H, Z) /\ Road(o, p, f, R, H, Z)
      BY <1>3 DEF Sorted, PathSorted
    <2>2. Road(o, p, h, R, H, Z)
      BY <1>1, <2>1, RoadOn
    <2>3. p[Len(p)].id \in R
      BY <1>3, <2>1 DEF Road
    <2>4. h[TopId(p)] = f[TopId(p)]
      BY <2>3 DEF Same, TopId
    <2>5. FrameOK(p[Len(p)], f, R, H, Z) => FrameOK(p[Len(p)], h, R, H, Z)
      BY <1>2, <2>3
    <2>6. QED BY <2>1, <2>2, <2>4, <2>5 DEF PathSorted
  <1>4. QED BY <1>2, <1>3 DEF Sorted

\* A writer without a path.
LEMMA SortedOnly ==
  ASSUME NEW f, NEW R, NEW H, NEW Z, Forest(f, R, H, Z), NEW c, c \notin Walking,
         NEW gr, NEW o, NEW p, NEW i, NEW g
  PROVE  Sorted(c, gr, o, p, i, g, f, R, H, Z)
  BY DEF Sorted

\* Insert, ReadRoot at a full root, AllocatePage of a growing writer and Fail.
LEMMA SortedRest ==
  ASSUME NEW c, NEW gr, NEW o, NEW p, NEW i, NEW g, NEW f, NEW R, NEW H, NEW Z,
         Sorted(c, gr, o, p, i, g, f, R, H, Z),
         NEW d, NEW ge, NEW oo, NEW q, NEW j, NEW e, NEW h, DidRest(c, gr, f, d, h)
  PROVE  Sorted(d, ge, oo, q, j, e, h, R, H, Z)
  BY SortedOnly DEF Sorted, DidRest, Resting, Before, Walking, Parting

\* ReadRoot at a root with room, and RereadRoot.
LEMMA SortedRoot ==
  ASSUME NEW c, NEW gr, NEW o, NEW p, NEW i, NEW g, NEW kd, NEW sb, NEW f, NEW n, NEW K, NEW C, NEW L,
         Sane(c, gr, o, p, i, g, kd, sb, f, n, K, C, L), NEW R, NEW H, NEW Z, Sorted(c, gr, o, p, i, g, f, R, H, Z),
         NEW d, NEW ge, NEW oo, NEW q, NEW j, NEW e, NEW h, DidRoot(c, gr, o, f, d, ge, oo, q, h)
  PROVE  Sorted(d, ge, oo, q, j, e, h, R, H, Z)
  <1>1. c \in {"start", "reread"} /\ d = "visit" /\ ~ge /\ oo = o /\ h = f /\ q = <<[id |-> Root, node |-> f[Root]]>>
    BY DEF DidRoot
  <1>2. PICK fr : fr = [id |-> Root, node |-> f[Root]]
    OBVIOUS
  <1>3. fr.id = Root
    BY <1>2
  <1>4. q = <<fr>> /\ Len(q) = 1 /\ DOMAIN q = {1} /\ q[1] = fr
    BY <1>1, <1>2
  <1>5. o.key \in Keys
    BY <1>1 DEF Sane, WriterInv
  <1>6. Forest(f, R, H, Z) /\ Root \in R /\ Z[Root] = Keys
    BY DEF Sorted, Forest
  <1>7. Road(oo, q, h, R, H, Z)
    BY <1>1, <1>3, <1>4, <1>5, <1>6 DEF Road
  <1>8. PathSorted(d, oo, q, j, e, h, R, H, Z)
    BY <1>1, <1>7 DEF PathSorted, Splitting, Parting
  <1>9. QED BY <1>1, <1>6, <1>8 DEF Sorted

\* AllocatePage in split_child.
LEMMA SortedAllocate ==
  ASSUME NEW c, NEW gr, NEW o, NEW p, NEW i, NEW g, NEW f, NEW R, NEW H, NEW Z,
         Sorted(c, gr, o, p, i, g, f, R, H, Z),
         NEW d, NEW ge, NEW oo, NEW q, NEW j, NEW e, NEW h, DidAllocate(c, gr, o, p, i, f, d, ge, oo, q, j, h)
  PROVE  Sorted(d, ge, oo, q, j, e, h, R, H, Z)
  BY DEF DidAllocate, Sorted, PathSorted, Walking, Splitting, Parting

\* BlankPage.
LEMMA SortedBlank ==
  ASSUME NEW c, NEW gr, NEW o, NEW p, NEW i, NEW g, NEW kd, NEW sb, NEW f, NEW n, NEW K, NEW C, NEW L,
         Sane(c, gr, o, p, i, g, kd, sb, f, n, K, C, L), NEW R, NEW H, NEW Z, Sorted(c, gr, o, p, i, g, f, R, H, Z),
         NEW d, NEW ge, NEW oo, NEW q, NEW j, NEW e, NEW h, DidBlank(c, gr, o, p, i, g, f, d, ge, oo, q, j, e, h)
  PROVE  Sorted(d, ge, oo, q, j, e, h, R, H, Z)
  <1>1. /\ <<c, d>> \in {<<"growBlank", "growSave">>, <<"splitBlank", "saveNew">>}
        /\ ge = gr /\ oo = o /\ q = p /\ j = i /\ e = g /\ g \notin DOMAIN f /\ Wrote(f, g, Blank, h)
    BY DEF DidBlank
  <1>2. R \subseteq DOMAIN f
    BY DEF Sorted, Forest
  <1>3. Same(f, h, R)
    BY <1>1, <1>2 DEF Same, Wrote
  <1>4. Sorted(c, gr, o, p, i, g, h, R, H, Z)
    BY <1>3, SaneTop, SortedOn
  <1>5. CASE c = "growBlank"
    BY <1>1, <1>4, <1>5 DEF Sorted, Walking, Parting
  <1>6. CASE c = "splitBlank"
    BY <1>1, <1>4, <1>6 DEF Sorted, PathSorted, Walking, Splitting, Parting
  <1>7. QED BY <1>1, <1>5, <1>6

\* A blank page is not part of the tree.
LEMMA BlankOutside ==
  ASSUME NEW f, NEW R, NEW H, NEW Z, Forest(f, R, H, Z), NEW g, f[g] = Blank
  PROVE  g \notin R
  <1>1. ASSUME g \in R PROVE FALSE
    <2>1. Good(Blank, H[g], Z[g], R, H, Z)
      BY <1>1 DEF Forest
    <2>2. Blank.leaf = FALSE /\ Blank.children = <<>>
      BY EmptyNodes
    <2>3. QED BY <2>1, <2>2 DEF Good, GoodAt
  <1>2. QED BY <1>1

\* GrowSave.
LEMMA SortedGrowSave ==
  ASSUME NEW c, NEW gr, NEW o, NEW p, NEW i, NEW g, NEW kd, NEW sb, NEW f, NEW n, NEW K, NEW C, NEW L,
         Sane(c, gr, o, p, i, g, kd, sb, f, n, K, C, L), NEW R, NEW H, NEW Z, Sorted(c, gr, o, p, i, g, f, R, H, Z),
         NEW d, NEW ge, NEW oo, NEW q, NEW j, NEW e, NEW h, DidGrowSave(c, gr, o, g, kd, f, d, ge, oo, q, j, e, h)
  PROVE  Sorted(d, ge, oo, q, j, e, h, R, H, Z)
  <1>1. /\ c = "growSave" /\ d = "split" /\ ge = gr /\ oo = o /\ j = 1 /\ e = g /\ Wrote(f, g, kd, h)
        /\ q = <<[id |-> Root, node |-> [new_internal EXCEPT !.children = <<g>>]]>>
    BY DEF DidGrowSave
  <1>2. gr /\ f[g] = Blank
    BY <1>1 DEF Sane, Intact, GrowSafe, Alloc, Before
  <1>3. Forest(f, R, H, Z) /\ R \subseteq DOMAIN f
    BY DEF Sorted, Forest
  <1>4. g \notin R
    BY <1>2, <1>3, BlankOutside
  <1>5. Same(f, h, R)
    BY <1>1, <1>3, <1>4 DEF Same, Wrote
  <1>6. Forest(h, R, H, Z)
    BY <1>3, <1>5, ForestOn
  <1>7. Child(q, 1) = g
    <2>1. PICK root : root = [new_internal EXCEPT !.children = <<g>>]
      OBVIOUS
    <2>2. root.children = <<g>>
      BY <2>1 DEF new_internal, new_leaf
    <2>3. PICK fr : fr = [id |-> Root, node |-> root]
      OBVIOUS
    <2>4. q = <<fr>> /\ fr.node = root
      BY <1>1, <2>1, <2>3
    <2>5. TopOf(q) = root
      BY <2>4 DEF TopOf
    <2>6. QED BY <2>2, <2>5 DEF Child
  <1>8. QED BY <1>1, <1>2, <1>4, <1>6, <1>7 DEF Sorted

\* The path with another last node, on the same page.
LEMMA RoadPut ==
  ASSUME NEW o, NEW p, NEW f, NEW R, NEW H, NEW Z, Road(o, p, f, R, H, Z), p \in Seq(Frame), p # <<>>,
         NEW node \in Node, NEW q, q = Put(p, node)
  PROVE  Road(o, q, f, R, H, Z)
  <1>1. /\ Len(q) = Len(p) /\ DOMAIN q = DOMAIN p /\ q[Len(p)].id = p[Len(p)].id
        /\ \A x \in DOMAIN p : x # Len(p) => q[x] = p[x]
    BY PutFacts DEF TopId
  <1>2. \A x \in DOMAIN p : q[x].id = p[x].id
    BY <1>1
  <1>3. QED BY <1>1, <1>2 DEF Road

\* SplitRead.
LEMMA SortedSplit ==
  ASSUME NEW c, NEW gr, NEW o, NEW p, NEW i, NEW g, NEW kd, NEW sb, NEW f, NEW n, NEW K, NEW C, NEW L,
         Sane(c, gr, o, p, i, g, kd, sb, f, n, K, C, L), NEW R, NEW H, NEW Z, Sorted(c, gr, o, p, i, g, f, R, H, Z),
         NEW d, NEW ge, NEW oo, NEW q, NEW j, NEW e, NEW h, DidSplit(c, gr, o, p, i, g, f, d, ge, oo, q, j, e, h)
  PROVE  Sorted(d, ge, oo, q, j, e, h, R, H, Z)
  <1>1. /\ c = "split" /\ d = "splitAlloc" /\ ge = gr /\ oo = o /\ j = i /\ e = g /\ h = f
        /\ q = Put(p, TopOf(q)) /\ TopOf(q) \in Node /\ TopOf(q) = WithKey(TopOf(p), i, Mid(f[Child(p, i)]))
    BY DEF DidSplit
  <1>2. c \in Walking /\ c \in Splitting /\ d \in Walking /\ d \in Splitting /\ d \notin {"saveChild", "saveRoot", "enter", "unwind"}
    BY <1>1 DEF Walking, Splitting, Parting
  <1>3. p \in Seq(Frame) /\ p # <<>> /\ TopOf(p) \in Node
    BY <1>2, SaneTop
  <1>4. PICK node : node = TopOf(q)
    OBVIOUS
  <1>5. TopId(q) = TopId(p)
    BY <1>1, <1>3, <1>4, PutFacts
  <1>6. TopOf(q).children = TopOf(p).children
    BY <1>1, <1>3 DEF WithKey, Node
  <1>7. ASSUME ~gr PROVE PathSorted(d, o, q, i, g, f, R, H, Z)
    <2>1. PathSorted(c, o, p, i, g, f, R, H, Z)
      BY <1>2, <1>7 DEF Sorted
    <2>2. Road(o, p, f, R, H, Z) /\ Admits(f[TopId(p)].keys, i, o.key)
      BY <1>2, <2>1 DEF PathSorted
    <2>3. Road(o, q, f, R, H, Z)
      BY <1>1, <1>3, <1>4, <2>2, RoadPut
    <2>4. QED BY <1>2, <1>5, <2>2, <2>3 DEF PathSorted
  <1>8. ASSUME gr PROVE Child(q, 1) \notin R
    BY <1>2, <1>6, <1>8 DEF Sorted, Child
  <1>9. QED BY <1>1, <1>2, <1>7, <1>8 DEF Sorted

\* SaveNew.
LEMMA SortedSaveNew ==
  ASSUME NEW c, NEW gr, NEW o, NEW p, NEW i, NEW g, NEW kd, NEW sb, NEW f, NEW n, NEW K, NEW C, NEW L,
         Sane(c, gr, o, p, i, g, kd, sb, f, n, K, C, L), NEW R, NEW H, NEW Z, Sorted(c, gr, o, p, i, g, f, R, H, Z),
         NEW d, NEW ge, NEW oo, NEW q, NEW j, NEW e, NEW h, DidSaveNew(c, gr, o, p, i, g, sb, f, d, ge, oo, q, j, e, h)
  PROVE  Sorted(d, ge, oo, q, j, e, h, R, H, Z)
  <1>1. /\ c = "saveNew" /\ d = "saveChild" /\ ge = gr /\ oo = o /\ j = i /\ e = g /\ Wrote(f, g, sb, h)
        /\ q = Put(p, TopOf(q)) /\ TopOf(q) = WithChild(TopOf(p), i, g)
    BY DEF DidSaveNew
  <1>2. c \in Walking /\ c \in Splitting /\ d \in Walking /\ d \in Splitting /\ d \notin {"enter", "unwind"} /\ c \in Parting
        /\ c \in Splitting \cup {"enter"}
    BY <1>1 DEF Walking, Splitting, Parting
  <1>3. p \in Seq(Frame) /\ p # <<>> /\ Open(TopOf(p), DOMAIN f) /\ DOMAIN f \subseteq Nat /\ i \in 1..Len(TopOf(p).children)
        /\ Len(p) \in DOMAIN p
    BY <1>2, SaneTop, SaneChild
  <1>4. g \in DOMAIN f /\ f[g] = Blank
    BY <1>1 DEF Sane, Intact, Alloc
  <1>5. PICK t, S, node : t = TopOf(p) /\ S = DOMAIN f /\ node = TopOf(q)
    OBVIOUS
  <1>6. node = WithChild(t, i, g) /\ Open(t, S) /\ S \subseteq Nat /\ g \in S /\ i \in 1..Len(t.children)
    BY <1>1, <1>3, <1>4, <1>5
  <1>7. Added(t, i, g, node)
    BY <1>6, ChildAdded
  <1>8. node \in Node /\ node.children[1] = t.children[1]
    BY <1>7 DEF Added
  <1>9. TopId(q) = TopId(p)
    BY <1>1, <1>3, <1>5, <1>8, PutFacts
  <1>10. Forest(f, R, H, Z) /\ R \subseteq DOMAIN f
    BY DEF Sorted, Forest
  <1>11. g \notin R
    BY <1>4, <1>10, BlankOutside
  <1>12. Same(f, h, R)
    BY <1>1, <1>10, <1>11 DEF Same, Wrote
  <1>13. Sorted(c, gr, o, p, i, g, h, R, H, Z)
    BY <1>3, <1>12, SortedOn
  <1>14. ASSUME ~gr PROVE PathSorted(d, o, q, i, g, h, R, H, Z)
    <2>1. PathSorted(c, o, p, i, g, h, R, H, Z)
      BY <1>2, <1>13, <1>14 DEF Sorted
    <2>2. Road(o, p, h, R, H, Z) /\ Admits(h[TopId(p)].keys, i, o.key)
      BY <1>2, <2>1 DEF PathSorted
    <2>3. q = Put(p, node)
      BY <1>1, <1>5
    <2>4. Road(o, q, h, R, H, Z)
      BY <1>3, <1>8, <2>2, <2>3, RoadPut
    <2>5. QED BY <1>2, <1>9, <1>11, <2>2, <2>4 DEF PathSorted
  <1>15. ASSUME gr PROVE Child(q, 1) \notin R
    BY <1>2, <1>5, <1>8, <1>15 DEF Sorted, Child
  <1>16. Forest(h, R, H, Z)
    BY <1>13 DEF Sorted
  <1>17. QED BY <1>1, <1>2, <1>11, <1>14, <1>15, <1>16 DEF Sorted

\* SaveChild of a growing writer.
LEMMA SortedSaveHalf ==
  ASSUME NEW c, NEW gr, NEW o, NEW p, NEW i, NEW g, NEW kd, NEW sb, NEW f, NEW n, NEW K, NEW C, NEW L,
         Sane(c, gr, o, p, i, g, kd, sb, f, n, K, C, L), NEW R, NEW H, NEW Z, Sorted(c, gr, o, p, i, g, f, R, H, Z),
         NEW d, NEW ge, NEW oo, NEW q, NEW j, NEW e, NEW h, DidSaveChild(c, gr, o, p, i, g, kd, f, d, ge, oo, q, j, e, h), gr
  PROVE  Sorted(d, ge, oo, q, j, e, h, R, H, Z)
  <1>1. c = "saveChild" /\ d = "saveRoot" /\ ge = gr /\ oo = o /\ q = p /\ j = i /\ e = g /\ Wrote(f, Child(p, i), kd, h)
    BY DEF DidSaveChild
  <1>2. c \in Splitting /\ c \in Walking /\ d \in Walking
    BY <1>1 DEF Splitting, Walking
  <1>3. i = 1
    BY <1>2 DEF Sane, Intact, GrowSafe
  <1>4. Forest(f, R, H, Z) /\ R \subseteq DOMAIN f /\ Child(p, 1) \notin R /\ g \notin R
    BY <1>1, <1>2 DEF Sorted, Forest
  <1>5. Same(f, h, R)
    BY <1>1, <1>3, <1>4 DEF Same, Wrote
  <1>6. Forest(h, R, H, Z)
    BY <1>4, <1>5, ForestOn
  <1>7. QED BY <1>1, <1>4, <1>6 DEF Sorted

\* A node that is ahead of its page is saved.
LEMMA ForestWrite ==
  ASSUME NEW f, NEW R, NEW H, NEW Z, Forest(f, R, H, Z), NEW t \in R, NEW node,
         Good(node, H[t], Z[t], R, H, Z), Ahead(node, f[t], f, R), NEW h, Wrote(f, t, node, h)
  PROVE  Forest(h, R, H, Z)
  <1>1. /\ DOMAIN h = DOMAIN f \cup {t} /\ h[t] = node /\ \A q \in DOMAIN f : q # t => h[q] = f[q]
    BY DEF Wrote
  <1>2. R \subseteq DOMAIN f
    BY DEF Forest
  <1>3. \A q \in R : Good(h[q], H[q], Z[q], R, H, Z)
    BY <1>1, <1>2 DEF Forest
  <1>4. ASSUME NEW x, x \in Range(node.children), NEW r \in R, r # t, x \in Range(f[r].children)
        PROVE  FALSE
    <2>1. PICK y \in DOMAIN node.children : x = node.children[y]
      BY <1>4 DEF Range
    <2>2. \/ Orphan(x, f, R)
          \/ \E z \in DOMAIN f[t].children : f[t].children[z] = x
      BY <2>1 DEF Ahead, AheadAt
    <2>3. CASE Orphan(x, f, R)
      BY <2>3, <1>4 DEF Orphan
    <2>4. CASE \E z \in DOMAIN f[t].children : f[t].children[z] = x
      <3>1. x \in Range(f[t].children)
        BY <2>4 DEF Range
      <3>2. QED BY <3>1, <1>4 DEF Forest
    <2>5. QED BY <2>2, <2>3, <2>4
  <1>5. ASSUME NEW q \in R, NEW r \in R, NEW x, x \in Range(h[q].children), x \in Range(h[r].children)
        PROVE  q = r
    <2>1. CASE q = t /\ r # t
      BY <2>1, <1>1, <1>2, <1>4, <1>5
    <2>2. CASE q # t /\ r = t
      BY <2>2, <1>1, <1>2, <1>4, <1>5
    <2>3. CASE q # t /\ r # t
      <3>1. h[q] = f[q] /\ h[r] = f[r]
        BY <2>3, <1>1, <1>2
      <3>2. QED BY <3>1, <1>5 DEF Forest
    <2>4. QED BY <2>1, <2>2, <2>3
  <1>6. R \subseteq DOMAIN h
    BY <1>1, <1>2
  <1>7. QED BY <1>3, <1>5, <1>6 DEF Forest

\* The frames above it stay as they are: their children are higher.
LEMMA FrameWrite ==
  ASSUME NEW f, NEW R, NEW H, NEW Z, Forest(f, R, H, Z), NEW t \in R, NEW node,
         Good(node, H[t], Z[t], R, H, Z), NEW h, Wrote(f, t, node, h),
         NEW fr, fr.id \in R, H[t] < H[fr.id], FrameOK(fr, f, R, H, Z)
  PROVE  FrameOK(fr, h, R, H, Z)
  <1>1. /\ DOMAIN h = DOMAIN f \cup {t} /\ h[t] = node /\ \A q \in DOMAIN f : q # t => h[q] = f[q]
    BY DEF Wrote
  <1>2. R \subseteq DOMAIN f /\ H[t] \in Nat /\ H[fr.id] \in Nat
    BY DEF Forest
  <1>3. h[fr.id] = f[fr.id]
    BY <1>1, <1>2
  <1>4. PICK cs, ks, a : cs = fr.node.children /\ ks = fr.node.keys /\ a = fr.id
    OBVIOUS
  <1>5. ASSUME NEW y \in DOMAIN cs, Orphan(cs[y], f, R) PROVE Orphan(cs[y], h, R)
    <2>1. H[cs[y]] + 1 = H[a]
      BY <1>4 DEF FrameOK, Good, GoodAt, Under
    <2>2. cs[y] \notin Range(node.children)
      <3>1. ASSUME NEW z \in DOMAIN node.children, node.children[z] = cs[y] PROVE FALSE
        <4>1. H[cs[y]] + 1 = H[t]
          BY <3>1 DEF Good, GoodAt, Under
        <4>2. QED BY <4>1, <2>1, <1>2, <1>4
      <3>2. QED BY <3>1 DEF Range
    <2>3. ASSUME NEW q \in R PROVE cs[y] \notin Range(h[q].children)
      <3>1. CASE q = t
        BY <3>1, <2>2, <1>1
      <3>2. CASE q # t
        <4>1. h[q] = f[q]
          BY <3>2, <1>1, <1>2
        <4>2. QED BY <4>1, <1>5 DEF Orphan
      <3>3. QED BY <3>1, <3>2
    <2>4. QED BY <2>3 DEF Orphan
  <1>6. AheadAt(ks, cs, f[a], f, R)
    BY <1>4 DEF FrameOK, Ahead
  <1>7. AheadAt(ks, cs, f[a], h, R)
    BY <1>5, <1>6 DEF AheadAt
  <1>8. QED BY <1>3, <1>4, <1>7 DEF FrameOK, Ahead

\* Unwind.
LEMMA SortedUnwind ==
  ASSUME NEW c, NEW gr, NEW o, NEW p, NEW i, NEW g, NEW kd, NEW sb, NEW f, NEW n, NEW K, NEW C, NEW L,
         Sane(c, gr, o, p, i, g, kd, sb, f, n, K, C, L), NEW R, NEW H, NEW Z, Sorted(c, gr, o, p, i, g, f, R, H, Z),
         NEW d, NEW ge, NEW oo, NEW q, NEW j, NEW e, NEW h, DidUnwind(c, gr, o, p, f, d, ge, oo, q, h)
  PROVE  Sorted(d, ge, oo, q, j, e, h, R, H, Z)
  <1>1. /\ c = "unwind" /\ d = "unwind" /\ ge = gr /\ oo = o /\ Len(p) > 1 /\ q = Front(p)
        /\ Wrote(f, TopId(p), TopOf(p), h)
    BY DEF DidUnwind
  <1>2. c \in Walking /\ c \notin Splitting /\ c # "enter" /\ c # "saveChild"
    BY <1>1 DEF Walking, Splitting, Parting
  <1>3. ~gr
    BY <1>1, <1>2 DEF Sane, Intact, GrowSafe, Growing, Before
  <1>4. PICK l \in Nat : l = Len(p)
    BY <1>2, SaneTop
  <1>5. p \in Seq(Frame) /\ DOMAIN p = 1..l /\ l > 1
    BY <1>1, <1>2, <1>4, SaneTop
  <1>6. Shortened(p, l, q)
    BY <1>1, <1>4, <1>5, ShortenedFacts
  <1>7. DOMAIN q = 1..l - 1 /\ Len(q) = l - 1 /\ \A x \in 1..l - 1 : q[x] = p[x]
    BY <1>6 DEF Shortened
  <1>8. PICK t, node : t = TopId(p) /\ node = TopOf(p)
    OBVIOUS
  <1>9. PathSorted(c, o, p, i, g, f, R, H, Z) /\ Forest(f, R, H, Z) /\ Road(o, p, f, R, H, Z)
    BY <1>2, <1>3 DEF Sorted, PathSorted
  <1>10. l \in DOMAIN p /\ p[l].id = t /\ p[l].node = node
    BY <1>4, <1>5, <1>8 DEF TopId, TopOf
  <1>11. t \in R /\ Good(node, H[t], Z[t], R, H, Z) /\ Ahead(node, f[t], f, R)
    <2>1. FrameOK(p[l], f, R, H, Z)
      BY <1>1, <1>4, <1>9 DEF PathSorted
    <2>2. QED BY <2>1, <1>9, <1>10 DEF FrameOK, Road
  <1>12. Wrote(f, t, node, h)
    BY <1>1, <1>8
  <1>13. Forest(h, R, H, Z)
    BY <1>9, <1>11, <1>12, ForestWrite
  <1>14. ASSUME NEW x \in 1..l - 1 PROVE FrameOK(p[x], h, R, H, Z) /\ x \in DOMAIN p
    <2>1. x \in DOMAIN p /\ x < l /\ x # l
      BY <1>5
    <2>2. H[t] < H[p[x].id] /\ p[x].id \in R /\ FrameOK(p[x], f, R, H, Z)
      BY <2>1, <1>4, <1>9, <1>10 DEF Road
    <2>3. QED BY <2>1, <2>2, <1>9, <1>11, <1>12, FrameWrite
  <1>15. l - 1 \in 1..l - 1
    BY <1>5
  <1>16. Road(o, q, h, R, H, Z)
    <2>1. \A x \in DOMAIN q : q[x] = p[x] /\ x \in DOMAIN p /\ FrameOK(q[x], h, R, H, Z)
      BY <1>7, <1>14
    <2>2. QED BY <2>1, <1>9 DEF Road
  <1>17. FrameOK(q[Len(q)], h, R, H, Z)
    BY <1>7, <1>14, <1>15
  <1>18. PathSorted(d, oo, q, j, e, h, R, H, Z)
    BY <1>1, <1>2, <1>16, <1>17 DEF PathSorted
  <1>19. QED BY <1>1, <1>3, <1>13, <1>18 DEF Sorted

\* Finish and SyncFail.
LEMMA SortedEnd ==
  ASSUME NEW c, NEW gr, NEW o, NEW p, NEW i, NEW g, NEW kd, NEW sb, NEW f, NEW n, NEW K, NEW C, NEW L,
         Sane(c, gr, o, p, i, g, kd, sb, f, n, K, C, L), NEW R, NEW H, NEW Z, Sorted(c, gr, o, p, i, g, f, R, H, Z),
         NEW d, NEW ge, NEW oo, NEW q, NEW j, NEW e, NEW h, DidEnd(c, p, f, d, h)
  PROVE  Sorted(d, ge, oo, q, j, e, h, R, H, Z)
  <1>1. c = "unwind" /\ d = "idle" /\ Len(p) = 1 /\ Wrote(f, Root, TopOf(p), h)
    BY DEF DidEnd
  <1>2. c \in Walking /\ d \notin Walking /\ ~gr
    BY <1>1 DEF Walking, Parting, Sane, Intact, GrowSafe, Growing, Before, Splitting
  <1>3. p[1].id = Root
    BY <1>2 DEF Sane, Intact, PathSafe
  <1>4. Forest(f, R, H, Z) /\ FrameOK(p[1], f, R, H, Z)
    BY <1>1, <1>2 DEF Sorted, PathSorted
  <1>5. PICK node : node = TopOf(p)
    OBVIOUS
  <1>6. node = p[1].node /\ Wrote(f, Root, node, h)
    BY <1>1, <1>5 DEF TopOf
  <1>7. Good(node, H[Root], Z[Root], R, H, Z) /\ Ahead(node, f[Root], f, R) /\ Root \in R
    BY <1>3, <1>4, <1>6 DEF FrameOK, Forest
  <1>8. Forest(h, R, H, Z)
    BY <1>4, <1>6, <1>7, ForestWrite
  <1>9. QED BY <1>2, <1>8, SortedOnly

\* The keys before the gap are smaller, the others are not.
LEMMA GapPlace ==
  ASSUME NEW ks \in Seq(Keys), Ascending(ks), NEW k \in Keys
  PROVE  \A j \in DOMAIN ks : j < Gap(ks, k) <=> ks[j] < k
  <1>1. PICK n \in Nat : n = Len(ks) /\ DOMAIN ks = 1..n
    BY SeqDomain
  <1>2. k \in Int /\ \A j \in 1..n : ks[j] \in Int
    BY <1>1, SeqDomain, KeyAssumption
  <1>3. PICK U : U = {i \in DOMAIN ks : ks[i] < k}
    OBVIOUS
  <1>4. \A j \in 1..n : j \in U <=> ks[j] < k
    BY <1>1, <1>3
  <1>5. ASSUME NEW a \in 1..n, NEW b \in 1..n, a < b, b \in U PROVE a \in U
    <2>1. ks[a] <= ks[b] /\ ks[b] < k
      BY <1>1, <1>4, <1>5 DEF Ascending
    <2>2. QED BY <2>1, <1>2, <1>4
  <1>6. \E m \in 0..n : U = 1..m
    <2>1. PICK V : V = {j \in 1..n : j \notin U}
      OBVIOUS
    <2>2. CASE V = {}
      <3>1. U = 1..n
        BY <2>1, <2>2, <1>1, <1>3
      <3>2. QED BY <3>1
    <2>3. CASE V # {}
      <3>1. V \subseteq Nat
        BY <2>1
      <3>2. PICK v \in V : \A y \in V : v <= y
        BY <3>1, <2>3, LeastNat
      <3>3. v \in 1..n /\ v \notin U
        BY <2>1
      <3>4. ASSUME NEW j \in 1..n PROVE j \in U <=> j < v
        <4>1. CASE j < v
          <5>1. j \notin V
            BY <4>1, <3>2, <3>3
          <5>2. QED BY <5>1, <4>1, <2>1
        <4>2. CASE j = v
          BY <4>2, <3>3
        <4>3. CASE v < j
          BY <4>3, <3>3, <1>5
        <4>4. QED BY <4>1, <4>2, <4>3, <3>3
      <3>5. U \subseteq 1..n
        BY <1>1, <1>3
      <3>6. U = 1..v - 1
        <4>1. \A j : j \in 1..v - 1 <=> j \in 1..n /\ j < v
          BY <3>3
        <4>2. \A j : j \in U <=> j \in 1..v - 1
          BY <3>4, <3>5, <4>1
        <4>3. QED BY <4>2
      <3>7. v - 1 \in 0..n
        BY <3>3
      <3>8. QED BY <3>6, <3>7
    <2>4. QED BY <2>2, <2>3
  <1>7. PICK m \in 0..n : U = 1..m
    BY <1>6
  <1>8. Cardinality(1..m) = m
    <2>1. Cardinality(1..m) = IF 1 > m THEN 0 ELSE m - 1 + 1
      <3>1. 1 \in Int /\ m \in Int
        BY <1>1
      <3>2. QED BY <3>1, FS_Interval
    <2>2. QED BY <2>1, <1>1
  <1>9. Gap(ks, k) = m + 1
    <2>1. Gap(ks, k) = Cardinality(U) + 1
      BY <1>3 DEF Gap
    <2>2. QED BY <2>1, <1>7, <1>8
  <1>10. \A j \in 1..n : j < m + 1 <=> j \in 1..m
    BY <1>1, <1>7
  <1>11. QED BY <1>1, <1>4, <1>7, <1>9, <1>10

\* A key belongs in its gap, and between the children on both sides of an equal key.
LEMMA GapAdmits ==
  ASSUME NEW ks \in Seq(Keys), Ascending(ks), NEW k \in Keys
  PROVE  /\ Admits(ks, Gap(ks, k), k)
         /\ \A y \in Matches(ks, k) : Admits(ks, y, k) /\ Admits(ks, y + 1, k)
  <1>1. PICK n \in Nat : n = Len(ks) /\ DOMAIN ks = 1..n
    BY SeqDomain
  <1>2. k \in Int /\ \A j \in 1..n : ks[j] \in Int
    BY <1>1, SeqDomain, KeyAssumption
  <1>3. PICK v : v = Gap(ks, k)
    OBVIOUS
  <1>4. v \in 1..n + 1 /\ \A j \in 1..n : j < v <=> ks[j] < k
    BY <1>1, <1>3, GapRange, GapPlace
  <1>5. \A j \in 1..n : (j < v => ks[j] <= k) /\ (j >= v => k <= ks[j])
    BY <1>2, <1>4
  <1>6. ASSUME NEW y \in Matches(ks, k) PROVE Admits(ks, y, k) /\ Admits(ks, y + 1, k)
    <2>1. y \in 1..n /\ ks[y] = k
      BY <1>1 DEF Matches
    <2>2. ASSUME NEW j \in 1..n
          PROVE  /\ (j < y => ks[j] <= k) /\ (j >= y => k <= ks[j])
                 /\ (j < y + 1 => ks[j] <= k) /\ (j >= y + 1 => k <= ks[j])
      <3>1. (j < y => ks[j] <= ks[y]) /\ (y < j => ks[y] <= ks[j])
        BY <1>1, <2>1 DEF Ascending
      <3>2. j < y \/ j = y \/ y < j
        BY <2>1
      <3>3. ks[j] \in Int /\ j \in Int /\ y \in Int
        BY <1>2, <2>1
      <3>4. QED BY <3>1, <3>2, <3>3, <2>1, <1>2
    <2>3. QED BY <2>2, <1>1 DEF Admits
  <1>7. QED BY <1>1, <1>3, <1>5, <1>6 DEF Admits

\* A search goes to a child where the key belongs.
LEMMA ChildAdmits ==
  ASSUME NEW S, NEW node, Sound(node, S), ~node.leaf, node.children # <<>>, Ascending(node.keys), NEW k \in Keys,
         NEW y \in ChildIndexes(node, k)
  PROVE  Admits(node.keys, y, k)
  <1>1. node \in Node
    BY DEF Sound, Closed
  <1>2. PICK ks, l : ks = node.keys /\ l = Len(node.children)
    OBVIOUS
  <1>3. PICK n \in Nat : n = Len(ks) /\ DOMAIN ks = 1..n
    BY <1>1, <1>2, NodeFields, SeqDomain
  <1>4. ks \in Seq(Keys) /\ Ascending(ks)
    BY <1>1, <1>2, NodeFields
  <1>5. l = n + 1
    BY <1>2, <1>3, InnerSize
  <1>6. PICK v : v = Gap(ks, k)
    OBVIOUS
  <1>7. v \in 1..n + 1 /\ Admits(ks, v, k)
    BY <1>3, <1>4, <1>6, GapRange, GapAdmits
  <1>8. \A x \in Matches(ks, k) : x \in 1..n /\ Admits(ks, x + 1, k)
    BY <1>3, <1>4, GapAdmits DEF Matches
  <1> DEFINE found == {i + 1 : i \in Matches(node.keys, k)}
  <1>9. PICK j : /\ y = (IF j > l THEN l ELSE j)
                 /\ j \in (IF found = {} THEN {Gap(node.keys, k)} ELSE found)
    BY <1>2 DEF ChildIndexes
  <1>10. j = v \/ \E x \in Matches(ks, k) : j = x + 1
    BY <1>2, <1>6, <1>9
  <1>11. j \in 1..n + 1 /\ Admits(ks, j, k)
    BY <1>7, <1>8, <1>10
  <1>12. y = j
    BY <1>3, <1>5, <1>9, <1>11
  <1>13. QED BY <1>2, <1>11, <1>12

\* t is ks with k in the i-th place, n keys before.
KeyPut(ks, n, i, k, t) ==
  /\ n \in Nat /\ i \in 1..n + 1 /\ DOMAIN ks = 1..n /\ DOMAIN t = 1..n + 1
  /\ \A j \in 1..n + 1 : t[j] = IF j < i THEN ks[j] ELSE IF j = i THEN k ELSE ks[j - 1]

\* Where it belongs the keys still ascend.
LEMMA KeyPutAscends ==
  ASSUME NEW ks, NEW n, NEW i, NEW k \in Int, NEW t, KeyPut(ks, n, i, k, t), Ascending(ks), Admits(ks, i, k),
         Range(ks) \subseteq Int
  PROVE  Ascending(t) /\ Range(t) \subseteq Range(ks) \cup {k}
  <1>1. /\ n \in Nat /\ i \in 1..n + 1 /\ DOMAIN ks = 1..n /\ DOMAIN t = 1..n + 1
        /\ \A j \in 1..n + 1 : t[j] = IF j < i THEN ks[j] ELSE IF j = i THEN k ELSE ks[j - 1]
    BY DEF KeyPut
  <1>2. \A j \in 1..n : ks[j] \in Int
    BY <1>1 DEF Range
  <1>3. \A a, b \in 1..n : a < b => ks[a] <= ks[b]
    BY <1>1 DEF Ascending
  <1>4. \A a \in 1..n : (a < i => ks[a] <= k) /\ (a >= i => k <= ks[a])
    BY <1>1 DEF Admits
  <1>5. \A j \in 1..n + 1 : (j < i => j \in 1..n) /\ (j > i => j - 1 \in 1..n /\ j - 1 >= i)
    BY <1>1
  <1>6. ASSUME NEW a \in 1..n + 1, NEW b \in 1..n + 1, a < b PROVE t[a] <= t[b]
    <2>1. CASE b < i
      <3>1. a < i
        BY <2>1, <1>6, <1>1
      <3>2. t[a] = ks[a] /\ t[b] = ks[b] /\ a \in 1..n /\ b \in 1..n
        BY <2>1, <3>1, <1>1, <1>5
      <3>3. QED BY <3>2, <1>3, <1>6
    <2>2. CASE b = i
      <3>1. t[a] = ks[a] /\ t[b] = k /\ a \in 1..n /\ a < i
        BY <2>2, <1>1, <1>5, <1>6
      <3>2. QED BY <3>1, <1>4
    <2>3. CASE i < b
      <3>1. t[b] = ks[b - 1] /\ b - 1 \in 1..n /\ b - 1 >= i
        <4>1. ~(b < i) /\ b # i
          BY <2>3, <1>1
        <4>2. QED BY <4>1, <2>3, <1>1, <1>5
      <3>2. PICK c : c = b - 1
        OBVIOUS
      <3>3. c \in 1..n /\ c >= i /\ t[b] = ks[c] /\ a <= c
        BY <3>1, <3>2, <1>1, <1>6
      <3>4. CASE a < i
        <4>1. t[a] = ks[a] /\ a \in 1..n /\ a < c
          BY <3>3, <3>4, <1>1, <1>5
        <4>2. QED BY <4>1, <3>3, <1>3
      <3>5. CASE a = i
        <4>1. t[a] = k
          BY <3>5, <1>1
        <4>2. QED BY <4>1, <3>3, <1>4
      <3>6. CASE i < a
        <4>1. t[a] = ks[a - 1] /\ a - 1 \in 1..n
          <5>1. ~(a < i) /\ a # i
            BY <3>6, <1>1
          <5>2. QED BY <5>1, <3>6, <1>1, <1>5
        <4>2. PICK x : x = a - 1
          OBVIOUS
        <4>3. x \in 1..n /\ t[a] = ks[x] /\ x < c
          BY <4>1, <4>2, <3>2, <1>6
        <4>4. QED BY <4>3, <3>3, <1>3
      <3>7. QED BY <3>4, <3>5, <3>6, <1>1
    <2>4. QED BY <2>1, <2>2, <2>3, <1>1
  <1>7. ASSUME NEW j \in 1..n + 1 PROVE t[j] \in Range(ks) \cup {k}
    <2>1. CASE j < i
      BY <2>1, <1>1, <1>5 DEF Range
    <2>2. CASE j = i
      BY <2>2, <1>1
    <2>3. CASE i < j
      <3>1. t[j] = ks[j - 1] /\ j - 1 \in 1..n
        <4>1. ~(j < i) /\ j # i
          BY <2>3, <1>1
        <4>2. QED BY <4>1, <2>3, <1>1, <1>5
      <3>2. QED BY <3>1, <1>1 DEF Range
    <2>4. QED BY <2>1, <2>2, <2>3, <1>1
  <1>8. QED BY <1>1, <1>6, <1>7 DEF Ascending, Range

\* What a leaf is with k set: its keys still ascend.
LEMMA LeafAscends ==
  ASSUME NEW S, NEW node, Sound(node, S), node.leaf, NEW k \in Keys, NEW v \in Value,
         NEW new \in LeafWith(node, k, v), NEW ks, ks = node.keys, Ascending(ks),
         NEW t, t = new.keys
  PROVE  Ascending(t) /\ Range(t) \subseteq Range(ks) \cup {k} /\ new.children = <<>>
  <1>1. node \in Node /\ node.children = <<>>
    BY DEF Sound, Closed, Shaped
  <1>2. PICK n \in Nat : n = Len(ks) /\ DOMAIN ks = 1..n
    BY <1>1, NodeFields, SeqDomain
  <1>3. ks \in Seq(Keys) /\ node.values \in Seq(Value) /\ Len(node.values) = n
    BY <1>1, <1>2, NodeFields DEF Sound, Shaped
  <1>4. CASE Matches(ks, k) # {}
    <2>1. PICK i \in Matches(ks, k) : new = [node EXCEPT !.values = ReplaceAt(@, i, v)]
      BY <1>4 DEF LeafWith
    <2>2. PICK vals : vals = ReplaceAt(node.values, i, v)
      OBVIOUS
    <2>3. new = [node EXCEPT !.values = vals]
      BY <2>1, <2>2
    <2>4. new.keys = ks /\ new.children = <<>>
      BY <2>3, <1>1 DEF Node
    <2>5. QED BY <2>4
  <1>5. CASE Matches(ks, k) = {}
    <2>1. PICK g : g = Gap(ks, k)
      OBVIOUS
    <2>2. g \in 1..n + 1 /\ Admits(ks, g, k)
      BY <2>1, <1>2, <1>3, GapRange, GapAdmits
    <2>3. PICK keys, vals : keys = InsertAt(ks, g, k) /\ vals = InsertAt(node.values, g, v)
      OBVIOUS
    <2>4. g \in 1..Len(ks) + 1
      BY <1>2, <2>2
    <2>5. Inserted(Keys, ks, g, k, InsertAt(ks, g, k))
      BY <2>4, <1>3, InsertAny
    <2>6. Inserted(Keys, ks, g, k, keys)
      BY <2>3, <2>5
    <2>7. /\ keys \in Seq(Keys) /\ DOMAIN keys = 1..n + 1
          /\ \A j \in 1..n + 1 : keys[j] = IF j < g THEN ks[j] ELSE IF j = g THEN k ELSE ks[j - 1]
      BY <2>6, <1>2 DEF Inserted
    <2>8. KeyPut(ks, n, g, k, keys)
      BY <1>2, <2>2, <2>7 DEF KeyPut
    <2>9. k \in Int /\ Range(ks) \subseteq Int
      <3>1. \A j \in DOMAIN ks : ks[j] \in Keys
        BY <1>3, SeqDomain
      <3>2. QED BY <3>1, KeyAssumption DEF Range
    <2>10. Ascending(keys) /\ Range(keys) \subseteq Range(ks) \cup {k}
      BY <2>2, <2>8, <2>9, KeyPutAscends
    <2>11. vals \in Seq(Value)
      BY <2>2, <2>3, <1>3, InsertAtFacts
    <2>12. new = [node EXCEPT !.keys = keys, !.values = vals]
      BY <1>5, <2>1, <2>3 DEF LeafWith
    <2>13. new.keys = keys /\ new.children = <<>>
      BY <2>12, <1>1 DEF Node
    <2>14. QED BY <2>10, <2>13
  <1>6. QED BY <1>4, <1>5

\* VisitLeaf.
LEMMA SortedLeaf ==
  ASSUME NEW c, NEW gr, NEW o, NEW p, NEW i, NEW g, NEW kd, NEW sb, NEW f, NEW n, NEW K, NEW C, NEW L,
         Sane(c, gr, o, p, i, g, kd, sb, f, n, K, C, L), Exact(c, gr, o, p, i, g, f),
         NEW R, NEW H, NEW Z, Sorted(c, gr, o, p, i, g, f, R, H, Z),
         NEW d, NEW ge, NEW oo, NEW q, NEW j, NEW e, NEW h, DidLeaf(c, gr, o, p, f, d, ge, oo, q, h)
  PROVE  Sorted(d, ge, oo, q, j, e, h, R, H, Z)
  <1>1. c = "visit" /\ d = "unwind" /\ TopOf(p).leaf /\ ge = gr /\ oo = o /\ h = f
    BY DEF DidLeaf
  <1>2. PICK new : new \in LeafWith(TopOf(p), o.key, o.val) /\ q = Put(p, new)
    BY DEF DidLeaf
  <1>3. c \in Walking /\ d \in Walking /\ c \notin Splitting /\ d \notin Splitting /\ c \notin Parting
    BY <1>1 DEF Walking, Splitting, Parting
  <1>4. ~gr
    BY <1>1, <1>3 DEF Sane, Intact, GrowSafe, Growing, Before
  <1>5. PICK t, node, S, k, v : t = TopId(p) /\ node = TopOf(p) /\ S = DOMAIN f /\ k = o.key /\ v = o.val
    OBVIOUS
  <1>6. p \in Seq(Frame) /\ p # <<>> /\ Len(p) \in DOMAIN p /\ Sound(node, S)
    BY <1>3, <1>5, SaneTop
  <1>7. k \in Keys /\ v \in Value
    BY <1>1, <1>5 DEF Sane, WriterInv
  <1>8. node = f[t]
    BY <1>1, <1>5 DEF Exact, Copies
  <1>9. Forest(f, R, H, Z) /\ Road(o, p, f, R, H, Z)
    BY <1>3, <1>4 DEF Sorted, PathSorted
  <1>10. t \in R /\ k \in Z[t]
    BY <1>5, <1>6, <1>9 DEF Road, TopId
  <1>11. Good(node, H[t], Z[t], R, H, Z)
    BY <1>8, <1>9, <1>10 DEF Forest
  <1>12. PICK ks, nk : ks = node.keys /\ nk = new.keys
    OBVIOUS
  <1>13. Ascending(ks) /\ Range(ks) \subseteq Z[t] /\ H[t] = 0
    BY <1>1, <1>5, <1>11, <1>12 DEF Good, GoodAt
  <1>14. Ascending(nk) /\ Range(nk) \subseteq Range(ks) \cup {k} /\ new.children = <<>>
    BY <1>1, <1>2, <1>5, <1>6, <1>7, <1>12, <1>13, LeafAscends
  <1>15. Sound(new, S) /\ new.leaf /\ new \in Node
    <2>1. Sound(new, S) /\ new.leaf
      BY <1>1, <1>2, <1>5, <1>6, <1>7, LeafWithFacts
    <2>2. QED BY <2>1 DEF Sound, Closed
  <1>16. PICK cs : cs = <<>>
    OBVIOUS
  <1>17. DOMAIN cs = {}
    BY <1>16
  <1>18. GoodAt(new.leaf, nk, cs, H[t], Z[t], R, H, Z)
    BY <1>10, <1>13, <1>14, <1>15, <1>17 DEF GoodAt
  <1>19. Good(new, H[t], Z[t], R, H, Z)
    BY <1>12, <1>14, <1>16, <1>18 DEF Good
  <1>20. Ahead(new, f[t], f, R)
    BY <1>14, <1>16, <1>17 DEF Ahead, AheadAt
  <1>21. Road(o, q, f, R, H, Z)
    BY <1>2, <1>6, <1>9, <1>15, RoadPut
  <1>22. q[Len(q)].id = t /\ q[Len(q)].node = new
    BY <1>2, <1>5, <1>6, <1>15, PutFacts
  <1>23. FrameOK(q[Len(q)], f, R, H, Z)
    BY <1>19, <1>20, <1>22 DEF FrameOK
  <1>24. PathSorted(d, oo, q, j, e, h, R, H, Z)
    BY <1>1, <1>3, <1>21, <1>23 DEF PathSorted
  <1>25. QED BY <1>1, <1>4, <1>9, <1>24 DEF Sorted

\* VisitInternal at a full child.
LEMMA SortedChoose ==
  ASSUME NEW c, NEW gr, NEW o, NEW p, NEW i, NEW g, NEW kd, NEW sb, NEW f, NEW n, NEW K, NEW C, NEW L,
         Sane(c, gr, o, p, i, g, kd, sb, f, n, K, C, L), Exact(c, gr, o, p, i, g, f),
         NEW R, NEW H, NEW Z, Sorted(c, gr, o, p, i, g, f, R, H, Z),
         NEW d, NEW ge, NEW oo, NEW q, NEW j, NEW e, NEW h, DidChoose(c, gr, o, p, f, d, ge, oo, q, j, h)
  PROVE  Sorted(d, ge, oo, q, j, e, h, R, H, Z)
  <1>1. c = "visit" /\ ~TopOf(p).leaf /\ d = "split" /\ ge = gr /\ oo = o /\ q = p /\ h = f
        /\ j \in ChildIndexes(TopOf(p), o.key)
    BY DEF DidChoose
  <1>2. c \in Walking /\ d \in Walking /\ c \notin Splitting /\ c \notin Parting
    BY <1>1 DEF Walking, Splitting, Parting
  <1>3. ~gr
    BY <1>1, <1>2 DEF Sane, Intact, GrowSafe, Growing, Before
  <1>4. PICK t, node, S, k : t = TopId(p) /\ node = TopOf(p) /\ S = DOMAIN f /\ k = o.key
    OBVIOUS
  <1>5. Sound(node, S) /\ Len(p) \in DOMAIN p
    BY <1>2, <1>4, SaneTop
  <1>6. node.children # <<>>
    <2>1. gr \in BOOLEAN /\ Intact("visit", gr, o, p, i, g, kd, sb, f, n, K, C, L)
      BY <1>1 DEF Sane
    <2>2. QED BY <2>1, <1>1, <1>4, IntactChoose
  <1>7. k \in Keys
    BY <1>1, <1>4 DEF Sane, WriterInv
  <1>8. node = f[t]
    BY <1>1, <1>4 DEF Exact, Copies
  <1>9. Forest(f, R, H, Z) /\ Road(o, p, f, R, H, Z)
    BY <1>2, <1>3 DEF Sorted, PathSorted
  <1>10. t \in R
    BY <1>4, <1>5, <1>9 DEF Road, TopId
  <1>11. Ascending(node.keys)
    BY <1>8, <1>9, <1>10 DEF Forest, Good, GoodAt
  <1>12. Admits(node.keys, j, k)
    BY <1>1, <1>4, <1>5, <1>6, <1>7, <1>11, ChildAdmits
  <1>13. Admits(f[TopId(p)].keys, j, o.key)
    BY <1>4, <1>8, <1>12
  <1>14. PathSorted(d, oo, q, j, e, h, R, H, Z)
    BY <1>1, <1>9, <1>13 DEF PathSorted
  <1>15. QED BY <1>1, <1>3, <1>9, <1>14 DEF Sorted

\* Y is Z with the key k below page a as well.
Plus(Z, Y, R, a, k) ==
  /\ Y \in [R -> SUBSET Keys] /\ k \in Y[a]
  /\ \A x \in R : Z[x] \subseteq Y[x] /\ Y[x] \subseteq Z[x] \cup {k} /\ (x # a => Y[x] = Z[x])

\* A node stays good when the key belongs where it points to a.
LEMMA GoodPlus ==
  ASSUME NEW lf, NEW ks, NEW cs, NEW m, NEW S, NEW R, NEW H, NEW Z, GoodAt(lf, ks, cs, m, S, R, H, Z),
         NEW Y, NEW a, NEW k, Plus(Z, Y, R, a, k), NEW T, S \subseteq T,
         \A z \in DOMAIN cs : cs[z] = a => k \in T /\ Admits(ks, z, k)
  PROVE  GoodAt(lf, ks, cs, m, T, R, H, Y)
  <1>1. ASSUME NEW z \in DOMAIN cs PROVE Under(ks, cs[z], z, m, T, R, H, Y)
    <2>1. Under(ks, cs[z], z, m, S, R, H, Z)
      BY <1>1 DEF GoodAt
    <2>2. cs[z] \in R /\ H[cs[z]] + 1 = m /\ Z[cs[z]] \subseteq T /\ \A x \in Z[cs[z]] : Admits(ks, z, x)
      BY <2>1 DEF Under
    <2>3. CASE cs[z] = a
      <3>1. Y[cs[z]] \subseteq Z[cs[z]] \cup {k}
        BY <2>2 DEF Plus
      <3>2. k \in T /\ Admits(ks, z, k)
        BY <1>1, <2>3
      <3>3. QED BY <3>1, <3>2, <2>2 DEF Under
    <2>4. CASE cs[z] # a
      BY <2>2, <2>4 DEF Plus, Under
    <2>5. QED BY <2>3, <2>4
  <1>2. QED BY <1>1 DEF GoodAt

\* The pages stay ordered when the writer goes down from a frame on page t to its y-th child a.
LEMMA ForestPlus ==
  ASSUME NEW f, NEW R, NEW H, NEW Z, Forest(f, R, H, Z), NEW t \in R, NEW node, Ahead(node, f[t], f, R),
         NEW y \in DOMAIN node.children, NEW a, a = node.children[y], NEW k \in Keys, k \in Z[t],
         Admits(node.keys, y, k), NEW Y, Plus(Z, Y, R, a, k)
  PROVE  Forest(f, R, H, Y)
  <1>1. ASSUME NEW q \in R PROVE Good(f[q], H[q], Y[q], R, H, Y)
    <2>1. PICK lf, ks, cs : lf = f[q].leaf /\ ks = f[q].keys /\ cs = f[q].children
      OBVIOUS
    <2>2. GoodAt(lf, ks, cs, H[q], Z[q], R, H, Z)
      BY <2>1 DEF Forest, Good
    <2>3. ASSUME NEW z \in DOMAIN cs, cs[z] = a PROVE k \in Y[q] /\ Admits(ks, z, k)
      <3>1. ~Orphan(a, f, R)
        BY <2>1, <2>3 DEF Orphan, Range
      <3>2. PICK x \in DOMAIN f[t].children : f[t].children[x] = a /\ \A b \in Keys : Admits(node.keys, y, b) => Admits(f[t].keys, x, b)
        BY <3>1 DEF Ahead, AheadAt
      <3>3. q = t
        <4>1. a \in Range(cs) /\ a \in Range(f[t].children)
          BY <2>3, <3>2 DEF Range
        <4>2. QED BY <4>1, <2>1 DEF Forest
      <3>4. x = z
        BY <2>1, <2>2, <2>3, <3>2, <3>3 DEF GoodAt
      <3>5. QED BY <2>1, <3>2, <3>3, <3>4 DEF Plus
    <2>4. Z[q] \subseteq Y[q]
      BY DEF Plus
    <2>5. GoodAt(lf, ks, cs, H[q], Y[q], R, H, Y)
      BY <2>2, <2>3, <2>4, GoodPlus
    <2>6. QED BY <2>1, <2>5 DEF Good
  <1>2. Y \in [R -> SUBSET Keys] /\ Y[Root] = Keys
    BY DEF Forest, Plus
  <1>3. QED BY <1>1, <1>2 DEF Forest

\* So does that frame.
LEMMA FramePlusTop ==
  ASSUME NEW f, NEW R, NEW H, NEW Z, NEW fr, FrameOK(fr, f, R, H, Z), fr.id \in R,
         NEW y \in DOMAIN fr.node.children, NEW a, a = fr.node.children[y], NEW k, k \in Z[fr.id],
         Admits(fr.node.keys, y, k), NEW Y, Plus(Z, Y, R, a, k)
  PROVE  FrameOK(fr, f, R, H, Y)
  <1>1. PICK t, lf, ks, cs : t = fr.id /\ lf = fr.node.leaf /\ ks = fr.node.keys /\ cs = fr.node.children
    OBVIOUS
  <1>2. GoodAt(lf, ks, cs, H[t], Z[t], R, H, Z) /\ Z[t] \subseteq Y[t] /\ k \in Y[t]
    BY <1>1 DEF FrameOK, Good, Plus
  <1>3. \A z \in DOMAIN cs : cs[z] = a => k \in Y[t] /\ Admits(ks, z, k)
    BY <1>1, <1>2 DEF GoodAt
  <1>4. GoodAt(lf, ks, cs, H[t], Y[t], R, H, Y)
    BY <1>2, <1>3, GoodPlus
  <1>5. QED BY <1>1, <1>4 DEF FrameOK, Good

\* And the frames above it, which do not point to a: it is too low.
LEMMA FramePlus ==
  ASSUME NEW f, NEW R, NEW H, NEW Z, NEW fr, FrameOK(fr, f, R, H, Z), fr.id \in R,
         NEW a, H[a] + 1 # H[fr.id], NEW k, NEW Y, Plus(Z, Y, R, a, k)
  PROVE  FrameOK(fr, f, R, H, Y)
  <1>1. PICK t, lf, ks, cs : t = fr.id /\ lf = fr.node.leaf /\ ks = fr.node.keys /\ cs = fr.node.children
    OBVIOUS
  <1>2. GoodAt(lf, ks, cs, H[t], Z[t], R, H, Z) /\ Z[t] \subseteq Y[t]
    BY <1>1 DEF FrameOK, Good, Plus
  <1>3. \A z \in DOMAIN cs : cs[z] # a
    BY <1>1, <1>2 DEF GoodAt, Under
  <1>4. GoodAt(lf, ks, cs, H[t], Y[t], R, H, Y)
    BY <1>2, <1>3, GoodPlus
  <1>5. QED BY <1>1, <1>4 DEF FrameOK, Good

\* A frame with a node that is as on its page.
LEMMA FrameRead ==
  ASSUME NEW f, NEW R, NEW H, NEW Z, Forest(f, R, H, Z), NEW fr, fr.id \in R, fr.node = f[fr.id]
  PROVE  FrameOK(fr, f, R, H, Z)
  <1>1. Good(fr.node, H[fr.id], Z[fr.id], R, H, Z)
    BY DEF Forest
  <1>2. Ahead(fr.node, f[fr.id], f, R)
    BY DEF Ahead, AheadAt
  <1>3. QED BY <1>1, <1>2 DEF FrameOK

\* The child y the writer goes down to, a page of the tree.
Descends(p, y, k, f, R, H, Z) ==
  /\ y \in DOMAIN TopOf(p).children /\ Admits(TopOf(p).keys, y, k)
  /\ FrameOK(p[Len(p)], f, R, H, Z) /\ k \in Keys

\* The path becomes longer.
LEMMA RoadDown ==
  ASSUME NEW o, NEW p \in Seq(Frame), NEW l \in Nat, l = Len(p), l >= 1, NEW f, NEW R, NEW H, NEW Z,
         Forest(f, R, H, Z), Road(o, p, f, R, H, Z), NEW k, k = o.key,
         NEW y, Descends(p, y, k, f, R, H, Z), NEW a, a = Child(p, y), NEW Y, Plus(Z, Y, R, a, k),
         NEW fr \in Frame, fr.id = a, NEW q, q = Append(p, fr)
  PROVE  Forest(f, R, H, Y) /\ Road(o, q, f, R, H, Y)
  <1>1. Extended(p, l, fr, q)
    BY ExtendedFacts
  <1>2. DOMAIN p = 1..l /\ l \in 1..l
    BY SeqDomain
  <1>3. PICK t, node : t = p[l].id /\ node = p[l].node
    OBVIOUS
  <1>4. node = TopOf(p) /\ t \in R /\ k \in Z[t]
    BY <1>2, <1>3 DEF TopOf, Road
  <1>5. /\ y \in DOMAIN node.children /\ Admits(node.keys, y, k) /\ k \in Keys /\ a = node.children[y]
        /\ FrameOK(p[l], f, R, H, Z)
    BY <1>4 DEF Descends, Child
  <1>6. Good(node, H[t], Z[t], R, H, Z) /\ Ahead(node, f[t], f, R)
    BY <1>3, <1>5 DEF FrameOK
  <1>7. a \in R /\ H[a] + 1 = H[t]
    BY <1>5, <1>6 DEF Good, GoodAt, Under
  <1>8. Forest(f, R, H, Y)
    BY <1>4, <1>5, <1>6, ForestPlus
  <1>9. H[a] \in Nat /\ \A x \in 1..l : p[x].id \in R /\ H[p[x].id] \in Nat
    BY <1>2, <1>7 DEF Forest, Road
  <1>10. ASSUME NEW x \in 1..l PROVE H[a] < H[p[x].id] /\ (x # l => H[a] + 1 # H[p[x].id])
    <2>1. CASE x = l
      BY <2>1, <1>3, <1>7, <1>9
    <2>2. CASE x # l
      <3>1. x < l /\ x \in DOMAIN p /\ l \in DOMAIN p
        BY <2>2, <1>2
      <3>2. H[t] < H[p[x].id]
        BY <3>1, <1>3 DEF Road
      <3>3. QED BY <3>2, <1>7, <1>9
    <2>3. QED BY <2>1, <2>2
  <1>11. ASSUME NEW x \in 1..l PROVE FrameOK(p[x], f, R, H, Y)
    <2>1. CASE x = l
      BY <2>1, <1>3, <1>4, <1>5, FramePlusTop
    <2>2. CASE x # l
      <3>1. FrameOK(p[x], f, R, H, Z) /\ p[x].id \in R
        BY <2>2, <1>2 DEF Road
      <3>2. H[a] + 1 # H[p[x].id]
        BY <2>2, <1>10
      <3>3. QED BY <3>1, <3>2, FramePlus
    <2>3. QED BY <2>1, <2>2
  <1>12. /\ DOMAIN q = 1..l + 1 /\ Len(q) = l + 1 /\ q[l + 1] = fr /\ \A x \in 1..l : q[x] = p[x]
    BY <1>1 DEF Extended
  <1>13. \A x \in 1..l + 1 : x \in 1..l \/ x = l + 1
    OBVIOUS
  <1>14. ASSUME NEW x \in DOMAIN q PROVE q[x].id \in R /\ o.key \in Y[q[x].id]
    <2>1. CASE x = l + 1
      BY <2>1, <1>7, <1>12 DEF Plus
    <2>2. CASE x \in 1..l
      <3>1. p[x].id \in R /\ k \in Z[p[x].id]
        BY <2>2, <1>2 DEF Road
      <3>2. QED BY <2>2, <3>1, <1>12 DEF Plus
    <2>3. QED BY <2>1, <2>2, <1>12, <1>13
  <1>15. ASSUME NEW x \in DOMAIN q, NEW z \in DOMAIN q, x < z PROVE H[q[z].id] < H[q[x].id]
    <2>1. x \in 1..l
      BY <1>12, <1>15
    <2>2. CASE z = l + 1
      BY <2>1, <2>2, <1>10, <1>12
    <2>3. CASE z \in 1..l
      <3>1. x \in DOMAIN p /\ z \in DOMAIN p
        BY <2>1, <2>3, <1>2
      <3>2. H[p[z].id] < H[p[x].id]
        BY <3>1, <1>15 DEF Road
      <3>3. QED BY <3>2, <2>1, <2>3, <1>12
    <2>4. QED BY <2>2, <2>3, <1>12, <1>13
  <1>16. ASSUME NEW x \in DOMAIN q, x # Len(q) PROVE FrameOK(q[x], f, R, H, Y)
    <2>1. x \in 1..l
      BY <1>12, <1>13, <1>16
    <2>2. QED BY <2>1, <1>11, <1>12
  <1>17. QED BY <1>8, <1>14, <1>15, <1>16 DEF Road

\* There is such a Y.
LEMMA PlusExists ==
  ASSUME NEW R, NEW Z \in [R -> SUBSET Keys], NEW a \in R, NEW k \in Keys
  PROVE  \E Y : Plus(Z, Y, R, a, k)
  <1>1. PICK Y : Y = [x \in R |-> IF x = a THEN Z[x] \cup {k} ELSE Z[x]]
    OBVIOUS
  <1>2. Plus(Z, Y, R, a, k)
    BY <1>1 DEF Plus
  <1>3. QED BY <1>2

\* What is below the pages may grow.
SortedFor(d, ge, oo, q, j, e, h) == \E R, H, Z : Sorted(d, ge, oo, q, j, e, h, R, H, Z)

\* VisitInternal at a child with room, and Enter.
LEMMA SortedDown ==
  ASSUME NEW c, NEW gr, NEW o, NEW p, NEW i, NEW g, NEW kd, NEW sb, NEW f, NEW n, NEW K, NEW C, NEW L,
         Sane(c, gr, o, p, i, g, kd, sb, f, n, K, C, L), Exact(c, gr, o, p, i, g, f),
         NEW R, NEW H, NEW Z, Sorted(c, gr, o, p, i, g, f, R, H, Z),
         NEW d, NEW ge, NEW oo, NEW q, NEW j, NEW e, NEW h, DidDown(c, gr, o, p, i, f, d, ge, oo, q, h)
  PROVE  SortedFor(d, ge, oo, q, j, e, h)
  <1>1. c \in {"visit", "enter"} /\ d = "visit" /\ ~TopOf(p).leaf /\ ge = gr /\ oo = o /\ h = f
    BY DEF DidDown
  <1>2. PICK y, fr : /\ fr \in Frame /\ fr.id = Child(p, y) /\ q = Append(p, fr)
                     /\ IF c = "visit" THEN y \in ChildIndexes(TopOf(p), o.key) ELSE y = Half(p, i, o.key)
    BY DEF DidDown
  <1>3. c \in Walking /\ c \notin Parting /\ c \notin Splitting
    BY <1>1 DEF Walking, Parting, Splitting
  <1>4. ~gr
    BY <1>1, <1>3 DEF Sane, Intact, GrowSafe, Growing, Before
  <1>5. PICK t, node, S, k, l : t = TopId(p) /\ node = TopOf(p) /\ S = DOMAIN f /\ k = o.key /\ l = Len(p)
    OBVIOUS
  <1>6. Sound(node, S) /\ p \in Seq(Frame) /\ l \in DOMAIN p /\ l \in Nat /\ l >= 1
    BY <1>3, <1>5, SaneTop
  <1>7. k \in Keys
    BY <1>1, <1>5 DEF Sane, WriterInv
  <1>8. Forest(f, R, H, Z) /\ PathSorted(c, o, p, i, g, f, R, H, Z) /\ Road(o, p, f, R, H, Z)
    BY <1>3, <1>4 DEF Sorted, PathSorted
  <1>9. t \in R /\ p[l].id = t /\ p[l].node = node
    BY <1>5, <1>6, <1>8 DEF Road, TopId, TopOf
  <1>10. ASSUME c = "visit" PROVE Descends(p, y, k, f, R, H, Z)
    <2>1. gr \in BOOLEAN /\ Intact("visit", gr, o, p, i, g, kd, sb, f, n, K, C, L)
      BY <1>10 DEF Sane
    <2>2. node.children # <<>>
      BY <2>1, <1>1, <1>5, IntactChoose
    <2>3. node = f[t]
      BY <1>5, <1>10 DEF Exact, Copies
    <2>4. FrameOK(p[l], f, R, H, Z)
      BY <2>3, <1>8, <1>9, FrameRead
    <2>5. Ascending(node.keys)
      BY <2>4, <1>9 DEF FrameOK, Good, GoodAt
    <2>6. y \in ChildIndexes(node, k) /\ ~node.leaf
      BY <1>1, <1>2, <1>5, <1>10
    <2>7. Admits(node.keys, y, k)
      BY <2>2, <2>5, <2>6, <1>6, <1>7, ChildAdmits
    <2>8. y \in DOMAIN node.children
      <3>1. y \in 1..Len(node.children)
        BY <2>2, <2>6, <1>6, ChildRange
      <3>2. node.children \in Seq(PageId)
        BY <1>6, NodeFields DEF Sound, Closed
      <3>3. QED BY <3>1, <3>2, SeqDomain
    <2>9. QED BY <2>4, <2>7, <2>8, <1>5, <1>7 DEF Descends
  <1>11. ASSUME c = "enter" PROVE Descends(p, y, k, f, R, H, Z)
    <2>1. y \in {i, i + 1}
      BY <1>2, <1>11 DEF Half
    <2>2. WriterInv("enter", o, p, i, g, kd, sb, S, n)
      BY <1>5, <1>11 DEF Sane
    <2>3. y \in DOMAIN TopOf(p).children
      BY <2>1, <2>2, EnterRange
    <2>4. FrameOK(p[Len(p)], f, R, H, Z) /\ Admits(TopOf(p).keys, y, k)
      BY <1>2, <1>5, <1>8, <1>11 DEF PathSorted
    <2>5. QED BY <2>3, <2>4, <1>7 DEF Descends
  <1>12. Descends(p, y, k, f, R, H, Z)
    BY <1>1, <1>10, <1>11
  <1>13. PICK a : a = Child(p, y)
    OBVIOUS
  <1>14. a \in R
    <2>1. Good(node, H[t], Z[t], R, H, Z) /\ y \in DOMAIN node.children
      BY <1>5, <1>9, <1>12 DEF Descends, FrameOK
    <2>2. QED BY <2>1, <1>5, <1>13 DEF Good, GoodAt, Under, Child
  <1>15. Z \in [R -> SUBSET Keys]
    BY <1>8 DEF Forest
  <1>16. PICK Y : Plus(Z, Y, R, a, k)
    BY <1>7, <1>14, <1>15, PlusExists
  <1>17. fr \in Frame /\ fr.id = a /\ q = Append(p, fr)
    BY <1>2, <1>13
  <1>18. Forest(f, R, H, Y) /\ Road(o, q, f, R, H, Y)
    BY <1>5, <1>6, <1>8, <1>12, <1>13, <1>16, <1>17, RoadDown
  <1>19. PathSorted("visit", o, q, j, e, f, R, H, Y)
    BY <1>18 DEF PathSorted, Splitting, Parting
  <1>20. Sorted("visit", gr, o, q, j, e, f, R, H, Y)
    BY <1>4, <1>18, <1>19 DEF Sorted
  <1>21. QED BY <1>1, <1>20 DEF SortedFor

\* Where a key belongs before and after k was put in the i-th place.
LEMMA AdmitsPut ==
  ASSUME NEW ks, NEW n, NEW i, NEW x \in Int, NEW t, KeyPut(ks, n, i, x, t), Range(ks) \subseteq Int,
         Admits(ks, i, x), NEW k \in Int, NEW y \in 1..n + 1
  PROVE  /\ Admits(ks, y, k) /\ y < i => Admits(t, y, k)
         /\ Admits(ks, y, k) /\ y > i => Admits(t, y + 1, k)
         /\ Admits(ks, i, k) /\ k <= x => Admits(t, i, k)
         /\ Admits(ks, i, k) /\ k >= x => Admits(t, i + 1, k)
  <1>1. /\ n \in Nat /\ i \in 1..n + 1 /\ DOMAIN ks = 1..n /\ DOMAIN t = 1..n + 1
        /\ \A j \in 1..n + 1 : t[j] = IF j < i THEN ks[j] ELSE IF j = i THEN x ELSE ks[j - 1]
    BY DEF KeyPut
  <1>2. \A j \in 1..n : ks[j] \in Int
    BY <1>1 DEF Range
  <1>3. \A j \in 1..n : (j < i => ks[j] <= x) /\ (j >= i => x <= ks[j])
    BY <1>1 DEF Admits
  <1>4. ASSUME NEW j \in 1..n + 1
        PROVE  \/ j < i /\ j \in 1..n /\ t[j] = ks[j]
               \/ j = i /\ t[j] = x
               \/ j > i /\ j - 1 \in 1..n /\ t[j] = ks[j - 1]
    <2>1. CASE j < i
      BY <2>1, <1>1
    <2>2. CASE j = i
      BY <2>2, <1>1
    <2>3. CASE j > i
      <3>1. ~(j < i) /\ j # i /\ j - 1 \in 1..n
        BY <2>3, <1>1
      <3>2. QED BY <3>1, <2>3, <1>1
    <2>4. QED BY <2>1, <2>2, <2>3, <1>1
  <1>5. ASSUME Admits(ks, y, k), y < i PROVE Admits(t, y, k)
    <2>1. \A j \in 1..n : (j < y => ks[j] <= k) /\ (j >= y => k <= ks[j])
      BY <1>1, <1>5 DEF Admits
    <2>2. y \in 1..n
      BY <1>1, <1>5
    <2>3. k <= ks[y] /\ ks[y] <= x
      BY <2>1, <2>2, <1>3, <1>5
    <2>4. k <= x
      BY <2>2, <2>3, <1>2
    <2>5. ASSUME NEW j \in 1..n + 1 PROVE (j < y => t[j] <= k) /\ (j >= y => k <= t[j])
      <3>1. CASE j < i /\ j \in 1..n /\ t[j] = ks[j]
        BY <3>1, <2>1
      <3>2. CASE j = i /\ t[j] = x
        BY <3>2, <2>4, <1>1, <1>5
      <3>3. CASE j > i /\ j - 1 \in 1..n /\ t[j] = ks[j - 1]
        <4>1. ~(j < y) /\ j - 1 >= y
          BY <3>3, <1>1, <1>5
        <4>2. QED BY <4>1, <3>3, <2>1
      <3>4. QED BY <3>1, <3>2, <3>3, <1>4
    <2>6. QED BY <2>5, <1>1 DEF Admits
  <1>6. ASSUME Admits(ks, y, k), y > i PROVE Admits(t, y + 1, k)
    <2>1. \A j \in 1..n : (j < y => ks[j] <= k) /\ (j >= y => k <= ks[j])
      BY <1>1, <1>6 DEF Admits
    <2>2. i \in 1..n
      BY <1>1, <1>6
    <2>3. ks[i] <= k /\ x <= ks[i]
      BY <2>1, <2>2, <1>3, <1>6
    <2>4. x <= k
      BY <2>2, <2>3, <1>2
    <2>5. ASSUME NEW j \in 1..n + 1 PROVE (j < y + 1 => t[j] <= k) /\ (j >= y + 1 => k <= t[j])
      <3>1. CASE j < i /\ j \in 1..n /\ t[j] = ks[j]
        <4>1. j < y /\ ~(j >= y + 1)
          BY <3>1, <1>1, <1>6
        <4>2. QED BY <4>1, <3>1, <2>1
      <3>2. CASE j = i /\ t[j] = x
        <4>1. ~(j >= y + 1)
          BY <3>2, <1>1, <1>6
        <4>2. QED BY <4>1, <3>2, <2>4
      <3>3. CASE j > i /\ j - 1 \in 1..n /\ t[j] = ks[j - 1]
        <4>1. (j < y + 1 => j - 1 < y) /\ (j >= y + 1 => j - 1 >= y)
          BY <1>1
        <4>2. QED BY <4>1, <3>3, <2>1
      <3>4. QED BY <3>1, <3>2, <3>3, <1>4
    <2>6. QED BY <2>5, <1>1 DEF Admits
  <1>7. ASSUME Admits(ks, i, k), k <= x PROVE Admits(t, i, k)
    <2>1. \A j \in 1..n : (j < i => ks[j] <= k) /\ (j >= i => k <= ks[j])
      BY <1>1, <1>7 DEF Admits
    <2>5. ASSUME NEW j \in 1..n + 1 PROVE (j < i => t[j] <= k) /\ (j >= i => k <= t[j])
      <3>1. CASE j < i /\ j \in 1..n /\ t[j] = ks[j]
        BY <3>1, <2>1
      <3>2. CASE j = i /\ t[j] = x
        BY <3>2, <1>1, <1>7
      <3>3. CASE j > i /\ j - 1 \in 1..n /\ t[j] = ks[j - 1]
        <4>1. ~(j < i) /\ j - 1 >= i
          BY <3>3, <1>1
        <4>2. QED BY <4>1, <3>3, <2>1
      <3>4. QED BY <3>1, <3>2, <3>3, <1>4
    <2>6. QED BY <2>5, <1>1 DEF Admits
  <1>8. ASSUME Admits(ks, i, k), k >= x PROVE Admits(t, i + 1, k)
    <2>1. \A j \in 1..n : (j < i => ks[j] <= k) /\ (j >= i => k <= ks[j])
      BY <1>1, <1>8 DEF Admits
    <2>5. ASSUME NEW j \in 1..n + 1 PROVE (j < i + 1 => t[j] <= k) /\ (j >= i + 1 => k <= t[j])
      <3>1. CASE j < i /\ j \in 1..n /\ t[j] = ks[j]
        <4>1. ~(j >= i + 1)
          BY <3>1, <1>1
        <4>2. QED BY <4>1, <3>1, <2>1
      <3>2. CASE j = i /\ t[j] = x
        <4>1. ~(j >= i + 1) /\ x <= k
          BY <3>2, <1>1, <1>8
        <4>2. QED BY <4>1, <3>2
      <3>3. CASE j > i /\ j - 1 \in 1..n /\ t[j] = ks[j - 1]
        <4>1. ~(j < i + 1) /\ j - 1 >= i
          BY <3>3, <1>1
        <4>2. QED BY <4>1, <3>3, <2>1
      <3>4. QED BY <3>1, <3>2, <3>3, <1>4
    <2>6. QED BY <2>5, <1>1 DEF Admits
  <1>9. QED BY <1>5, <1>6, <1>7, <1>8

\* With a key more the bounds are only narrower.
LEMMA AdmitsCut ==
  ASSUME NEW ks, NEW n, NEW i, NEW x, NEW t, KeyPut(ks, n, i, x, t), NEW k, NEW y \in 1..n + 2
  PROVE  /\ Admits(t, y, k) /\ y <= i => Admits(ks, y, k)
         /\ Admits(t, y, k) /\ y > i + 1 => Admits(ks, y - 1, k)
  <1>1. /\ n \in Nat /\ i \in 1..n + 1 /\ DOMAIN ks = 1..n /\ DOMAIN t = 1..n + 1
        /\ \A j \in 1..n + 1 : t[j] = IF j < i THEN ks[j] ELSE IF j = i THEN x ELSE ks[j - 1]
    BY DEF KeyPut
  <1>2. ASSUME NEW j \in 1..n
        PROVE  \/ j < i /\ j \in 1..n + 1 /\ t[j] = ks[j]
               \/ j >= i /\ j + 1 \in 1..n + 1 /\ t[j + 1] = ks[j]
    <2>1. CASE j < i
      <3>1. j \in 1..n + 1
        BY <1>1
      <3>2. t[j] = ks[j]
        BY <3>1, <2>1, <1>1
      <3>3. QED BY <3>1, <3>2, <2>1
    <2>2. CASE j >= i
      <3>1. j + 1 \in 1..n + 1 /\ ~(j + 1 < i) /\ j + 1 # i /\ j + 1 - 1 = j
        BY <2>2, <1>1
      <3>2. t[j + 1] = ks[j + 1 - 1]
        BY <3>1, <1>1
      <3>3. QED BY <3>1, <3>2, <2>2
    <2>3. QED BY <2>1, <2>2, <1>1
  <1>3. ASSUME Admits(t, y, k), y <= i PROVE Admits(ks, y, k)
    <2>1. \A j \in 1..n + 1 : (j < y => t[j] <= k) /\ (j >= y => k <= t[j])
      BY <1>1, <1>3 DEF Admits
    <2>2. ASSUME NEW j \in 1..n PROVE (j < y => ks[j] <= k) /\ (j >= y => k <= ks[j])
      <3>1. CASE j < i /\ j \in 1..n + 1 /\ t[j] = ks[j]
        BY <3>1, <2>1
      <3>2. CASE j >= i /\ j + 1 \in 1..n + 1 /\ t[j + 1] = ks[j]
        <4>1. ~(j < y) /\ j + 1 >= y
          BY <3>2, <1>1, <1>3
        <4>2. QED BY <4>1, <3>2, <2>1
      <3>3. QED BY <3>1, <3>2, <1>2
    <2>3. QED BY <2>2, <1>1 DEF Admits
  <1>4. ASSUME Admits(t, y, k), y > i + 1 PROVE Admits(ks, y - 1, k)
    <2>1. \A j \in 1..n + 1 : (j < y => t[j] <= k) /\ (j >= y => k <= t[j])
      BY <1>1, <1>4 DEF Admits
    <2>2. ASSUME NEW j \in 1..n PROVE (j < y - 1 => ks[j] <= k) /\ (j >= y - 1 => k <= ks[j])
      <3>1. CASE j < i /\ j \in 1..n + 1 /\ t[j] = ks[j]
        <4>1. j < y /\ ~(j >= y - 1)
          BY <3>1, <1>1, <1>4
        <4>2. QED BY <4>1, <3>1, <2>1
      <3>2. CASE j >= i /\ j + 1 \in 1..n + 1 /\ t[j + 1] = ks[j]
        <4>1. (j < y - 1 => j + 1 < y) /\ (j >= y - 1 => j + 1 >= y)
          BY <1>1
        <4>2. QED BY <4>1, <3>2, <2>1
      <3>3. QED BY <3>1, <3>2, <1>2
    <2>3. QED BY <2>2, <1>1 DEF Admits
  <1>5. QED BY <1>3, <1>4

\* u is cs with the child g behind the i-th of n + 1.
ChildPut(cs, n, i, g, u) ==
  /\ DOMAIN cs = 1..n + 1 /\ DOMAIN u = 1..n + 2
  /\ \A j \in 1..n + 2 : u[j] = IF j < i + 1 THEN cs[j] ELSE IF j = i + 1 THEN g ELSE cs[j - 1]

\* Page a of the tree R has given its keys from x on to the new page g.
Shares(R, H, Z, a, g, x, Q, I, Y) ==
  /\ a \in R /\ g \notin R /\ Q = R \cup {g} /\ I \in [Q -> Nat] /\ Y \in [Q -> SUBSET Keys]
  /\ \A q \in R : I[q] = H[q] /\ (q # a => Y[q] = Z[q])
  /\ I[g] = H[a] /\ Y[a] = Upto(Z[a], x) /\ Y[g] = Onward(Z[a], x)

\* What stays below the pages there were.
LEMMA SharesLess ==
  ASSUME NEW R, NEW H, NEW Z, NEW a, NEW g, NEW x, NEW Q, NEW I, NEW Y, Shares(R, H, Z, a, g, x, Q, I, Y),
         NEW q \in R
  PROVE  q \in Q /\ I[q] = H[q] /\ Y[q] \subseteq Z[q]
  <1>1. q \in Q /\ I[q] = H[q]
    BY DEF Shares
  <1>2. Y[q] \subseteq Z[q]
    <2>1. CASE q = a
      BY <2>1 DEF Shares, Upto
    <2>2. CASE q # a
      BY <2>2 DEF Shares
    <2>3. QED BY <2>1, <2>2
  <1>3. QED BY <1>1, <1>2

\* Where the children of the parent are after the split.
LEMMA ChildPutPlaces ==
  ASSUME NEW cs, NEW n \in Nat, NEW i \in 1..n + 1, NEW g, NEW u, ChildPut(cs, n, i, g, u), NEW y \in 1..n + 2
  PROVE  \/ y < i /\ y \in 1..n + 1 /\ u[y] = cs[y]
         \/ y = i /\ u[y] = cs[i]
         \/ y = i + 1 /\ u[y] = g
         \/ y > i + 1 /\ y - 1 \in 1..n + 1 /\ y - 1 > i /\ u[y] = cs[y - 1]
  <1>1. \A j \in 1..n + 2 : u[j] = IF j < i + 1 THEN cs[j] ELSE IF j = i + 1 THEN g ELSE cs[j - 1]
    BY DEF ChildPut
  <1>2. CASE y < i
    <2>1. y \in 1..n + 1 /\ y < i + 1
      BY <1>2
    <2>2. QED BY <2>1, <1>1, <1>2
  <1>3. CASE y = i
    <2>1. y < i + 1
      BY <1>3
    <2>2. QED BY <2>1, <1>1, <1>3
  <1>4. CASE y = i + 1
    <2>1. ~(y < i + 1)
      BY <1>4
    <2>2. QED BY <2>1, <1>1, <1>4
  <1>5. CASE y > i + 1
    <2>1. ~(y < i + 1) /\ y # i + 1 /\ y - 1 \in 1..n + 1 /\ y - 1 > i
      BY <1>5
    <2>2. u[y] = cs[y - 1]
      BY <2>1, <1>1
    <2>3. QED BY <2>1, <2>2, <1>5
  <1>6. QED BY <1>2, <1>3, <1>4, <1>5

\* The parent of a split child is good again.
LEMMA PutGood ==
  ASSUME NEW ks, NEW cs, NEW m, NEW S, S \subseteq Int, NEW R, NEW H, NEW Z, GoodAt(FALSE, ks, cs, m, S, R, H, Z),
         NEW n, NEW i, NEW x \in Int, NEW t, KeyPut(ks, n, i, x, t), NEW g, NEW u, ChildPut(cs, n, i, g, u),
         NEW a, a = cs[i], x \in Z[a], NEW Q, NEW I, NEW Y, Shares(R, H, Z, a, g, x, Q, I, Y)
  PROVE  GoodAt(FALSE, t, u, m, S, Q, I, Y)
  <1>1. n \in Nat /\ i \in 1..n + 1 /\ DOMAIN ks = 1..n /\ DOMAIN t = 1..n + 1
    BY DEF KeyPut
  <1>2. DOMAIN cs = 1..n + 1 /\ DOMAIN u = 1..n + 2
    BY DEF ChildPut
  <1>3. /\ Ascending(ks) /\ Range(ks) \subseteq S
        /\ \A y \in 1..n + 1 : Under(ks, cs[y], y, m, S, R, H, Z)
        /\ \A y, z \in 1..n + 1 : cs[y] = cs[z] => y = z
    BY <1>2 DEF GoodAt
  <1>4. a \in R /\ g \notin R /\ H[a] + 1 = m /\ Z[a] \subseteq S /\ \A k \in Z[a] : Admits(ks, i, k)
    BY <1>1, <1>3 DEF Under, Shares
  <1>5. Range(ks) \subseteq Int /\ Admits(ks, i, x) /\ x \in S
    BY <1>3, <1>4
  <1>6. Ascending(t) /\ Range(t) \subseteq S
    BY <1>3, <1>5, KeyPutAscends
  <1>7. ASSUME NEW y \in 1..n + 1, y # i
        PROVE  /\ cs[y] \in R /\ cs[y] # a /\ Under(ks, cs[y], y, m, S, Q, I, Y)
    <2>1. Under(ks, cs[y], y, m, S, R, H, Z) /\ cs[y] # a
      BY <1>1, <1>3, <1>7
    <2>2. cs[y] \in R
      BY <2>1 DEF Under
    <2>3. cs[y] \in Q /\ I[cs[y]] = H[cs[y]] /\ Y[cs[y]] \subseteq Z[cs[y]]
      BY <2>2, SharesLess
    <2>4. QED BY <2>1, <2>2, <2>3 DEF Under
  <1>8. ASSUME NEW y \in 1..n + 2 PROVE Under(t, u[y], y, m, S, Q, I, Y)
    <2>1. CASE y < i /\ y \in 1..n + 1 /\ u[y] = cs[y]
      <3>1. Under(ks, cs[y], y, m, S, Q, I, Y)
        BY <2>1, <1>1, <1>7
      <3>2. ASSUME NEW k \in Y[cs[y]] PROVE Admits(t, y, k)
        <4>1. k \in Int /\ Admits(ks, y, k)
          BY <3>1, <3>2 DEF Under
        <4>2. QED BY <4>1, <2>1, <1>5, AdmitsPut
      <3>3. QED BY <3>1, <3>2, <2>1 DEF Under
    <2>2. CASE y = i /\ u[y] = cs[i]
      <3>1. a \in Q /\ I[a] = H[a] /\ Y[a] = Upto(Z[a], x)
        BY <1>4, SharesLess DEF Shares
      <3>2. ASSUME NEW k \in Y[a] PROVE Admits(t, i, k)
        <4>1. k \in Z[a] /\ k <= x
          BY <3>1, <3>2 DEF Upto
        <4>2. k \in Int /\ Admits(ks, i, k)
          BY <4>1, <1>4
        <4>3. QED BY <4>1, <4>2, <1>1, <1>5, AdmitsPut
      <3>3. Y[a] \subseteq S
        BY <3>1, <1>4 DEF Upto
      <3>4. QED BY <3>1, <3>2, <3>3, <2>2, <1>4 DEF Under
    <2>3. CASE y = i + 1 /\ u[y] = g
      <3>1. g \in Q /\ I[g] = H[a] /\ Y[g] = Onward(Z[a], x)
        BY DEF Shares
      <3>2. ASSUME NEW k \in Y[g] PROVE Admits(t, i + 1, k)
        <4>1. k \in Z[a] /\ k >= x
          BY <3>1, <3>2 DEF Onward
        <4>2. k \in Int /\ Admits(ks, i, k)
          BY <4>1, <1>4
        <4>3. QED BY <4>1, <4>2, <1>1, <1>5, AdmitsPut
      <3>3. Y[g] \subseteq S
        BY <3>1, <1>4 DEF Onward
      <3>4. QED BY <3>1, <3>2, <3>3, <2>3, <1>4 DEF Under
    <2>4. CASE y > i + 1 /\ y - 1 \in 1..n + 1 /\ y - 1 > i /\ u[y] = cs[y - 1]
      <3>1. PICK b : b = y - 1
        OBVIOUS
      <3>2. b \in 1..n + 1 /\ b > i /\ b # i /\ u[y] = cs[b] /\ y = b + 1
        BY <2>4, <3>1, <1>1
      <3>3. Under(ks, cs[b], b, m, S, Q, I, Y)
        BY <3>2, <1>7
      <3>4. ASSUME NEW k \in Y[cs[b]] PROVE Admits(t, b + 1, k)
        <4>1. k \in Int /\ Admits(ks, b, k)
          BY <3>3, <3>4 DEF Under
        <4>2. QED BY <4>1, <3>2, <1>5, AdmitsPut
      <3>5. QED BY <3>2, <3>3, <3>4 DEF Under
    <2>5. QED BY <2>1, <2>2, <2>3, <2>4, <1>1, ChildPutPlaces
  <1>9. ASSUME NEW y \in 1..n + 1 PROVE cs[y] # g
    BY <1>3, <1>4 DEF Under
  <1>10. ASSUME NEW y \in 1..n + 2, NEW z \in 1..n + 2, u[y] = u[z], y < z PROVE FALSE
    <2>1. \/ y < i + 1 /\ y \in 1..n + 1 /\ u[y] = cs[y]
          \/ y = i + 1 /\ u[y] = g
          \/ y > i + 1 /\ y - 1 \in 1..n + 1 /\ u[y] = cs[y - 1]
      BY <1>1, ChildPutPlaces
    <2>2. \/ z < i + 1 /\ z \in 1..n + 1 /\ u[z] = cs[z]
          \/ z = i + 1 /\ u[z] = g
          \/ z > i + 1 /\ z - 1 \in 1..n + 1 /\ u[z] = cs[z - 1]
      BY <1>1, ChildPutPlaces
    <2>3. CASE y = i + 1
      <3>1. u[y] = g /\ z - 1 \in 1..n + 1 /\ u[z] = cs[z - 1]
        BY <2>1, <2>2, <2>3, <1>1, <1>10
      <3>2. QED BY <3>1, <1>9, <1>10
    <2>4. CASE z = i + 1
      <3>1. u[z] = g /\ y \in 1..n + 1 /\ u[y] = cs[y]
        BY <2>1, <2>2, <2>4, <1>1, <1>10
      <3>2. QED BY <3>1, <1>9, <1>10
    <2>5. CASE y < i + 1 /\ z < i + 1
      <3>1. cs[y] = cs[z] /\ y \in 1..n + 1 /\ z \in 1..n + 1
        BY <2>1, <2>2, <2>5, <1>1, <1>10
      <3>2. QED BY <3>1, <1>3, <1>10
    <2>6. CASE y < i + 1 /\ z > i + 1
      <3>1. cs[y] = cs[z - 1] /\ y \in 1..n + 1 /\ z - 1 \in 1..n + 1 /\ y # z - 1
        BY <2>1, <2>2, <2>6, <1>1, <1>10
      <3>2. QED BY <3>1, <1>3
    <2>7. CASE y > i + 1 /\ z > i + 1
      <3>1. cs[y - 1] = cs[z - 1] /\ y - 1 \in 1..n + 1 /\ z - 1 \in 1..n + 1 /\ y - 1 # z - 1
        BY <2>1, <2>2, <2>7, <1>1, <1>10
      <3>2. QED BY <3>1, <1>3
    <2>8. QED BY <2>3, <2>4, <2>5, <2>6, <2>7, <1>1, <1>10
  <1>11. \A y, z \in 1..n + 2 : u[y] = u[z] => y = z
    <2>1. SUFFICES ASSUME NEW y \in 1..n + 2, NEW z \in 1..n + 2, u[y] = u[z] PROVE y = z
      OBVIOUS
    <2>2. ~(y < z) /\ ~(z < y)
      BY <2>1, <1>10
    <2>3. QED BY <2>2, <1>1
  <1>12. u # <<>>
    <2>1. 1 \in DOMAIN u
      BY <1>1, <1>2
    <2>2. QED BY <2>1
  <1>13. QED BY <1>2, <1>6, <1>8, <1>11, <1>12 DEF GoodAt

\* And ahead of its page, where it is as before.
LEMMA PutAhead ==
  ASSUME NEW ks, NEW cs, NEW n, NEW i, NEW x, NEW t, KeyPut(ks, n, i, x, t), NEW g, NEW u, ChildPut(cs, n, i, g, u),
         NEW old, old.keys = ks, old.children = cs, NEW h, NEW Q, Orphan(g, h, Q)
  PROVE  AheadAt(t, u, old, h, Q)
  <1>1. n \in Nat /\ i \in 1..n + 1
    BY DEF KeyPut
  <1>2. DOMAIN cs = 1..n + 1 /\ DOMAIN u = 1..n + 2
    BY DEF ChildPut
  <1>3. ASSUME NEW y \in 1..n + 2
        PROVE  \/ Orphan(u[y], h, Q)
               \/ \E z \in DOMAIN cs : cs[z] = u[y] /\ \A k \in Keys : Admits(t, y, k) => Admits(ks, z, k)
    <2>1. CASE y < i /\ y \in 1..n + 1 /\ u[y] = cs[y]
      <3>1. y <= i
        BY <2>1, <1>1
      <3>2. \A k \in Keys : Admits(t, y, k) => Admits(ks, y, k)
        BY <3>1, AdmitsCut
      <3>3. QED BY <3>2, <2>1, <1>2
    <2>2. CASE y = i /\ u[y] = cs[i]
      <3>1. y <= i
        BY <2>2, <1>1
      <3>2. \A k \in Keys : Admits(t, y, k) => Admits(ks, y, k)
        BY <3>1, AdmitsCut
      <3>3. QED BY <3>2, <2>2, <1>1, <1>2
    <2>3. CASE y = i + 1 /\ u[y] = g
      BY <2>3
    <2>4. CASE y > i + 1 /\ y - 1 \in 1..n + 1 /\ y - 1 > i /\ u[y] = cs[y - 1]
      <3>1. \A k \in Keys : Admits(t, y, k) => Admits(ks, y - 1, k)
        BY <2>4, AdmitsCut
      <3>2. QED BY <3>1, <2>4, <1>2
    <2>5. QED BY <2>1, <2>2, <2>3, <2>4, <1>1, ChildPutPlaces
  <1>4. QED BY <1>2, <1>3 DEF AheadAt

\* The write of a split: in h page a holds the left half and page g the right half of what a held.
PageCut(f, a, g, x, R, H, Z, h, Q, I, Y) ==
  /\ Shares(R, H, Z, a, g, x, Q, I, Y) /\ a # Root
  /\ DOMAIN f \subseteq DOMAIN h /\ g \in DOMAIN h
  /\ \A q \in R : q # a => h[q] = f[q]
  /\ h[a].leaf = f[a].leaf /\ h[g].leaf = f[a].leaf
  /\ HalvesFine(f[a].leaf, f[a].children, H[a], Z[a], x, h[a].keys, h[a].children, h[g].keys, h[g].children, Q, I, Y)

\* Whose children the children of a page were.
LEMMA CutChildren ==
  ASSUME NEW f, NEW a, NEW g, NEW x, NEW R, NEW H, NEW Z, NEW h, NEW Q, NEW I, NEW Y,
         PageCut(f, a, g, x, R, H, Z, h, Q, I, Y), NEW q \in Q
  PROVE  /\ q # g => q \in R /\ Range(h[q].children) \subseteq Range(f[q].children)
         /\ q = g => Range(h[q].children) \subseteq Range(f[a].children)
  <1>1. q = g \/ (q # g /\ q \in R)
    BY DEF PageCut, Shares
  <1>2. CASE q = g
    BY <1>2 DEF PageCut, HalvesFine
  <1>3. CASE q # g /\ q \in R
    <2>1. CASE q = a
      BY <2>1, <1>3 DEF PageCut, HalvesFine
    <2>2. CASE q # a
      BY <2>2, <1>3 DEF PageCut
    <2>3. QED BY <2>1, <2>2, <1>3
  <1>4. QED BY <1>1, <1>2, <1>3

\* The pages stay ordered.
LEMMA CutForest ==
  ASSUME NEW f, NEW R, NEW H, NEW Z, Forest(f, R, H, Z), NEW S, \A q \in DOMAIN f : Sound(f[q], S),
         NEW a, NEW g, NEW x, NEW h, NEW Q, NEW I, NEW Y, PageCut(f, a, g, x, R, H, Z, h, Q, I, Y)
  PROVE  Forest(h, Q, I, Y) /\ \A b : Orphan(b, f, R) => Orphan(b, h, Q)
  <1>1. Shares(R, H, Z, a, g, x, Q, I, Y) /\ a # Root /\ a \in R /\ g \notin R /\ Q = R \cup {g}
    BY DEF PageCut, Shares
  <1>2. Q \subseteq DOMAIN h /\ Root \in Q /\ I \in [Q -> Nat] /\ Y \in [Q -> SUBSET Keys] /\ Y[Root] = Keys
    BY <1>1 DEF PageCut, Shares, Forest
  <1>3. ASSUME NEW q \in R, q # a PROVE Good(h[q], I[q], Y[q], Q, I, Y)
    <2>1. h[q] = f[q] /\ I[q] = H[q] /\ Y[q] = Z[q]
      BY <1>1, <1>3 DEF PageCut, Shares
    <2>2. PICK node : node = f[q]
      OBVIOUS
    <2>3. Good(node, H[q], Z[q], R, H, Z) /\ Sound(node, S)
      BY <2>2 DEF Forest
    <2>4. Narrower(node.children, H, Z, Q, I, Y)
      <3>1. ASSUME NEW b \in Range(node.children) PROVE b \in R
        BY <2>3, <3>1 DEF Good, GoodAt, Under, Range
      <3>2. QED BY <3>1, <1>1, SharesLess DEF Narrower
    <2>5. Good(node, H[q], Z[q], Q, I, Y)
      BY <2>3, <2>4, GoodMono
    <2>6. QED BY <2>1, <2>2, <2>5
  <1>4. Good(h[a], I[a], Y[a], Q, I, Y)
    <2>1. I[a] = H[a] /\ Y[a] = Upto(Z[a], x)
      BY <1>1 DEF Shares
    <2>2. QED BY <2>1 DEF PageCut, HalvesFine, Good
  <1>5. Good(h[g], I[g], Y[g], Q, I, Y)
    <2>1. I[g] = H[a] /\ Y[g] = Onward(Z[a], x)
      BY <1>1 DEF Shares
    <2>2. QED BY <2>1 DEF PageCut, HalvesFine, Good
  <1>6. \A q \in Q : Good(h[q], I[q], Y[q], Q, I, Y)
    BY <1>1, <1>3, <1>4, <1>5
  <1>7. Range(h[a].children) \cap Range(h[g].children) = {}
    BY DEF PageCut, HalvesFine
  <1>8. ASSUME NEW q \in R, NEW b, b \in Range(h[q].children), b \in Range(h[g].children) PROVE FALSE
    <2>1. b \in Range(f[q].children) /\ b \in Range(f[a].children)
      BY <1>1, <1>8, CutChildren
    <2>2. q = a
      BY <2>1, <1>1 DEF Forest
    <2>3. QED BY <2>2, <1>7, <1>8
  <1>9. ASSUME NEW q \in Q, NEW r \in Q, NEW b, b \in Range(h[q].children), b \in Range(h[r].children)
        PROVE  q = r
    <2>1. CASE q = g /\ r # g
      BY <2>1, <1>1, <1>8, <1>9
    <2>2. CASE r = g /\ q # g
      BY <2>2, <1>1, <1>8, <1>9
    <2>3. CASE q # g /\ r # g
      <3>1. q \in R /\ r \in R /\ b \in Range(f[q].children) /\ b \in Range(f[r].children)
        BY <2>3, <1>9, CutChildren
      <3>2. QED BY <3>1 DEF Forest
    <2>4. QED BY <2>1, <2>2, <2>3
  <1>10. ASSUME NEW b, Orphan(b, f, R) PROVE Orphan(b, h, Q)
    <2>1. ASSUME NEW q \in Q PROVE b \notin Range(h[q].children)
      <3>1. b \notin Range(f[a].children) /\ (q \in R => b \notin Range(f[q].children))
        BY <1>1, <1>10 DEF Orphan
      <3>2. QED BY <3>1, CutChildren
    <2>2. QED BY <2>1 DEF Orphan
  <1>11. Forest(h, Q, I, Y)
    BY <1>2, <1>6, <1>9 DEF Forest
  <1>12. QED BY <1>10, <1>11

\* So does a frame on another page.
LEMMA CutFrame ==
  ASSUME NEW f, NEW R, NEW H, NEW Z, Forest(f, R, H, Z), NEW S, \A q \in DOMAIN f : Sound(f[q], S),
         NEW a, NEW g, NEW x, NEW h, NEW Q, NEW I, NEW Y, PageCut(f, a, g, x, R, H, Z, h, Q, I, Y),
         NEW fr, fr.id \in R, fr.id # a, Sound(fr.node, S), FrameOK(fr, f, R, H, Z)
  PROVE  FrameOK(fr, h, Q, I, Y)
  <1>1. Shares(R, H, Z, a, g, x, Q, I, Y)
    BY DEF PageCut
  <1>2. h[fr.id] = f[fr.id] /\ I[fr.id] = H[fr.id] /\ Y[fr.id] = Z[fr.id]
    BY <1>1 DEF PageCut, Shares
  <1>3. PICK node, t : node = fr.node /\ t = fr.id
    OBVIOUS
  <1>4. Good(node, H[t], Z[t], R, H, Z) /\ Sound(node, S) /\ Ahead(node, f[t], f, R)
    BY <1>3 DEF FrameOK
  <1>5. Narrower(node.children, H, Z, Q, I, Y)
    <2>1. ASSUME NEW b \in Range(node.children) PROVE b \in R
      BY <1>4, <2>1 DEF Good, GoodAt, Under, Range
    <2>2. QED BY <2>1, <1>1, SharesLess DEF Narrower
  <1>6. Good(node, H[t], Z[t], Q, I, Y)
    BY <1>4, <1>5, GoodMono
  <1>7. \A b : Orphan(b, f, R) => Orphan(b, h, Q)
    BY CutForest
  <1>8. Ahead(node, f[t], h, Q)
    BY <1>4, <1>7 DEF Ahead, AheadAt
  <1>9. QED BY <1>2, <1>3, <1>6, <1>8 DEF FrameOK

\* When the left half has been written a split is a cut.
LEMMA CutExists ==
  ASSUME NEW f, NEW R, NEW H, NEW Z, Forest(f, R, H, Z), NEW a, a \in R, a # Root,
         NEW g, g \in DOMAIN f, g \notin R, g \in Nat,
         NEW S, Sound(f[a], S), f[a].keys # <<>>, NEW kd, kd = WithNext(LeftHalf(f[a]), g), f[g] = RightHalf(f[a]),
         NEW h, Wrote(f, a, kd, h), NEW x, x = Mid(f[a])
  PROVE  \E Q, I, Y : PageCut(f, a, g, x, R, H, Z, h, Q, I, Y)
  <1>1. PICK node, l, r, m : node = f[a] /\ l = LeftHalf(node) /\ r = RightHalf(node) /\ m = Middle(node)
    OBVIOUS
  <1>2. HalvesOf(node.leaf, node.keys, node.children, m, l.keys, l.children, r.keys, r.children)
    BY <1>1, HalvesParts
  <1>3. PICK Q, I, Y : /\ Q = R \cup {g}
                       /\ I = [q \in Q |-> IF q = g THEN H[a] ELSE H[q]]
                       /\ Y = [q \in Q |-> IF q = g THEN Onward(Z[a], x) ELSE IF q = a THEN Upto(Z[a], x) ELSE Z[q]]
    OBVIOUS
  <1>4. H \in [R -> Nat] /\ Z \in [R -> SUBSET Keys] /\ R \subseteq DOMAIN f
    BY DEF Forest
  <1>5. Upto(Z[a], x) \subseteq Keys /\ Onward(Z[a], x) \subseteq Keys
    BY <1>4 DEF Upto, Onward
  <1>6. Shares(R, H, Z, a, g, x, Q, I, Y)
    BY <1>3, <1>4, <1>5 DEF Shares
  <1>7. PICK lf, ks, cs, T : lf = node.leaf /\ ks = node.keys /\ cs = node.children /\ T = Z[a]
    OBVIOUS
  <1>8. lf \in BOOLEAN /\ node \in Node
    BY <1>1, <1>7, NodeFields DEF Sound, Closed
  <1>9. GoodAt(lf, ks, cs, H[a], T, R, H, Z)
    BY <1>1, <1>7 DEF Forest, Good
  <1>10. Narrower(cs, H, Z, Q, I, Y)
    <2>1. ASSUME NEW b \in Range(cs) PROVE b \in R
      BY <1>9, <2>1 DEF GoodAt, Under, Range
    <2>2. QED BY <2>1, <1>6, SharesLess DEF Narrower
  <1>11. x = ks[m]
    BY <1>1, <1>7 DEF Mid
  <1>12. T \subseteq Int
    BY <1>4, <1>7, KeyAssumption
  <1>13. PICK lk, lc, rk, rc : lk = l.keys /\ lc = l.children /\ rk = r.keys /\ rc = r.children
    OBVIOUS
  <1>14. HalvesOf(lf, ks, cs, m, lk, lc, rk, rc)
    BY <1>2, <1>7, <1>13
  <1>15. HalvesFine(lf, cs, H[a], T, x, lk, lc, rk, rc, Q, I, Y)
    BY <1>8, <1>9, <1>10, <1>11, <1>12, <1>14, HalvesOfGood
  <1>16. /\ DOMAIN h = DOMAIN f \cup {a} /\ h[a] = kd /\ \A q \in DOMAIN f : q # a => h[q] = f[q]
    BY DEF Wrote
  <1>17. l \in Node /\ Sound(l, S) /\ Sound(r, S)
    BY <1>1, HalvesSound DEF Sound, Closed
  <1>18. kd.leaf = l.leaf /\ kd.keys = l.keys /\ kd.children = l.children
    BY <1>1, <1>17, WithNextFacts
  <1>19. l.leaf = node.leaf /\ r.leaf = node.leaf
    BY <1>1, HalfSizes
  <1>20. h[g] = r /\ a # g
    BY <1>1, <1>16
  <1>21. h[a].leaf = lf /\ h[g].leaf = lf
    BY <1>7, <1>16, <1>18, <1>19, <1>20
  <1>22. h[a].keys = lk /\ h[a].children = lc /\ h[g].keys = rk /\ h[g].children = rc
    BY <1>13, <1>16, <1>18, <1>20
  <1>23. \A q \in R : q # a => h[q] = f[q]
    BY <1>4, <1>16
  <1>24. PageCut(f, a, g, x, R, H, Z, h, Q, I, Y)
    BY <1>1, <1>6, <1>7, <1>15, <1>16, <1>21, <1>22, <1>23 DEF PageCut
  <1>25. QED BY <1>24

\* A parent after a split, by its keys and children.
LEMMA PartedPut ==
  ASSUME NEW base \in Node, NEW n \in Nat, n = Len(base.keys), Len(base.children) = n + 1, NEW i \in 1..n + 1,
         NEW x, NEW g, NEW new, Parted(base, i, x, g, n, new),
         NEW ks, NEW cs, ks = base.keys, cs = base.children, NEW t, NEW u, t = new.keys, u = new.children
  PROVE  KeyPut(ks, n, i, x, t) /\ ChildPut(cs, n, i, g, u) /\ t[i] = x /\ u[i] = cs[i] /\ u[i + 1] = g
  <1>1. /\ new \in Node /\ Len(t) = n + 1 /\ Len(u) = n + 2
        /\ \A j \in 1..n + 1 : t[j] = IF j < i THEN ks[j] ELSE IF j = i THEN x ELSE ks[j - 1]
        /\ \A j \in 1..n + 2 : u[j] = IF j < i + 1 THEN cs[j] ELSE IF j = i + 1 THEN g ELSE cs[j - 1]
    BY DEF Parted
  <1>2. DOMAIN ks = 1..n /\ DOMAIN t = 1..n + 1 /\ DOMAIN cs = 1..n + 1 /\ DOMAIN u = 1..n + 2
    BY <1>1, NodeFields, SeqDomain
  <1>3. KeyPut(ks, n, i, x, t) /\ ChildPut(cs, n, i, g, u)
    BY <1>1, <1>2 DEF KeyPut, ChildPut
  <1>4. i \in 1..n + 2 /\ i + 1 \in 1..n + 2 /\ ~(i < i) /\ i < i + 1 /\ ~(i + 1 < i + 1)
    OBVIOUS
  <1>5. t[i] = x
    BY <1>1, <1>4
  <1>6. u[i] = cs[i]
    BY <1>1, <1>4
  <1>7. u[i + 1] = g
    BY <1>1, <1>4
  <1>8. QED BY <1>3, <1>5, <1>6, <1>7

\* What the parent is, in terms of its page t, when its child is saved.
ParentIs(f, t, i, x, g, n, node, ks, cs, nk, nc) ==
  /\ ks = f[t].keys /\ cs = f[t].children /\ nk = node.keys /\ nc = node.children
  /\ ~f[t].leaf /\ ~node.leaf /\ f[t].leaf = FALSE /\ node.leaf = FALSE
  /\ KeyPut(ks, n, i, x, nk) /\ ChildPut(cs, n, i, g, nc)
  /\ nk[i] = x /\ nc[i] = cs[i] /\ nc[i + 1] = g /\ x \in Int

\* It is that.
LEMMA ParentKnown ==
  ASSUME NEW o, NEW p, NEW i, NEW g, NEW kd, NEW sb, NEW f, NEW n, NEW K, NEW C, NEW L,
         Sane("saveChild", FALSE, o, p, i, g, kd, sb, f, n, K, C, L), Exact("saveChild", FALSE, o, p, i, g, f)
  PROVE  \E m, ks, cs, nk, nc : ParentIs(f, TopId(p), i, Mid(f[Child(p, i)]), g, m, TopOf(p), ks, cs, nk, nc)
  <1>1. PICK t, x, node : t = TopId(p) /\ x = Mid(f[Child(p, i)]) /\ node = TopOf(p)
    OBVIOUS
  <1>2. PICK base, m : /\ base = Base(FALSE, p, f) /\ m = Len(base.keys) /\ Sound(base, DOMAIN f) /\ ~base.leaf
                       /\ Parted(base, i, x, g, m, node)
                       /\ m \in Nat /\ Len(base.children) = m + 1 /\ i \in 1..m + 1 /\ x \in Keys
    BY <1>1, ParentGrown
  <1>3. base = f[t] /\ base \in Node
    BY <1>1, <1>2 DEF Base, Sound, Closed
  <1>4. PICK ks, cs, nk, nc : ks = base.keys /\ cs = base.children /\ nk = node.keys /\ nc = node.children
    OBVIOUS
  <1>5. KeyPut(ks, m, i, x, nk) /\ ChildPut(cs, m, i, g, nc) /\ nk[i] = x /\ nc[i] = cs[i] /\ nc[i + 1] = g
    <2>1. /\ base \in Node /\ m \in Nat /\ m = Len(base.keys) /\ Len(base.children) = m + 1 /\ i \in 1..m + 1
          /\ Parted(base, i, x, g, m, node)
      BY <1>2, <1>3
    <2>2. QED BY <2>1, <1>4, PartedPut
  <1>6. x \in Int
    BY <1>2, KeyAssumption
  <1>7. node \in Node /\ ~node.leaf
    BY <1>2 DEF Parted
  <1>8. base.leaf = FALSE /\ node.leaf = FALSE
    BY <1>2, <1>3, <1>7, NodeFields
  <1>9. ParentIs(f, t, i, x, g, m, node, ks, cs, nk, nc)
    BY <1>2, <1>3, <1>4, <1>5, <1>6, <1>7, <1>8 DEF ParentIs
  <1>10. QED BY <1>1, <1>9

\* The frame of the parent may be saved.
LEMMA ParentFrame ==
  ASSUME NEW f, NEW R, NEW H, NEW Z, Forest(f, R, H, Z), NEW S, \A q \in DOMAIN f : Sound(f[q], S),
         NEW a, NEW g, NEW x, NEW h, NEW Q, NEW I, NEW Y, PageCut(f, a, g, x, R, H, Z, h, Q, I, Y),
         NEW fr, NEW t \in R, fr.id = t, t # a, NEW i, NEW n, NEW ks, NEW cs, NEW nk, NEW nc,
         ParentIs(f, t, i, x, g, n, fr.node, ks, cs, nk, nc), a = cs[i]
  PROVE  FrameOK(fr, h, Q, I, Y)
  <1>1. Shares(R, H, Z, a, g, x, Q, I, Y) /\ a \in R /\ g \notin R
    BY DEF PageCut, Shares
  <1>2. h[t] = f[t] /\ I[t] = H[t] /\ Y[t] = Z[t]
    BY <1>1 DEF PageCut, Shares
  <1>3. PICK m, T : m = H[t] /\ T = Z[t]
    OBVIOUS
  <1>4. GoodAt(FALSE, ks, cs, m, T, R, H, Z)
    BY <1>3 DEF Forest, Good, ParentIs
  <1>5. KeyPut(ks, n, i, x, nk) /\ ChildPut(cs, n, i, g, nc) /\ x \in Int
    BY DEF ParentIs
  <1>6. x \in Z[a]
    BY DEF PageCut, HalvesFine
  <1>7. T \subseteq Int
    BY <1>3, KeyAssumption DEF Forest
  <1>8. GoodAt(FALSE, nk, nc, m, T, Q, I, Y)
    BY <1>1, <1>4, <1>5, <1>6, <1>7, PutGood
  <1>9. Good(fr.node, I[t], Y[t], Q, I, Y)
    BY <1>2, <1>3, <1>8 DEF Good, ParentIs
  <1>10. Orphan(g, f, R)
    <2>1. ASSUME NEW q \in R PROVE g \notin Range(f[q].children)
      <3>1. Good(f[q], H[q], Z[q], R, H, Z)
        BY DEF Forest
      <3>2. \A y \in DOMAIN f[q].children : f[q].children[y] \in R
        BY <3>1 DEF Good, GoodAt, Under
      <3>3. QED BY <3>2, <1>1 DEF Range
    <2>2. QED BY <2>1 DEF Orphan
  <1>11. Orphan(g, h, Q)
    BY <1>10, CutForest
  <1>12. PICK old : old = f[t]
    OBVIOUS
  <1>13. old.keys = ks /\ old.children = cs
    BY <1>12 DEF ParentIs
  <1>14. AheadAt(nk, nc, old, h, Q)
    BY <1>5, <1>11, <1>13, PutAhead
  <1>15. Ahead(fr.node, h[t], h, Q)
    BY <1>2, <1>12, <1>14 DEF Ahead, ParentIs
  <1>16. QED BY <1>9, <1>15 DEF FrameOK

\* SaveChild of a writer that is not growing the tree.
LEMMA SortedSaveChild ==
  ASSUME NEW c, NEW gr, NEW o, NEW p, NEW i, NEW g, NEW kd, NEW sb, NEW f, NEW n, NEW K, NEW C, NEW L,
         Sane(c, gr, o, p, i, g, kd, sb, f, n, K, C, L), Exact(c, gr, o, p, i, g, f),
         NEW R, NEW H, NEW Z, Sorted(c, gr, o, p, i, g, f, R, H, Z),
         NEW d, NEW ge, NEW oo, NEW q, NEW j, NEW e, NEW h, DidSaveChild(c, gr, o, p, i, g, kd, f, d, ge, oo, q, j, e, h), ~gr
  PROVE  SortedFor(d, ge, oo, q, j, e, h)
  <1>0. gr = FALSE
    BY DEF Sane
  <1>1. c = "saveChild" /\ d = "enter" /\ ge = FALSE /\ oo = o /\ q = p /\ j = i /\ e = g /\ Wrote(f, Child(p, i), kd, h)
    BY <1>0 DEF DidSaveChild
  <1>2. c \in Walking /\ c \in Splitting /\ c \notin Parting /\ d \notin Splitting
    BY <1>1 DEF Walking, Splitting, Parting
  <1>3. Sane("saveChild", FALSE, o, p, i, g, kd, sb, f, n, K, C, L) /\ Exact("saveChild", FALSE, o, p, i, g, f)
    BY <1>0, <1>1
  <1>4. PICK a, t, S, k, l, x, node : /\ a = Child(p, i) /\ t = TopId(p) /\ S = DOMAIN f /\ k = o.key /\ l = Len(p)
                                      /\ x = Mid(f[a]) /\ node = TopOf(p)
    OBVIOUS
  <1>5. p \in Seq(Frame) /\ l \in DOMAIN p /\ l \in Nat /\ l >= 1 /\ DOMAIN p = 1..l /\ S \subseteq Nat
    BY <1>2, <1>4, SaneTop
  <1>6. /\ a \in S /\ g \in S /\ g # a /\ g # Root /\ Sound(f[a], S) /\ f[a].keys # <<>>
        /\ kd = WithNext(LeftHalf(f[a]), g) /\ f[g] = RightHalf(f[a])
    <2>1. /\ Child(p, i) \in DOMAIN f /\ g \in DOMAIN f /\ g # Child(p, i) /\ g # Root
          /\ Sound(f[Child(p, i)], DOMAIN f) /\ f[Child(p, i)].keys # <<>>
          /\ kd = WithNext(LeftHalf(f[Child(p, i)]), g) /\ f[g] = RightHalf(f[Child(p, i)])
      <3>1. Sane("saveChild", gr, o, p, i, g, kd, sb, f, n, K, C, L) /\ Exact("saveChild", gr, o, p, i, g, f)
        BY <1>1
      <3>2. QED BY <3>1, SaneHalves
    <2>2. QED BY <2>1, <1>4
  <1>7. \A b \in DOMAIN f : Sound(f[b], S)
    BY <1>4, SanePage DEF Sane
  <1>8. PICK m, ks, cs, nk, nc : ParentIs(f, t, i, x, g, m, node, ks, cs, nk, nc)
    BY <1>3, <1>4, ParentKnown
  <1>9. a = cs[i] /\ i \in DOMAIN cs
    <2>1. a = nc[i]
      BY <1>4, <1>8 DEF ParentIs, Child
    <2>2. i \in 1..m + 1 /\ DOMAIN cs = 1..m + 1
      BY <1>8 DEF ParentIs, KeyPut, ChildPut
    <2>3. QED BY <2>1, <2>2, <1>8 DEF ParentIs
  <1>10. /\ Forest(f, R, H, Z) /\ Road(o, p, f, R, H, Z)
         /\ g \notin R /\ Admits(f[t].keys, i, k)
    BY <1>0, <1>1, <1>2, <1>4 DEF Sorted, PathSorted
  <1>11. t \in R /\ p[l].id = t /\ p[l].node = node
    BY <1>4, <1>5, <1>10 DEF Road, TopId, TopOf
  <1>12. a \in R /\ H[a] + 1 = H[t]
    <2>1. Good(f[t], H[t], Z[t], R, H, Z)
      BY <1>10, <1>11 DEF Forest
    <2>2. QED BY <2>1, <1>8, <1>9 DEF Good, GoodAt, Under, ParentIs
  <1>13. a # Root
    <2>1. Tree(f, C, L) /\ t \in DOMAIN f
      BY <1>10, <1>11 DEF Sane, Intact, Forest
    <2>2. SafeNode(f[t], f, C)
      BY <2>1 DEF Tree
    <2>3. QED BY <2>2, <1>8, <1>9 DEF SafeNode, Safe, ParentIs
  <1>14. PICK Q, I, Y : PageCut(f, a, g, x, R, H, Z, h, Q, I, Y)
    <2>1. Wrote(f, a, kd, h) /\ g \in DOMAIN f /\ g \in Nat
      BY <1>1, <1>4, <1>5, <1>6
    <2>2. QED BY <2>1, <1>4, <1>6, <1>10, <1>12, <1>13, CutExists
  <1>15. Forest(h, Q, I, Y)
    BY <1>7, <1>10, <1>14, CutForest
  <1>16. \A b \in R : H[b] \in Nat /\ b \in Q /\ I[b] = H[b] /\ (b # a => Y[b] = Z[b])
    BY <1>10, <1>14 DEF Forest, PageCut, Shares
  <1>17. ASSUME NEW y \in 1..l
         PROVE  p[y].id \in R /\ p[y].id # a /\ k \in Z[p[y].id] /\ (y # l => H[t] < H[p[y].id] /\ FrameOK(p[y], f, R, H, Z))
    <2>1. p[y].id \in R /\ k \in Z[p[y].id]
      BY <1>4, <1>5, <1>10 DEF Road
    <2>2. CASE y = l
      BY <2>1, <2>2, <1>11, <1>12, <1>16
    <2>3. CASE y # l
      <3>1. y < l
        BY <2>3, <1>5
      <3>2. H[t] < H[p[y].id] /\ FrameOK(p[y], f, R, H, Z)
        BY <3>1, <2>3, <1>4, <1>5, <1>10, <1>11 DEF Road
      <3>3. p[y].id # a
        BY <3>2, <2>1, <1>12, <1>16
      <3>4. QED BY <3>2, <3>3, <2>1
    <2>4. QED BY <2>2, <2>3
  <1>18. ASSUME NEW y \in 1..l, y # l PROVE FrameOK(p[y], h, Q, I, Y)
    <2>1. PICK fr : fr = p[y]
      OBVIOUS
    <2>2. fr.id \in R /\ fr.id # a /\ FrameOK(fr, f, R, H, Z)
      BY <2>1, <1>17, <1>18
    <2>3. Sound(fr.node, S)
      BY <2>1, <1>1, <1>2, <1>4, <1>5, <1>18 DEF Sane, WriterInv
    <2>4. FrameOK(fr, h, Q, I, Y)
      BY <2>2, <2>3, <1>7, <1>10, <1>14, CutFrame
    <2>5. QED BY <2>1, <2>4
  <1>19. FrameOK(p[l], h, Q, I, Y)
    <2>1. PICK fr : fr = p[l]
      OBVIOUS
    <2>2. fr.id = t /\ t # a /\ ParentIs(f, t, i, x, g, m, fr.node, ks, cs, nk, nc)
      BY <2>1, <1>5, <1>8, <1>11, <1>17
    <2>3. FrameOK(fr, h, Q, I, Y)
      BY <2>2, <1>7, <1>9, <1>10, <1>11, <1>14, ParentFrame
    <2>4. QED BY <2>1, <2>3
  <1>20. Road(o, p, h, Q, I, Y)
    <2>1. \A y \in 1..l : p[y].id \in Q /\ k \in Y[p[y].id] /\ I[p[y].id] = H[p[y].id]
      BY <1>16, <1>17
    <2>2. \A y, z \in DOMAIN p : y < z => I[p[z].id] < I[p[y].id]
      BY <2>1, <1>5, <1>10 DEF Road
    <2>3. QED BY <2>1, <2>2, <1>4, <1>5, <1>18 DEF Road
  <1>21. Admits(nk, Half(p, i, k), k)
    <2>1. Admits(ks, i, k) /\ nk = node.keys /\ nk[i] = x /\ x \in Int /\ KeyPut(ks, m, i, x, nk)
      BY <1>8, <1>10 DEF ParentIs
    <2>2. k \in Int
      BY <1>1, <1>4, KeyAssumption DEF Sane, WriterInv
    <2>3. Half(p, i, k) = IF k > x THEN i + 1 ELSE i
      BY <2>1, <1>4 DEF Half
    <2>4. Range(ks) \subseteq Int /\ Admits(ks, i, x) /\ i \in 1..m + 1
      <3>1. Good(f[t], H[t], Z[t], R, H, Z)
        BY <1>10, <1>11 DEF Forest
      <3>2. Range(ks) \subseteq Z[t] /\ \A b \in Z[a] : Admits(ks, i, b)
        BY <3>1, <1>8, <1>9 DEF Good, GoodAt, Under, ParentIs
      <3>3. x \in Z[a]
        BY <1>14 DEF PageCut, HalvesFine
      <3>4. Z[t] \subseteq Int
        BY <1>10, <1>11, KeyAssumption DEF Forest
      <3>5. QED BY <3>2, <3>3, <3>4, <2>1 DEF KeyPut
    <2>5. (k <= x => Admits(nk, i, k)) /\ (k >= x => Admits(nk, i + 1, k))
      BY <2>1, <2>2, <2>4, AdmitsPut
    <2>6. CASE k > x
      <3>1. k >= x /\ Half(p, i, k) = i + 1
        BY <2>1, <2>2, <2>3, <2>6
      <3>2. QED BY <3>1, <2>5
    <2>7. CASE ~(k > x)
      <3>1. k <= x /\ Half(p, i, k) = i
        BY <2>1, <2>2, <2>3, <2>7
      <3>2. QED BY <3>1, <2>5
    <2>8. QED BY <2>6, <2>7
  <1>22. Admits(TopOf(p).keys, Half(p, i, o.key), o.key)
    BY <1>4, <1>8, <1>21 DEF ParentIs
  <1>23. PathSorted(d, oo, q, j, e, h, Q, I, Y)
    BY <1>1, <1>2, <1>4, <1>19, <1>20, <1>22 DEF PathSorted
  <1>24. Sorted(d, ge, oo, q, j, e, h, Q, I, Y)
    BY <1>1, <1>15, <1>23 DEF Sorted
  <1>25. QED BY <1>24 DEF SortedFor

\* The tree R has got a new root over page a, which holds its keys up to x, and page g with the others.
Topped(R, H, Z, a, g, x, Q, I, Y) ==
  /\ a \notin R /\ g \notin R /\ a # g /\ Root \in R /\ Q = R \cup {a, g} /\ I \in [Q -> Nat] /\ Y \in [Q -> SUBSET Keys]
  /\ \A q \in R : Y[q] = Z[q] /\ (q # Root => I[q] = H[q])
  /\ I[a] = H[Root] /\ I[g] = H[Root] /\ I[Root] = H[Root] + 1
  /\ Y[a] = Upto(Keys, x) /\ Y[g] = Onward(Keys, x)

\* The new root.
Crown(node, ks, cs, x, a, g) ==
  /\ node.leaf = FALSE /\ ks = node.keys /\ cs = node.children
  /\ DOMAIN ks = {1} /\ ks[1] = x /\ DOMAIN cs = {1, 2} /\ cs[1] = a /\ cs[2] = g

\* It is good.
LEMMA CrownGood ==
  ASSUME NEW R, NEW H, NEW Z, NEW a, NEW g, NEW x \in Keys, NEW Q, NEW I, NEW Y, Topped(R, H, Z, a, g, x, Q, I, Y),
         NEW node, NEW ks, NEW cs, Crown(node, ks, cs, x, a, g)
  PROVE  Good(node, I[Root], Keys, Q, I, Y)
  <1>1. DOMAIN ks = {1} /\ ks[1] = x /\ DOMAIN cs = {1, 2} /\ cs[1] = a /\ cs[2] = g /\ a # g
    BY DEF Crown, Topped
  <1>2. Ascending(ks)
    BY <1>1 DEF Ascending
  <1>3. Range(ks) \subseteq Keys
    BY <1>1 DEF Range
  <1>4. a \in Q /\ g \in Q /\ I[a] + 1 = I[Root] /\ I[g] + 1 = I[Root]
    BY DEF Topped
  <1>5. \A k \in Y[a] : k \in Keys /\ k <= x
    BY DEF Topped, Upto
  <1>6. \A k \in Y[g] : k \in Keys /\ k >= x
    BY DEF Topped, Onward
  <1>7. x \in Int /\ Keys \subseteq Int
    BY KeyAssumption
  <1>8. Under(ks, a, 1, I[Root], Keys, Q, I, Y)
    <2>1. \A k \in Y[a] : Admits(ks, 1, k)
      BY <1>1, <1>5 DEF Admits
    <2>2. QED BY <2>1, <1>4, <1>5 DEF Under
  <1>9. Under(ks, g, 2, I[Root], Keys, Q, I, Y)
    <2>1. \A k \in Y[g] : x <= k
      BY <1>6, <1>7
    <2>2. \A k \in Y[g] : Admits(ks, 2, k)
      BY <1>1, <2>1 DEF Admits
    <2>3. QED BY <2>2, <1>4, <1>6 DEF Under
  <1>10. \A y \in DOMAIN cs : Under(ks, cs[y], y, I[Root], Keys, Q, I, Y)
    BY <1>1, <1>8, <1>9
  <1>11. \A y, z \in DOMAIN cs : cs[y] = cs[z] => y = z
    BY <1>1
  <1>12. cs # <<>>
    BY <1>1
  <1>13. GoodAt(FALSE, ks, cs, I[Root], Keys, Q, I, Y)
    BY <1>2, <1>3, <1>10, <1>11, <1>12 DEF GoodAt
  <1>14. QED BY <1>13 DEF Good, Crown

\* Saving the new root: what it takes, from page f to pages h.
RootGrown(f, a, g, x, R, H, Z, h, Q, I, Y) ==
  /\ Topped(R, H, Z, a, g, x, Q, I, Y) /\ Q \subseteq DOMAIN h
  /\ \A q \in R : Root \notin Range(f[q].children) /\ (q # Root => h[q] = f[q])
  /\ h[a].leaf = f[Root].leaf /\ h[g].leaf = f[Root].leaf
  /\ HalvesFine(f[Root].leaf, f[Root].children, H[Root], Keys, x, h[a].keys, h[a].children, h[g].keys, h[g].children, Q, I, Y)
  /\ \E ks, cs : Crown(h[Root], ks, cs, x, a, g)

\* The children of a page that is not the root.
LEMMA GrownChildren ==
  ASSUME NEW f, NEW R, NEW H, NEW Z, Forest(f, R, H, Z), NEW a, NEW g, NEW x, NEW h, NEW Q, NEW I, NEW Y,
         RootGrown(f, a, g, x, R, H, Z, h, Q, I, Y), NEW q \in Q, q # Root
  PROVE  /\ Range(h[q].children) \subseteq R
         /\ q \in {a, g} => Range(h[q].children) \subseteq Range(f[Root].children)
         /\ q \notin {a, g} => q \in R /\ h[q] = f[q]
  <1>1. ASSUME NEW r \in R PROVE Range(f[r].children) \subseteq R
    <2>1. Good(f[r], H[r], Z[r], R, H, Z)
      BY DEF Forest
    <2>2. QED BY <2>1 DEF Good, GoodAt, Under, Range
  <1>2. Root \in R
    BY DEF RootGrown, Topped
  <1>3. CASE q \in {a, g}
    BY <1>1, <1>2, <1>3 DEF RootGrown, HalvesFine
  <1>4. CASE q \notin {a, g}
    BY <1>1, <1>4 DEF RootGrown, Topped
  <1>5. QED BY <1>3, <1>4

\* The pages stay ordered.
LEMMA GrownForest ==
  ASSUME NEW f, NEW R, NEW H, NEW Z, Forest(f, R, H, Z), NEW S, \A q \in DOMAIN f : Sound(f[q], S),
         NEW a, NEW g, NEW x \in Keys, NEW h, NEW Q, NEW I, NEW Y, RootGrown(f, a, g, x, R, H, Z, h, Q, I, Y)
  PROVE  Forest(h, Q, I, Y)
  <1>1. Topped(R, H, Z, a, g, x, Q, I, Y) /\ a \notin R /\ g \notin R /\ a # g /\ Root \in R /\ Q = R \cup {a, g}
        /\ a # Root /\ g # Root
    BY DEF RootGrown, Topped
  <1>2. Q \subseteq DOMAIN h /\ Root \in Q /\ I \in [Q -> Nat] /\ Y \in [Q -> SUBSET Keys] /\ Y[Root] = Keys
    BY <1>1 DEF RootGrown, Topped, Forest
  <1>3. ASSUME NEW q \in R, q # Root PROVE Good(h[q], I[q], Y[q], Q, I, Y)
    <2>1. h[q] = f[q] /\ I[q] = H[q] /\ Y[q] = Z[q]
      BY <1>1, <1>3 DEF RootGrown, Topped
    <2>2. PICK node : node = f[q]
      OBVIOUS
    <2>3. Good(node, H[q], Z[q], R, H, Z) /\ Sound(node, S)
      BY <2>2 DEF Forest
    <2>4. Narrower(node.children, H, Z, Q, I, Y)
      <3>1. ASSUME NEW b \in Range(node.children) PROVE b \in R /\ b # Root
        BY <2>2, <2>3, <3>1 DEF Good, GoodAt, Under, Range, RootGrown
      <3>2. QED BY <3>1, <1>1 DEF Narrower, Topped
    <2>5. Good(node, H[q], Z[q], Q, I, Y)
      BY <2>3, <2>4, GoodMono
    <2>6. QED BY <2>1, <2>2, <2>5
  <1>4. Good(h[a], I[a], Y[a], Q, I, Y)
    <2>1. I[a] = H[Root] /\ Y[a] = Upto(Keys, x)
      BY <1>1 DEF Topped
    <2>2. QED BY <2>1 DEF RootGrown, HalvesFine, Good
  <1>5. Good(h[g], I[g], Y[g], Q, I, Y)
    <2>1. I[g] = H[Root] /\ Y[g] = Onward(Keys, x)
      BY <1>1 DEF Topped
    <2>2. QED BY <2>1 DEF RootGrown, HalvesFine, Good
  <1>6. PICK ks, cs : Crown(h[Root], ks, cs, x, a, g)
    BY DEF RootGrown
  <1>7. Good(h[Root], I[Root], Y[Root], Q, I, Y)
    <2>1. PICK node : node = h[Root]
      OBVIOUS
    <2>2. Good(node, I[Root], Keys, Q, I, Y)
      BY <2>1, <1>1, <1>6, CrownGood
    <2>3. QED BY <2>1, <2>2, <1>2
  <1>8. \A q \in Q : Good(h[q], I[q], Y[q], Q, I, Y)
    BY <1>1, <1>3, <1>4, <1>5, <1>7
  <1>9. Range(h[Root].children) = {a, g}
    <2>1. Range(cs) = {cs[1], cs[2]}
      BY <1>6 DEF Crown, Range
    <2>2. QED BY <2>1, <1>6 DEF Crown
  <1>10. Range(h[a].children) \cap Range(h[g].children) = {}
    BY DEF RootGrown, HalvesFine
  <1>11. ASSUME NEW q \in Q, NEW r \in Q, q # Root, r # Root, NEW b, b \in Range(h[q].children), b \in Range(h[r].children)
         PROVE  q = r
    <2>1. CASE q \in {a, g} /\ r \in {a, g}
      BY <2>1, <1>10, <1>11
    <2>2. CASE q \in {a, g} /\ r \notin {a, g}
      <3>1. b \in Range(f[Root].children) /\ r \in R /\ b \in Range(f[r].children)
        BY <2>2, <1>11, GrownChildren
      <3>2. r = Root
        BY <3>1, <1>1 DEF Forest
      <3>3. QED BY <3>2, <1>11
    <2>3. CASE q \notin {a, g} /\ r \in {a, g}
      <3>1. b \in Range(f[Root].children) /\ q \in R /\ b \in Range(f[q].children)
        BY <2>3, <1>11, GrownChildren
      <3>2. q = Root
        BY <3>1, <1>1 DEF Forest
      <3>3. QED BY <3>2, <1>11
    <2>4. CASE q \notin {a, g} /\ r \notin {a, g}
      <3>1. q \in R /\ r \in R /\ b \in Range(f[q].children) /\ b \in Range(f[r].children)
        BY <2>4, <1>11, GrownChildren
      <3>2. QED BY <3>1 DEF Forest
    <2>5. QED BY <2>1, <2>2, <2>3, <2>4
  <1>12. ASSUME NEW q \in Q, NEW r \in Q, NEW b, b \in Range(h[q].children), b \in Range(h[r].children)
         PROVE  q = r
    <2>1. CASE q = Root /\ r # Root
      BY <2>1, <1>1, <1>9, <1>12, GrownChildren
    <2>2. CASE r = Root /\ q # Root
      BY <2>2, <1>1, <1>9, <1>12, GrownChildren
    <2>3. CASE q # Root /\ r # Root
      BY <2>3, <1>11, <1>12
    <2>4. QED BY <2>1, <2>2, <2>3
  <1>13. QED BY <1>2, <1>8, <1>12 DEF Forest

\* What a growing writer is about to save as the root.
LEMMA CrownKnown ==
  ASSUME NEW gr, NEW o, NEW p, NEW i, NEW g, NEW kd, NEW sb, NEW f, NEW n, NEW K, NEW C, NEW L,
         Sane("saveRoot", gr, o, p, i, g, kd, sb, f, n, K, C, L), Exact("saveRoot", gr, o, p, i, g, f)
  PROVE  \E ks, cs : Crown(TopOf(p), ks, cs, Mid(f[Root]), Child(p, 1), g) /\ Mid(f[Root]) \in Keys
  <1>1. gr /\ Child(p, 1) \in DOMAIN f /\ g \in DOMAIN f /\ f[Root].keys # <<>> /\ Root \in DOMAIN f
    BY DEF Sane, Intact, GrowSafe, Filed
  <1>2. PICK S, a, k, base, new : /\ S = DOMAIN f /\ a = Child(p, 1) /\ k = Mid(f[Root]) /\ new = TopOf(p)
                                  /\ base = [new_internal EXCEPT !.children = <<a>>]
    OBVIOUS
  <1>3. S \subseteq Nat /\ a \in S /\ g \in S
    BY <1>1, <1>2 DEF Sane, Filed
  <1>4. k \in Keys
    <2>1. f[Root] \in Node
      BY <1>1, SanePage DEF Sane
    <2>2. QED BY <2>1, <1>1, <1>2, MiddleRange DEF Mid
  <1>5. new = WithChild(WithKey(base, 1, k), 1, g)
    BY <1>1, <1>2 DEF Exact, Copies, Base, NewRootOver
  <1>6. Sound(base, S) /\ ~base.leaf
    BY <1>2, <1>3, NewRoot
  <1>18. base \in Node
    BY <1>6 DEF Sound, Closed
  <1>7. base.children = <<a>> /\ base.keys = <<>>
    BY <1>2 DEF new_internal, new_leaf
  <1>8. 1 \in 1..Len(base.children) /\ Len(base.children) = 0 + 1 /\ 0 = Len(base.keys) /\ 0 \in Nat /\ 1 \in 1..0 + 1
    BY <1>7
  <1>9. Regrown(S, base, 1, k, g, 0, new)
    BY <1>3, <1>4, <1>5, <1>6, <1>8, ParentDone
  <1>10. Parted(base, 1, k, g, 0, new)
    BY <1>9 DEF Regrown
  <1>11. PICK ks, cs, nk, nc : ks = base.keys /\ cs = base.children /\ nk = new.keys /\ nc = new.children
    OBVIOUS
  <1>12. KeyPut(ks, 0, 1, k, nk) /\ ChildPut(cs, 0, 1, g, nc) /\ nk[1] = k /\ nc[1] = cs[1] /\ nc[1 + 1] = g
    <2>1. PICK z, y : z = 0 /\ y = 1
      OBVIOUS
    <2>2. /\ base \in Node /\ z \in Nat /\ z = Len(base.keys) /\ Len(base.children) = z + 1 /\ y \in 1..z + 1
          /\ Parted(base, y, k, g, z, new)
      BY <2>1, <1>8, <1>10, <1>18
    <2>3. KeyPut(ks, z, y, k, nk) /\ ChildPut(cs, z, y, g, nc) /\ nk[y] = k /\ nc[y] = cs[y] /\ nc[y + 1] = g
      BY <2>2, <1>11, PartedPut
    <2>4. QED BY <2>1, <2>3
  <1>13. DOMAIN nk = {1} /\ DOMAIN nc = {1, 2}
    <2>1. DOMAIN nk = 1..0 + 1 /\ DOMAIN nc = 1..0 + 2
      BY <1>12 DEF KeyPut, ChildPut
    <2>2. 1..0 + 1 = {1} /\ 1..0 + 2 = {1, 2}
      OBVIOUS
    <2>3. QED BY <2>1, <2>2
  <1>14. cs[1] = a /\ nc[2] = g
    BY <1>7, <1>11, <1>12
  <1>15. new.leaf = FALSE
    BY <1>10, NodeFields DEF Parted
  <1>16. Crown(new, nk, nc, k, a, g)
    BY <1>11, <1>12, <1>13, <1>14, <1>15 DEF Crown
  <1>17. QED BY <1>2, <1>4, <1>16

\* The write of the new root grows the tree.
LEMMA GrownExists ==
  ASSUME NEW f, NEW R, NEW H, NEW Z, Forest(f, R, H, Z), NEW a \in DOMAIN f, NEW g \in DOMAIN f,
         a \notin R, g \notin R, a # g, NEW S, Sound(f[Root], S), f[Root].keys # <<>>,
         f[a] = WithNext(LeftHalf(f[Root]), g), g \in Nat, f[g] = RightHalf(f[Root]),
         \A q \in R : Root \notin Range(f[q].children),
         NEW new, NEW h, Wrote(f, Root, new, h), NEW x, x = Mid(f[Root]),
         NEW nk, NEW nc, Crown(new, nk, nc, x, a, g)
  PROVE  \E Q, I, Y : RootGrown(f, a, g, x, R, H, Z, h, Q, I, Y)
  <1>1. PICK node, l, r, m : node = f[Root] /\ l = LeftHalf(node) /\ r = RightHalf(node) /\ m = Middle(node)
    OBVIOUS
  <1>2. HalvesOf(node.leaf, node.keys, node.children, m, l.keys, l.children, r.keys, r.children)
    BY <1>1, HalvesParts
  <1>3. PICK Q, I, Y : /\ Q = R \cup {a, g}
                       /\ I = [q \in Q |-> IF q \in {a, g} THEN H[Root] ELSE IF q = Root THEN H[Root] + 1 ELSE H[q]]
                       /\ Y = [q \in Q |-> IF q = a THEN Upto(Keys, x) ELSE IF q = g THEN Onward(Keys, x) ELSE Z[q]]
    OBVIOUS
  <1>4. H \in [R -> Nat] /\ Z \in [R -> SUBSET Keys] /\ R \subseteq DOMAIN f /\ Root \in R /\ Z[Root] = Keys
    BY DEF Forest
  <1>5. Upto(Keys, x) \subseteq Keys /\ Onward(Keys, x) \subseteq Keys
    BY DEF Upto, Onward
  <1>6. Topped(R, H, Z, a, g, x, Q, I, Y)
    <2>1. I \in [Q -> Nat] /\ Y \in [Q -> SUBSET Keys]
      BY <1>3, <1>4, <1>5
    <2>2. \A q \in R : Y[q] = Z[q] /\ (q # Root => I[q] = H[q])
      BY <1>3
    <2>3. I[a] = H[Root] /\ I[g] = H[Root] /\ I[Root] = H[Root] + 1 /\ Y[a] = Upto(Keys, x) /\ Y[g] = Onward(Keys, x)
      BY <1>3, <1>4
    <2>4. QED BY <1>3, <1>4, <2>1, <2>2, <2>3 DEF Topped
  <1>7. PICK lf, ks, cs : lf = node.leaf /\ ks = node.keys /\ cs = node.children
    OBVIOUS
  <1>8. lf \in BOOLEAN /\ node \in Node
    BY <1>1, <1>7, NodeFields DEF Sound, Closed
  <1>9. GoodAt(lf, ks, cs, H[Root], Keys, R, H, Z)
    BY <1>1, <1>4, <1>7 DEF Forest, Good
  <1>10. Narrower(cs, H, Z, Q, I, Y)
    <2>1. ASSUME NEW b \in Range(cs) PROVE b \in R /\ b # Root
      BY <1>1, <1>4, <1>7, <1>9, <2>1 DEF GoodAt, Under, Range
    <2>2. QED BY <2>1, <1>6 DEF Narrower, Topped
  <1>11. x = ks[m]
    BY <1>1, <1>7 DEF Mid
  <1>12. Keys \subseteq Int
    BY KeyAssumption
  <1>13. PICK lk, lc, rk, rc : lk = l.keys /\ lc = l.children /\ rk = r.keys /\ rc = r.children
    OBVIOUS
  <1>14. HalvesOf(lf, ks, cs, m, lk, lc, rk, rc)
    BY <1>2, <1>7, <1>13
  <1>15. HalvesFine(lf, cs, H[Root], Keys, x, lk, lc, rk, rc, Q, I, Y)
    BY <1>8, <1>9, <1>10, <1>11, <1>12, <1>14, HalvesOfGood
  <1>16. /\ DOMAIN h = DOMAIN f \cup {Root} /\ h[Root] = new /\ \A q \in DOMAIN f : q # Root => h[q] = f[q]
    BY DEF Wrote
  <1>17. l \in Node /\ Sound(l, S) /\ Sound(r, S)
    BY <1>1, HalvesSound DEF Sound, Closed
  <1>20. h[a] = WithNext(l, g) /\ h[g] = r
    BY <1>1, <1>4, <1>16
  <1>18. h[a].leaf = l.leaf /\ h[a].keys = l.keys /\ h[a].children = l.children
    <2>1. PICK kd : kd = WithNext(l, g)
      OBVIOUS
    <2>2. kd.leaf = l.leaf /\ kd.keys = l.keys /\ kd.children = l.children
      BY <2>1, <1>17, WithNextFacts
    <2>3. QED BY <2>1, <2>2, <1>20
  <1>19. l.leaf = node.leaf /\ r.leaf = node.leaf
    BY <1>1, HalfSizes
  <1>21. h[a].leaf = lf /\ h[g].leaf = lf
    BY <1>7, <1>18, <1>19, <1>20
  <1>22. h[a].keys = lk /\ h[a].children = lc /\ h[g].keys = rk /\ h[g].children = rc
    BY <1>13, <1>18, <1>20
  <1>23. \A q \in R : Root \notin Range(f[q].children) /\ (q # Root => h[q] = f[q])
    BY <1>4, <1>16
  <1>24. Q \subseteq DOMAIN h /\ \E ds, es : Crown(h[Root], ds, es, x, a, g)
    BY <1>3, <1>4, <1>16
  <1>25. RootGrown(f, a, g, x, R, H, Z, h, Q, I, Y)
    BY <1>1, <1>6, <1>7, <1>15, <1>21, <1>22, <1>23, <1>24 DEF RootGrown
  <1>26. QED BY <1>25

\* SaveRoot.
LEMMA SortedSaveRoot ==
  ASSUME NEW c, NEW gr, NEW o, NEW p, NEW i, NEW g, NEW kd, NEW sb, NEW f, NEW n, NEW K, NEW C, NEW L,
         Sane(c, gr, o, p, i, g, kd, sb, f, n, K, C, L), Exact(c, gr, o, p, i, g, f),
         NEW R, NEW H, NEW Z, Sorted(c, gr, o, p, i, g, f, R, H, Z),
         NEW d, NEW ge, NEW oo, NEW q, NEW j, NEW e, NEW h, DidSaveRoot(c, o, p, i, g, f, d, ge, oo, q, j, e, h)
  PROVE  SortedFor(d, ge, oo, q, j, e, h)
  <1>1. c = "saveRoot" /\ d = "reread" /\ Wrote(f, Root, TopOf(p), h)
    BY DEF DidSaveRoot
  <1>2. c \in Walking /\ d \notin Walking
    BY <1>1 DEF Walking, Parting
  <1>3. Sane("saveRoot", gr, o, p, i, g, kd, sb, f, n, K, C, L) /\ Exact("saveRoot", gr, o, p, i, g, f)
    BY <1>1
  <1>4. PICK a, x, new, S : a = Child(p, 1) /\ x = Mid(f[Root]) /\ new = TopOf(p) /\ S = DOMAIN f
    OBVIOUS
  <1>5. /\ gr /\ a \in DOMAIN f /\ g \in DOMAIN f /\ g # a /\ f[Root].keys # <<>>
        /\ f[g] = RightHalf(f[Root]) /\ f[a] = WithNext(LeftHalf(f[Root]), g)
    BY <1>3, <1>4 DEF Sane, Intact, GrowSafe
  <1>6. Forest(f, R, H, Z) /\ a \notin R /\ g \notin R
    BY <1>1, <1>2, <1>4, <1>5 DEF Sorted
  <1>7. \A b \in DOMAIN f : Sound(f[b], S)
    BY <1>4, SanePage DEF Sane
  <1>8. Root \in DOMAIN f /\ g \in Nat
    BY <1>5, <1>6 DEF Sane, Filed, Forest
  <1>9. PICK nk, nc : Crown(new, nk, nc, x, a, g) /\ x \in Keys
    BY <1>3, <1>4, CrownKnown
  <1>10. ASSUME NEW b \in R PROVE Root \notin Range(f[b].children)
    <2>1. Tree(f, C, L) /\ b \in DOMAIN f
      BY <1>6 DEF Sane, Intact, Forest
    <2>2. SafeNode(f[b], f, C)
      BY <2>1 DEF Tree
    <2>3. QED BY <2>2 DEF SafeNode, Safe, Range
  <1>11. Wrote(f, Root, new, h)
    BY <1>1, <1>4
  <1>12. PICK Q, I, Y : RootGrown(f, a, g, x, R, H, Z, h, Q, I, Y)
    BY <1>4, <1>5, <1>6, <1>7, <1>8, <1>9, <1>10, <1>11, GrownExists
  <1>13. Forest(h, Q, I, Y)
    BY <1>6, <1>7, <1>9, <1>12, GrownForest
  <1>14. Sorted(d, ge, oo, q, j, e, h, Q, I, Y)
    BY <1>2, <1>13, SortedOnly
  <1>15. QED BY <1>14 DEF SortedFor

\* Every step keeps the order, in one tree or another.
LEMMA SortedStep ==
  ASSUME NEW c, NEW gr, NEW o, NEW p, NEW i, NEW g, NEW kd, NEW sb, NEW f, NEW n, NEW K, NEW C, NEW L,
         Sane(c, gr, o, p, i, g, kd, sb, f, n, K, C, L), Exact(c, gr, o, p, i, g, f), SortedFor(c, gr, o, p, i, g, f),
         NEW d, NEW ge, NEW oo, NEW q, NEW j, NEW e, NEW h,
         Did(c, gr, o, p, i, g, kd, sb, f, d, ge, oo, q, j, e, h)
  PROVE  SortedFor(d, ge, oo, q, j, e, h)
  <1>0. PICK R, H, Z : Sorted(c, gr, o, p, i, g, f, R, H, Z)
    BY DEF SortedFor
  <1>1. CASE DidRest(c, gr, f, d, h)
    <2>1. Sorted(d, ge, oo, q, j, e, h, R, H, Z)
      BY <1>0, <1>1, SortedRest
    <2>2. QED BY <2>1 DEF SortedFor
  <1>2. CASE DidRoot(c, gr, o, f, d, ge, oo, q, h)
    <2>1. Sorted(d, ge, oo, q, j, e, h, R, H, Z)
      BY <1>0, <1>2, SortedRoot
    <2>2. QED BY <2>1 DEF SortedFor
  <1>3. CASE DidAllocate(c, gr, o, p, i, f, d, ge, oo, q, j, h)
    <2>1. Sorted(d, ge, oo, q, j, e, h, R, H, Z)
      BY <1>0, <1>3, SortedAllocate
    <2>2. QED BY <2>1 DEF SortedFor
  <1>4. CASE DidBlank(c, gr, o, p, i, g, f, d, ge, oo, q, j, e, h)
    <2>1. Sorted(d, ge, oo, q, j, e, h, R, H, Z)
      BY <1>0, <1>4, SortedBlank
    <2>2. QED BY <2>1 DEF SortedFor
  <1>5. CASE DidGrowSave(c, gr, o, g, kd, f, d, ge, oo, q, j, e, h)
    <2>1. Sorted(d, ge, oo, q, j, e, h, R, H, Z)
      BY <1>0, <1>5, SortedGrowSave
    <2>2. QED BY <2>1 DEF SortedFor
  <1>6. CASE DidSplit(c, gr, o, p, i, g, f, d, ge, oo, q, j, e, h)
    <2>1. Sorted(d, ge, oo, q, j, e, h, R, H, Z)
      BY <1>0, <1>6, SortedSplit
    <2>2. QED BY <2>1 DEF SortedFor
  <1>7. CASE DidSaveNew(c, gr, o, p, i, g, sb, f, d, ge, oo, q, j, e, h)
    <2>1. Sorted(d, ge, oo, q, j, e, h, R, H, Z)
      BY <1>0, <1>7, SortedSaveNew
    <2>2. QED BY <2>1 DEF SortedFor
  <1>8. CASE DidSaveChild(c, gr, o, p, i, g, kd, f, d, ge, oo, q, j, e, h)
    <2>1. CASE gr
      <3>1. Sorted(d, ge, oo, q, j, e, h, R, H, Z)
        BY <1>0, <1>8, <2>1, SortedSaveHalf
      <3>2. QED BY <3>1 DEF SortedFor
    <2>2. CASE ~gr
      BY <1>0, <1>8, <2>2, SortedSaveChild
    <2>3. QED BY <2>1, <2>2
  <1>9. CASE DidSaveRoot(c, o, p, i, g, f, d, ge, oo, q, j, e, h)
    BY <1>0, <1>9, SortedSaveRoot
  <1>10. CASE DidLeaf(c, gr, o, p, f, d, ge, oo, q, h)
    <2>1. Sorted(d, ge, oo, q, j, e, h, R, H, Z)
      BY <1>0, <1>10, SortedLeaf
    <2>2. QED BY <2>1 DEF SortedFor
  <1>11. CASE DidChoose(c, gr, o, p, f, d, ge, oo, q, j, h)
    <2>1. Sorted(d, ge, oo, q, j, e, h, R, H, Z)
      BY <1>0, <1>11, SortedChoose
    <2>2. QED BY <2>1 DEF SortedFor
  <1>12. CASE DidDown(c, gr, o, p, i, f, d, ge, oo, q, h)
    BY <1>0, <1>12, SortedDown
  <1>13. CASE DidUnwind(c, gr, o, p, f, d, ge, oo, q, h)
    <2>1. Sorted(d, ge, oo, q, j, e, h, R, H, Z)
      BY <1>0, <1>13, SortedUnwind
    <2>2. QED BY <2>1 DEF SortedFor
  <1>14. CASE DidEnd(c, p, f, d, h)
    <2>1. Sorted(d, ge, oo, q, j, e, h, R, H, Z)
      BY <1>0, <1>14, SortedEnd
    <2>2. QED BY <2>1 DEF SortedFor
  <1>15. QED BY <1>1, <1>2, <1>3, <1>4, <1>5, <1>6, <1>7, <1>8, <1>9, <1>10, <1>11, <1>12, <1>13, <1>14 DEF Did

\* The inductive invariant of Ordered.
OrderInv(w) == RoomInv(w) /\ SortedFor(pc[w], growing[w], op[w], path[w], idx[w], page[w], pages)

\* It holds at first: the root is a leaf without keys.
LEMMA OrderInit ==
  ASSUME Init, NEW w \in Writers
  PROVE  OrderInv(w)
  <1>1. RoomInv(w) /\ pc[w] = "idle"
    BY RoomInit DEF Init
  <1>2. PICK f : f = pages
    OBVIOUS
  <1>3. DOMAIN f = {Root} /\ f[Root] = new_leaf
    BY <1>2 DEF Init
  <1>4. PICK R, H, Z : R = {Root} /\ H = [q \in R |-> 0] /\ Z = [q \in R |-> Keys]
    OBVIOUS
  <1>5. GoodAt(TRUE, <<>>, <<>>, 0, Keys, R, H, Z)
    BY DEF GoodAt, Ascending, Range
  <1>6. new_leaf.leaf = TRUE /\ new_leaf.keys = <<>> /\ new_leaf.children = <<>>
    BY DEF new_leaf
  <1>7. Good(f[Root], H[Root], Z[Root], R, H, Z)
    BY <1>3, <1>4, <1>5, <1>6 DEF Good
  <1>8. Forest(f, R, H, Z)
    BY <1>3, <1>4, <1>7 DEF Forest
  <1>9. Sorted(pc[w], growing[w], op[w], path[w], idx[w], page[w], pages, R, H, Z)
    BY <1>1, <1>2, <1>8, SortedOnly DEF Walking, Parting
  <1>10. QED BY <1>1, <1>9 DEF OrderInv, SortedFor

\* It is inductive when w is the only writer.
LEMMA OrderNext ==
  ASSUME NEW w, Writers = {w}, OrderInv(w), [Next]_vars
  PROVE  OrderInv(w)'
  <1>1. RoomInv(w)'
    BY RoomNext DEF OrderInv
  <1>2. CASE Next
    <2>1. PICK c, gr, o, p, i, g, kd, sb, f : Now(w, c, gr, o, p, i, g, kd, sb, f)
      BY DEF Now
    <2>2. PICK d, ge, oo, q, j, e, h : Then(w, d, ge, oo, q, j, e, h)
      BY DEF Then
    <2>3. Watched(w, c, gr, o, p, i, g, kd, sb, f, d, ge, oo, q, j, e, h)
      BY <2>1, <2>2 DEF Watched, OrderInv, RoomInv, TreeInv
    <2>4. Step(w)
      BY <1>2 DEF Next
    <2>5. Did(c, gr, o, p, i, g, kd, sb, f, d, ge, oo, q, j, e, h)
      BY <2>3, <2>4, StepDid
    <2>6. PICK n, K, C, L : Sane(c, gr, o, p, i, g, kd, sb, f, n, K, C, L)
      BY <2>3, WatchedSane
    <2>7. Exact(c, gr, o, p, i, g, f) /\ SortedFor(c, gr, o, p, i, g, f)
      BY <2>1 DEF Now, OrderInv, RoomInv
    <2>8. SortedFor(d, ge, oo, q, j, e, h)
      BY <2>5, <2>6, <2>7, SortedStep
    <2>9. QED BY <1>1, <2>2, <2>8 DEF Then, OrderInv
  <1>3. CASE UNCHANGED vars
    BY <1>1, <1>3 DEF OrderInv, vars
  <1>4. QED BY <1>2, <1>3

\* It holds in every state.
LEMMA OrderAlways ==
  ASSUME NEW CONSTANT w, Writers = {w}
  PROVE  Spec => []OrderInv(w)
  <1>1. Init => OrderInv(w)
    BY OrderInit
  <1>2. OrderInv(w) /\ [Next]_vars => OrderInv(w)'
    BY OrderNext
  <1>3. QED BY <1>1, <1>2, PTL DEF Spec

\* A step from within V[m - 1] leads into V[m].
Leads(G, V, n, S) == \A m \in 1..n : \A T \in SUBSET S : T \subseteq V[m - 1] => G[T] \subseteq V[m]

\* What a walk over sets of pages stays within.
LEMMA WalkWithin ==
  ASSUME NEW S, NEW n \in Nat, NEW G \in [SUBSET S -> SUBSET S], NEW x \in SUBSET S,
         NEW V \in [0..n -> SUBSET S], x \subseteq V[0], Leads(G, V, n, S)
  PROVE  Iterate(G, x, n) \subseteq V[n]
  <1>1. PICK it \in [0..n -> SUBSET S] : it[0] = x /\ (\A i \in 1..n : it[i] = G[it[i - 1]]) /\ Iterate(G, x, n) = it[n]
    <2>1. PICK U : U = SUBSET S
      OBVIOUS
    <2>2. G \in [U -> U] /\ x \in U
      BY <2>1
    <2>3. \E it \in [0..n -> U] : Walk(it, G, x, n)
      BY <2>2, IterateDef
    <2>4. QED BY <2>1, <2>3 DEF Walk
  <1> DEFINE T == {m \in 0..n : it[m] \subseteq V[m]}
  <1>2. 0 \in T
    BY <1>1
  <1>3. ASSUME NEW m \in 1..n, m - 1 \in T PROVE m \in T
    <2>1. it[m] = G[it[m - 1]] /\ it[m - 1] \in SUBSET S /\ it[m - 1] \subseteq V[m - 1]
      BY <1>1, <1>3
    <2>2. QED BY <2>1 DEF Leads
  <1> HIDE DEF T
  <1>4. n \in T
    BY <1>2, <1>3, UpToEnd
  <1>5. QED BY <1>1, <1>4 DEF T

\* The children of pages of the tree, one level lower and with fewer keys below them.
LEMMA ChildrenIn ==
  ASSUME NEW f, NEW R, NEW H, NEW Z, Forest(f, R, H, Z), NEW q \in R, NEW x, x \in Range(f[q].children)
  PROVE  x \in R /\ H[x] + 1 = H[q] /\ Z[x] \subseteq Z[q] /\ H[x] \in Nat /\ H[q] \in Nat
  <1>1. Good(f[q], H[q], Z[q], R, H, Z)
    BY DEF Forest
  <1>2. x \in R /\ H[x] + 1 = H[q] /\ Z[x] \subseteq Z[q]
    BY <1>1 DEF Good, GoodAt, Under, Range
  <1>3. QED BY <1>2 DEF Forest

\* Leaves are the pages without height.
LEMMA LeafHeight ==
  ASSUME NEW f, NEW R, NEW H, NEW Z, Forest(f, R, H, Z), NEW q \in R, f[q].children \in Seq(PageId)
  PROVE  f[q].leaf <=> H[q] = 0
  <1>1. Good(f[q], H[q], Z[q], R, H, Z)
    BY DEF Forest
  <1>2. f[q].leaf => H[q] = 0
    BY <1>1 DEF Good, GoodAt
  <1>3. ASSUME ~f[q].leaf PROVE H[q] # 0
    <2>1. PICK cs : cs = f[q].children
      OBVIOUS
    <2>2. cs # <<>> /\ cs \in Seq(PageId)
      BY <2>1, <1>1, <1>3 DEF Good, GoodAt
    <2>3. 1 \in DOMAIN cs
      BY <2>2, SeqEnds
    <2>4. cs[1] \in Range(f[q].children)
      BY <2>1, <2>3 DEF Range
    <2>5. H[cs[1]] + 1 = H[q] /\ H[cs[1]] \in Nat
      BY <2>4, ChildrenIn
    <2>6. QED BY <2>5
  <1>4. QED BY <1>2, <1>3

\* From pages to their children, and from pages to themselves and their children.
ToChildren(f) == [S \in SUBSET DOMAIN f |-> UNION {Range(f[p].children) : p \in S}]
AndChildren(f) == [S \in SUBSET DOMAIN f |-> S \cup UNION {Range(f[p].children) : p \in S}]

\* Page q is m levels below the root.
AtLevel(q, m, R, H) == q \in R /\ H[q] + m = H[Root]

\* The pages m levels below the root are as high as each other.
LEMMA LevelHeights ==
  ASSUME NEW f, NEW n, Filed(f, n), NEW R, NEW H, NEW Z, Forest(f, R, H, Z), NEW m \in Nat,
         NEW q \in Iterate(ToChildren(f), {Root}, m)
  PROVE  AtLevel(q, m, R, H)
  <1>0. PICK G : G = [S \in SUBSET DOMAIN f |-> UNION {Range(f[p].children) : p \in S}]
    OBVIOUS
  <1>1. PICK S : S = DOMAIN f
    OBVIOUS
  <1>2. Root \in R /\ R \subseteq S /\ \A r \in R : H[r] \in Nat
    BY <1>1 DEF Forest
  <1>3. \A r \in S : Range(f[r].children) \subseteq S
    BY <1>1, SanePage DEF Sound, Closed, Range
  <1>4. G \in [SUBSET S -> SUBSET S]
    BY <1>0, <1>1, <1>3
  <1>5. PICK V : V = [k \in 0..m |-> {r \in R : H[r] + k = H[Root]}]
    OBVIOUS
  <1>6. V \in [0..m -> SUBSET S]
    BY <1>2, <1>5
  <1>7. PICK x : x = {Root}
    OBVIOUS
  <1>8. x \in SUBSET S /\ x \subseteq V[0]
    <2>1. 0 \in 0..m /\ H[Root] + 0 = H[Root]
      BY <1>2
    <2>2. QED BY <2>1, <1>2, <1>5, <1>7
  <1>9. ASSUME NEW k \in 1..m, NEW T \in SUBSET S, T \subseteq V[k - 1] PROVE G[T] \subseteq V[k]
    <2>1. k - 1 \in 0..m /\ k \in 0..m /\ k \in Nat
      BY <1>9
    <2>2. ASSUME NEW b \in G[T] PROVE b \in V[k]
      <3>1. PICK r \in T : b \in Range(f[r].children)
        BY <2>2, <1>0, <1>1
      <3>2. r \in R /\ H[r] + (k - 1) = H[Root]
        BY <1>5, <1>9, <2>1
      <3>3. b \in R /\ H[b] + 1 = H[r] /\ H[b] \in Nat /\ H[r] \in Nat
        BY <3>1, <3>2, ChildrenIn
      <3>4. H[b] + k = H[Root]
        BY <3>2, <3>3, <2>1, <1>2
      <3>5. QED BY <3>3, <3>4, <2>1, <1>5
    <2>3. QED BY <2>2
  <1>13. Leads(G, V, m, S)
    BY <1>9 DEF Leads
  <1>10. Iterate(G, x, m) \subseteq V[m]
    BY <1>4, <1>6, <1>8, <1>13, WalkWithin
  <1>11. m \in 0..m
    OBVIOUS
  <1>12. QED BY <1>0, <1>5, <1>7, <1>10, <1>11 DEF ToChildren, AtLevel

\* The pages of a subtree hold no other keys than those of its top.
LEMMA SubtreeKeys ==
  ASSUME NEW f, NEW n, Filed(f, n), NEW R, NEW H, NEW Z, Forest(f, R, H, Z), NEW a \in R,
         NEW q \in Iterate(AndChildren(f), {a}, n)
  PROVE  q \in R /\ Z[q] \subseteq Z[a]
  <1>0. PICK G : G = [S \in SUBSET DOMAIN f |-> S \cup UNION {Range(f[p].children) : p \in S}]
    OBVIOUS
  <1>1. PICK S : S = DOMAIN f
    OBVIOUS
  <1>2. R \subseteq S /\ n \in Nat
    BY <1>1 DEF Forest, Filed
  <1>3. \A r \in S : Range(f[r].children) \subseteq S
    BY <1>1, SanePage DEF Sound, Closed, Range
  <1>4. G \in [SUBSET S -> SUBSET S]
    BY <1>0, <1>1, <1>3
  <1>5. PICK U, V, x : U = {r \in R : Z[r] \subseteq Z[a]} /\ V = [k \in 0..n |-> U] /\ x = {a}
    OBVIOUS
  <1>6. V \in [0..n -> SUBSET S]
    BY <1>2, <1>5
  <1>7. x \in SUBSET S /\ x \subseteq V[0]
    BY <1>2, <1>5
  <1>8. ASSUME NEW k \in 1..n, NEW T \in SUBSET S, T \subseteq V[k - 1] PROVE G[T] \subseteq V[k]
    <2>1. k - 1 \in 0..n /\ k \in 0..n
      BY <1>2
    <2>2. T \subseteq U /\ V[k] = U
      BY <2>1, <1>5, <1>8
    <2>3. ASSUME NEW b \in G[T] PROVE b \in U
      <3>1. CASE b \in T
        BY <3>1, <2>2
      <3>2. CASE b \notin T
        <4>1. PICK r \in T : b \in Range(f[r].children)
          BY <2>3, <3>2, <1>0, <1>1
        <4>2. b \in R /\ Z[b] \subseteq Z[r] /\ Z[r] \subseteq Z[a]
          BY <4>1, <2>2, <1>5, ChildrenIn
        <4>3. QED BY <4>2, <1>5
      <3>3. QED BY <3>1, <3>2
    <2>4. QED BY <2>2, <2>3
  <1>12. Leads(G, V, n, S)
    BY <1>8 DEF Leads
  <1>9. Iterate(G, x, n) \subseteq V[n]
    BY <1>2, <1>4, <1>6, <1>7, <1>12, WalkWithin
  <1>10. n \in 0..n
    BY <1>2
  <1>11. QED BY <1>0, <1>5, <1>9, <1>10 DEF AndChildren

\* What Ordered asks of a node with keys ks, where B[y] are the keys below its y-th child.
NodeOrdered(lf, ks, cs, B) ==
  /\ \A i, j \in DOMAIN ks : i < j => ks[i] <= ks[j]
  /\ lf \/ Len(cs) = Len(ks) + 1
  /\ ~lf => \A i \in DOMAIN ks : (\A k \in B[i] : k <= ks[i]) /\ \A k \in B[i + 1] : k >= ks[i]

\* A page of the tree is like that.
LEMMA PageOrdered ==
  ASSUME NEW f, NEW n, Filed(f, n), NEW R, NEW H, NEW Z, Forest(f, R, H, Z), NEW q \in R,
         NEW lf, NEW ks, NEW cs, lf = f[q].leaf, ks = f[q].keys, cs = f[q].children,
         NEW B, \A y \in DOMAIN cs : B[y] \subseteq Z[cs[y]]
  PROVE  NodeOrdered(lf, ks, cs, B)
  <1>1. q \in DOMAIN f
    BY DEF Forest
  <1>2. Sound(f[q], DOMAIN f) /\ ks \in Seq(Keys) /\ cs \in Seq(PageId)
    BY <1>1, SanePage, NodeFields
  <1>3. GoodAt(lf, ks, cs, H[q], Z[q], R, H, Z) /\ Z[q] \subseteq Keys
    BY DEF Forest, Good
  <1>4. PICK a, b : a = Len(ks) /\ b = Len(cs)
    OBVIOUS
  <1>5. a \in Nat /\ b \in Nat /\ DOMAIN ks = 1..a /\ DOMAIN cs = 1..b /\ \A i \in 1..a : ks[i] \in Keys
    BY <1>2, <1>4, SeqDomain
  <1>6. lf \/ b = a + 1
    <2>1. ASSUME ~lf PROVE cs # <<>>
      BY <1>3, <2>1 DEF GoodAt
    <2>2. QED BY <2>1, <1>2, <1>4, InnerSize
  <1>7. ASSUME ~lf, NEW i \in 1..a PROVE (\A k \in B[i] : k <= ks[i]) /\ \A k \in B[i + 1] : k >= ks[i]
    <2>1. i \in 1..b /\ i + 1 \in 1..b /\ i < i + 1 /\ i >= i
      BY <1>5, <1>6, <1>7
    <2>2. (\A k \in B[i] : k \in Z[cs[i]]) /\ (\A k \in B[i + 1] : k \in Z[cs[i + 1]])
      BY <2>1, <1>5
    <2>3. (\A k \in Z[cs[i]] : Admits(ks, i, k) /\ k \in Keys) /\ (\A k \in Z[cs[i + 1]] : Admits(ks, i + 1, k) /\ k \in Keys)
      BY <2>1, <1>3, <1>5 DEF GoodAt, Under
    <2>4. \A k \in B[i] : k <= ks[i]
      BY <2>1, <2>2, <2>3, <1>5 DEF Admits
    <2>5. ASSUME NEW k \in B[i + 1] PROVE k >= ks[i]
      <3>1. ks[i] <= k /\ k \in Int /\ ks[i] \in Int
        BY <2>1, <2>2, <2>3, <2>5, <1>5, KeyAssumption DEF Admits
      <3>2. QED BY <3>1
    <2>6. QED BY <2>4, <2>5
  <1>8. Ascending(ks)
    BY <1>3 DEF GoodAt
  <1>9. QED BY <1>4, <1>5, <1>6, <1>7, <1>8 DEF NodeOrdered, Ascending

\* Ordered follows.
LEMMA OrderedHolds ==
  ASSUME NEW w, Writers = {w}, OrderInv(w)
  PROVE  Ordered
  <1>1. PICK f, n : f = pages /\ n = num_pages
    OBVIOUS
  <1>2. Filed(f, n)
    BY <1>1, HereFiled DEF OrderInv, RoomInv, TreeInv
  <1>3. PICK R, H, Z : Sorted(pc[w], growing[w], op[w], path[w], idx[w], page[w], f, R, H, Z)
    BY <1>1 DEF OrderInv, SortedFor
  <1>4. Forest(f, R, H, Z) /\ Root \in R
    BY <1>3 DEF Sorted, Forest
  <1>6. \A m : Level(m) = Iterate(ToChildren(f), {Root}, m)
    BY <1>1 DEF Level, Children, ToChildren
  <1>7. \A a : Subtree(a) = Iterate(AndChildren(f), {a}, n)
    BY <1>1 DEF Subtree, Children, AndChildren
  <1>8. ASSUME NEW a \in R, NEW q \in Subtree(a) PROVE q \in R /\ Z[q] \subseteq Z[a]
    BY <1>2, <1>4, <1>7, <1>8, SubtreeKeys
  <1>9. ASSUME NEW q \in R PROVE q \in DOMAIN f /\ f[q].leaf \in BOOLEAN /\ f[q].children \in Seq(PageId) /\ Range(f[q].keys) \subseteq Z[q]
    <2>1. q \in DOMAIN f /\ Good(f[q], H[q], Z[q], R, H, Z)
      BY <1>4 DEF Forest
    <2>2. f[q] \in Node
      BY <2>1, <1>2, SanePage
    <2>3. QED BY <2>1, <2>2, NodeFields DEF Good, GoodAt
  <1>10. ASSUME NEW m \in 0..n, NEW p \in Level(m), NEW q \in Level(m) PROVE pages[p].leaf = pages[q].leaf
    <2>1. m \in Nat /\ n \in Nat
      BY <1>2 DEF Filed
    <2>2. p \in R /\ H[p] + m = H[Root] /\ q \in R /\ H[q] + m = H[Root]
      <3>1. p \in Iterate(ToChildren(f), {Root}, m) /\ q \in Iterate(ToChildren(f), {Root}, m)
        BY <1>6, <1>10
      <3>2. AtLevel(p, m, R, H) /\ AtLevel(q, m, R, H)
        BY <3>1, <2>1, <1>2, <1>4, LevelHeights
      <3>3. QED BY <3>2 DEF AtLevel
    <2>3. H[p] \in Nat /\ H[q] \in Nat /\ H[Root] \in Nat
      BY <2>2, <1>4 DEF Forest
    <2>4. H[p] = H[q]
      BY <2>1, <2>2, <2>3
    <2>5. f[p].leaf <=> f[q].leaf
      BY <2>2, <2>4, <1>4, <1>9, LeafHeight
    <2>6. QED BY <2>2, <2>5, <1>1, <1>9
  <1>11. ASSUME NEW a \in R PROVE KeysBelow(a) \subseteq Z[a]
    BY <1>1, <1>8, <1>9 DEF KeysBelow
  <1>12. ASSUME NEW p \in Reachable
         PROVE  /\ \A i, j \in DOMAIN pages[p].keys : i < j => pages[p].keys[i] <= pages[p].keys[j]
                /\ pages[p].leaf \/ Len(pages[p].children) = Len(pages[p].keys) + 1
                /\ ~pages[p].leaf => \A i \in DOMAIN pages[p].keys :
                     /\ \A k \in KeysBelow(pages[p].children[i]) : k <= pages[p].keys[i]
                     /\ \A k \in KeysBelow(pages[p].children[i + 1]) : k >= pages[p].keys[i]
    <2>1. p \in R
      BY <1>4, <1>8, <1>12 DEF Reachable
    <2>2. PICK lf, ks, cs : lf = f[p].leaf /\ ks = f[p].keys /\ cs = f[p].children
      OBVIOUS
    <2>3. PICK B : B = [y \in Nat |-> KeysBelow(cs[y])]
      OBVIOUS
    <2>4. cs \in Seq(PageId) /\ ks \in Seq(Keys)
      BY <2>1, <2>2, <1>2, <1>9, SanePage, NodeFields
    <2>5. DOMAIN cs \subseteq Nat /\ DOMAIN ks \subseteq Nat
      BY <2>4, SeqDomain
    <2>6. \A y \in DOMAIN cs : B[y] \subseteq Z[cs[y]]
      <3>1. ASSUME NEW y \in DOMAIN cs PROVE cs[y] \in R
        <4>1. cs[y] \in Range(f[p].children)
          BY <2>2, <3>1 DEF Range
        <4>2. QED BY <4>1, <2>1, <1>4, ChildrenIn
      <3>2. QED BY <3>1, <2>3, <2>5, <1>11
    <2>7. NodeOrdered(lf, ks, cs, B)
      BY <2>1, <2>2, <2>6, <1>2, <1>4, PageOrdered
    <2>8. \A i \in DOMAIN ks : B[i] = KeysBelow(cs[i]) /\ B[i + 1] = KeysBelow(cs[i + 1])
      BY <2>3, <2>5
    <2>9. /\ \A i, j \in DOMAIN ks : i < j => ks[i] <= ks[j]
          /\ lf \/ Len(cs) = Len(ks) + 1
          /\ ~lf => \A i \in DOMAIN ks : (\A k \in KeysBelow(cs[i]) : k <= ks[i]) /\ \A k \in KeysBelow(cs[i + 1]) : k >= ks[i]
      BY <2>7, <2>8 DEF NodeOrdered
    <2>10. QED BY <2>2, <2>9, <1>1
  <1>13. QED BY <1>1, <1>10, <1>12 DEF Ordered

\* With one writer, and whatever fails, the tree is ordered between any two page writes: every leaf
\* is at the same depth, keys ascend, and the keys below a child lie between the separators around
\* it (btree.rs split_child, insert_non_full).
THEOREM OrderCorrect ==
  ASSUME NEW CONSTANT w, Writers = {w}
  PROVE  Spec => []Ordered
  <1>1. OrderInv(w) => Ordered
    BY OrderedHolds
  <1>2. QED BY <1>1, OrderAlways, PTL

=============================================================================
