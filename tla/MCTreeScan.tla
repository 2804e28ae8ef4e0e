----------------------------- MODULE MCTreeScan -----------------------------
(* A tree whose nodes are full with two entries, so that a handful of      *)
(* inserts split leaves, internal nodes and the root, and one scan.        *)
EXTENDS TreeScan

\* What the inserts so far were about.
Used == Present \cup {op[w].key : w \in {x \in Writers : pc[x] # "idle"}}
Light == EntriesWithin(2)

\* State constraint: four inserts of four keys or five of three against a scan, or four of
\* which one fails, or five of which one fails without a scan, all in any order; four in two
\* sizes; and nine whose keys nearly ascend, so that the tree grows to three levels and splits
\* at each.
Explored ==
  \/ Light /\ inserts <= 4 /\ errors = 0 /\ Used \subseteq 1..4
  \/ Light /\ inserts <= 5 /\ errors = 0 /\ Used \subseteq 1..3
  \/ Light /\ inserts <= (IF at = "idle" THEN 5 ELSE 4) /\ errors <= 1 /\ Used \subseteq 1..3
  \/ at = "idle" /\ inserts <= 4 /\ errors <= 1 /\ Used \subseteq 1..3
  \/ /\ at = "idle" /\ Light /\ errors = 0
     /\ \A k \in Present : k - acked[k].n \in -1..1
     /\ \A w \in Writers : pc[w] # "idle" => op[w].key - inserts \in -1..1
=============================================================================
