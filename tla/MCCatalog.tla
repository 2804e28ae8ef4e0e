----------------------------- MODULE MCCatalog ------------------------------
(* Two connections, two tables.                                            *)
EXTENDS Catalog
CONSTANTS c1, c2, t1, t2, v1, v2

Symmetry == Permutations(Conns) \cup Permutations(Tables) \cup Permutations(Values)

\* State constraint: either the catalog is at work, with rows of one value and no index, or the
\* index, with plain statements on tables that are there.
Explored ==
  /\ Len(queue) <= 2
  /\ \/ indices = {} /\ Cardinality({h.val : h \in held}) <= 1 /\ updates = 0
     \/ /\ Cardinality(indices) <= 1 /\ created = Tables /\ shadowed = {}
        /\ \A c \in Conns : ~tx[c].open /\ pc[c] # "create"
        /\ \A i \in DOMAIN queue : queue[i].is = "idx"
=============================================================================
