------------------------------ MODULE MCEngine ------------------------------
(* Two connections on a table of two rows.                                 *)
EXTENDS Engine, TLC
CONSTANTS c1, c2, k1, k2

Symmetry == Permutations(Conns) \cup Permutations(Keys)

\* State constraint: deletes and evictions happen to a table of one row only.
Explored ==
  \/ Cardinality(Keys \ unused) <= 1
  \/ evictions = 0 /\ \A c \in Conns : kind[c] # "delete"
=============================================================================
