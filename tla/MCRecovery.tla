----------------------------- MODULE MCRecovery -----------------------------
(* Two rows, blocks of sixteen bytes: a record takes eight, or thirteen     *)
(* when its row is longer, and a page image nine.                           *)
EXTENDS Recovery

\* State constraint: the database file is swapped in the first of the process's lives.
Explored == swaps = 0 \/ (writes <= 2 /\ sent <= 2 /\ crashes <= 1)
=============================================================================
