-------------------------------- MODULE MCWal --------------------------------
(* Two client tasks, the drain thread and the WAL thread on a queue of one *)
(* entry.                                                                  *)
EXTENDS Wal, TLC
CONSTANTS c1, c2

Symmetry == Permutations(Clients)
=============================================================================
