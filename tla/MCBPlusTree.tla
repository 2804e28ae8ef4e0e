---------------------------- MODULE MCBPlusTree ----------------------------
(* A tree whose nodes are full with two entries.                           *)
EXTENDS BPlusTree
=============================================================================
