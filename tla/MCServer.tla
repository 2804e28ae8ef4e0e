------------------------------ MODULE MCServer ------------------------------
(* Two TCP connections and two HTTP requests at a time.                     *)
EXTENDS Server
CONSTANTS s1, s2, r1, r2

Symmetry == Permutations(Sessions) \cup Permutations(Requests)

NoTransactions == committed = {} /\ \A i \in Conns : ~active_transactions[i].open
NoSessions == \A s \in Sessions : session[s] = "none"

\* State constraint: requests press on the memory tier, or sessions and requests run
\* transactions on one row, or requests undo and redo.
Explored ==
  \/ NoSessions /\ NoTransactions /\ undoing = {} /\ current_version = 0
  \/ /\ writes <= 3 /\ current_version <= 1 /\ undoing = {} /\ ~overlapped
     /\ Range(lru) \subseteq {1} /\ (\A p \in Procs : mkey[p] \in {0, 1} /\ todo[p] \subseteq {1})
     /\ \A i \in Conns : \A u \in active_transactions[i].updates : u.key = 1
  \/ NoSessions /\ writes <= 1 /\ Range(lru) \subseteq {1} /\ max_ram_mb = 1
=============================================================================
