------------------------------- MODULE Server -------------------------------
(***************************************************************************)
(* The sessions of src/network/server.rs: TCP connections that log in and  *)
(* send one statement after the other, and HTTP requests that run in       *)
(* parallel under one connection number, over active_transactions, the     *)
(* version counter of undo and redo, and the memory tier with its limit    *)
(* and purge handlers.                                                     *)
(*                                                                         *)
(* A statement writes one row.  What COMMIT validates is in Engine.        *)
(***************************************************************************)
EXTENDS MemoryTier

CONSTANTS
  Sessions,    \* TCP connections that may be made
  Requests,    \* bound: HTTP requests at the same time
  MaxVersion,  \* bound: the version counter
  MaxWrites    \* bound: statements that write

ASSUME ServerAssumption == /\ Procs = Sessions \cup Requests /\ Sessions \cap Requests = {}
                           /\ IsFiniteSet(Sessions)
                           /\ MaxVersion \in Nat /\ MaxWrites \in Nat

HttpConn == 999
FirstConn == 1000
Conns == {HttpConn} \cup {FirstConn + i : i \in 0..Cardinality(Sessions)}
VersionWidth == 2 * MaxVersion + 4  \* for 2^64: the counter wraps at this
NoTx == [open |-> FALSE, updates |-> {}]

VARIABLES
  next_conn_id,
  session,           \* per TCP connection: "none", "connected", "authenticated", "closed"
  conn,              \* per process: the connection number it executes under
  active_transactions,
  todo,              \* per process: keys its COMMIT has still to install
  current_version,
  undoing,           \* HTTP requests between the check and the subtraction of an undo
  writes,            \* bound used up
  committed,         \* [key, by, committer] of updates that COMMITs took
  undos_met          \* two undos overlapped

sessions == <<next_conn_id, session, conn, active_transactions, todo>>
versions == <<current_version, undoing, undos_met>>
vars == <<memory, sessions, versions, writes, committed>>

Init ==
  /\ MemoryInit
  /\ next_conn_id = FirstConn
  /\ session = [s \in Sessions |-> "none"]
  /\ conn = [p \in Procs |-> IF p \in Requests THEN HttpConn ELSE 0]
  /\ active_transactions = [i \in Conns |-> NoTx]
  /\ todo = [p \in Procs |-> {}]
  /\ current_version = 0 /\ undoing = {} /\ undos_met = FALSE
  /\ writes = 0 /\ committed = {}

-----------------------------------------------------------------------------
\* Faulty variant of Accept: a closed connection's number is given again.
AcceptAgain(s) ==
  /\ session[s] = "none"
  /\ session' = [session EXCEPT ![s] = "connected"]
  /\ \E i \in {next_conn_id} \cup {conn[r] : r \in {q \in Sessions : session[q] = "closed"}} :
       /\ conn' = [conn EXCEPT ![s] = i]
       /\ next_conn_id' = IF i = next_conn_id THEN i + 1 ELSE next_conn_id
  /\ UNCHANGED <<memory, active_transactions, todo, versions, writes, committed>>

Accept(s) ==
  /\ session[s] = "none"
  /\ session' = [session EXCEPT ![s] = "connected"]
  /\ conn' = [conn EXCEPT ![s] = next_conn_id]
  /\ next_conn_id' = next_conn_id + 1
  /\ UNCHANGED <<memory, active_transactions, todo, versions, writes, committed>>

\* The first line: AUTH with the right user and password, or the connection is closed.
Authenticate(s) ==
  /\ session[s] = "connected"
  /\ session' \in {[session EXCEPT ![s] = "authenticated"], [session EXCEPT ![s] = "closed"]}
  /\ UNCHANGED <<memory, next_conn_id, conn, active_transactions, todo, versions, writes, committed>>

\* A process that may begin a statement.  A session reads its next line when the statement
\* before is done; an HTTP request stands for a new one each time, its header checked.
Ready(p) == /\ p \in Sessions => session[p] = "authenticated"
            /\ Out(p) /\ todo[p] = {} /\ p \notin undoing

\* The end of the stream; the transaction stays where it is.
Disconnect(s) ==
  /\ session[s] = "connected" \/ (session[s] = "authenticated" /\ Ready(s))
  /\ session' = [session EXCEPT ![s] = "closed"]
  /\ UNCHANGED <<memory, next_conn_id, conn, active_transactions, todo, versions, writes, committed>>

-----------------------------------------------------------------------------
\* Engine::execute for connection conn[p].
Tx(p) == active_transactions[conn[p]]
SetTx(p, tx) == active_transactions' = [active_transactions EXCEPT ![conn[p]] = tx]

Begin(p) ==
  /\ Ready(p)
  /\ SetTx(p, [open |-> TRUE, updates |-> {}])
  /\ UNCHANGED <<memory, next_conn_id, session, conn, todo, versions, writes, committed>>

\* One update per key: a later one of the same key replaces it.
WriteInTx(p, k) ==
  /\ Ready(p) /\ Tx(p).open /\ writes < MaxWrites
  /\ SetTx(p, [Tx(p) EXCEPT !.updates = {u \in @ : u.key # k} \cup {[key |-> k, by |-> p]}])
  /\ writes' = writes + 1
  /\ UNCHANGED <<memory, next_conn_id, session, conn, todo, versions, committed>>

\* An UPDATE or a DELETE takes the next version, an INSERT the current one.
Write(p, k) ==
  /\ Ready(p) /\ ~Tx(p).open /\ writes < MaxWrites
  /\ \/ UNCHANGED current_version
     \/ current_version < MaxVersion /\ current_version' = current_version + 1
  /\ InsertBegin(p, k)
  /\ writes' = writes + 1
  /\ UNCHANGED <<sessions, undoing, undos_met, committed>>

Commit(p) ==
  /\ Ready(p) /\ Tx(p).open /\ current_version < MaxVersion
  /\ current_version' = current_version + 1
  /\ committed' = committed \cup {[key |-> u.key, by |-> u.by, committer |-> p] : u \in Tx(p).updates}
  /\ todo' = [todo EXCEPT ![p] = {u.key : u \in Tx(p).updates}]
  /\ SetTx(p, NoTx)
  /\ UNCHANGED <<memory, next_conn_id, session, conn, undoing, undos_met, writes>>

CommitRow(p) ==
  /\ \E k \in todo[p] : InsertBegin(p, k) /\ todo' = [todo EXCEPT ![p] = @ \ {k}]
  /\ UNCHANGED <<next_conn_id, session, conn, active_transactions, versions, writes, committed>>

Rollback(p) ==
  /\ Ready(p) /\ Tx(p).open
  /\ SetTx(p, NoTx)
  /\ UNCHANGED <<memory, next_conn_id, session, conn, todo, versions, writes, committed>>

-----------------------------------------------------------------------------
\* The handlers of HTTP requests.  undo compares with zero and subtracts in two steps.

\* Faulty variant of UndoCheck: no comparison.
UndoCheckNot(p) ==
  /\ Ready(p)
  /\ undoing' = undoing \cup {p}
  /\ undos_met' = (undos_met \/ undoing # {})
  /\ UNCHANGED <<memory, sessions, current_version, writes, committed>>

UndoCheck(p) ==
  /\ Ready(p) /\ current_version > 0
  /\ undoing' = undoing \cup {p}
  /\ undos_met' = (undos_met \/ undoing # {})
  /\ UNCHANGED <<memory, sessions, current_version, writes, committed>>

\* Faulty variant of UndoSubtract: a signed counter.
UndoSubtractSigned(p) ==
  /\ p \in undoing
  /\ current_version' = current_version - 1
  /\ undoing' = undoing \ {p}
  /\ UNCHANGED <<memory, sessions, undos_met, writes, committed>>

UndoSubtract(p) ==
  /\ p \in undoing
  /\ current_version' = (current_version - 1) % VersionWidth
  /\ undoing' = undoing \ {p}
  /\ UNCHANGED <<memory, sessions, undos_met, writes, committed>>

Redo(p) ==
  /\ Ready(p) /\ current_version < MaxVersion
  /\ current_version' = current_version + 1
  /\ UNCHANGED <<memory, sessions, undoing, undos_met, writes, committed>>

Purge(p) ==
  /\ Ready(p)
  /\ ClearCache(p)
  /\ UNCHANGED <<sessions, versions, writes, committed>>

Limit(p) ==
  /\ Ready(p)
  /\ SetLimit
  /\ UNCHANGED <<sessions, versions, writes, committed>>

Continue(p) == MemoryStep(p) /\ UNCHANGED <<sessions, versions, writes, committed>>

Next ==
  \/ \E s \in Sessions : Accept(s) \/ Authenticate(s) \/ Disconnect(s)
  \/ \E p \in Procs : \/ Begin(p) \/ Commit(p) \/ CommitRow(p) \/ Rollback(p) \/ Continue(p)
                      \/ \E k \in Keys : WriteInTx(p, k) \/ Write(p, k)
  \/ \E p \in Requests : UndoCheck(p) \/ UndoSubtract(p) \/ Redo(p) \/ Purge(p) \/ Limit(p)

Spec == Init /\ [][Next]_vars

-----------------------------------------------------------------------------
\* Every variable has its type.
TypeOK ==
  /\ MemoryTypeOK
  /\ next_conn_id \in FirstConn..FirstConn + Cardinality(Sessions)
  /\ session \in [Sessions -> {"none", "connected", "authenticated", "closed"}]
  /\ conn \in [Procs -> Conns \cup {0}]
  /\ active_transactions \in [Conns -> [open : BOOLEAN, updates : SUBSET [key : Keys, by : Procs]]]
  /\ todo \in [Procs -> SUBSET Keys]
  /\ \A p \in Procs : p \in Sessions /\ todo[p] # {} => session[p] = "authenticated"
  /\ current_version \in 0..VersionWidth - 1 /\ undoing \subseteq Requests
  /\ undos_met \in BOOLEAN /\ writes \in 0..MaxWrites

\* A COMMIT on a TCP connection takes the updates of its own session and nothing that a closed
\* one left behind.  HTTP requests share a connection number and commit each other's.
CommitsOwn ==
  \A u \in committed : /\ u.by \in Sessions => u.committer = u.by
                       /\ u.committer \in Sessions => u.by = u.committer

\* The version counter never falls below zero, where it would wrap to 2^64 - 1 and make every
\* later record visible, unless two undos passed the check together.
VersionDoesNotWrap == ~undos_met => current_version <= MaxVersion
=============================================================================
