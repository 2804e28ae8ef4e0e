------------------------------- MODULE Ingest -------------------------------
(***************************************************************************)
(* What the ingestion pipeline promises, without its buffers, locks and    *)
(* channels: an entry is accepted, taken off the queue in acceptance order *)
(* by exactly one of the log and the drain, and then settles for ever.     *)
(* Note what is not promised: an entry that is logged is not applied to    *)
(* the tree, and one that is applied is not in the log.                    *)
(***************************************************************************)
EXTENDS Naturals

VARIABLES
  accepted,  \* how many entries the queue has accepted
  stage      \* stage[n]: how far entry n has come

Stages == {"queued", "logging", "logged", "draining", "applied", "skipped", "lost"}
Final  == {"logged", "applied", "skipped", "lost"}

Init == accepted = 0 /\ stage = [n \in {} |-> "queued"]

In(st) == {n \in 1..accepted : stage[n] = st}
Oldest(n, st) == n \in In(st) /\ \A m \in In(st) : n <= m
MoveAll(S, st) == [n \in 1..accepted |-> IF n \in S THEN st ELSE stage[n]]

\* The queue accepts one more entry.
Accept ==
  /\ accepted' = accepted + 1
  /\ stage' = [n \in 1..accepted' |-> IF n = accepted' THEN "queued" ELSE stage[n]]

\* The oldest queued entry is taken for the log, for the tree, or thrown away by FLUSH.
Take ==
  /\ \E n \in 1..accepted, st \in {"logging", "draining", "lost"} :
       Oldest(n, "queued") /\ stage' = MoveAll({n}, st)
  /\ UNCHANGED accepted

\* A batch of entries taken for the log is written, or all of it is lost.
Write ==
  /\ \E S \in SUBSET In("logging"), st \in {"logged", "lost"} :
       S # {} /\ stage' = MoveAll(S, st)
  /\ UNCHANGED accepted

\* The oldest drained entry is skipped or its insert fails.
Finish ==
  /\ \E n \in 1..accepted, st \in {"skipped", "lost"} :
       Oldest(n, "draining") /\ stage' = MoveAll({n}, st)
  /\ UNCHANGED accepted

\* The oldest drained entry is inserted, which puts the page it changed on the queue.
Apply ==
  /\ accepted' = accepted + 1
  /\ \E n \in 1..accepted :
       /\ Oldest(n, "draining")
       /\ stage' = [m \in 1..accepted' |-> IF m = accepted' THEN "queued"
                                           ELSE IF m = n THEN "applied" ELSE stage[m]]

Next == Accept \/ Take \/ Write \/ Finish \/ Apply
Spec == Init /\ [][Next]_<<accepted, stage>>
=============================================================================
