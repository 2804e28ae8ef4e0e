----------------------------- MODULE WalProofs -----------------------------
(***************************************************************************)
(* Theorems about the ingestion pipeline of module Wal, for every number   *)
(* of client tasks, every queue and channel capacity and every bound.      *)
(***************************************************************************)
EXTENDS Wal, TLAPS

-----------------------------------------------------------------------------
(* Type correctness.  TypeOK alone is not inductive: an enqueue counts     *)
(* down what is left, and a page save of the drain thread finishes the     *)
(* first entry of its chunk.                                               *)

(* A task that is about to push an entry has one to push, and the drain    *)
(* thread does so only on behalf of a record of its chunk (wal.rs enqueue, *)
(* engine.rs drain loop).                                                  *)
WorkInv ==
  /\ \A p \in Tasks : pc[p] = "enqueue" => left[p] > 0
  /\ pc[Drainer] = "enqueue" => entries # <<>>

\* The drain thread is a task and not a client.
LEMMA ClientsAreTasks == /\ Drainer \in Tasks
                         /\ \A c \in Clients : c \in Tasks /\ c # Drainer /\ c # NoOne
BY TaskAssumption DEF Tasks

\* The first state.
LEMMA InitTypes == Init => TypeOK /\ WorkInv
<1> SUFFICES ASSUME Init PROVE TypeOK /\ WorkInv
  OBVIOUS
<1>1. TypeOK
  BY CapacityAssumption, BoundAssumption, LimitAssumption, TaskAssumption
     DEF Init, TypeOK, Tasks, Statements, None, Labels
<1>2. WorkInv
  BY ClientsAreTasks DEF Init, WorkInv
<1> QED BY <1>1, <1>2

\* A push of one entry keeps the queue within its capacity.
LEMMA PushType ==
  ASSUME TypeOK, NEW isPage \in BOOLEAN, Push(isPage)
  PROVE  queue' \in Seq(Entry) /\ Len(queue') <= QueueCapacity /\ accepted' \in Nat
<1>1. [id |-> accepted + 1, page |-> isPage] \in Entry
  BY DEF TypeOK, Entry
<1> QED BY <1>1, CapacityAssumption DEF TypeOK, Push

\* The head and the tail of a sequence that is not empty.
LEMMA HeadTail ==
  ASSUME NEW S, NEW s \in Seq(S), s # <<>>
  PROVE  Head(s) \in S /\ Tail(s) \in Seq(S) /\ Len(Tail(s)) = Len(s) - 1 /\ Len(s) >= 1
OBVIOUS

\* Starting a statement and enqueueing its entries.
LEMMA EnqueueTypes ==
  ASSUME TypeOK, WorkInv, NEW c \in Clients,
         \/ \E s \in Statements, n \in 0..MaxRows : Start(c, s, n)
         \/ Enqueue(c) \/ EnqueueRetry(c) \/ EnqueueFail(c)
  PROVE  TypeOK' /\ WorkInv'
<1> USE ClientsAreTasks
<1>1. ASSUME NEW s \in Statements, NEW n \in 0..MaxRows, Start(c, s, n)
      PROVE  TypeOK' /\ WorkInv'
  <2>1. TypeOK'
    BY <1>1, BoundAssumption, SMTT(30) DEF TypeOK, Labels, Start, Goto, flushVars, drainVars, logVars
  <2>2. WorkInv'
    BY <1>1, BoundAssumption, SMTT(30) DEF TypeOK, WorkInv, Start, Goto, drainVars
  <2> QED BY <2>1, <2>2
<1>2. CASE Enqueue(c)
  <2>1. queue' \in Seq(Entry) /\ Len(queue') <= QueueCapacity /\ accepted' \in Nat
    BY <1>2, PushType DEF Enqueue
  <2>2. left[c] - 1 \in Nat
    BY <1>2 DEF Enqueue, WorkInv, TypeOK
  <2>3. TypeOK'
    BY <1>2, <2>1, <2>2 DEF TypeOK, Labels, Enqueue, Proceed, Goto, settings, flushVars, drainVars, logVars
  <2>4. WorkInv'
    BY <1>2, SMTT(30) DEF TypeOK, WorkInv, Enqueue, Proceed, Goto, drainVars
  <2> QED BY <2>3, <2>4
<1>3. CASE EnqueueRetry(c)
  BY <1>3, SMTT(30) DEF TypeOK, WorkInv, EnqueueRetry, settings, flushVars, drainVars, logVars
<1>4. CASE EnqueueFail(c)
  BY <1>4 DEF TypeOK, WorkInv, Labels, EnqueueFail, Proceed, Goto, settings, flushVars, drainVars, logVars
<1> QED BY <1>1, <1>2, <1>3, <1>4

\* flush_pipeline.
LEMMA FlushTypes ==
  ASSUME TypeOK, WorkInv, NEW c \in Clients, Flush(c)
  PROVE  TypeOK' /\ WorkInv'
<1> USE ClientsAreTasks DEF TypeOK, WorkInv, Labels, Proceed, Goto, settings, flushVars, drainVars, logVars
<1>1. CASE FlushEmpty(c)
  BY <1>1 DEF FlushEmpty, AfterFlush
<1>2. CASE FlushBegin(c)
  BY <1>2 DEF FlushBegin
<1>3. CASE FlushLoad(c)
  BY <1>3 DEF FlushLoad
<1>4. CASE FlushLock(c)
  BY <1>4 DEF FlushLock
<1>5. CASE FlushPop(c)
  <2>1. Head(queue) \in Entry /\ Tail(queue) \in Seq(Entry) /\ Len(Tail(queue)) = Len(queue) - 1
    BY <1>5, HeadTail DEF FlushPop
  <2>2. Append(buffer[is_a[c]], Head(queue)) \in Seq(Entry)
    BY <2>1
  <2>3. queue' \in Seq(Entry) /\ Len(queue') <= QueueCapacity
    BY <1>5, <2>1, CapacityAssumption DEF FlushPop
  <2>4. buffer' \in [BOOLEAN -> Seq(Entry)]
    BY <1>5, <2>2 DEF FlushPop
  <2>5. pc' \in [Tasks -> Labels] /\ pc'[c] # "enqueue" /\ (\A p \in Tasks : p # c => pc'[p] = pc[p])
    BY <1>5 DEF FlushPop
  <2>6. stmt' \in [Clients -> Statements \cup {None}]
    BY <1>5 DEF FlushPop
  <2> QED BY <1>5, <2>3, <2>4, <2>5, <2>6 DEF FlushPop
<1>6. CASE FlushPopNone(c)
  BY <1>6 DEF FlushPopNone
<1>7. CASE FlushNothing(c)
  BY <1>7 DEF FlushNothing, AfterFlush
<1>8. CASE FlushSwap(c)
  BY <1>8, SMTT(30) DEF FlushSwap
<1>9. CASE FlushSend(c)
  <2>1. Append(chan, batch[c]) \in Seq(Seq(Entry)) /\ Len(Append(chan, batch[c])) = Len(chan) + 1
    OBVIOUS
  <2>2. chan' \in Seq(Seq(Entry)) /\ Len(chan') <= ChannelCapacity
    BY <1>9, <2>1, CapacityAssumption DEF FlushSend
  <2>3. batch' \in [Clients -> Seq(Entry)] /\ holder' \in [BOOLEAN -> Clients \cup {NoOne}]
    BY <1>9 DEF FlushSend
  <2>4. pc' \in [Tasks -> Labels] /\ pc'[c] # "enqueue" /\ (\A p \in Tasks : p # c => pc'[p] = pc[p])
    BY <1>9 DEF FlushSend, AfterFlush
  <2>5. stmt' \in [Clients -> Statements \cup {None}]
    BY <1>9 DEF FlushSend, AfterFlush
  <2> QED BY <1>9, <2>2, <2>3, <2>4, <2>5 DEF FlushSend
<1> QED BY <1>1, <1>2, <1>3, <1>4, <1>5, <1>6, <1>7, <1>8, <1>9 DEF Flush

\* FLUSH and the WAL thread.
LEMMA DiscardTypes ==
  ASSUME TypeOK, WorkInv,
         \/ \E c \in Clients : Discard(c) \/ DiscardNone(c)
         \/ WalWrite \/ WalWriteError
  PROVE  TypeOK' /\ WorkInv'
<1> USE ClientsAreTasks DEF TypeOK, WorkInv, Labels, Proceed, Goto, settings, flushVars, drainVars, logVars
<1>1. ASSUME NEW c \in Clients, Discard(c)
      PROVE  TypeOK' /\ WorkInv'
  <2>1. Head(queue) \in Entry /\ Tail(queue) \in Seq(Entry) /\ Len(Tail(queue)) = Len(queue) - 1
    BY <1>1, HeadTail DEF Discard
  <2>2. lost' \in SUBSET Entry
    BY <1>1, <2>1 DEF Discard
  <2>3. queue' \in Seq(Entry) /\ Len(queue') <= QueueCapacity
    BY <1>1, <2>1, CapacityAssumption DEF Discard
  <2> QED BY <1>1, <2>2, <2>3 DEF Discard
<1>2. ASSUME NEW c \in Clients, DiscardNone(c)
      PROVE  TypeOK' /\ WorkInv'
  BY <1>2 DEF DiscardNone
<1>3. ASSUME WalWrite \/ WalWriteError
      PROVE  TypeOK' /\ WorkInv'
  <2>1. Head(chan) \in Seq(Entry) /\ Tail(chan) \in Seq(Seq(Entry)) /\ Len(Tail(chan)) = Len(chan) - 1
    BY <1>3, HeadTail DEF WalWrite, WalWriteError
  <2>2. chan' \in Seq(Seq(Entry)) /\ Len(chan') <= ChannelCapacity
    <3>1. chan' = Tail(chan)
      BY <1>3 DEF WalWrite, WalWriteError
    <3> QED BY <2>1, <3>1, CapacityAssumption
  <2>3. {Head(chan)[i] : i \in DOMAIN Head(chan)} \in SUBSET Entry
    BY <2>1
  <2>4. file' \in Seq(Seq(Entry))
    <3>1. file' = file \/ file' = Append(file, Head(chan))
      BY <1>3 DEF WalWrite, WalWriteError
    <3>2. Append(file, Head(chan)) \in Seq(Seq(Entry))
      BY <2>1
    <3>3. file \in Seq(Seq(Entry))
      OBVIOUS
    <3> QED BY ONLY <3>1, <3>2, <3>3
  <2>5. lost' \in SUBSET Entry
    BY <1>3, <2>3 DEF WalWrite, WalWriteError
  <2>6. UNCHANGED <<queue, settings, pc, stmt, left, retries, accepted, flushVars, drainVars>>
    BY <1>3 DEF WalWrite, WalWriteError
  <2> QED BY <2>2, <2>4, <2>5, <2>6
<1> QED BY <1>1, <1>2, <1>3

\* The drain thread.
LEMMA DrainTypes ==
  ASSUME TypeOK, WorkInv, DrainStep
  PROVE  TypeOK' /\ WorkInv'
<1> USE ClientsAreTasks DEF TypeOK, WorkInv, Labels, Goto, settings, flushVars, drainVars, logVars
<1>1. CASE DrainPop
  <2>1. Head(queue) \in Entry /\ Tail(queue) \in Seq(Entry) /\ Len(Tail(queue)) = Len(queue) - 1
    BY <1>1, HeadTail DEF DrainPop
  <2>2. queue' \in Seq(Entry) /\ Len(queue') <= QueueCapacity
    BY <1>1, <2>1, CapacityAssumption DEF DrainPop
  <2>3. entries' \in Seq(Entry) /\ Len(entries') <= DrainChunk
    BY <1>1, <2>1, BoundAssumption DEF DrainPop
  <2> QED BY <1>1, <2>2, <2>3 DEF DrainPop
<1>2. CASE DrainCollected
  BY <1>2 DEF DrainCollected
<1>3. CASE DrainSkip
  <2>1. Head(entries) \in Entry /\ Tail(entries) \in Seq(Entry) /\ Len(Tail(entries)) = Len(entries) - 1
    BY <1>3, HeadTail DEF DrainSkip
  <2>2. skipped' \in SUBSET Entry
    BY <1>3, <2>1 DEF DrainSkip
  <2>3. entries' \in Seq(Entry) /\ Len(entries') <= DrainChunk
    BY <1>3, <2>1, BoundAssumption DEF DrainSkip
  <2> QED BY <1>3, <2>2, <2>3 DEF DrainSkip
<1>4. ASSUME NEW n \in 1..MaxPages, DrainInsert(n)
      PROVE  TypeOK' /\ WorkInv'
  BY <1>4, BoundAssumption DEF DrainInsert
<1>5. CASE DrainSave
  <2>1. queue' \in Seq(Entry) /\ Len(queue') <= QueueCapacity /\ accepted' \in Nat
    BY <1>5, PushType DEF DrainSave
  <2>2. left' \in [Tasks -> Nat] /\ left'[Drainer] > 0
    BY <1>5 DEF DrainSave
  <2> QED BY <1>5, <2>1, <2>2 DEF DrainSave
<1>6. CASE DrainSaveLast \/ DrainFail
  <2>1. Head(entries) \in Entry /\ Tail(entries) \in Seq(Entry) /\ Len(Tail(entries)) = Len(entries) - 1
    BY <1>6, HeadTail DEF DrainSaveLast, DrainFail
  <2>2. entries' \in Seq(Entry) /\ Len(entries') <= DrainChunk
    <3>1. entries' = Tail(entries)
      BY <1>6 DEF DrainSaveLast, DrainFail
    <3> QED BY <2>1, <3>1, BoundAssumption
  <2>3. CASE DrainSaveLast
    <3>1. queue' \in Seq(Entry) /\ Len(queue') <= QueueCapacity /\ accepted' \in Nat
      BY <2>3, PushType DEF DrainSaveLast
    <3>2. applied' \in Seq(Entry)
      BY <2>3, <2>1 DEF DrainSaveLast
    <3> QED BY <2>3, <2>2, <3>1, <3>2 DEF DrainSaveLast
  <2>4. CASE DrainFail
    <3>1. lost' \in SUBSET Entry
      BY <2>4, <2>1 DEF DrainFail
    <3> QED BY <2>4, <2>2, <3>1 DEF DrainFail
  <2> QED BY <1>6, <2>3, <2>4
<1>7. CASE EnqueueRetry(Drainer)
  BY <1>7 DEF EnqueueRetry
<1>8. CASE DrainDone
  BY <1>8 DEF DrainDone
<1> QED BY <1>1, <1>2, <1>3, <1>4, <1>5, <1>6, <1>7, <1>8 DEF DrainStep

(* Every reachable state is well typed: in particular the queue never      *)
(* holds more than its capacity, the channel never more than its bound and *)
(* the drain thread never more than one chunk, whatever the number of      *)
(* tasks (wal.rs Wal, engine.rs drain loop).                               *)
THEOREM TypeCorrect == Spec => [](TypeOK /\ WorkInv)
<1>1. Init => TypeOK /\ WorkInv
  BY InitTypes
<1>2. TypeOK /\ WorkInv /\ [Next]_vars => TypeOK' /\ WorkInv'
  <2> SUFFICES ASSUME TypeOK, WorkInv, [Next]_vars
               PROVE  TypeOK' /\ WorkInv'
    OBVIOUS
  <2>1. CASE UNCHANGED vars
    BY <2>1 DEF vars, TypeOK, WorkInv
  <2>2. ASSUME NEW c \in Clients,
               (\E s \in Statements, n \in 0..MaxRows : Start(c, s, n)) \/ ClientStep(c)
        PROVE  TypeOK' /\ WorkInv'
    BY <2>2, EnqueueTypes, FlushTypes, DiscardTypes DEF ClientStep
  <2>3. CASE WalWrite \/ WalWriteError
    BY <2>3, DiscardTypes
  <2>4. CASE DrainStep
    BY <2>4, DrainTypes
  <2> QED BY <2>1, <2>2, <2>3, <2>4 DEF Next
<1> QED BY <1>1, <1>2, PTL DEF Spec

-----------------------------------------------------------------------------
(* The two buffers.  A client loads the flag before it takes the lock, so  *)
(* the flag says nothing about the buffer it works on: the invariant ties  *)
(* the mutex to the program counter and to the flag the client loaded.     *)

Flushing == {"pop", "swap", "send"}

(* A client holds the mutex of the buffer it chose exactly while it pops,  *)
(* swaps and sends, and the buffer is already empty when it sends          *)
(* (wal.rs flush_pipeline).                                                *)
LockInv ==
  /\ \A c \in Clients, b \in BOOLEAN : holder[b] = c <=> (pc[c] \in Flushing /\ is_a[c] = b)
  /\ \A c \in Clients : pc[c] = "send" => buffer[is_a[c]] = <<>>

\* At first both buffers are free and empty.
LEMMA InitLock == Init => LockInv /\ NothingStranded
BY TaskAssumption, ClientsAreTasks, ZenonT(40) DEF Init, LockInv, NothingStranded, Flushing

\* What leaves the mutexes, the buffers and the program counters of flushing clients alone.
LEMMA LockFrame ==
  ASSUME LockInv, NothingStranded, UNCHANGED flushVars,
         \A c \in Clients : pc'[c] = pc[c] \/ (pc[c] \notin Flushing /\ pc'[c] \notin Flushing)
  PROVE  LockInv' /\ NothingStranded'
BY DEF LockInv, NothingStranded, flushVars, Flushing

\* flush_pipeline takes and releases the mutexes.
LEMMA FlushLockInv ==
  ASSUME TypeOK, LockInv, NothingStranded, NEW c \in Clients, Flush(c)
  PROVE  LockInv' /\ NothingStranded'
<1> USE ClientsAreTasks, TaskAssumption DEF Proceed, Goto
<1>0. /\ is_a \in [Clients -> BOOLEAN] /\ holder \in [BOOLEAN -> Clients \cup {NoOne}]
      /\ DOMAIN buffer = BOOLEAN /\ DOMAIN pc = Tasks /\ active_is_a \in BOOLEAN
  BY DEF TypeOK
<1>1. CASE FlushEmpty(c)
  BY <1>0, <1>1, LockFrame DEF FlushEmpty, AfterFlush, Flushing
<1>2. CASE FlushBegin(c)
  BY <1>0, <1>2, LockFrame DEF FlushBegin, Flushing
<1>3. CASE FlushLoad(c)
  BY <1>0, <1>3 DEF FlushLoad, LockInv, NothingStranded, Flushing
<1>4. CASE FlushLock(c)
  BY <1>0, <1>4 DEF FlushLock, LockInv, NothingStranded, Flushing
<1>5. CASE FlushPop(c)
  <2>1. holder[is_a[c]] = c /\ holder' = holder /\ is_a' = is_a
    BY <1>0, <1>5 DEF FlushPop, LockInv, Flushing
  <2>2. \A b \in BOOLEAN : b # is_a[c] => buffer'[b] = buffer[b]
    BY <1>0, <1>5 DEF FlushPop
  <2>3. pc[c] = "pop" /\ pc'[c] \in {"pop", "swap"} /\ \A d \in Clients : d # c => pc'[d] = pc[d]
    BY <1>0, <1>5 DEF FlushPop
  <2>4. NothingStranded'
    BY <1>0, <2>1, <2>2 DEF NothingStranded
  <2>5. \A d \in Clients : pc'[d] = "send" => d # c /\ is_a[d] # is_a[c]
    BY <1>0, <2>1, <2>3 DEF LockInv, Flushing
  <2>6. \A d \in Clients : pc'[d] \in Flushing <=> pc[d] \in Flushing
    BY <1>0, <2>3 DEF Flushing
  <2>7. \A d \in Clients : pc'[d] = "send" => buffer'[is_a'[d]] = <<>>
    <3> SUFFICES ASSUME NEW d \in Clients, pc'[d] = "send" PROVE buffer'[is_a[d]] = <<>>
      BY <2>1
    <3>1. d # c /\ pc[d] = "send" /\ is_a[d] # is_a[c] /\ is_a[d] \in BOOLEAN
      BY <1>0, <2>3, <2>5
    <3> QED BY <3>1, <2>2 DEF LockInv
  <2>8. LockInv'
    BY <1>0, <2>1, <2>6, <2>7 DEF LockInv
  <2> QED BY <2>4, <2>8
<1>6. CASE FlushPopNone(c)
  BY <1>0, <1>6 DEF FlushPopNone, LockInv, NothingStranded, Flushing, flushVars
<1>7. CASE FlushNothing(c)
  BY <1>0, <1>7 DEF FlushNothing, AfterFlush, LockInv, NothingStranded, Flushing
<1>8. CASE FlushSwap(c)
  BY <1>0, <1>8 DEF FlushSwap, LockInv, NothingStranded, Flushing
<1>9. CASE FlushSend(c)
  BY <1>0, <1>9 DEF FlushSend, AfterFlush, LockInv, NothingStranded, Flushing
<1> QED BY <1>1, <1>2, <1>3, <1>4, <1>5, <1>6, <1>7, <1>8, <1>9 DEF Flush

\* Every step keeps it.
LEMMA NextLockInv ==
  ASSUME TypeOK, LockInv, NothingStranded, [Next]_vars
  PROVE  LockInv' /\ NothingStranded'
<1> USE ClientsAreTasks DEF TypeOK, Flushing, Proceed, Goto
<1>1. CASE UNCHANGED vars
  BY <1>1 DEF vars, LockInv, NothingStranded
<1>2. ASSUME NEW c \in Clients, NEW s \in Statements, NEW n \in 0..MaxRows, Start(c, s, n)
      PROVE  LockInv' /\ NothingStranded'
  BY <1>2, LockFrame DEF Start
<1>3. ASSUME NEW c \in Clients, Enqueue(c) \/ EnqueueRetry(c) \/ EnqueueFail(c)
      PROVE  LockInv' /\ NothingStranded'
  BY <1>3, LockFrame DEF Enqueue, EnqueueRetry, EnqueueFail
<1>4. ASSUME NEW c \in Clients, Flush(c)
      PROVE  LockInv' /\ NothingStranded'
  BY <1>4, FlushLockInv
<1>5. ASSUME NEW c \in Clients, Discard(c) \/ DiscardNone(c)
      PROVE  LockInv' /\ NothingStranded'
  BY <1>5, LockFrame DEF Discard, DiscardNone
<1>6. CASE WalWrite \/ WalWriteError
  BY <1>6, LockFrame DEF WalWrite, WalWriteError
<1>7. CASE DrainStep
  <2>1. UNCHANGED flushVars /\ \A c \in Clients : pc'[c] = pc[c]
    BY <1>7 DEF DrainStep, DrainPop, DrainCollected, DrainSkip, DrainInsert, DrainSave, DrainSaveLast,
                EnqueueRetry, DrainFail, DrainDone
  <2> QED BY <2>1, LockFrame
<1> QED BY <1>1, <1>2, <1>3, <1>4, <1>5, <1>6, <1>7 DEF Next, ClientStep

(* Whatever the number of clients that flush at once, no exit of           *)
(* flush_pipeline leaves popped entries behind in a buffer that the flag   *)
(* has turned away from (wal.rs flush_pipeline).                           *)
THEOREM NothingStrandedAlways == Spec => []NothingStranded
<1>1. Init => LockInv /\ NothingStranded
  BY InitLock
<1>2. TypeOK /\ LockInv /\ NothingStranded /\ [Next]_vars => LockInv' /\ NothingStranded'
  BY NextLockInv
<1> QED BY <1>1, <1>2, TypeCorrect, PTL DEF Spec

-----------------------------------------------------------------------------
(* Order.  The queue holds a gapless run of acceptance numbers that ends   *)
(* at the last one accepted; whatever was popped is below that run.        *)

Taken == accepted - Len(queue)
UpTo(s, n) == \A i \in DOMAIN s : s[i].id <= n

QueueInv == \A i \in DOMAIN queue : queue[i].id = Taken + i

(* Batches and the drain thread's records ascend, and all of them were     *)
(* taken off the queue before its present contents (wal.rs flush_pipeline, *)
(* engine.rs drain loop).                                                  *)
BufferInv == BatchInOrder /\ \A b \in BOOLEAN : UpTo(buffer[b], Taken)
ChunkInv ==
  /\ Ascending(applied) /\ UpTo(applied, Taken)
  /\ Ascending(entries) /\ UpTo(entries, Taken)
  /\ \A i \in DOMAIN applied, j \in DOMAIN entries : applied[i].id < entries[j].id

\* The entries of a sequence.
LEMMA EntryIds ==
  ASSUME NEW s \in Seq(Entry)
  PROVE  /\ DOMAIN s = 1..Len(s)
         /\ \A i \in DOMAIN s : s[i] \in Entry /\ s[i].id \in Nat
<1>1. DOMAIN s = 1..Len(s) /\ \A i \in DOMAIN s : s[i] \in Entry
  OBVIOUS
<1>2. \A e \in Entry : e.id \in Nat
  BY DEF Entry
<1> QED BY <1>1, <1>2

\* A later entry is appended.
LEMMA AscendingAppend ==
  ASSUME NEW s \in Seq(Entry), NEW e \in Entry, NEW n \in Int, Ascending(s), UpTo(s, n), n < e.id
  PROVE  Ascending(Append(s, e)) /\ UpTo(Append(s, e), e.id)
<1> DEFINE t == Append(s, e)
<1>1. e.id \in Nat /\ \A i \in DOMAIN s : s[i].id \in Nat /\ s[i].id < e.id
  BY EntryIds DEF Entry, UpTo
<1>2. DOMAIN t = 1..(Len(s) + 1) /\ t[Len(s) + 1] = e /\ \A i \in DOMAIN s : t[i] = s[i]
  OBVIOUS
<1>3. DOMAIN s = 1..Len(s) /\ Len(s) \in Nat
  OBVIOUS
<1> HIDE DEF t
<1>4. UpTo(t, e.id)
  BY <1>1, <1>2, <1>3 DEF UpTo
<1>5. Ascending(t)
  BY <1>1, <1>2, <1>3 DEF Ascending
<1> QED BY <1>4, <1>5 DEF t

\* The first entry leaves.
LEMMA AscendingTail ==
  ASSUME NEW s \in Seq(Entry), NEW n \in Int, s # <<>>, Ascending(s), UpTo(s, n)
  PROVE  Ascending(Tail(s)) /\ UpTo(Tail(s), n)
<1> DEFINE t == Tail(s)
<1>1. DOMAIN s = 1..Len(s) /\ Len(s) \in Nat /\ Len(s) >= 1
  OBVIOUS
<1>2. DOMAIN t = 1..(Len(s) - 1) /\ \A i \in DOMAIN t : t[i] = s[i + 1]
  OBVIOUS
<1> HIDE DEF t
<1>3. UpTo(t, n)
  BY <1>1, <1>2 DEF UpTo
<1>4. Ascending(t)
  <2> SUFFICES ASSUME NEW i \in DOMAIN t, NEW j \in DOMAIN t, i < j PROVE t[i].id < t[j].id
    BY DEF Ascending
  <2>1. i + 1 \in DOMAIN s /\ j + 1 \in DOMAIN s /\ i + 1 < j + 1
    BY <1>1, <1>2
  <2>2. s[i + 1].id < s[j + 1].id
    BY <2>1 DEF Ascending
  <2> QED BY <1>2, <2>2
<1> QED BY <1>3, <1>4 DEF t

\* One more entry is taken.
LEMMA UpToMore ==
  ASSUME NEW s \in Seq(Entry), NEW n \in Int, UpTo(s, n)
  PROVE  UpTo(s, n + 1)
BY EntryIds DEF UpTo

\* A push extends the run at its end.
LEMMA PushQueue ==
  ASSUME TypeOK, QueueInv, NEW isPage \in BOOLEAN, Push(isPage)
  PROVE  QueueInv' /\ Taken' = Taken /\ Taken \in Int
<1> DEFINE e == [id |-> accepted + 1, page |-> isPage]
<1>1. e \in Entry /\ e.id = accepted + 1
  BY DEF TypeOK, Entry
<1>2. queue' = Append(queue, e) /\ accepted' = accepted + 1
  BY DEF Push
<1>3. queue \in Seq(Entry) /\ accepted \in Nat /\ Len(queue) \in Nat
  BY DEF TypeOK
<1> HIDE DEF e
<1>4. /\ Len(queue') = Len(queue) + 1 /\ DOMAIN queue' = 1..(Len(queue) + 1)
      /\ queue'[Len(queue) + 1] = e
      /\ \A i \in 1..Len(queue) : queue'[i] = queue[i]
  BY <1>1, <1>2, <1>3
<1>5. Taken' = Taken /\ Taken \in Int /\ accepted + 1 = Taken + (Len(queue) + 1)
  BY <1>2, <1>3, <1>4 DEF Taken
<1>6. QueueInv'
  <2> SUFFICES ASSUME NEW i \in 1..(Len(queue) + 1) PROVE queue'[i].id = Taken + i
    BY <1>4, <1>5 DEF QueueInv
  <2>1. CASE i = Len(queue) + 1
    BY <2>1, <1>1, <1>4, <1>5
  <2>2. CASE i # Len(queue) + 1
    <3>1. i \in 1..Len(queue) /\ i \in DOMAIN queue
      BY <2>2, <1>3
    <3> QED BY <3>1, <1>4 DEF QueueInv
  <2> QED BY <2>1, <2>2
<1> QED BY <1>5, <1>6

\* A pop takes the first number of the run.
LEMMA PopQueue ==
  ASSUME TypeOK, QueueInv, queue # <<>>, queue' = Tail(queue), accepted' = accepted
  PROVE  /\ QueueInv' /\ Taken' = Taken + 1 /\ Taken \in Int
         /\ Head(queue) \in Entry /\ Head(queue).id = Taken + 1
<1>1. Head(queue) \in Entry /\ Tail(queue) \in Seq(Entry) /\ Len(Tail(queue)) = Len(queue) - 1
      /\ Len(queue) >= 1
  BY HeadTail DEF TypeOK
<1>2. Head(queue).id = Taken + 1
  <2>1. Head(queue) = queue[1] /\ 1 \in DOMAIN queue
    BY <1>1 DEF TypeOK
  <2> QED BY <2>1 DEF QueueInv
<1>3. Taken' = Taken + 1 /\ Taken \in Int
  BY <1>1 DEF TypeOK, Taken
<1>4. \A i \in DOMAIN Tail(queue) : Tail(queue)[i] = queue[i + 1] /\ i + 1 \in DOMAIN queue
  BY <1>1 DEF TypeOK
<1>5. QueueInv'
  BY <1>3, <1>4 DEF QueueInv, TypeOK
<1> QED BY <1>1, <1>2, <1>3, <1>5

\* The first state.
LEMMA InitOrder == Init => QueueInv /\ BufferInv /\ ChunkInv
BY DEF Init, QueueInv, BufferInv, ChunkInv, BatchInOrder, Ascending, UpTo

\* Steps that pop nothing and move no batch.
LEMMA OrderFrame ==
  ASSUME QueueInv, BufferInv, ChunkInv, Taken' = Taken, QueueInv',
         UNCHANGED <<buffer, batch, chan, file, entries, applied>>
  PROVE  QueueInv' /\ BufferInv' /\ ChunkInv'
BY DEF BufferInv, ChunkInv, BatchInOrder, Ascending, UpTo

\* Steps that leave the queue alone.
LEMMA QueueFrame ==
  ASSUME QueueInv, UNCHANGED <<queue, accepted>>
  PROVE  QueueInv' /\ Taken' = Taken
BY DEF QueueInv, Taken

\* Somebody else pops the queue.
LEMMA PopFrame ==
  ASSUME TypeOK, QueueInv, BufferInv, ChunkInv, queue # <<>>, queue' = Tail(queue), accepted' = accepted
  PROVE  /\ UNCHANGED <<buffer, batch, chan, file>> => BufferInv'
         /\ UNCHANGED <<entries, applied>> => ChunkInv'
<1>1. Taken' = Taken + 1 /\ Taken \in Int
  BY PopQueue
<1>2. ASSUME UNCHANGED <<buffer, batch, chan, file>>
      PROVE  BufferInv'
  <2>1. \A b \in BOOLEAN : UpTo(buffer[b], Taken + 1)
    BY <1>1, UpToMore DEF TypeOK, BufferInv
  <2> QED BY <1>1, <1>2, <2>1 DEF BufferInv, BatchInOrder, Ascending, UpTo
<1>3. ASSUME UNCHANGED <<entries, applied>>
      PROVE  ChunkInv'
  <2>1. UpTo(entries, Taken + 1) /\ UpTo(applied, Taken + 1)
    BY <1>1, UpToMore DEF TypeOK, ChunkInv
  <2> QED BY <1>1, <1>3, <2>1 DEF ChunkInv, Ascending, UpTo
<1> QED BY <1>2, <1>3

\* Statements start and enqueue.
LEMMA EnqueueOrder ==
  ASSUME TypeOK, QueueInv, BufferInv, ChunkInv, NEW c \in Clients,
         \/ \E s \in Statements, n \in 0..MaxRows : Start(c, s, n)
         \/ Enqueue(c) \/ EnqueueRetry(c) \/ EnqueueFail(c)
  PROVE  QueueInv' /\ BufferInv' /\ ChunkInv'
<1>1. UNCHANGED <<buffer, batch, chan, file, entries, applied>>
  BY DEF Start, Enqueue, EnqueueRetry, EnqueueFail, flushVars, drainVars, logVars
<1>2. QueueInv' /\ Taken' = Taken
  <2>1. CASE Enqueue(c)
    BY <2>1, PushQueue DEF Enqueue
  <2>2. CASE ~Enqueue(c)
    <3>1. UNCHANGED <<queue, accepted>>
      BY <2>2 DEF Start, EnqueueRetry, EnqueueFail
    <3> QED BY <3>1, QueueFrame
  <2> QED BY <2>1, <2>2
<1> QED BY <1>1, <1>2, OrderFrame

\* flush_pipeline.
LEMMA FlushOrder ==
  ASSUME TypeOK, QueueInv, BufferInv, ChunkInv, NEW c \in Clients, Flush(c)
  PROVE  QueueInv' /\ BufferInv' /\ ChunkInv'
<1>1. CASE FlushEmpty(c) \/ FlushBegin(c) \/ FlushLoad(c) \/ FlushLock(c) \/ FlushPopNone(c) \/ FlushNothing(c)
  <2>1. UNCHANGED <<queue, accepted>> /\ UNCHANGED <<buffer, batch, chan, file, entries, applied>>
    BY <1>1 DEF FlushEmpty, FlushBegin, FlushLoad, FlushLock, FlushPopNone, FlushNothing,
                flushVars, drainVars, logVars
  <2> QED BY <2>1, QueueFrame, OrderFrame
<1>2. CASE FlushPop(c)
  <2> DEFINE mineBuffer == buffer[is_a[c]]
  <2>1. queue # <<>> /\ queue' = Tail(queue) /\ accepted' = accepted
        /\ UNCHANGED <<batch, chan, file, entries, applied>>
        /\ buffer' = [buffer EXCEPT ![is_a[c]] = Append(mineBuffer, Head(queue))]
    BY <1>2 DEF FlushPop, drainVars, logVars
  <2>2. QueueInv' /\ Taken' = Taken + 1 /\ Taken \in Int /\ Head(queue) \in Entry /\ Head(queue).id = Taken + 1
    BY <2>1, PopQueue
  <2>3. ChunkInv'
    BY <2>1, PopFrame
  <2>4. is_a[c] \in BOOLEAN /\ mineBuffer \in Seq(Entry) /\ Ascending(mineBuffer) /\ UpTo(mineBuffer, Taken)
    BY DEF TypeOK, BufferInv, BatchInOrder
  <2>5. Ascending(Append(mineBuffer, Head(queue))) /\ UpTo(Append(mineBuffer, Head(queue)), Taken + 1)
    BY <2>2, <2>4, AscendingAppend
  <2>6. \A b \in BOOLEAN : Ascending(buffer[b]) /\ UpTo(buffer[b], Taken + 1)
    BY <2>2, UpToMore DEF TypeOK, BufferInv, BatchInOrder
  <2>7. \A b \in BOOLEAN : Ascending(buffer'[b]) /\ UpTo(buffer'[b], Taken + 1)
    <3> SUFFICES ASSUME NEW b \in BOOLEAN PROVE Ascending(buffer'[b]) /\ UpTo(buffer'[b], Taken + 1)
      OBVIOUS
    <3>1. CASE b = is_a[c]
      BY <3>1, <2>1, <2>4, <2>5 DEF TypeOK
    <3>2. CASE b # is_a[c]
      BY <3>2, <2>1, <2>6 DEF TypeOK
    <3> QED BY <3>1, <3>2
  <2>8. BufferInv'
    BY <2>1, <2>2, <2>7 DEF BufferInv, BatchInOrder, Ascending, UpTo
  <2> QED BY <2>2, <2>3, <2>8
<1>3. CASE FlushSwap(c)
  <2>1. UNCHANGED <<queue, accepted, chan, file, entries, applied>>
        /\ batch' = [batch EXCEPT ![c] = buffer[is_a[c]]] /\ buffer' = [buffer EXCEPT ![is_a[c]] = <<>>]
    BY <1>3 DEF FlushSwap, drainVars, logVars
  <2>2. QueueInv' /\ Taken' = Taken
    BY <2>1, QueueFrame
  <2>3. ChunkInv'
    BY <2>1, <2>2 DEF ChunkInv, Ascending, UpTo
  <2>4. is_a[c] \in BOOLEAN /\ Ascending(buffer[is_a[c]]) /\ Ascending(<<>>) /\ UpTo(<<>>, Taken)
    BY DEF TypeOK, BufferInv, BatchInOrder, Ascending, UpTo
  <2>5. \A d \in Clients : Ascending(batch'[d])
    BY <2>1, <2>4 DEF TypeOK, BufferInv, BatchInOrder
  <2>6. \A b \in BOOLEAN : Ascending(buffer'[b]) /\ UpTo(buffer'[b], Taken)
    <3> SUFFICES ASSUME NEW b \in BOOLEAN PROVE Ascending(buffer'[b]) /\ UpTo(buffer'[b], Taken)
      OBVIOUS
    <3>1. CASE b = is_a[c]
      BY <3>1, <2>1, <2>4 DEF TypeOK
    <3>2. CASE b # is_a[c]
      BY <3>2, <2>1 DEF TypeOK, BufferInv, BatchInOrder
    <3> QED BY <3>1, <3>2
  <2>7. BufferInv'
    BY <2>1, <2>2, <2>5, <2>6 DEF BufferInv, BatchInOrder, Ascending, UpTo
  <2> QED BY <2>2, <2>3, <2>7
<1>4. CASE FlushSend(c)
  <2>1. UNCHANGED <<queue, accepted, file, entries, applied, buffer>>
        /\ chan' = Append(chan, batch[c]) /\ batch' = [batch EXCEPT ![c] = <<>>]
    BY <1>4 DEF FlushSend, drainVars
  <2>2. QueueInv' /\ Taken' = Taken
    BY <2>1, QueueFrame
  <2>3. ChunkInv'
    BY <2>1, <2>2 DEF ChunkInv, Ascending, UpTo
  <2>4. Ascending(batch[c]) /\ Ascending(<<>>)
    BY DEF BufferInv, BatchInOrder, Ascending
  <2>5. \A d \in Clients : Ascending(batch'[d])
    BY <2>1, <2>4 DEF TypeOK, BufferInv, BatchInOrder
  <2>6. \A k \in DOMAIN chan' : Ascending(chan'[k])
    <3>1. \A k \in DOMAIN chan' : chan'[k] = batch[c] \/ (k \in DOMAIN chan /\ chan'[k] = chan[k])
      BY <2>1, SMTT(30) DEF TypeOK
    <3>2. \A k \in DOMAIN chan : Ascending(chan[k])
      BY DEF BufferInv, BatchInOrder
    <3> QED BY <3>1, <3>2, <2>4
  <2>7. BufferInv'
    BY <2>1, <2>2, <2>5, <2>6 DEF BufferInv, BatchInOrder, Ascending, UpTo
  <2> QED BY <2>2, <2>3, <2>7
<1> QED BY <1>1, <1>2, <1>3, <1>4 DEF Flush

\* FLUSH throws away what is left.
LEMMA DiscardOrder ==
  ASSUME TypeOK, QueueInv, BufferInv, ChunkInv, NEW c \in Clients, Discard(c) \/ DiscardNone(c)
  PROVE  QueueInv' /\ BufferInv' /\ ChunkInv'
<1>1. UNCHANGED <<buffer, batch, chan, file, entries, applied>> /\ accepted' = accepted
  BY DEF Discard, DiscardNone, flushVars, drainVars, logVars
<1>2. CASE Discard(c)
  <2>1. queue # <<>> /\ queue' = Tail(queue)
    BY <1>2 DEF Discard
  <2> QED BY <1>1, <2>1, PopQueue, PopFrame
<1>3. CASE DiscardNone(c)
  <2>1. queue' = queue
    BY <1>3 DEF DiscardNone
  <2> QED BY <1>1, <2>1, QueueFrame, OrderFrame
<1> QED BY <1>2, <1>3

\* The WAL thread.
LEMMA WalThreadOrder ==
  ASSUME TypeOK, QueueInv, BufferInv, ChunkInv, WalWrite \/ WalWriteError
  PROVE  QueueInv' /\ BufferInv' /\ ChunkInv'
<1>1. UNCHANGED <<queue, accepted, buffer, batch, entries, applied>> /\ chan # <<>> /\ chan' = Tail(chan)
      /\ (file' = file \/ file' = Append(file, Head(chan)))
  BY DEF WalWrite, WalWriteError, flushVars, drainVars
<1>2. QueueInv' /\ Taken' = Taken
  BY <1>1, QueueFrame
<1>3. ChunkInv'
  BY <1>1, <1>2 DEF ChunkInv, Ascending, UpTo
<1>4. \A k \in DOMAIN chan : Ascending(chan[k])
  BY DEF BufferInv, BatchInOrder
<1>5. \A k \in DOMAIN chan' : Ascending(chan'[k])
  <2>1. \A k \in DOMAIN chan' : k + 1 \in DOMAIN chan /\ chan'[k] = chan[k + 1]
    BY <1>1 DEF TypeOK
  <2> QED BY <1>4, <2>1
<1>6. \A k \in DOMAIN file' : Ascending(file'[k])
  <2>1. \A k \in DOMAIN file : Ascending(file[k])
    BY DEF BufferInv, BatchInOrder
  <2>2. CASE file' = file
    BY <2>1, <2>2
  <2>3. CASE file' = Append(file, Head(chan))
    <3>1. Head(chan) = chan[1] /\ 1 \in DOMAIN chan
      BY <1>1 DEF TypeOK
    <3>2. \A k \in DOMAIN file' : file'[k] = Head(chan) \/ (k \in DOMAIN file /\ file'[k] = file[k])
      BY <2>3, <1>1, SMTT(30) DEF TypeOK
    <3> QED BY <1>4, <2>1, <3>1, <3>2
  <2> QED BY <1>1, <2>2, <2>3
<1>7. BufferInv'
  BY <1>1, <1>2, <1>5, <1>6 DEF BufferInv, BatchInOrder, Ascending, UpTo
<1> QED BY <1>2, <1>3, <1>7

\* The drain thread drops or moves the first entry of its chunk.
LEMMA ChunkTail ==
  ASSUME TypeOK, Taken \in Int, ChunkInv, entries # <<>>, entries' = Tail(entries), Taken' = Taken,
         applied' = applied \/ applied' = Append(applied, Head(entries))
  PROVE  ChunkInv'
<1>1. Ascending(Tail(entries)) /\ UpTo(Tail(entries), Taken)
  BY AscendingTail DEF TypeOK, ChunkInv
<1>2. /\ Head(entries) \in Entry /\ Head(entries) = entries[1] /\ 1 \in DOMAIN entries
      /\ \A j \in DOMAIN Tail(entries) : j + 1 \in DOMAIN entries /\ 1 < j + 1 /\ Tail(entries)[j] = entries[j + 1]
  BY DEF TypeOK
<1>3. \A j \in DOMAIN Tail(entries) : Head(entries).id < Tail(entries)[j].id
  BY <1>2 DEF ChunkInv, Ascending
<1>4. \A i \in DOMAIN applied, j \in DOMAIN Tail(entries) : applied[i].id < Tail(entries)[j].id
  BY <1>2 DEF ChunkInv
<1>5. CASE applied' = applied
  BY <1>1, <1>4, <1>5 DEF ChunkInv, Ascending, UpTo
<1>6. CASE applied' = Append(applied, Head(entries))
  <2>1. \A i \in DOMAIN applied : applied[i].id < Head(entries).id
    BY <1>2 DEF ChunkInv
  <2>2. Head(entries).id \in Nat /\ Head(entries).id <= Taken
    BY <1>2 DEF Entry, ChunkInv, UpTo
  <2>3. UpTo(applied, Head(entries).id - 1)
    BY <2>1, <2>2, EntryIds DEF UpTo, TypeOK
  <2>4. Ascending(Append(applied, Head(entries))) /\ UpTo(Append(applied, Head(entries)), Head(entries).id)
    BY <1>2, <2>2, <2>3, AscendingAppend DEF ChunkInv, TypeOK
  <2>5. \A i \in DOMAIN applied' : applied'[i] = Head(entries) \/ (i \in DOMAIN applied /\ applied'[i] = applied[i])
    BY <1>6 DEF TypeOK
  <2>6. UpTo(applied', Taken)
    BY <2>2, <2>5 DEF ChunkInv, UpTo
  <2>7. \A i \in DOMAIN applied', j \in DOMAIN entries' : applied'[i].id < entries'[j].id
    BY <1>3, <1>4, <2>5
  <2> QED BY <1>1, <1>6, <2>4, <2>6, <2>7 DEF ChunkInv, Ascending, UpTo
<1> QED BY <1>5, <1>6

\* The drain thread.
LEMMA DrainOrder ==
  ASSUME TypeOK, WorkInv, QueueInv, BufferInv, ChunkInv, DrainStep
  PROVE  QueueInv' /\ BufferInv' /\ ChunkInv'
<1>0. UNCHANGED <<buffer, batch, chan, file>> /\ Taken \in Int
  <2>1. UNCHANGED <<buffer, batch, chan, file>>
    BY DEF DrainStep, DrainPop, DrainCollected, DrainSkip, DrainInsert, DrainSave, DrainSaveLast,
           EnqueueRetry, DrainFail, DrainDone, flushVars, logVars
  <2>2. Taken \in Int
    BY DEF TypeOK, Taken
  <2> QED BY <2>1, <2>2
<1>1. CASE DrainPop
  <2>1. queue # <<>> /\ queue' = Tail(queue) /\ accepted' = accepted /\ applied' = applied
        /\ entries' = Append(entries, Head(queue))
    BY <1>1 DEF DrainPop
  <2>2. QueueInv' /\ Taken' = Taken + 1 /\ Head(queue) \in Entry /\ Head(queue).id = Taken + 1
    BY <2>1, PopQueue
  <2>3. BufferInv'
    BY <1>0, <2>1, PopFrame
  <2>4. Ascending(entries') /\ UpTo(entries', Taken + 1)
    BY <1>0, <2>1, <2>2, AscendingAppend DEF TypeOK, ChunkInv
  <2>5. UpTo(applied, Taken + 1)
    BY <1>0, UpToMore DEF TypeOK, ChunkInv
  <2>6. \A i \in DOMAIN applied : applied[i].id < Head(queue).id
    BY <1>0, <2>2, EntryIds DEF TypeOK, ChunkInv, UpTo
  <2>7. \A j \in DOMAIN entries' : entries'[j] = Head(queue) \/ (j \in DOMAIN entries /\ entries'[j] = entries[j])
    <3>1. entries \in Seq(Entry)
      BY DEF TypeOK
    <3> QED BY ONLY <2>1, <2>2, <3>1
  <2>8. \A i \in DOMAIN applied, j \in DOMAIN entries' : applied[i].id < entries'[j].id
    BY <2>6, <2>7 DEF ChunkInv
  <2>9. ChunkInv'
    BY <2>1, <2>2, <2>4, <2>5, <2>8 DEF ChunkInv, Ascending, UpTo
  <2> QED BY <2>2, <2>3, <2>9
<1>2. CASE DrainCollected \/ (\E n \in 1..MaxPages : DrainInsert(n)) \/ EnqueueRetry(Drainer) \/ DrainDone
  <2>1. UNCHANGED <<queue, accepted, entries, applied>>
    BY <1>2 DEF DrainCollected, DrainInsert, EnqueueRetry, DrainDone, drainVars
  <2> QED BY <1>0, <2>1, QueueFrame, OrderFrame
<1>3. CASE DrainSkip \/ DrainFail
  <2>1. UNCHANGED <<queue, accepted, applied>> /\ entries # <<>> /\ entries' = Tail(entries)
    BY <1>3 DEF DrainSkip, DrainFail, WorkInv
  <2>2. QueueInv' /\ Taken' = Taken
    BY <2>1, QueueFrame
  <2>3. ChunkInv'
    BY <1>0, <2>1, <2>2, ChunkTail
  <2>4. BufferInv'
    BY <1>0, <2>2 DEF BufferInv, BatchInOrder, Ascending, UpTo
  <2> QED BY <2>2, <2>3, <2>4
<1>4. CASE DrainSave
  <2>1. Push(TRUE) /\ UNCHANGED <<entries, applied>>
    BY <1>4 DEF DrainSave, drainVars
  <2>2. QueueInv' /\ Taken' = Taken
    BY <2>1, PushQueue
  <2> QED BY <1>0, <2>1, <2>2, OrderFrame
<1>5. CASE DrainSaveLast
  <2>1. Push(TRUE) /\ entries # <<>> /\ entries' = Tail(entries) /\ applied' = Append(applied, Head(entries))
    BY <1>5 DEF DrainSaveLast, WorkInv
  <2>2. QueueInv' /\ Taken' = Taken
    BY <2>1, PushQueue
  <2>3. ChunkInv'
    BY <1>0, <2>1, <2>2, ChunkTail
  <2>4. BufferInv'
    BY <1>0, <2>2 DEF BufferInv, BatchInOrder, Ascending, UpTo
  <2> QED BY <2>2, <2>3, <2>4
<1> QED BY <1>1, <1>2, <1>3, <1>4, <1>5 DEF DrainStep

\* The order holds in every reachable state.
LEMMA OrderAlways == Spec => [](TypeOK /\ QueueInv /\ BufferInv /\ ChunkInv)
<1>1. Init => QueueInv /\ BufferInv /\ ChunkInv
  BY InitOrder
<1>2. TypeOK /\ WorkInv /\ QueueInv /\ BufferInv /\ ChunkInv /\ [Next]_vars
        => QueueInv' /\ BufferInv' /\ ChunkInv'
  <2> SUFFICES ASSUME TypeOK, WorkInv, QueueInv, BufferInv, ChunkInv, [Next]_vars
               PROVE  QueueInv' /\ BufferInv' /\ ChunkInv'
    OBVIOUS
  <2>1. CASE UNCHANGED vars
    <3>1. UNCHANGED <<queue, accepted>> /\ UNCHANGED <<buffer, batch, chan, file, entries, applied>>
      BY <2>1 DEF vars
    <3> QED BY <3>1, QueueFrame, OrderFrame
  <2>2. ASSUME NEW c \in Clients,
               (\E s \in Statements, n \in 0..MaxRows : Start(c, s, n)) \/ ClientStep(c)
        PROVE  QueueInv' /\ BufferInv' /\ ChunkInv'
    BY <2>2, EnqueueOrder, FlushOrder, DiscardOrder DEF ClientStep
  <2>3. CASE WalWrite \/ WalWriteError
    BY <2>3, WalThreadOrder
  <2>4. CASE DrainStep
    BY <2>4, DrainOrder
  <2> QED BY <2>1, <2>2, <2>3, <2>4 DEF Next
<1> QED BY <1>1, <1>2, TypeCorrect, PTL DEF Spec

(* Each batch that reaches the channel or the file lists its entries in    *)
(* the order the queue accepted them, with any number of clients flushing  *)
(* while the drain thread pops the same queue (wal.rs flush_pipeline).     *)
THEOREM BatchInOrderAlways == Spec => []BatchInOrder
<1>1. BufferInv => BatchInOrder
  BY DEF BufferInv
<1> QED BY <1>1, OrderAlways, PTL

(* The drain thread inserts records in acceptance order (engine.rs drain   *)
(* loop).                                                                  *)
THEOREM DrainInOrderAlways == Spec => []DrainInOrder
<1>1. TypeOK /\ ChunkInv => DrainInOrder
  <2> SUFFICES ASSUME TypeOK, ChunkInv PROVE Ascending(applied \o entries)
    BY DEF DrainInOrder
  <2> DEFINE t == applied \o entries
             n == Len(applied)
  <2>1. /\ n \in Nat /\ Len(entries) \in Nat
        /\ DOMAIN applied = 1..n /\ DOMAIN entries = 1..Len(entries) /\ DOMAIN t = 1..(n + Len(entries))
        /\ \A i \in DOMAIN t : t[i] = IF i <= n THEN applied[i] ELSE entries[i - n]
    BY DEF TypeOK
  <2> HIDE DEF t, n
  <2> SUFFICES ASSUME NEW i \in DOMAIN t, NEW j \in DOMAIN t, i < j PROVE t[i].id < t[j].id
    BY DEF Ascending, t
  <2>2. CASE j <= n
    BY <2>1, <2>2 DEF ChunkInv, Ascending
  <2>3. CASE i <= n /\ j > n
    BY <2>1, <2>3 DEF ChunkInv
  <2>4. CASE i > n
    BY <2>1, <2>4 DEF ChunkInv, Ascending
  <2> QED BY <2>1, <2>2, <2>3, <2>4
<1> QED BY <1>1, OrderAlways, PTL
=============================================================================
