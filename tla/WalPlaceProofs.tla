--------------------------- MODULE WalPlaceProofs ---------------------------
(***************************************************************************)
(* Where the entries of the ingestion pipeline are, for any number of       *)
(* clients and any capacities: every entry that was taken off the queue is  *)
(* at one place.  From this follow ExactlyOnce and that Wal implements      *)
(* Ingest.                                                                 *)
(*                                                                         *)
(* The argument keeps a map f from the entries that were taken to their     *)
(* places.  A place is a pair of a kind and a number: one of the two        *)
(* buffers, the batch of a client, the k-th batch of the channel or of the  *)
(* file, or one of the places of the drain thread, numbered 0.             *)
(***************************************************************************)
EXTENDS WalProofs, FiniteSetTheorems

Ids(s) == {s[i].id : i \in DOMAIN s}
IdsOf(S) == {e.id : e \in S}

Places ==
  ({"entries", "applied", "skipped", "lost"} \X {0}) \cup ({"buffer"} \X BOOLEAN)
  \cup ({"batch"} \X Clients) \cup ({"chan"} \X DOMAIN chan) \cup ({"file"} \X DOMAIN file)

\* The entries that f puts at place x.
In(f, x) == {n \in DOMAIN f : f[n] = x}

\* f says of every entry that was taken where it is, and a place holds no other entry.
Placed(f) ==
  /\ f \in [1..Taken -> Places]
  /\ Ids(entries) = In(f, <<"entries", 0>>) /\ Ids(applied) = In(f, <<"applied", 0>>)
  /\ IdsOf(skipped) = In(f, <<"skipped", 0>>) /\ IdsOf(lost) = In(f, <<"lost", 0>>)
  /\ \A b \in BOOLEAN : Ids(buffer[b]) = In(f, <<"buffer", b>>)
  /\ \A c \in Clients : Ids(batch[c]) = In(f, <<"batch", c>>)
  /\ \A k \in DOMAIN chan : Ids(chan[k]) = In(f, <<"chan", k>>)
  /\ \A k \in DOMAIN file : Ids(file[k]) = In(f, <<"file", k>>)

\* A client has a batch only while it sends it.
BatchInv == \A c \in Clients : pc[c] # "send" => batch[c] = <<>>

\* What the other proofs show of every reachable state.
WalInv == TypeOK /\ WorkInv /\ QueueInv /\ BufferInv /\ ChunkInv

\* The map after the entries in S went to place x, and after one more was taken and put there.
Moved(f, S, x) == [n \in DOMAIN f |-> IF n \in S THEN x ELSE f[n]]
TakenTo(f, m, x) == [n \in 1..m |-> IF n = m THEN x ELSE f[n]]

\* The map after the first batch of the channel went to x.
Shifted(f, x) ==
  [n \in DOMAIN f |-> IF f[n] = <<"chan", 1>> THEN x
                      ELSE IF f[n][1] = "chan" THEN <<"chan", f[n][2] - 1>> ELSE f[n]]

-----------------------------------------------------------------------------
(* Ids of sequences.                                                       *)

\* An entry is appended to a sequence.
LEMMA IdsAppend ==
  ASSUME NEW s \in Seq(Entry), NEW e \in Entry
  PROVE  Ids(Append(s, e)) = Ids(s) \cup {e.id}
<1> DEFINE t == Append(s, e)
<1>1. /\ DOMAIN s = 1..Len(s) /\ DOMAIN t = 1..Len(s) + 1 /\ Len(s) \in Nat
      /\ t[Len(s) + 1] = e /\ \A i \in 1..Len(s) : t[i] = s[i]
  OBVIOUS
<1> HIDE DEF t
<1>2. Ids(t) \subseteq Ids(s) \cup {e.id}
  BY <1>1 DEF Ids
<1>3. e.id \in Ids(t)
  <2>1. Len(s) + 1 \in DOMAIN t
    BY <1>1
  <2> QED BY <1>1, <2>1 DEF Ids
<1>4. Ids(s) \subseteq Ids(t)
  <2>1. \A i \in DOMAIN s : i \in DOMAIN t /\ t[i] = s[i]
    BY <1>1
  <2> QED BY <2>1 DEF Ids
<1> QED BY <1>2, <1>3, <1>4 DEF t

\* The first entry of an ascending sequence leaves it.
LEMMA IdsTail ==
  ASSUME NEW s \in Seq(Entry), s # <<>>, Ascending(s)
  PROVE  /\ Head(s) \in Entry /\ Head(s).id \in Ids(s)
         /\ Ids(Tail(s)) = Ids(s) \ {Head(s).id}
         /\ \A n \in Ids(s) : Head(s).id <= n
<1> DEFINE t == Tail(s)
<1>1. /\ DOMAIN s = 1..Len(s) /\ DOMAIN t = 1..Len(s) - 1 /\ Len(s) \in Nat /\ Len(s) >= 1
      /\ Head(s) = s[1] /\ \A i \in 1..Len(s) - 1 : t[i] = s[i + 1]
      /\ Head(s) \in Entry /\ 1 \in DOMAIN s
  OBVIOUS
<1>2. \A i \in DOMAIN s : s[i].id \in Nat
  BY EntryIds
<1> HIDE DEF t
<1>3. \A i \in DOMAIN s : i # 1 => Head(s).id < s[i].id
  BY <1>1 DEF Ascending
<1>4. Ids(t) \subseteq Ids(s) \ {Head(s).id}
  <2> SUFFICES ASSUME NEW i \in DOMAIN t PROVE t[i].id \in Ids(s) /\ t[i].id # Head(s).id
    BY DEF Ids
  <2>1. i + 1 \in DOMAIN s /\ i + 1 # 1 /\ t[i] = s[i + 1]
    BY <1>1
  <2>2. Head(s).id \in Nat /\ s[i + 1].id \in Nat /\ Head(s).id < s[i + 1].id
    BY <2>1, <1>1, <1>2, <1>3
  <2> QED BY <2>1, <2>2 DEF Ids
<1>5. Ids(s) \ {Head(s).id} \subseteq Ids(t)
  <2> SUFFICES ASSUME NEW i \in DOMAIN s, s[i].id # Head(s).id PROVE s[i].id \in Ids(t)
    BY DEF Ids
  <2>1. i # 1
    BY <1>1
  <2>2. i - 1 \in DOMAIN t /\ t[i - 1] = s[i]
    BY <1>1, <2>1
  <2> QED BY <2>2 DEF Ids
<1>6. \A n \in Ids(s) : Head(s).id <= n
  <2>1. \A i \in DOMAIN s : Head(s).id <= s[i].id
    BY <1>1, <1>2, <1>3
  <2> QED BY <2>1 DEF Ids
<1> QED BY <1>1, <1>4, <1>5, <1>6 DEF Ids, t

-----------------------------------------------------------------------------
(* One lemma per step that moves entries: the map after it.                *)

\* No entry was taken that was not accepted.
LEMMA TakenType ==
  ASSUME WalInv
  PROVE  Taken \in Nat /\ accepted \in Nat /\ Taken <= accepted
<1>1. queue \in Seq(Entry) /\ accepted \in Nat /\ Len(queue) \in Nat
  BY DEF WalInv, TypeOK
<1>2. CASE queue = <<>>
  BY <1>1, <1>2 DEF Taken
<1>3. CASE queue # <<>>
  <2>1. 1 \in DOMAIN queue /\ queue[1].id \in Nat \ {0}
    <3>1. 1 \in DOMAIN queue /\ queue[1] \in Entry
      BY <1>1, <1>3
    <3> QED BY <3>1 DEF Entry
  <2>2. Taken + 1 = queue[1].id /\ Taken \in Int
    BY <1>1, <2>1 DEF WalInv, QueueInv, Taken
  <2> QED BY <1>1, <2>1, <2>2 DEF Taken
<1> QED BY <1>2, <1>3

\* A step that moves nothing.
LEMMA PlacedFrame ==
  ASSUME NEW f, Placed(f), Taken' = Taken,
         UNCHANGED <<buffer, batch, chan, file, entries, applied, skipped, lost>>
  PROVE  Placed(f)'
BY DEF Placed, Places, In, Ids, IdsOf

\* FlushPop: from the queue to a buffer.
LEMMA PlacedFlushPop ==
  ASSUME WalInv, NEW f, Placed(f), NEW c \in Clients, FlushPop(c), NEW b \in BOOLEAN, b = is_a[c],
         NEW g, NEW m, m = Taken, g = TakenTo(f, m + 1, <<"buffer", b>>)
  PROVE  Placed(g)' /\ Taken' = m + 1
<1>1. /\ queue # <<>> /\ queue' = Tail(queue) /\ accepted' = accepted
      /\ buffer' = [buffer EXCEPT ![b] = Append(@, Head(queue))]
      /\ UNCHANGED <<batch, chan, file, entries, applied, skipped, lost>>
  BY DEF FlushPop, drainVars, logVars
<1>2. Taken' = m + 1 /\ Head(queue) \in Entry /\ Head(queue).id = m + 1 /\ m \in Nat
  BY <1>1, PopQueue, TakenType DEF WalInv
<1>3. buffer \in [BOOLEAN -> Seq(Entry)]
  BY DEF WalInv, TypeOK
<1>4. Ids(buffer'[b]) = Ids(buffer[b]) \cup {m + 1}
  BY <1>1, <1>2, <1>3, IdsAppend
<1>5. \A d \in BOOLEAN : d # b => buffer'[d] = buffer[d]
  BY <1>1, <1>3
<1>6. DOMAIN f = 1..m
  BY DEF Placed
<1>7. /\ DOMAIN g = 1..m + 1
      /\ In(g, <<"buffer", b>>) = In(f, <<"buffer", b>>) \cup {m + 1}
      /\ \A z : z # <<"buffer", b>> => In(g, z) = In(f, z)
  BY <1>2, <1>6 DEF In, TakenTo
<1>8. g \in [1..m + 1 -> Places']
  <2>1. Places' = Places /\ <<"buffer", b>> \in Places
    BY <1>1 DEF Places
  <2>2. \A n \in 1..m : f[n] \in Places
    BY DEF Placed
  <2>3. \A n \in 1..m + 1 : n # m + 1 => n \in 1..m
    BY <1>2
  <2> QED BY <2>1, <2>2, <2>3 DEF TakenTo
<1>9. \A d \in BOOLEAN : Ids(buffer'[d]) = In(g, <<"buffer", d>>)
  <2>1. \A d \in BOOLEAN : d # b => In(g, <<"buffer", d>>) = In(f, <<"buffer", d>>)
    BY <1>7
  <2>2. \A d \in BOOLEAN : Ids(buffer[d]) = In(f, <<"buffer", d>>)
    BY DEF Placed
  <2> QED BY <2>1, <2>2, <1>4, <1>5, <1>7
<1>10. g \in [1..Taken' -> Places']
  BY <1>2, <1>8
<1> QED BY <1>1, <1>2, <1>7, <1>9, <1>10, ZenonT(40) DEF Placed

\* DrainPop: from the queue to the drain thread's chunk.
LEMMA PlacedDrainPop ==
  ASSUME WalInv, NEW f, Placed(f), DrainPop,
         NEW g, NEW m, m = Taken, g = TakenTo(f, m + 1, <<"entries", 0>>)
  PROVE  Placed(g)' /\ Taken' = m + 1
<1>1. /\ queue # <<>> /\ queue' = Tail(queue) /\ accepted' = accepted
      /\ entries' = Append(entries, Head(queue))
      /\ UNCHANGED <<buffer, batch, chan, file, applied, skipped, lost>>
  BY DEF DrainPop, flushVars, logVars
<1>2. Taken' = m + 1 /\ Head(queue) \in Entry /\ Head(queue).id = m + 1 /\ m \in Nat
  BY <1>1, PopQueue, TakenType DEF WalInv
<1>3. Ids(entries') = Ids(entries) \cup {m + 1}
  BY <1>1, <1>2, IdsAppend DEF WalInv, TypeOK
<1>4. DOMAIN f = 1..m
  BY DEF Placed
<1>5. /\ DOMAIN g = 1..m + 1
      /\ In(g, <<"entries", 0>>) = In(f, <<"entries", 0>>) \cup {m + 1}
      /\ \A z : z # <<"entries", 0>> => In(g, z) = In(f, z)
  BY <1>2, <1>4 DEF In, TakenTo
<1>6. g \in [1..m + 1 -> Places']
  <2>1. Places' = Places /\ <<"entries", 0>> \in Places
    BY <1>1 DEF Places
  <2>2. \A n \in 1..m : f[n] \in Places
    BY DEF Placed
  <2>3. \A n \in 1..m + 1 : n # m + 1 => n \in 1..m
    BY <1>2
  <2> QED BY <2>1, <2>2, <2>3 DEF TakenTo
<1>7. g \in [1..Taken' -> Places']
  BY <1>2, <1>6
<1> QED BY <1>1, <1>2, <1>3, <1>5, <1>7, ZenonT(40) DEF Placed

\* Discard: from the queue to nowhere.
LEMMA PlacedDiscard ==
  ASSUME WalInv, NEW f, Placed(f), NEW c \in Clients, Discard(c),
         NEW g, NEW m, m = Taken, g = TakenTo(f, m + 1, <<"lost", 0>>)
  PROVE  Placed(g)' /\ Taken' = m + 1
<1>1. /\ queue # <<>> /\ queue' = Tail(queue) /\ accepted' = accepted
      /\ lost' = lost \cup {Head(queue)}
      /\ UNCHANGED <<buffer, batch, chan, file, entries, applied, skipped>>
  BY DEF Discard, flushVars, drainVars, logVars
<1>2. Taken' = m + 1 /\ Head(queue) \in Entry /\ Head(queue).id = m + 1 /\ m \in Nat
  BY <1>1, PopQueue, TakenType DEF WalInv
<1>3. IdsOf(lost') = IdsOf(lost) \cup {m + 1}
  BY <1>1, <1>2 DEF IdsOf
<1>4. DOMAIN f = 1..m
  BY DEF Placed
<1>5. /\ DOMAIN g = 1..m + 1
      /\ In(g, <<"lost", 0>>) = In(f, <<"lost", 0>>) \cup {m + 1}
      /\ \A z : z # <<"lost", 0>> => In(g, z) = In(f, z)
  BY <1>2, <1>4 DEF In, TakenTo
<1>6. g \in [1..m + 1 -> Places']
  <2>1. Places' = Places /\ <<"lost", 0>> \in Places
    BY <1>1 DEF Places
  <2>2. \A n \in 1..m : f[n] \in Places
    BY DEF Placed
  <2>3. \A n \in 1..m + 1 : n # m + 1 => n \in 1..m
    BY <1>2
  <2> QED BY <2>1, <2>2, <2>3 DEF TakenTo
<1>7. g \in [1..Taken' -> Places']
  BY <1>2, <1>6
<1> QED BY <1>1, <1>2, <1>3, <1>5, <1>7, ZenonT(40) DEF Placed

\* FlushSwap: from a buffer to the client's batch, which is empty.
LEMMA PlacedFlushSwap ==
  ASSUME WalInv, BatchInv, NEW f, Placed(f), NEW c \in Clients, FlushSwap(c), NEW b \in BOOLEAN, b = is_a[c],
         NEW g, g = Moved(f, In(f, <<"buffer", b>>), <<"batch", c>>)
  PROVE  Placed(g)'
<1>1. /\ batch' = [batch EXCEPT ![c] = buffer[b]] /\ buffer' = [buffer EXCEPT ![b] = <<>>]
      /\ UNCHANGED <<queue, accepted, chan, file, entries, applied, skipped, lost>> /\ batch[c] = <<>>
  BY DEF FlushSwap, drainVars, logVars, BatchInv
<1>2. buffer \in [BOOLEAN -> Seq(Entry)] /\ batch \in [Clients -> Seq(Entry)]
  BY DEF WalInv, TypeOK
<1>3. /\ DOMAIN g = DOMAIN f
      /\ In(g, <<"buffer", b>>) = In(f, <<"buffer", b>>) \ In(f, <<"buffer", b>>)
      /\ In(g, <<"batch", c>>) = In(f, <<"batch", c>>) \cup In(f, <<"buffer", b>>)
      /\ \A z : z # <<"buffer", b>> /\ z # <<"batch", c>> => In(g, z) = In(f, z)
  BY DEF In, Moved
<1>4. Ids(<<>>) = {}
  BY DEF Ids
<1>5. \A d \in BOOLEAN : Ids(buffer'[d]) = In(g, <<"buffer", d>>)
  <2>1. \A d \in BOOLEAN : buffer'[d] = IF d = b THEN <<>> ELSE buffer[d]
    BY <1>1, <1>2
  <2>2. \A d \in BOOLEAN : d # b => In(g, <<"buffer", d>>) = In(f, <<"buffer", d>>)
    BY <1>3
  <2> QED BY <2>1, <2>2, <1>3, <1>4, ZenonT(40) DEF Placed
<1>6. \A d \in Clients : Ids(batch'[d]) = In(g, <<"batch", d>>)
  <2>1. \A d \in Clients : batch'[d] = IF d = c THEN buffer[b] ELSE batch[d]
    BY <1>1, <1>2
  <2>2. \A d \in Clients : d # c => In(g, <<"batch", d>>) = In(f, <<"batch", d>>)
    BY <1>3
  <2>3. In(f, <<"batch", c>>) = {} /\ Ids(buffer[b]) = In(f, <<"buffer", b>>)
    BY <1>1, <1>4 DEF Placed
  <2> QED BY <2>1, <2>2, <2>3, <1>3 DEF Placed
<1>7. Taken' = Taken /\ g \in [1..Taken -> Places']
  <2>1. Places' = Places /\ <<"batch", c>> \in Places /\ Taken' = Taken
    BY <1>1 DEF Places, Taken
  <2> QED BY <2>1 DEF Placed, Moved
<1> QED BY <1>1, <1>3, <1>5, <1>6, <1>7 DEF Placed

\* FlushSend: the client's batch becomes the last one of the channel.
LEMMA PlacedFlushSend ==
  ASSUME WalInv, NEW f, Placed(f), NEW c \in Clients, FlushSend(c), NEW k, k = Len(chan) + 1,
         NEW g, g = Moved(f, In(f, <<"batch", c>>), <<"chan", k>>)
  PROVE  Placed(g)'
<1>1. /\ chan' = Append(chan, batch[c]) /\ batch' = [batch EXCEPT ![c] = <<>>]
      /\ UNCHANGED <<queue, accepted, buffer, file, entries, applied, skipped, lost>>
  BY DEF FlushSend, drainVars
<1>2. chan \in Seq(Seq(Entry)) /\ batch \in [Clients -> Seq(Entry)]
  BY DEF WalInv, TypeOK
<1>3. /\ DOMAIN g = DOMAIN f
      /\ In(g, <<"batch", c>>) = In(f, <<"batch", c>>) \ In(f, <<"batch", c>>)
      /\ In(g, <<"chan", k>>) = In(f, <<"chan", k>>) \cup In(f, <<"batch", c>>)
      /\ \A z : z # <<"batch", c>> /\ z # <<"chan", k>> => In(g, z) = In(f, z)
  BY DEF In, Moved
<1>4. Ids(<<>>) = {}
  BY DEF Ids
<1>5. \A d \in Clients : Ids(batch'[d]) = In(g, <<"batch", d>>)
  <2>1. \A d \in Clients : batch'[d] = IF d = c THEN <<>> ELSE batch[d]
    BY <1>1, <1>2
  <2>2. \A d \in Clients : d # c => In(g, <<"batch", d>>) = In(f, <<"batch", d>>)
    BY <1>3
  <2> QED BY <2>1, <2>2, <1>3, <1>4 DEF Placed
<1>6. /\ DOMAIN chan' = DOMAIN chan \cup {k} /\ k \notin DOMAIN chan
      /\ chan'[k] = batch[c] /\ \A j \in DOMAIN chan : chan'[j] = chan[j]
  BY <1>1, <1>2
<1>7. \A j \in DOMAIN chan' : Ids(chan'[j]) = In(g, <<"chan", j>>)
  <2>1. In(f, <<"chan", k>>) = {}
    BY <1>6 DEF Placed, In, Places
  <2>2. Ids(batch[c]) = In(f, <<"batch", c>>)
    BY DEF Placed
  <2>3. \A j \in DOMAIN chan : j # k /\ In(g, <<"chan", j>>) = In(f, <<"chan", j>>)
    BY <1>3, <1>6
  <2> QED BY <2>1, <2>2, <2>3, <1>3, <1>6 DEF Placed
<1>8. Taken' = Taken /\ g \in [1..Taken -> Places']
  <2>1. Places \subseteq Places' /\ <<"chan", k>> \in Places' /\ Taken' = Taken
    BY <1>1, <1>6 DEF Places, Taken
  <2> QED BY <2>1 DEF Placed, Moved
<1>9. \A b \in BOOLEAN : In(g, <<"buffer", b>>) = In(f, <<"buffer", b>>)
  BY <1>3
<1>10. \A j \in DOMAIN file : In(g, <<"file", j>>) = In(f, <<"file", j>>)
  BY <1>3
<1>11. \A kind \in {"entries", "applied", "skipped", "lost"} : In(g, <<kind, 0>>) = In(f, <<kind, 0>>)
  BY <1>3
<1> QED BY <1>1, <1>5, <1>7, <1>8, <1>9, <1>10, <1>11 DEF Placed

\* The first batch of the channel is at x, the others have moved up.
ChanShifted(f, g, x) ==
  /\ DOMAIN g = DOMAIN f
  /\ In(g, x) = In(f, x) \cup In(f, <<"chan", 1>>)
  /\ \A k \in 1..Len(chan) - 1 : In(g, <<"chan", k>>) = In(f, <<"chan", k + 1>>)
  /\ \A z : z[1] # "chan" /\ z # x => In(g, z) = In(f, z)
  /\ \A n \in DOMAIN f : \/ g[n] = x
                         \/ g[n] = f[n] /\ f[n][1] # "chan"
                         \/ \E k \in 1..Len(chan) - 1 : g[n] = <<"chan", k>>

\* The WAL thread takes the first batch off the channel.
LEMMA ChanShifts ==
  ASSUME WalInv, NEW f, Placed(f), chan # <<>>, NEW x, x[1] # "chan", NEW g, g = Shifted(f, x)
  PROVE  ChanShifted(f, g, x)
<1>1. chan \in Seq(Seq(Entry)) /\ DOMAIN chan = 1..Len(chan) /\ Len(chan) \in Nat /\ Len(chan) >= 1
  BY DEF WalInv, TypeOK
<1>2. \A n \in DOMAIN f : f[n][1] = "chan" => \E k \in 1..Len(chan) : f[n] = <<"chan", k>>
  <2> SUFFICES ASSUME NEW n \in DOMAIN f, f[n][1] = "chan"
               PROVE  \E k \in 1..Len(chan) : f[n] = <<"chan", k>>
    OBVIOUS
  <2>1. f[n] \in Places
    BY DEF Placed
  <2>2. f[n] \in {"chan"} \X DOMAIN chan
    BY <2>1 DEF Places
  <2> QED BY <2>2, <1>1
<1>3. DOMAIN g = DOMAIN f
  BY DEF Shifted
<1>4. \A n \in DOMAIN f : f[n] = <<"chan", 1>> => g[n] = x
  BY DEF Shifted
<1>5. \A n \in DOMAIN f : f[n][1] # "chan" => g[n] = f[n]
  BY DEF Shifted
<1>6. \A n \in DOMAIN f, k \in 1..Len(chan) - 1 : f[n] = <<"chan", k + 1>> => g[n] = <<"chan", k>>
  <2> SUFFICES ASSUME NEW n \in DOMAIN f, NEW k \in 1..Len(chan) - 1, f[n] = <<"chan", k + 1>>
               PROVE  g[n] = <<"chan", k>>
    OBVIOUS
  <2>1. f[n] # <<"chan", 1>> /\ f[n][1] = "chan" /\ f[n][2] - 1 = k
    BY <1>1
  <2> QED BY <2>1 DEF Shifted
<1>7. \A n \in DOMAIN f : \/ f[n][1] # "chan" \/ f[n] = <<"chan", 1>>
                          \/ \E k \in 1..Len(chan) - 1 : f[n] = <<"chan", k + 1>>
  <2> SUFFICES ASSUME NEW n \in DOMAIN f, f[n][1] = "chan", f[n] # <<"chan", 1>>
               PROVE  \E k \in 1..Len(chan) - 1 : f[n] = <<"chan", k + 1>>
    OBVIOUS
  <2>1. PICK j \in 1..Len(chan) : f[n] = <<"chan", j>>
    BY <1>2
  <2>2. j - 1 \in 1..Len(chan) - 1 /\ j = (j - 1) + 1
    BY <2>1, <1>1
  <2> QED BY <2>1, <2>2
<1>8. In(g, x) = In(f, x) \cup In(f, <<"chan", 1>>)
  <2> SUFFICES ASSUME NEW n \in DOMAIN f
               PROVE  g[n] = x <=> f[n] = x \/ f[n] = <<"chan", 1>>
    BY <1>3 DEF In
  <2>1. CASE f[n][1] # "chan"
    BY <2>1, <1>5
  <2>2. CASE f[n] = <<"chan", 1>>
    BY <2>2, <1>4
  <2>3. CASE \E k \in 1..Len(chan) - 1 : f[n] = <<"chan", k + 1>>
    <3>1. PICK k \in 1..Len(chan) - 1 : f[n] = <<"chan", k + 1>>
      BY <2>3
    <3>2. g[n] = <<"chan", k>> /\ f[n] # <<"chan", 1>>
      BY <3>1, <1>1, <1>6
    <3> QED BY <3>1, <3>2
  <2> QED BY <2>1, <2>2, <2>3, <1>7
<1>9. \A k \in 1..Len(chan) - 1 : In(g, <<"chan", k>>) = In(f, <<"chan", k + 1>>)
  <2> SUFFICES ASSUME NEW k \in 1..Len(chan) - 1, NEW n \in DOMAIN f
               PROVE  g[n] = <<"chan", k>> <=> f[n] = <<"chan", k + 1>>
    BY <1>3 DEF In
  <2>1. x # <<"chan", k>>
    OBVIOUS
  <2>2. CASE f[n][1] # "chan" \/ f[n] = <<"chan", 1>>
    BY <2>1, <2>2, <1>1, <1>4, <1>5
  <2>3. CASE \E j \in 1..Len(chan) - 1 : f[n] = <<"chan", j + 1>>
    <3>1. PICK j \in 1..Len(chan) - 1 : f[n] = <<"chan", j + 1>>
      BY <2>3
    <3>2. g[n] = <<"chan", j>>
      BY <3>1, <1>6
    <3> QED BY <3>1, <3>2, <1>1
  <2> QED BY <2>2, <2>3, <1>7
<1>10. \A z : z[1] # "chan" /\ z # x => In(g, z) = In(f, z)
  <2> SUFFICES ASSUME NEW z, z[1] # "chan", z # x, NEW n \in DOMAIN f
               PROVE  g[n] = z <=> f[n] = z
    BY <1>3 DEF In
  <2>1. CASE f[n][1] # "chan"
    BY <2>1, <1>5
  <2>2. CASE f[n] = <<"chan", 1>>
    BY <2>2, <1>4
  <2>3. CASE \E k \in 1..Len(chan) - 1 : f[n] = <<"chan", k + 1>>
    <3>1. PICK k \in 1..Len(chan) - 1 : f[n] = <<"chan", k + 1>>
      BY <2>3
    <3>2. g[n] = <<"chan", k>>
      BY <3>1, <1>6
    <3> QED BY <3>1, <3>2
  <2> QED BY <2>1, <2>2, <2>3, <1>7
<1>11. \A n \in DOMAIN f : \/ g[n] = x
                           \/ g[n] = f[n] /\ f[n][1] # "chan"
                           \/ \E k \in 1..Len(chan) - 1 : g[n] = <<"chan", k>>
  BY <1>4, <1>5, <1>6, <1>7
<1> QED BY <1>3, <1>8, <1>9, <1>10, <1>11 DEF ChanShifted

\* The batches left in the channel, and the places there are.
LEMMA ChanTail ==
  ASSUME WalInv, NEW f, Placed(f), chan # <<>>, chan' = Tail(chan), NEW g, NEW x,
         ChanShifted(f, g, x)
  PROVE  /\ DOMAIN chan' = 1..Len(chan) - 1
         /\ \A k \in DOMAIN chan' : Ids(chan'[k]) = In(g, <<"chan", k>>)
         /\ Ids(Head(chan)) = In(f, <<"chan", 1>>)
<1>1. /\ DOMAIN chan = 1..Len(chan) /\ Len(chan) \in Nat /\ Len(chan) >= 1 /\ DOMAIN chan' = 1..Len(chan) - 1
      /\ Head(chan) = chan[1] /\ \A k \in 1..Len(chan) - 1 : k + 1 \in DOMAIN chan /\ chan'[k] = chan[k + 1]
      /\ 1 \in DOMAIN chan
  BY DEF WalInv, TypeOK
<1>2. \A k \in 1..Len(chan) - 1 : In(g, <<"chan", k>>) = In(f, <<"chan", k + 1>>)
  BY DEF ChanShifted
<1>3. \A k \in DOMAIN chan : Ids(chan[k]) = In(f, <<"chan", k>>)
  BY DEF Placed
<1> QED BY <1>1, <1>2, <1>3

\* WalWrite: from the channel to the file.
LEMMA PlacedWalWrite ==
  ASSUME WalInv, NEW f, Placed(f), WalWrite, NEW k, k = Len(file) + 1, NEW g, g = Shifted(f, <<"file", k>>)
  PROVE  Placed(g)'
<1>1. /\ chan # <<>> /\ file' = Append(file, Head(chan)) /\ chan' = Tail(chan)
      /\ UNCHANGED <<queue, accepted, buffer, batch, entries, applied, skipped, lost>>
  BY DEF WalWrite, flushVars, drainVars
<1>2. PICK x : x = <<"file", k>> /\ x[1] # "chan" /\ g = Shifted(f, x)
  OBVIOUS
<1>0. ChanShifted(f, g, x)
  BY <1>1, <1>2, ChanShifts
<1>3. /\ DOMAIN g = DOMAIN f
      /\ In(g, x) = In(f, x) \cup In(f, <<"chan", 1>>)
      /\ \A j \in 1..Len(chan) - 1 : In(g, <<"chan", j>>) = In(f, <<"chan", j + 1>>)
      /\ \A z : z[1] # "chan" /\ z # x => In(g, z) = In(f, z)
      /\ \A n \in DOMAIN f : \/ g[n] = x
                             \/ g[n] = f[n] /\ f[n][1] # "chan"
                             \/ \E j \in 1..Len(chan) - 1 : g[n] = <<"chan", j>>
  BY <1>0 DEF ChanShifted
<1>4. /\ DOMAIN chan' = 1..Len(chan) - 1
      /\ \A j \in DOMAIN chan' : Ids(chan'[j]) = In(g, <<"chan", j>>)
      /\ Ids(Head(chan)) = In(f, <<"chan", 1>>)
  BY <1>0, <1>1, ChanTail
<1>5. /\ DOMAIN file' = DOMAIN file \cup {k} /\ k \notin DOMAIN file
      /\ file'[k] = Head(chan) /\ \A j \in DOMAIN file : file'[j] = file[j]
  <2>1. file \in Seq(Seq(Entry)) /\ Head(chan) \in Seq(Entry)
    BY <1>1, HeadTail DEF WalInv, TypeOK
  <2> QED BY <1>1, <2>1
<1>6. In(f, x) = {}
  BY <1>2, <1>5 DEF Placed, In, Places
<1>7. \A j \in DOMAIN file' : Ids(file'[j]) = In(g, <<"file", j>>)
  <2>1. Ids(file'[k]) = In(g, <<"file", k>>)
    BY <1>2, <1>3, <1>4, <1>5, <1>6
  <2>2. \A j \in DOMAIN file : In(g, <<"file", j>>) = In(f, <<"file", j>>)
    BY <1>2, <1>3, <1>5
  <2> QED BY <2>1, <2>2, <1>5 DEF Placed
<1>8. Taken' = Taken /\ g \in [1..Taken -> Places']
  <2>1. Taken' = Taken /\ x \in Places' /\ \A j \in 1..Len(chan) - 1 : <<"chan", j>> \in Places'
    BY <1>1, <1>2, <1>4, <1>5 DEF Places, Taken
  <2>2. \A y \in Places : y[1] # "chan" => y \in Places'
    BY <1>5 DEF Places
  <2>3. DOMAIN f = 1..Taken /\ \A n \in DOMAIN f : f[n] \in Places
    BY DEF Placed
  <2>4. \A n \in DOMAIN f : g[n] \in Places'
    BY <1>3, <2>1, <2>2, <2>3
  <2> QED BY <1>3, <2>1, <2>3, <2>4 DEF Shifted
<1>9. \A b \in BOOLEAN : In(g, <<"buffer", b>>) = In(f, <<"buffer", b>>)
  BY <1>2, <1>3
<1>10. \A c \in Clients : In(g, <<"batch", c>>) = In(f, <<"batch", c>>)
  BY <1>2, <1>3
<1>11. \A kind \in {"entries", "applied", "skipped", "lost"} : In(g, <<kind, 0>>) = In(f, <<kind, 0>>)
  BY <1>2, <1>3
<1> QED BY <1>1, <1>4, <1>7, <1>8, <1>9, <1>10, <1>11 DEF Placed

\* WalWriteError: from the channel to nowhere.
LEMMA PlacedWalWriteError ==
  ASSUME WalInv, NEW f, Placed(f), WalWriteError, NEW g, g = Shifted(f, <<"lost", 0>>)
  PROVE  Placed(g)'
<1>1. /\ chan # <<>> /\ lost' = lost \cup {Head(chan)[i] : i \in DOMAIN Head(chan)} /\ chan' = Tail(chan)
      /\ UNCHANGED <<queue, accepted, buffer, batch, file, entries, applied, skipped>>
  BY DEF WalWriteError, flushVars, drainVars
<1>2. PICK x : x = <<"lost", 0>> /\ x[1] # "chan" /\ g = Shifted(f, x)
  OBVIOUS
<1>0. ChanShifted(f, g, x)
  BY <1>1, <1>2, ChanShifts
<1>3. /\ DOMAIN g = DOMAIN f
      /\ In(g, x) = In(f, x) \cup In(f, <<"chan", 1>>)
      /\ \A j \in 1..Len(chan) - 1 : In(g, <<"chan", j>>) = In(f, <<"chan", j + 1>>)
      /\ \A z : z[1] # "chan" /\ z # x => In(g, z) = In(f, z)
      /\ \A n \in DOMAIN f : \/ g[n] = x
                             \/ g[n] = f[n] /\ f[n][1] # "chan"
                             \/ \E j \in 1..Len(chan) - 1 : g[n] = <<"chan", j>>
  BY <1>0 DEF ChanShifted
<1>4. /\ DOMAIN chan' = 1..Len(chan) - 1
      /\ \A j \in DOMAIN chan' : Ids(chan'[j]) = In(g, <<"chan", j>>)
      /\ Ids(Head(chan)) = In(f, <<"chan", 1>>)
  BY <1>0, <1>1, ChanTail
<1>5. IdsOf(lost') = IdsOf(lost) \cup Ids(Head(chan))
  BY <1>1 DEF IdsOf, Ids
<1>6. IdsOf(lost') = In(g, <<"lost", 0>>)
  BY <1>2, <1>3, <1>4, <1>5 DEF Placed
<1>7. Taken' = Taken /\ g \in [1..Taken -> Places']
  <2>1. Taken' = Taken /\ x \in Places' /\ \A j \in 1..Len(chan) - 1 : <<"chan", j>> \in Places'
    BY <1>1, <1>2, <1>4 DEF Places, Taken
  <2>2. \A y \in Places : y[1] # "chan" => y \in Places'
    BY <1>1 DEF Places
  <2>3. DOMAIN f = 1..Taken /\ \A n \in DOMAIN f : f[n] \in Places
    BY DEF Placed
  <2>4. \A n \in DOMAIN f : g[n] \in Places'
    BY <1>3, <2>1, <2>2, <2>3
  <2> QED BY <1>3, <2>1, <2>3, <2>4 DEF Shifted
<1>8. \A b \in BOOLEAN : In(g, <<"buffer", b>>) = In(f, <<"buffer", b>>)
  BY <1>2, <1>3
<1>9. \A c \in Clients : In(g, <<"batch", c>>) = In(f, <<"batch", c>>)
  BY <1>2, <1>3
<1>10. \A kind \in {"entries", "applied", "skipped"} : In(g, <<kind, 0>>) = In(f, <<kind, 0>>)
  BY <1>2, <1>3
<1>11. \A j \in DOMAIN file : In(g, <<"file", j>>) = In(f, <<"file", j>>)
  BY <1>2, <1>3
<1> QED BY <1>1, <1>4, <1>6, <1>7, <1>8, <1>9, <1>10, <1>11 DEF Placed

\* DrainSkip, DrainFail, DrainSaveLast: the first entry of the chunk is done.
LEMMA PlacedDrain ==
  ASSUME WalInv, NEW f, Placed(f), entries # <<>>, entries' = Tail(entries), Taken' = Taken,
         UNCHANGED <<buffer, batch, chan, file>>,
         NEW kind \in {"applied", "skipped", "lost"},
         applied' = IF kind = "applied" THEN Append(applied, Head(entries)) ELSE applied,
         skipped' = IF kind = "skipped" THEN skipped \cup {Head(entries)} ELSE skipped,
         lost' = IF kind = "lost" THEN lost \cup {Head(entries)} ELSE lost,
         NEW h, h = Head(entries).id, NEW g, g = Moved(f, {h}, <<kind, 0>>)
  PROVE  Placed(g)'
<1>1. /\ Head(entries) \in Entry /\ h \in Ids(entries) /\ Ids(Tail(entries)) = Ids(entries) \ {h}
  BY IdsTail DEF WalInv, TypeOK, ChunkInv
<1>2. h \in In(f, <<"entries", 0>>)
  BY <1>1 DEF Placed
<1>3. /\ DOMAIN g = DOMAIN f
      /\ In(g, <<"entries", 0>>) = In(f, <<"entries", 0>>) \ {h}
      /\ In(g, <<kind, 0>>) = In(f, <<kind, 0>>) \cup {h}
      /\ \A z : z # <<"entries", 0>> /\ z # <<kind, 0>> => In(g, z) = In(f, z)
  BY <1>2 DEF In, Moved
<1>4. /\ Ids(applied') = IF kind = "applied" THEN Ids(applied) \cup {h} ELSE Ids(applied)
      /\ IdsOf(skipped') = IF kind = "skipped" THEN IdsOf(skipped) \cup {h} ELSE IdsOf(skipped)
      /\ IdsOf(lost') = IF kind = "lost" THEN IdsOf(lost) \cup {h} ELSE IdsOf(lost)
  <2>1. Ids(Append(applied, Head(entries))) = Ids(applied) \cup {h}
    BY <1>1, IdsAppend DEF WalInv, TypeOK
  <2>2. \A S : IdsOf(S \cup {Head(entries)}) = IdsOf(S) \cup {h}
    BY DEF IdsOf
  <2> QED BY <2>1, <2>2
<1>5. \A l \in {"applied", "skipped", "lost"} : l # kind => In(g, <<l, 0>>) = In(f, <<l, 0>>)
  BY <1>3
<1>6. Ids(applied') = In(g, <<"applied", 0>>) /\ IdsOf(skipped') = In(g, <<"skipped", 0>>) /\ IdsOf(lost') = In(g, <<"lost", 0>>)
  <2>1. Ids(applied) = In(f, <<"applied", 0>>) /\ IdsOf(skipped) = In(f, <<"skipped", 0>>) /\ IdsOf(lost) = In(f, <<"lost", 0>>)
    BY DEF Placed
  <2>2. CASE kind = "applied"
    BY <2>1, <2>2, <1>3, <1>4, <1>5
  <2>3. CASE kind = "skipped"
    BY <2>1, <2>3, <1>3, <1>4, <1>5
  <2>4. CASE kind = "lost"
    BY <2>1, <2>4, <1>3, <1>4, <1>5
  <2> QED BY <2>2, <2>3, <2>4
<1>7. g \in [1..Taken -> Places']
  <2>1. Places' = Places /\ <<kind, 0>> \in Places
    BY DEF Places
  <2> QED BY <2>1 DEF Placed, Moved
<1>8. \A b \in BOOLEAN : In(g, <<"buffer", b>>) = In(f, <<"buffer", b>>)
  BY <1>3
<1>9. \A c \in Clients : In(g, <<"batch", c>>) = In(f, <<"batch", c>>)
  BY <1>3
<1>10. \A j : In(g, <<"file", j>>) = In(f, <<"file", j>>) /\ In(g, <<"chan", j>>) = In(f, <<"chan", j>>)
  BY <1>3
<1>11. Ids(entries') = In(g, <<"entries", 0>>)
  BY <1>1, <1>3 DEF Placed
<1> QED BY <1>6, <1>7, <1>8, <1>9, <1>10, <1>11, ZenonT(40) DEF Placed

-----------------------------------------------------------------------------
(* From places to the stages of Ingest.                                    *)

\* The stage of an entry at place x, and of entry n.
StageAt(x) == IF x[1] \in {"buffer", "batch", "chan"} THEN "logging"
              ELSE IF x[1] = "file" THEN "logged"
              ELSE IF x[1] = "entries" THEN "draining" ELSE x[1]
StageIn(f, n) == IF n \in DOMAIN f THEN StageAt(f[n]) ELSE "queued"

\* The queue holds the accepted entries that were not taken.
LEMMA QueuedIds ==
  ASSUME WalInv, NEW n \in 1..accepted
  PROVE  n \in Ids(queue) <=> n > Taken
<1>1. Taken \in Nat /\ accepted \in Nat /\ Taken <= accepted
  BY TakenType
<1>2. DOMAIN queue = 1..Len(queue) /\ Len(queue) \in Nat /\ \A i \in DOMAIN queue : queue[i].id = Taken + i
  BY DEF WalInv, TypeOK, QueueInv
<1>3. n \in Ids(queue) => n > Taken
  BY <1>1, <1>2 DEF Ids
<1>4. ASSUME n > Taken PROVE n \in Ids(queue)
  <2>1. n - Taken \in DOMAIN queue /\ queue[n - Taken].id = n
    BY <1>1, <1>2, <1>4 DEF Taken
  <2> QED BY <2>1 DEF Ids
<1> QED BY <1>3, <1>4


\* The map of places tells the stage of every entry.
LEMMA StageOfPlace ==
  ASSUME WalInv, NEW f, Placed(f), NEW n \in 1..accepted
  PROVE  Stage(n) = StageIn(f, n)
<1>0. Taken \in Nat /\ accepted \in Nat /\ Taken <= accepted /\ DOMAIN f = 1..Taken
  BY TakenType DEF Placed
<1>1. \A s : Holds(s, n) <=> n \in Ids(s)
  BY DEF Holds, Ids
<1>2. /\ (\E e \in skipped : e.id = n) <=> n \in IdsOf(skipped)
      /\ (\E e \in lost : e.id = n) <=> n \in IdsOf(lost)
  BY DEF IdsOf
<1>3. n \in Ids(queue) <=> n > Taken
  BY QueuedIds
<1>4. CASE n > Taken
  BY <1>0, <1>1, <1>3, <1>4 DEF Stage, StageIn
<1>5. CASE n <= Taken
  <2>1. n \in DOMAIN f /\ n \notin Ids(queue) /\ f[n] \in Places
    BY <1>0, <1>3, <1>5 DEF Placed
  <2>2. /\ n \in Ids(entries) <=> f[n] = <<"entries", 0>>
        /\ n \in Ids(applied) <=> f[n] = <<"applied", 0>>
        /\ n \in IdsOf(skipped) <=> f[n] = <<"skipped", 0>>
        /\ n \in IdsOf(lost) <=> f[n] = <<"lost", 0>>
    BY <2>1 DEF Placed, In
  <2>3. \A k \in DOMAIN file : n \in Ids(file[k]) <=> f[n] = <<"file", k>>
    BY <2>1 DEF Placed, In
  <2>4. StageIn(f, n) = StageAt(f[n])
    BY <2>1 DEF StageIn
  <2>5. CASE f[n] \in {"entries", "applied", "skipped", "lost"} \X {0}
    <3>1. PICK kind \in {"entries", "applied", "skipped", "lost"} : f[n] = <<kind, 0>>
      BY <2>5
    <3>2. CASE kind = "entries"
      BY <3>1, <3>2, <2>1, <2>2, <2>4, <1>1 DEF Stage, StageAt
    <3>3. CASE kind = "applied"
      BY <3>1, <3>3, <2>1, <2>2, <2>4, <1>1 DEF Stage, StageAt
    <3>4. CASE kind = "skipped"
      BY <3>1, <3>4, <2>1, <2>2, <2>4, <1>1, <1>2 DEF Stage, StageAt
    <3>5. CASE kind = "lost"
      BY <3>1, <3>5, <2>1, <2>2, <2>4, <1>1, <1>2 DEF Stage, StageAt
    <3> QED BY <3>1, <3>2, <3>3, <3>4, <3>5
  <2>6. CASE f[n] \in {"file"} \X DOMAIN file
    <3>1. PICK k \in DOMAIN file : f[n] = <<"file", k>>
      BY <2>6
    <3>2. \E j \in DOMAIN file : Holds(file[j], n)
      BY <3>1, <2>3, <1>1
    <3> QED BY <3>1, <3>2, <2>1, <2>2, <2>4, <1>1, <1>2 DEF Stage, StageAt
  <2>7. CASE f[n] \in ({"buffer"} \X BOOLEAN) \cup ({"batch"} \X Clients) \cup ({"chan"} \X DOMAIN chan)
    <3>1. f[n][1] \in {"buffer", "batch", "chan"}
      BY <2>7
    <3>2. ~ \E j \in DOMAIN file : Holds(file[j], n)
      BY <3>1, <2>3, <1>1
    <3>3. n \notin Ids(entries) /\ n \notin Ids(applied) /\ n \notin IdsOf(skipped) /\ n \notin IdsOf(lost)
      BY <3>1, <2>2
    <3> QED BY <3>1, <3>2, <3>3, <2>1, <2>4, <1>1, <1>2 DEF Stage, StageAt
  <2> QED BY <2>1, <2>5, <2>6, <2>7 DEF Places
<1> QED BY <1>0, <1>4, <1>5

\* The stages as Ingest sees them.
stages == [n \in 1..accepted |-> Stage(n)]

\* The stages follow from the map.
LEMMA StagesOf ==
  ASSUME NEW f
  PROVE  WalInv /\ Placed(f) => stages = [n \in 1..accepted |-> StageIn(f, n)]
BY StageOfPlace DEF stages

\* The same after a step.
LEMMA StagesOfNext ==
  ASSUME NEW f
  PROVE  (WalInv /\ Placed(f) => stages = [n \in 1..accepted |-> StageIn(f, n)])'
BY StagesOf, PTL

\* The first state of the pipeline is one of Ingest.
LEMMA InitStages == Init => Lifecycle!Init
BY DEF Init, Lifecycle!Init

\* An entry is queued as long as it has no place.
LEMMA QueuedStage ==
  ASSUME WalInv, NEW f, Placed(f), NEW n \in 1..accepted
  PROVE  StageIn(f, n) = "queued" <=> n > Taken
<1>1. Taken \in Nat /\ accepted \in Nat /\ DOMAIN f = 1..Taken
  BY TakenType DEF Placed
<1>2. CASE n > Taken
  BY <1>1, <1>2 DEF StageIn
<1>3. CASE n <= Taken
  <2>1. n \in DOMAIN f /\ f[n] \in Places
    BY <1>1, <1>3 DEF Placed
  <2>2. f[n][1] \in {"entries", "applied", "skipped", "lost", "buffer", "batch", "chan", "file"}
    BY <2>1 DEF Places
  <2>3. StageAt(f[n]) # "queued"
    BY <2>2 DEF StageAt
  <2> QED BY <1>1, <1>3, <2>1, <2>3 DEF StageIn
<1> QED BY <1>1, <1>2, <1>3

\* A push is Accept.
LEMMA AcceptStage ==
  ASSUME WalInv, WalInv', NEW f, Placed(f), Placed(f)', accepted' = accepted + 1
  PROVE  Lifecycle!Accept
<1>1. stages = [n \in 1..accepted |-> StageIn(f, n)] /\ stages' = [n \in 1..accepted' |-> StageIn(f, n)]
  BY StagesOf, StagesOfNext
<1>2. Taken \in Nat /\ accepted \in Nat /\ Taken <= accepted /\ DOMAIN f = 1..Taken
  BY TakenType DEF Placed
<1>3. StageIn(f, accepted') = "queued"
  BY <1>2 DEF StageIn
<1>4. stages' = [n \in 1..accepted' |-> IF n = accepted' THEN "queued" ELSE stages[n]]
  BY <1>1, <1>2, <1>3
<1> QED BY <1>4 DEF Lifecycle!Accept, stages

\* A pop is Take.
LEMMA TakeStage ==
  ASSUME WalInv, WalInv', NEW m, m = Taken, m < accepted, accepted' = accepted,
         NEW f, Placed(f), NEW x, StageAt(x) \in {"logging", "draining", "lost"},
         NEW g, g = TakenTo(f, m + 1, x), Placed(g)'
  PROVE  Lifecycle!Take
<1>1. stages = [n \in 1..accepted |-> StageIn(f, n)] /\ stages' = [n \in 1..accepted |-> StageIn(g, n)]
  BY StagesOf, StagesOfNext
<1>2. m \in Nat /\ accepted \in Nat /\ DOMAIN f = 1..m /\ m + 1 \in 1..accepted
  BY TakenType DEF Placed
<1>3. \A n \in 1..accepted : stages[n] = "queued" <=> n > m
  BY <1>1, QueuedStage
<1>4. \A n \in 1..accepted : StageIn(g, n) = IF n = m + 1 THEN StageAt(x) ELSE StageIn(f, n)
  BY <1>2 DEF StageIn, TakenTo
<1>5. stages' = [n \in 1..accepted |-> IF n \in {m + 1} THEN StageAt(x) ELSE stages[n]]
  BY <1>1, <1>4
<1>6. /\ m + 1 \in {n \in 1..accepted : stages[n] = "queued"}
      /\ \A n \in {n \in 1..accepted : stages[n] = "queued"} : m + 1 <= n
  BY <1>2, <1>3
<1>7. \E n \in 1..accepted, st \in {"logging", "draining", "lost"} :
        /\ n \in {k \in 1..accepted : stages[k] = "queued"}
        /\ \A k \in {k \in 1..accepted : stages[k] = "queued"} : n <= k
        /\ stages' = [k \in 1..accepted |-> IF k \in {n} THEN st ELSE stages[k]]
  BY <1>2, <1>5, <1>6
<1> QED BY <1>7 DEF Lifecycle!Take, Lifecycle!Oldest, Lifecycle!In, Lifecycle!MoveAll, stages

\* A batch written or dropped is Write.
LEMMA WriteStage ==
  ASSUME WalInv, WalInv', accepted' = accepted, NEW f, Placed(f), chan # <<>>,
         NEW x, x[1] # "chan", StageAt(x) \in {"logged", "lost"}, NEW g, g = Shifted(f, x), Placed(g)'
  PROVE  Lifecycle!Write \/ stages' = stages
<1> DEFINE S == In(f, <<"chan", 1>>)
<1>1. stages = [n \in 1..accepted |-> StageIn(f, n)] /\ stages' = [n \in 1..accepted |-> StageIn(g, n)]
  BY StagesOf, StagesOfNext
<1>2. Taken \in Nat /\ accepted \in Nat /\ Taken <= accepted /\ DOMAIN f = 1..Taken
  BY TakenType DEF Placed
<1>3. \A n \in 1..accepted : StageIn(g, n) = IF n \in S THEN StageAt(x) ELSE StageIn(f, n)
  <2> SUFFICES ASSUME NEW n \in 1..accepted
               PROVE  StageIn(g, n) = IF n \in S THEN StageAt(x) ELSE StageIn(f, n)
    OBVIOUS
  <2>1. CASE n \notin DOMAIN f
    BY <2>1 DEF StageIn, Shifted, In
  <2>2. CASE n \in S
    BY <2>2 DEF StageIn, Shifted, In
  <2>3. CASE n \in DOMAIN f /\ n \notin S /\ f[n][1] # "chan"
    BY <2>3 DEF StageIn, Shifted, In
  <2>4. CASE n \in DOMAIN f /\ n \notin S /\ f[n][1] = "chan"
    <3>1. n \in DOMAIN g /\ g[n] = <<"chan", f[n][2] - 1>>
      BY <2>4 DEF Shifted, In
    <3> QED BY <3>1, <2>4 DEF StageIn, StageAt
  <2> QED BY <2>1, <2>2, <2>3, <2>4
<1>4. stages' = [n \in 1..accepted |-> IF n \in S THEN StageAt(x) ELSE stages[n]]
  BY <1>1, <1>3
<1>5. S \subseteq {n \in 1..accepted : stages[n] = "logging"}
  BY <1>1, <1>2 DEF In, StageIn, StageAt
<1> HIDE DEF S
<1>6. CASE S = {}
  BY <1>1, <1>4, <1>6
<1>7. CASE S # {}
  <2>1. \E T \in SUBSET {n \in 1..accepted : stages[n] = "logging"}, st \in {"logged", "lost"} :
          T # {} /\ stages' = [n \in 1..accepted |-> IF n \in T THEN st ELSE stages[n]]
    BY <1>4, <1>5, <1>7
  <2> QED BY <2>1 DEF Lifecycle!Write, Lifecycle!In, Lifecycle!MoveAll, stages
<1> QED BY <1>6, <1>7

\* The first entry of the chunk is the oldest the drain thread has.
LEMMA OldestDraining ==
  ASSUME WalInv, NEW f, Placed(f), entries # <<>>, NEW h, h = Head(entries).id
  PROVE  /\ h \in 1..accepted /\ h \in DOMAIN f
         /\ h \in {n \in 1..accepted : StageIn(f, n) = "draining"}
         /\ \A n \in {n \in 1..accepted : StageIn(f, n) = "draining"} : h <= n
<1>1. h \in Ids(entries) /\ \A n \in Ids(entries) : h <= n
  BY IdsTail DEF WalInv, TypeOK, ChunkInv
<1>2. Taken \in Nat /\ accepted \in Nat /\ Taken <= accepted /\ DOMAIN f = 1..Taken
  BY TakenType DEF Placed
<1>3. Ids(entries) = In(f, <<"entries", 0>>)
  BY DEF Placed
<1>4. h \in DOMAIN f /\ f[h] = <<"entries", 0>> /\ h \in 1..accepted
  BY <1>1, <1>2, <1>3 DEF In
<1>5. StageIn(f, h) = "draining"
  BY <1>4 DEF StageIn, StageAt
<1>6. ASSUME NEW n \in 1..accepted, StageIn(f, n) = "draining" PROVE n \in Ids(entries)
  <2>1. n \in DOMAIN f /\ StageAt(f[n]) = "draining" /\ f[n] \in Places
    BY <1>6 DEF StageIn, Placed
  <2>2. f[n] = <<"entries", 0>>
    BY <2>1 DEF StageAt, Places
  <2> QED BY <2>1, <2>2, <1>3 DEF In
<1> QED BY <1>1, <1>4, <1>5, <1>6

\* A skip or a failed insert is Finish.
LEMMA FinishStage ==
  ASSUME WalInv, WalInv', accepted' = accepted, NEW f, Placed(f), entries # <<>>,
         NEW kind \in {"skipped", "lost"}, NEW h, h = Head(entries).id,
         NEW g, g = Moved(f, {h}, <<kind, 0>>), Placed(g)'
  PROVE  Lifecycle!Finish
<1>1. stages = [n \in 1..accepted |-> StageIn(f, n)] /\ stages' = [n \in 1..accepted |-> StageIn(g, n)]
  BY StagesOf, StagesOfNext
<1>2. /\ h \in 1..accepted /\ h \in DOMAIN f
      /\ h \in {n \in 1..accepted : stages[n] = "draining"}
      /\ \A n \in {n \in 1..accepted : stages[n] = "draining"} : h <= n
  BY <1>1, OldestDraining
<1>3. \A n \in 1..accepted : StageIn(g, n) = IF n = h THEN kind ELSE StageIn(f, n)
  BY <1>2 DEF StageIn, Moved, StageAt
<1>4. stages' = [n \in 1..accepted |-> IF n \in {h} THEN kind ELSE stages[n]]
  BY <1>1, <1>3
<1>5. \E n \in 1..accepted, st \in {"skipped", "lost"} :
        /\ n \in {k \in 1..accepted : stages[k] = "draining"}
        /\ \A k \in {k \in 1..accepted : stages[k] = "draining"} : n <= k
        /\ stages' = [k \in 1..accepted |-> IF k \in {n} THEN st ELSE stages[k]]
  BY <1>2, <1>4
<1> QED BY <1>5 DEF Lifecycle!Finish, Lifecycle!Oldest, Lifecycle!In, Lifecycle!MoveAll, stages

\* An insert is Apply: the page it saved last is accepted in the same step.
LEMMA ApplyStage ==
  ASSUME WalInv, WalInv', accepted' = accepted + 1, NEW f, Placed(f), entries # <<>>,
         NEW h, h = Head(entries).id, NEW g, g = Moved(f, {h}, <<"applied", 0>>), Placed(g)'
  PROVE  Lifecycle!Apply
<1>1. stages = [n \in 1..accepted |-> StageIn(f, n)] /\ stages' = [n \in 1..accepted' |-> StageIn(g, n)]
  BY StagesOf, StagesOfNext
<1>2. /\ h \in 1..accepted /\ h \in DOMAIN f
      /\ h \in {n \in 1..accepted : stages[n] = "draining"}
      /\ \A n \in {n \in 1..accepted : stages[n] = "draining"} : h <= n
  BY <1>1, OldestDraining
<1>3. Taken \in Nat /\ accepted \in Nat /\ Taken <= accepted /\ DOMAIN f = 1..Taken
  BY TakenType DEF Placed
<1>4. \A n \in 1..accepted : StageIn(g, n) = IF n = h THEN "applied" ELSE StageIn(f, n)
  BY <1>2 DEF StageIn, Moved, StageAt
<1>5. StageIn(g, accepted') = "queued"
  BY <1>3 DEF StageIn, Moved
<1>6. stages' = [n \in 1..accepted' |-> IF n = accepted' THEN "queued" ELSE IF n = h THEN "applied" ELSE stages[n]]
  <2>1. \A n \in 1..accepted' : n # accepted' => n \in 1..accepted
    BY <1>3
  <2>2. \A n \in 1..accepted : stages[n] = StageIn(f, n)
    BY <1>1
  <2>3. \A n \in 1..accepted' : StageIn(g, n) = IF n = accepted' THEN "queued" ELSE IF n = h THEN "applied" ELSE stages[n]
    BY <2>1, <2>2, <1>4, <1>5
  <2> QED BY <1>1, <2>3
<1>7. \E n \in 1..accepted :
        /\ n \in {k \in 1..accepted : stages[k] = "draining"}
        /\ \A k \in {k \in 1..accepted : stages[k] = "draining"} : n <= k
        /\ stages' = [k \in 1..accepted' |-> IF k = accepted' THEN "queued" ELSE IF k = n THEN "applied" ELSE stages[k]]
  BY <1>2, <1>6
<1> QED BY <1>7 DEF Lifecycle!Apply, Lifecycle!Oldest, Lifecycle!In, stages

\* A batch on its way from a buffer to the channel stays in the same stage.
LEMMA SameStage ==
  ASSUME WalInv, WalInv', accepted' = accepted, NEW f, Placed(f), NEW x, NEW y, StageAt(x) = StageAt(y),
         NEW g, g = Moved(f, In(f, x), y), Placed(g)'
  PROVE  stages' = stages
<1>1. stages = [n \in 1..accepted |-> StageIn(f, n)] /\ stages' = [n \in 1..accepted |-> StageIn(g, n)]
  BY StagesOf, StagesOfNext
<1>2. \A n \in 1..accepted : StageIn(g, n) = StageIn(f, n)
  BY DEF StageIn, Moved, In
<1> QED BY <1>1, <1>2

-----------------------------------------------------------------------------
(* Every step of the pipeline has a map after it and is a step of Ingest.  *)

\* A step of Ingest or none.
LifeStep == Lifecycle!Next \/ UNCHANGED <<accepted, stages>>

\* Steps that neither push, pop nor move an entry.
LEMMA QuietStep ==
  ASSUME WalInv, WalInv', NEW f, Placed(f),
         UNCHANGED <<queue, accepted, buffer, batch, chan, file, entries, applied, skipped, lost>>
  PROVE  Placed(f)' /\ LifeStep
<1>1. Taken' = Taken
  BY DEF Taken
<1>2. Placed(f)'
  BY <1>1, PlacedFrame
<1>3. stages = [n \in 1..accepted |-> StageIn(f, n)] /\ stages' = [n \in 1..accepted |-> StageIn(f, n)]
  BY <1>2, StagesOf, StagesOfNext
<1> QED BY <1>2, <1>3 DEF LifeStep

\* Steps that only push.
LEMMA PushStep ==
  ASSUME WalInv, WalInv', NEW f, Placed(f), NEW isPage \in BOOLEAN, Push(isPage),
         UNCHANGED <<buffer, batch, chan, file, entries, applied, skipped, lost>>
  PROVE  Placed(f)' /\ LifeStep
<1>1. Taken' = Taken
  BY PushQueue DEF WalInv
<1>2. Placed(f)'
  BY <1>1, PlacedFrame
<1>3. accepted' = accepted + 1
  BY DEF Push
<1> QED BY <1>2, <1>3, AcceptStage DEF LifeStep, Lifecycle!Next

\* Statements start and enqueue.
LEMMA EnqueuePlaces ==
  ASSUME WalInv, WalInv', NEW f, Placed(f), NEW c \in Clients,
         \/ \E s \in Statements, n \in 0..MaxRows : Start(c, s, n)
         \/ Enqueue(c) \/ EnqueueRetry(c) \/ EnqueueFail(c)
  PROVE  \E g : Placed(g)' /\ LifeStep
<1>1. UNCHANGED <<buffer, batch, chan, file, entries, applied, skipped, lost>>
  BY DEF Start, Enqueue, EnqueueRetry, EnqueueFail, flushVars, drainVars, logVars
<1>2. CASE Enqueue(c)
  BY <1>1, <1>2, PushStep DEF Enqueue
<1>3. CASE ~Enqueue(c)
  <2>1. UNCHANGED <<queue, accepted>>
    BY <1>3 DEF Start, EnqueueRetry, EnqueueFail
  <2> QED BY <1>1, <2>1, QuietStep
<1> QED BY <1>2, <1>3

\* A pop from the queue that is not empty takes an entry that was accepted.
LEMMA PopAccepted ==
  ASSUME WalInv, queue # <<>>
  PROVE  Taken < accepted
<1>1. Len(queue) \in Nat \ {0} /\ accepted \in Nat
  BY DEF WalInv, TypeOK
<1> QED BY <1>1 DEF Taken

\* flush_pipeline.
LEMMA FlushPlaces ==
  ASSUME WalInv, WalInv', BatchInv, NEW f, Placed(f), NEW c \in Clients, Flush(c)
  PROVE  \E g : Placed(g)' /\ LifeStep
<1>0. is_a[c] \in BOOLEAN
  BY DEF WalInv, TypeOK
<1>1. CASE FlushEmpty(c) \/ FlushBegin(c) \/ FlushLoad(c) \/ FlushLock(c) \/ FlushPopNone(c) \/ FlushNothing(c)
  <2>1. UNCHANGED <<queue, accepted, buffer, batch, chan, file, entries, applied, skipped, lost>>
    BY <1>1 DEF FlushEmpty, FlushBegin, FlushLoad, FlushLock, FlushPopNone, FlushNothing,
                flushVars, drainVars, logVars
  <2> QED BY <2>1, QuietStep
<1>2. CASE FlushPop(c)
  <2>1. PICK b \in BOOLEAN : b = is_a[c]
    BY <1>0
  <2>2. PICK m : m = Taken
    OBVIOUS
  <2>3. PICK x : x = <<"buffer", b>>
    OBVIOUS
  <2>4. PICK g : g = TakenTo(f, m + 1, x)
    OBVIOUS
  <2>5. Placed(g)'
    BY <1>2, <2>1, <2>2, <2>3, <2>4, PlacedFlushPop
  <2>6. m < accepted /\ accepted' = accepted /\ StageAt(x) = "logging"
    BY <1>2, <2>2, <2>3, PopAccepted DEF FlushPop, StageAt
  <2>7. Lifecycle!Take
    BY <2>2, <2>4, <2>5, <2>6, TakeStage
  <2> QED BY <2>5, <2>7 DEF LifeStep, Lifecycle!Next
<1>3. CASE FlushSwap(c)
  <2>1. PICK b \in BOOLEAN : b = is_a[c]
    BY <1>0
  <2>2. PICK x, y : x = <<"buffer", b>> /\ y = <<"batch", c>>
    OBVIOUS
  <2>3. PICK g : g = Moved(f, In(f, x), y)
    OBVIOUS
  <2>4. Placed(g)'
    BY <1>3, <2>1, <2>2, <2>3, PlacedFlushSwap
  <2>5. accepted' = accepted /\ StageAt(x) = StageAt(y)
    BY <1>3, <2>2 DEF FlushSwap, StageAt
  <2> QED BY <2>3, <2>4, <2>5, SameStage DEF LifeStep
<1>4. CASE FlushSend(c)
  <2>1. PICK k : k = Len(chan) + 1
    OBVIOUS
  <2>2. PICK x, y : x = <<"batch", c>> /\ y = <<"chan", k>>
    OBVIOUS
  <2>3. PICK g : g = Moved(f, In(f, x), y)
    OBVIOUS
  <2>4. Placed(g)'
    BY <1>4, <2>1, <2>2, <2>3, PlacedFlushSend
  <2>5. accepted' = accepted /\ StageAt(x) = StageAt(y)
    BY <1>4, <2>2 DEF FlushSend, StageAt
  <2> QED BY <2>3, <2>4, <2>5, SameStage DEF LifeStep
<1> QED BY <1>1, <1>2, <1>3, <1>4 DEF Flush

\* FLUSH throws away what is left.
LEMMA DiscardPlaces ==
  ASSUME WalInv, WalInv', NEW f, Placed(f), NEW c \in Clients, Discard(c) \/ DiscardNone(c)
  PROVE  \E g : Placed(g)' /\ LifeStep
<1>1. CASE Discard(c)
  <2>1. PICK m : m = Taken
    OBVIOUS
  <2>2. PICK x : x = <<"lost", 0>>
    OBVIOUS
  <2>3. PICK g : g = TakenTo(f, m + 1, x)
    OBVIOUS
  <2>4. Placed(g)'
    BY <1>1, <2>1, <2>2, <2>3, PlacedDiscard
  <2>5. m < accepted /\ accepted' = accepted /\ StageAt(x) = "lost"
    BY <1>1, <2>1, <2>2, PopAccepted DEF Discard, StageAt
  <2>6. Lifecycle!Take
    BY <2>1, <2>3, <2>4, <2>5, TakeStage
  <2> QED BY <2>4, <2>6 DEF LifeStep, Lifecycle!Next
<1>2. CASE DiscardNone(c)
  <2>1. UNCHANGED <<queue, accepted, buffer, batch, chan, file, entries, applied, skipped, lost>>
    BY <1>2 DEF DiscardNone, flushVars, drainVars, logVars
  <2> QED BY <2>1, QuietStep
<1> QED BY <1>1, <1>2

\* The WAL thread.
LEMMA WalThreadPlaces ==
  ASSUME WalInv, WalInv', NEW f, Placed(f), WalWrite \/ WalWriteError
  PROVE  \E g : Placed(g)' /\ LifeStep
<1>0. chan # <<>> /\ accepted' = accepted
  BY DEF WalWrite, WalWriteError
<1>1. CASE WalWrite
  <2>1. PICK k : k = Len(file) + 1
    OBVIOUS
  <2>2. PICK x : x = <<"file", k>>
    OBVIOUS
  <2>3. PICK g : g = Shifted(f, x)
    OBVIOUS
  <2>4. Placed(g)'
    BY <1>1, <2>1, <2>2, <2>3, PlacedWalWrite
  <2>5. x[1] # "chan" /\ StageAt(x) = "logged"
    BY <2>2 DEF StageAt
  <2>6. Lifecycle!Write \/ stages' = stages
    BY <1>0, <2>3, <2>4, <2>5, WriteStage
  <2> QED BY <1>0, <2>4, <2>6 DEF LifeStep, Lifecycle!Next
<1>2. CASE WalWriteError
  <2>1. PICK x : x = <<"lost", 0>>
    OBVIOUS
  <2>2. PICK g : g = Shifted(f, x)
    OBVIOUS
  <2>3. Placed(g)'
    BY <1>2, <2>1, <2>2, PlacedWalWriteError
  <2>4. x[1] # "chan" /\ StageAt(x) = "lost"
    BY <2>1 DEF StageAt
  <2>5. Lifecycle!Write \/ stages' = stages
    BY <1>0, <2>2, <2>3, <2>4, WriteStage
  <2> QED BY <1>0, <2>3, <2>5 DEF LifeStep, Lifecycle!Next
<1> QED BY <1>1, <1>2

\* The drain thread.
LEMMA DrainPlaces ==
  ASSUME WalInv, WalInv', NEW f, Placed(f), DrainStep
  PROVE  \E g : Placed(g)' /\ LifeStep
<1>0. UNCHANGED <<buffer, batch, chan, file>>
  BY DEF DrainStep, DrainPop, DrainCollected, DrainSkip, DrainInsert, DrainSave, DrainSaveLast,
         EnqueueRetry, DrainFail, DrainDone, flushVars, logVars
<1>1. CASE DrainPop
  <2>1. PICK m : m = Taken
    OBVIOUS
  <2>2. PICK x : x = <<"entries", 0>>
    OBVIOUS
  <2>3. PICK g : g = TakenTo(f, m + 1, x)
    OBVIOUS
  <2>4. Placed(g)'
    BY <1>1, <2>1, <2>2, <2>3, PlacedDrainPop
  <2>5. m < accepted /\ accepted' = accepted /\ StageAt(x) = "draining"
    BY <1>1, <2>1, <2>2, PopAccepted DEF DrainPop, StageAt
  <2>6. Lifecycle!Take
    BY <2>1, <2>3, <2>4, <2>5, TakeStage
  <2> QED BY <2>4, <2>6 DEF LifeStep, Lifecycle!Next
<1>2. CASE DrainCollected \/ (\E n \in 1..MaxPages : DrainInsert(n)) \/ EnqueueRetry(Drainer) \/ DrainDone
  <2>1. UNCHANGED <<queue, accepted, entries, applied, skipped, lost>>
    BY <1>2 DEF DrainCollected, DrainInsert, EnqueueRetry, DrainDone, drainVars
  <2> QED BY <1>0, <2>1, QuietStep
<1>3. CASE DrainSave
  <2>1. Push(TRUE) /\ UNCHANGED <<entries, applied, skipped, lost>>
    BY <1>3 DEF DrainSave, drainVars
  <2> QED BY <1>0, <2>1, PushStep
<1>4. CASE DrainSkip \/ DrainFail \/ DrainSaveLast
  <2>1. entries # <<>> /\ entries' = Tail(entries)
    BY <1>4 DEF DrainSkip, DrainFail, DrainSaveLast, WalInv, WorkInv
  <2>2. PICK h : h = Head(entries).id
    OBVIOUS
  <2>3. CASE DrainSkip
    <3>1. PICK g : g = Moved(f, {h}, <<"skipped", 0>>)
      OBVIOUS
    <3>2. UNCHANGED <<queue, accepted, applied, lost>> /\ skipped' = skipped \cup {Head(entries)} /\ Taken' = Taken
      BY <2>3 DEF DrainSkip, Taken
    <3>3. Placed(g)'
      BY <1>0, <2>1, <2>2, <3>1, <3>2, PlacedDrain
    <3>4. Lifecycle!Finish
      BY <2>1, <2>2, <3>1, <3>2, <3>3, FinishStage
    <3> QED BY <3>3, <3>4 DEF LifeStep, Lifecycle!Next
  <2>4. CASE DrainFail
    <3>1. PICK g : g = Moved(f, {h}, <<"lost", 0>>)
      OBVIOUS
    <3>2. UNCHANGED <<queue, accepted, applied, skipped>> /\ lost' = lost \cup {Head(entries)} /\ Taken' = Taken
      BY <2>4 DEF DrainFail, Taken
    <3>3. Placed(g)'
      BY <1>0, <2>1, <2>2, <3>1, <3>2, PlacedDrain
    <3>4. Lifecycle!Finish
      BY <2>1, <2>2, <3>1, <3>2, <3>3, FinishStage
    <3> QED BY <3>3, <3>4 DEF LifeStep, Lifecycle!Next
  <2>5. CASE DrainSaveLast
    <3>1. PICK g : g = Moved(f, {h}, <<"applied", 0>>)
      OBVIOUS
    <3>2. /\ UNCHANGED <<skipped, lost>> /\ applied' = Append(applied, Head(entries))
          /\ accepted' = accepted + 1 /\ Taken' = Taken
      BY <2>5, PushQueue DEF DrainSaveLast, Push, WalInv
    <3>3. Placed(g)'
      BY <1>0, <2>1, <2>2, <3>1, <3>2, PlacedDrain
    <3>4. Lifecycle!Apply
      BY <2>1, <2>2, <3>1, <3>2, <3>3, ApplyStage
    <3> QED BY <3>3, <3>4 DEF LifeStep, Lifecycle!Next
  <2> QED BY <1>4, <2>3, <2>4, <2>5
<1> QED BY <1>1, <1>2, <1>3, <1>4 DEF DrainStep

\* Every step.
LEMMA PlaceStep ==
  ASSUME WalInv, WalInv', BatchInv, [Next]_vars, NEW f, Placed(f)
  PROVE  \E g : Placed(g)' /\ LifeStep
<1>1. CASE UNCHANGED vars
  BY <1>1, QuietStep DEF vars
<1>2. ASSUME NEW c \in Clients,
             (\E s \in Statements, n \in 0..MaxRows : Start(c, s, n)) \/ ClientStep(c)
      PROVE  \E g : Placed(g)' /\ LifeStep
  BY <1>2, EnqueuePlaces, FlushPlaces, DiscardPlaces DEF ClientStep
<1>3. CASE WalWrite \/ WalWriteError
  BY <1>3, WalThreadPlaces
<1>4. CASE DrainStep
  BY <1>4, DrainPlaces
<1> QED BY <1>1, <1>2, <1>3, <1>4 DEF Next

-----------------------------------------------------------------------------
(* The map exists in every reachable state.                                *)

\* BatchInv: FlushSwap fills the batch and goes to "send", FlushSend empties it.
LEMMA InitBatch == Init => BatchInv
BY DEF Init, BatchInv

\* Every step keeps it.
LEMMA NextBatch ==
  ASSUME TypeOK, BatchInv, [Next]_vars
  PROVE  BatchInv'
<1> USE ClientsAreTasks
<1>0. pc \in [Tasks -> Labels] /\ batch \in [Clients -> Seq(Entry)]
  BY DEF TypeOK
<1>1. CASE UNCHANGED vars \/ WalWrite \/ WalWriteError
  <2>1. pc' = pc /\ batch' = batch
    BY <1>1 DEF vars, WalWrite, WalWriteError, flushVars
  <2> QED BY <2>1 DEF BatchInv
<1>2. CASE DrainStep
  <2>1. batch' = batch /\ \A d \in Clients : pc'[d] = pc[d]
    BY <1>0, <1>2 DEF DrainStep, DrainPop, DrainCollected, DrainSkip, DrainInsert, DrainSave, DrainSaveLast,
                      EnqueueRetry, DrainFail, DrainDone, Goto, flushVars
  <2> QED BY <2>1 DEF BatchInv
<1>3. ASSUME NEW c \in Clients, (\E s \in Statements, n \in 0..MaxRows : Start(c, s, n)) \/ ClientStep(c)
      PROVE  BatchInv'
  <2>1. CASE FlushSwap(c)
    <3>1. pc'[c] = "send" /\ \A d \in Clients : d # c => pc'[d] = pc[d] /\ batch'[d] = batch[d]
      BY <1>0, <2>1 DEF FlushSwap, Proceed, Goto
    <3> QED BY <3>1 DEF BatchInv
  <2>2. CASE FlushSend(c)
    <3>1. batch'[c] = <<>> /\ \A d \in Clients : d # c => pc'[d] = pc[d] /\ batch'[d] = batch[d]
      BY <1>0, <2>2 DEF FlushSend, Proceed, Goto
    <3> QED BY <3>1 DEF BatchInv
  <2>3. CASE ~FlushSwap(c) /\ ~FlushSend(c)
    <3>1. batch' = batch /\ pc[c] # "send"
      BY <1>3, <2>3 DEF ClientStep, Flush, Start, Enqueue, EnqueueRetry, EnqueueFail, FlushEmpty, FlushBegin,
                        FlushLoad, FlushLock, FlushPop, FlushPopNone, FlushNothing, Discard, DiscardNone,
                        flushVars
    <3>2. \A d \in Clients : d # c => pc'[d] = pc[d]
      BY <1>0, <1>3, <2>3 DEF ClientStep, Flush, Start, Enqueue, EnqueueRetry, EnqueueFail, FlushEmpty, FlushBegin,
                        FlushLoad, FlushLock, FlushPop, FlushPopNone, FlushNothing, Discard, DiscardNone,
                        Proceed, Goto
    <3> QED BY <3>1, <3>2 DEF BatchInv
  <2> QED BY <2>1, <2>2, <2>3
<1> QED BY <1>1, <1>2, <1>3 DEF Next

\* At first nothing was taken.
LEMMA InitPlaced == Init => \E f : Placed(f)
<1> SUFFICES ASSUME Init PROVE \E f : Placed(f)
  OBVIOUS
<1>1. PICK f : f = [n \in {} |-> <<"lost", 0>>]
  OBVIOUS
<1>2. 1..Taken = {} /\ f \in [1..Taken -> Places] /\ DOMAIN f = {}
  <2>1. Taken = 0
    <3>1. Len(queue) = 0 /\ accepted = 0
      BY DEF Init
    <3>2. accepted - Len(queue) = 0
      BY <3>1
    <3> QED BY <3>2 DEF Taken
  <2>2. 1..Taken = {}
    BY <2>1
  <2> QED BY <1>1, <2>2
<1>3. \A x : In(f, x) = {}
  BY <1>2 DEF In
<1>4. Ids(<<>>) = {} /\ IdsOf({}) = {}
  BY DEF Ids, IdsOf
<1>5. /\ queue = <<>> /\ chan = <<>> /\ file = <<>> /\ entries = <<>> /\ applied = <<>>
      /\ skipped = {} /\ lost = {} /\ DOMAIN chan = {} /\ DOMAIN file = {}
      /\ \A b \in BOOLEAN : buffer[b] = <<>>
      /\ \A c \in Clients : batch[c] = <<>>
  BY DEF Init
<1> QED BY <1>2, <1>3, <1>4, <1>5 DEF Placed

\* What the other proofs show, together.
LEMMA WalInvAlways == Spec => []WalInv
<1>1. TypeOK /\ WorkInv /\ QueueInv /\ BufferInv /\ ChunkInv => WalInv
  BY DEF WalInv
<1> QED BY <1>1, TypeCorrect, OrderAlways, PTL

\* Every entry that was taken is at one place, and every step is one of Ingest.
PlaceInv == BatchInv /\ \E f : Placed(f)

\* The same without naming the map.
LEMMA PlaceInvStep == WalInv /\ WalInv' /\ PlaceInv /\ [Next]_vars => PlaceInv' /\ LifeStep
<1> SUFFICES ASSUME WalInv, WalInv', PlaceInv, [Next]_vars PROVE PlaceInv' /\ LifeStep
  OBVIOUS
<1>1. PICK f : Placed(f)
  BY DEF PlaceInv
<1>2. PICK g : Placed(g)' /\ LifeStep
  BY <1>1, PlaceStep DEF PlaceInv
<1>3. BatchInv'
  BY NextBatch DEF WalInv, PlaceInv
<1> QED BY <1>2, <1>3 DEF PlaceInv

\* In every reachable state there is a map.
LEMMA PlaceInvAlways == Spec => []PlaceInv
<1>1. Init => PlaceInv
  BY InitBatch, InitPlaced DEF PlaceInv
<1> QED BY <1>1, PlaceInvStep, WalInvAlways, PTL DEF Spec

(* The pipeline implements Ingest: whatever the flushers, FLUSH and the    *)
(* drain thread do concurrently, entries leave the queue in acceptance     *)
(* order, each one way, and what has settled never moves again (wal.rs     *)
(* flush_pipeline, engine.rs drain loop).                                  *)
THEOREM PipelineImplementsIngest == Spec => ImplementsIngest
<1>1. Init => Lifecycle!Init
  BY InitStages
<1>2. WalInv /\ WalInv' /\ PlaceInv /\ [Next]_vars
        => [Lifecycle!Next]_<<accepted, [n \in 1..accepted |-> Stage(n)]>>
  BY PlaceInvStep DEF LifeStep, stages
<1> QED BY <1>1, <1>2, WalInvAlways, PlaceInvAlways, PTL DEF Spec, ImplementsIngest, Lifecycle!Spec

-----------------------------------------------------------------------------
(* From the map to ExactlyOnce: a place holds each of its entries at one   *)
(* position, because batches and the chunk ascend and the sets of skipped  *)
(* and lost entries hold no two entries of one number.                     *)

Distinct(S) == \A d, e \in S : d.id = e.id => d = e
DistinctInv == Distinct(skipped) /\ Distinct(lost)

\* Entries of other numbers are added.
LEMMA DistinctMore ==
  ASSUME NEW S, NEW T, Distinct(S), Distinct(T), IdsOf(S) \cap IdsOf(T) = {}
  PROVE  Distinct(S \cup T)
BY DEF Distinct, IdsOf

\* The entries of an ascending sequence have distinct numbers.
LEMMA AscendingDistinct ==
  ASSUME NEW s \in Seq(Entry), Ascending(s)
  PROVE  \A i, j \in DOMAIN s : s[i].id = s[j].id => i = j
<1>1. \A i \in DOMAIN s : i \in Nat /\ s[i].id \in Nat
  BY EntryIds
<1> QED BY <1>1 DEF Ascending

\* A step that adds the entries in T, which come from one other place.
LEMMA DistinctStep ==
  ASSUME NEW f, Placed(f), NEW S, NEW x, IdsOf(S) = In(f, x), Distinct(S),
         NEW T, Distinct(T), NEW y, y # x, IdsOf(T) \subseteq In(f, y)
  PROVE  Distinct(S \cup T)
<1>1. IdsOf(S) \cap IdsOf(T) = {}
  BY DEF In
<1> QED BY <1>1, DistinctMore

\* What is skipped or lost had another place before, so its number is new there.
LEMMA NextDistinct ==
  ASSUME WalInv, PlaceInv, DistinctInv, [Next]_vars
  PROVE  DistinctInv'
<1>0. PICK f : Placed(f)
  BY DEF PlaceInv
<1>1. ASSUME NEW e PROVE Distinct({e}) /\ IdsOf({e}) = {e.id}
  BY DEF Distinct, IdsOf
<1>2. PICK x, y : x = <<"skipped", 0>> /\ y = <<"lost", 0>>
  OBVIOUS
<1>3. IdsOf(skipped) = In(f, x) /\ IdsOf(lost) = In(f, y)
  BY <1>0, <1>2 DEF Placed
<1>4. ASSUME NEW c \in Clients, Discard(c) PROVE DistinctInv'
  <2>1. queue # <<>> /\ lost' = lost \cup {Head(queue)} /\ skipped' = skipped
    BY <1>4 DEF Discard, drainVars
  <2>2. Head(queue).id = Taken + 1 /\ Taken \in Nat
    BY <2>1, <1>4, PopQueue, TakenType DEF WalInv, Discard
  <2>3. Head(queue).id \notin IdsOf(lost)
    BY <2>2, <1>0, <1>3 DEF In, Placed
  <2>4. PICK T : T = {Head(queue)}
    OBVIOUS
  <2>5. Distinct(T) /\ IdsOf(lost) \cap IdsOf(T) = {}
    BY <2>3, <2>4, <1>1
  <2>6. Distinct(lost \cup T)
    BY <2>5, DistinctMore DEF DistinctInv
  <2> QED BY <2>1, <2>4, <2>6 DEF DistinctInv
<1>5. CASE WalWriteError
  <2> DEFINE b == Head(chan)
             T == {b[i] : i \in DOMAIN b}
  <2>1. chan # <<>> /\ lost' = lost \cup T /\ skipped' = skipped
    BY <1>5 DEF WalWriteError, drainVars
  <2>2. 1 \in DOMAIN chan /\ b = chan[1] /\ b \in Seq(Entry) /\ Ascending(b)
    BY <2>1 DEF WalInv, TypeOK, BufferInv, BatchInOrder
  <2>3. PICK z : z = <<"chan", 1>>
    OBVIOUS
  <2>4. Ids(b) = In(f, z)
    BY <2>2, <2>3, <1>0 DEF Placed
  <2> HIDE DEF b
  <2>5. IdsOf(T) = Ids(b)
    BY DEF IdsOf, Ids
  <2>6. Distinct(T)
    BY <2>2, AscendingDistinct DEF Distinct
  <2> HIDE DEF T
  <2>7. z # y
    BY <2>3, <1>2
  <2>8. Distinct(lost \cup T)
    BY <2>4, <2>5, <2>6, <2>7, <1>0, <1>3, DistinctStep DEF DistinctInv
  <2> QED BY <2>1, <2>8 DEF DistinctInv
<1>6. CASE DrainSkip \/ DrainFail
  <2>1. entries # <<>>
    BY <1>6 DEF DrainSkip, DrainFail, WalInv, WorkInv
  <2>2. PICK z, e : z = <<"entries", 0>> /\ e = Head(entries)
    OBVIOUS
  <2>3. e.id \in In(f, z)
    BY <2>1, <2>2, <1>0, IdsTail DEF Placed, WalInv, TypeOK, ChunkInv
  <2>4. z # x /\ z # y
    BY <2>2, <1>2
  <2>5. PICK T : T = {e}
    OBVIOUS
  <2>6. Distinct(T) /\ IdsOf(T) \subseteq In(f, z)
    BY <2>3, <2>5, <1>1
  <2>7. Distinct(skipped \cup T) /\ Distinct(lost \cup T)
    BY <2>4, <2>6, <1>0, <1>3, DistinctStep DEF DistinctInv
  <2>8. CASE DrainSkip
    BY <2>2, <2>5, <2>7, <2>8 DEF DistinctInv, DrainSkip
  <2>9. CASE DrainFail
    BY <2>2, <2>5, <2>7, <2>9 DEF DistinctInv, DrainFail
  <2> QED BY <1>6, <2>8, <2>9
<1>7. CASE UNCHANGED <<skipped, lost>>
  BY <1>7 DEF DistinctInv
<1>8. ASSUME NEW c \in Clients, (\E s \in Statements, n \in 0..MaxRows : Start(c, s, n)) \/ ClientStep(c)
      PROVE  Discard(c) \/ UNCHANGED <<skipped, lost>>
  BY <1>8 DEF ClientStep, Flush, Start, Enqueue, EnqueueRetry, EnqueueFail, FlushEmpty, FlushBegin,
              FlushLoad, FlushLock, FlushPop, FlushPopNone, FlushNothing, FlushSwap, FlushSend, DiscardNone,
              drainVars
<1>9. DrainStep => DrainSkip \/ DrainFail \/ UNCHANGED <<skipped, lost>>
  BY DEF DrainStep, DrainPop, DrainCollected, DrainInsert, DrainSave, DrainSaveLast, EnqueueRetry, DrainDone,
         drainVars
<1>10. UNCHANGED vars \/ WalWrite => UNCHANGED <<skipped, lost>>
  BY DEF vars, WalWrite, drainVars
<1> QED BY <1>4, <1>5, <1>6, <1>7, <1>8, <1>9, <1>10 DEF Next

\* No number is skipped or lost twice.
LEMMA DistinctAlways == Spec => []DistinctInv
<1>1. Init => DistinctInv
  BY DEF Init, DistinctInv, Distinct
<1>2. WalInv /\ PlaceInv /\ DistinctInv /\ [Next]_vars => DistinctInv'
  BY NextDistinct
<1> QED BY <1>1, <1>2, WalInvAlways, PlaceInvAlways, PTL DEF Spec

\* The positions of entry n in a sequence or among several sequences.
LEMMA AtOne ==
  ASSUME NEW s \in Seq(Entry), Ascending(s), NEW n, NEW w
  PROVE  /\ n \notin Ids(s) => At(w, s, n) = {}
         /\ n \in Ids(s) => \E x : At(w, s, n) = {x}
<1>1. ASSUME n \notin Ids(s) PROVE At(w, s, n) = {}
  BY <1>1 DEF Ids, At
<1>2. ASSUME n \in Ids(s) PROVE \E x : At(w, s, n) = {x}
  <2>1. PICK i \in DOMAIN s : s[i].id = n
    BY <1>2 DEF Ids
  <2>2. {j \in DOMAIN s : s[j].id = n} = {i}
    BY <2>1, AscendingDistinct
  <2>3. At(w, s, n) = {<<w, i>>}
    BY <2>2 DEF At
  <2> QED BY <2>3
<1> QED BY <1>1, <1>2

\* The positions of entry n among the sequences of one kind.
LEMMA AtAnyOne ==
  ASSUME NEW D, NEW ss, DOMAIN ss = D, \A k \in D : ss[k] \in Seq(Entry) /\ Ascending(ss[k]), NEW n, NEW w
  PROVE  /\ (\A k \in D : n \notin Ids(ss[k])) => AtAny(w, ss, n) = {}
         /\ \A k \in D : n \in Ids(ss[k]) /\ (\A j \in D : j # k => n \notin Ids(ss[j]))
              => \E x : AtAny(w, ss, n) = {x}
<1>1. ASSUME NEW k \in D, n \notin Ids(ss[k]) PROVE At(<<w, k>>, ss[k], n) = {}
  BY <1>1 DEF Ids, At
<1>2. ASSUME \A k \in D : n \notin Ids(ss[k]) PROVE AtAny(w, ss, n) = {}
  BY <1>1, <1>2 DEF AtAny
<1>3. ASSUME NEW k \in D, n \in Ids(ss[k]), \A j \in D : j # k => n \notin Ids(ss[j])
      PROVE  \E x : AtAny(w, ss, n) = {x}
  <2>1. PICK v, s : v = <<w, k>> /\ s = ss[k]
    OBVIOUS
  <2>2. PICK x : At(v, s, n) = {x}
    BY <2>1, <1>3, AtOne
  <2>3. AtAny(w, ss, n) = At(<<w, k>>, ss[k], n)
    BY <1>1, <1>3 DEF AtAny
  <2> QED BY <2>1, <2>2, <2>3
<1> QED BY <1>2, <1>3

\* Where the copies of an entry are, kind by kind.
LEMMA OneCopy ==
  ASSUME WalInv, DistinctInv, NEW f, Placed(f), NEW n \in 1..accepted
  PROVE  \E x : Copies(n) = {x}
<1> DEFINE p == IF n \in DOMAIN f THEN f[n] ELSE <<"queue", 0>>
           Tagged(w, S) == {<<w, e>> : e \in {x \in S : x.id = n}}
           KindOf(D, ss, kind) ==
             /\ DOMAIN ss = D /\ \A k \in D : ss[k] \in Seq(Entry) /\ Ascending(ss[k])
             /\ \A k \in D : n \in Ids(ss[k]) <=> p = <<kind, k>>
             /\ p[1] = kind => \E k \in D : p = <<kind, k>>
<1>1. Taken \in Nat /\ accepted \in Nat /\ Taken <= accepted /\ DOMAIN f = 1..Taken
  BY TakenType DEF Placed
<1>2. p[1] \in {"queue", "buffer", "batch", "chan", "file", "entries", "applied", "skipped", "lost"}
  <2>1. CASE n \in DOMAIN f
    <3>1. f[n] \in Places
      BY <2>1 DEF Placed
    <3> QED BY <2>1, <3>1 DEF Places
  <2>2. CASE n \notin DOMAIN f
    BY <2>2
  <2> QED BY <2>1, <2>2
<1>3. \A z : z # <<"queue", 0>> => (n \in In(f, z) <=> p = z)
  BY DEF In
<1>4. n \in Ids(queue) <=> p[1] = "queue"
  <2>1. n \in Ids(queue) <=> n > Taken
    BY <1>1, QueuedIds
  <2>2. CASE n \in DOMAIN f
    <3>1. f[n] \in Places
      BY <2>2 DEF Placed
    <3>2. f[n][1] # "queue"
      BY <3>1 DEF Places
    <3> QED BY <2>1, <2>2, <3>2, <1>1
  <2>3. CASE n \notin DOMAIN f
    BY <2>1, <2>3, <1>1
  <2> QED BY <2>2, <2>3
<1>5. /\ \A b \in BOOLEAN : n \in Ids(buffer[b]) <=> p = <<"buffer", b>>
      /\ \A c \in Clients : n \in Ids(batch[c]) <=> p = <<"batch", c>>
      /\ \A k \in DOMAIN chan : n \in Ids(chan[k]) <=> p = <<"chan", k>>
      /\ \A k \in DOMAIN file : n \in Ids(file[k]) <=> p = <<"file", k>>
  <2>0. /\ \A b \in BOOLEAN : Ids(buffer[b]) = In(f, <<"buffer", b>>)
        /\ \A c \in Clients : Ids(batch[c]) = In(f, <<"batch", c>>)
        /\ \A k \in DOMAIN chan : Ids(chan[k]) = In(f, <<"chan", k>>)
        /\ \A k \in DOMAIN file : Ids(file[k]) = In(f, <<"file", k>>)
    BY DEF Placed
  <2> HIDE DEF p
  <2>1. \A b \in BOOLEAN : n \in Ids(buffer[b]) <=> p = <<"buffer", b>>
    BY <2>0, <1>3
  <2>2. \A c \in Clients : n \in Ids(batch[c]) <=> p = <<"batch", c>>
    BY <2>0, <1>3
  <2>3. \A k \in DOMAIN chan : n \in Ids(chan[k]) <=> p = <<"chan", k>>
    BY <2>0, <1>3
  <2>4. \A k \in DOMAIN file : n \in Ids(file[k]) <=> p = <<"file", k>>
    BY <2>0, <1>3
  <2> QED BY <2>1, <2>2, <2>3, <2>4
<1>6. /\ n \in Ids(entries) <=> p = <<"entries", 0>>
      /\ n \in Ids(applied) <=> p = <<"applied", 0>>
      /\ n \in IdsOf(skipped) <=> p = <<"skipped", 0>>
      /\ n \in IdsOf(lost) <=> p = <<"lost", 0>>
  BY <1>3 DEF Placed
<1>7. /\ p[1] = "buffer" => \E b \in BOOLEAN : p = <<"buffer", b>>
      /\ p[1] = "batch" => \E c \in Clients : p = <<"batch", c>>
      /\ p[1] = "chan" => \E k \in DOMAIN chan : p = <<"chan", k>>
      /\ p[1] = "file" => \E k \in DOMAIN file : p = <<"file", k>>
      /\ \A kind \in {"entries", "applied", "skipped", "lost"} : p[1] = kind => p = <<kind, 0>>
  <2>1. CASE n \in DOMAIN f
    <3>1. f[n] \in Places
      BY <2>1 DEF Placed
    <3> QED BY <2>1, <3>1 DEF Places
  <2>2. CASE n \notin DOMAIN f
    BY <2>2
  <2> QED BY <2>1, <2>2
<1> HIDE DEF p
<1>8. ASSUME NEW S, NEW w, Distinct(S)
      PROVE  /\ n \notin IdsOf(S) => Tagged(w, S) = {}
             /\ n \in IdsOf(S) => \E y : Tagged(w, S) = {y}
  <2>1. ASSUME n \in IdsOf(S) PROVE \E d : {x \in S : x.id = n} = {d}
    BY <1>8, <2>1 DEF IdsOf, Distinct
  <2>2. ASSUME NEW d, {x \in S : x.id = n} = {d} PROVE Tagged(w, S) = {<<w, d>>}
    BY <2>2
  <2>3. n \notin IdsOf(S) => {x \in S : x.id = n} = {}
    BY DEF IdsOf
  <2> QED BY <2>1, <2>2, <2>3
<1>9. /\ queue \in Seq(Entry) /\ Ascending(queue)
      /\ entries \in Seq(Entry) /\ Ascending(entries) /\ applied \in Seq(Entry) /\ Ascending(applied)
  <2>1. queue \in Seq(Entry) /\ \A i \in DOMAIN queue : i \in Nat /\ queue[i].id = Taken + i
    BY DEF WalInv, TypeOK, QueueInv
  <2>2. Ascending(queue)
    BY <2>1, <1>1 DEF Ascending
  <2> QED BY <2>1, <2>2 DEF WalInv, TypeOK, ChunkInv
<1>10. /\ DOMAIN buffer = BOOLEAN /\ \A b \in BOOLEAN : buffer[b] \in Seq(Entry) /\ Ascending(buffer[b])
       /\ DOMAIN batch = Clients /\ \A c \in Clients : batch[c] \in Seq(Entry) /\ Ascending(batch[c])
       /\ \A k \in DOMAIN chan : chan[k] \in Seq(Entry) /\ Ascending(chan[k])
       /\ \A k \in DOMAIN file : file[k] \in Seq(Entry) /\ Ascending(file[k])
  BY DEF WalInv, TypeOK, BufferInv, BatchInOrder
<1>11. ASSUME NEW s \in Seq(Entry), Ascending(s), NEW w, NEW kind, n \in Ids(s) <=> p[1] = kind
       PROVE  (p[1] # kind => At(w, s, n) = {}) /\ (p[1] = kind => \E x : At(w, s, n) = {x})
  BY <1>11, AtOne
<1>12. ASSUME NEW D, NEW ss, NEW kind, KindOf(D, ss, kind)
       PROVE  /\ p[1] # kind => AtAny(kind, ss, n) = {}
              /\ p[1] = kind => \E x : AtAny(kind, ss, n) = {x}
  <2>0. /\ (\A k \in D : n \notin Ids(ss[k])) => AtAny(kind, ss, n) = {}
        /\ \A k \in D : n \in Ids(ss[k]) /\ (\A j \in D : j # k => n \notin Ids(ss[j]))
             => \E x : AtAny(kind, ss, n) = {x}
    BY <1>12, AtAnyOne
  <2>1. ASSUME p[1] # kind PROVE AtAny(kind, ss, n) = {}
    <3>1. \A k \in D : n \notin Ids(ss[k])
      BY <1>12, <2>1
    <3> QED BY <3>1, <2>0
  <2>2. ASSUME p[1] = kind PROVE \E x : AtAny(kind, ss, n) = {x}
    <3>1. PICK k \in D : p = <<kind, k>>
      BY <1>12, <2>2
    <3>2. n \in Ids(ss[k]) /\ \A j \in D : j # k => n \notin Ids(ss[j])
      BY <3>1, <1>12
    <3> QED BY <3>2, <2>0
  <2> QED BY <2>1, <2>2
<1> HIDE DEF Tagged, KindOf
<1>13. /\ p[1] # "queue" => At(<<"queue">>, queue, n) = {}
       /\ p[1] = "queue" => \E x : At(<<"queue">>, queue, n) = {x}
  BY <1>4, <1>9, <1>11
<1>14. /\ p[1] # "entries" => At(<<"entries">>, entries, n) = {}
       /\ p[1] = "entries" => \E x : At(<<"entries">>, entries, n) = {x}
  <2>1. n \in Ids(entries) <=> p[1] = "entries"
    BY <1>6, <1>7
  <2> QED BY <2>1, <1>9, <1>11
<1>15. /\ p[1] # "applied" => At(<<"applied">>, applied, n) = {}
       /\ p[1] = "applied" => \E x : At(<<"applied">>, applied, n) = {x}
  <2>1. n \in Ids(applied) <=> p[1] = "applied"
    BY <1>6, <1>7
  <2> QED BY <2>1, <1>9, <1>11
<1>16. /\ p[1] # "skipped" => Tagged(<<"skipped">>, skipped) = {}
       /\ p[1] = "skipped" => \E y : Tagged(<<"skipped">>, skipped) = {y}
  <2>1. n \in IdsOf(skipped) <=> p[1] = "skipped"
    BY <1>6, <1>7
  <2>2. PICK w : w = <<"skipped">>
    OBVIOUS
  <2>3. Distinct(skipped)
    BY DEF DistinctInv
  <2> QED BY <2>1, <2>2, <2>3, <1>8
<1>17. /\ p[1] # "lost" => Tagged(<<"lost">>, lost) = {}
       /\ p[1] = "lost" => \E y : Tagged(<<"lost">>, lost) = {y}
  <2>1. n \in IdsOf(lost) <=> p[1] = "lost"
    BY <1>6, <1>7
  <2>2. PICK w : w = <<"lost">>
    OBVIOUS
  <2>3. Distinct(lost)
    BY DEF DistinctInv
  <2> QED BY <2>1, <2>2, <2>3, <1>8
<1>18. /\ p[1] # "buffer" => AtAny("buffer", buffer, n) = {}
       /\ p[1] = "buffer" => \E x : AtAny("buffer", buffer, n) = {x}
  <2>1. KindOf(BOOLEAN, buffer, "buffer")
    BY <1>5, <1>7, <1>10 DEF KindOf
  <2> QED BY <2>1, <1>12
<1>19. /\ p[1] # "batch" => AtAny("batch", batch, n) = {}
       /\ p[1] = "batch" => \E x : AtAny("batch", batch, n) = {x}
  <2>1. KindOf(Clients, batch, "batch")
    BY <1>5, <1>7, <1>10 DEF KindOf
  <2> QED BY <2>1, <1>12
<1>20. /\ p[1] # "chan" => AtAny("chan", chan, n) = {}
       /\ p[1] = "chan" => \E x : AtAny("chan", chan, n) = {x}
  <2>1. KindOf(DOMAIN chan, chan, "chan")
    BY <1>5, <1>7, <1>10 DEF KindOf
  <2> QED BY <2>1, <1>12
<1>21. /\ p[1] # "file" => AtAny("file", file, n) = {}
       /\ p[1] = "file" => \E x : AtAny("file", file, n) = {x}
  <2>1. KindOf(DOMAIN file, file, "file")
    BY <1>5, <1>7, <1>10 DEF KindOf
  <2> QED BY <2>1, <1>12
<1> QED BY <1>2, <1>13, <1>14, <1>15, <1>16, <1>17, <1>18, <1>19, <1>20, <1>21 DEF Copies, Tagged

(* Every accepted entry is at exactly one place, however the flushers, the *)
(* FLUSH statement and the drain thread interleave and whichever writes    *)
(* and inserts fail (wal.rs flush_pipeline, engine.rs drain loop).         *)
THEOREM ExactlyOnceAlways == Spec => []ExactlyOnce
<1>1. WalInv /\ PlaceInv /\ DistinctInv => ExactlyOnce
  <2> SUFFICES ASSUME WalInv, PlaceInv, DistinctInv, NEW n \in 1..accepted PROVE Cardinality(Copies(n)) = 1
    BY DEF ExactlyOnce
  <2>1. PICK f : Placed(f)
    BY DEF PlaceInv
  <2>2. PICK x : Copies(n) = {x}
    BY <2>1, OneCopy
  <2> QED BY <2>2, FS_Singleton
<1> QED BY <1>1, WalInvAlways, PlaceInvAlways, DistinctAlways, PTL
=============================================================================
