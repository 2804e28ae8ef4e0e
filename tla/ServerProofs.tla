---------------------------- MODULE ServerProofs ----------------------------
(***************************************************************************)
(* Proofs about the sessions of Server, for any number of connections and  *)
(* requests: types, that a COMMIT takes no other session's updates, that   *)
(* undos which do not meet do not wrap the version counter, and what the   *)
(* memory tier promises.                                                   *)
(*                                                                         *)
(* The first part is what the steps of the memory tier preserve, for any   *)
(* number of processes, any keys, limits and fraction: its types, that a   *)
(* stamp without a cached key has a process on its way to put the key or   *)
(* to drop the stamp, and, as long as no two operations overlap, that the  *)
(* two maps agree and the cache keeps its size.                            *)
(***************************************************************************)
EXTENDS Server, SequenceTheorems, FiniteSetTheorems, TLAPS

\* Process p is in insert.
Inserting(p) == mpc[p] \in {"evict", "cache", "lru", "stamp", "put"}

\* The key of an insert is a key until it is cached.
KeyInv == \A p \in Procs : Inserting(p) => mkey[p] \in Keys

MemoryTypeInv == MemoryTypeOK /\ overlapped \in BOOLEAN /\ KeyInv

\* Process p is about to cache k or to drop its stamp.
Settles(p, k) == \/ mpc[p] = "put" /\ mkey[p] = k
                 \/ mpc[p] = "lru" /\ Head(items[p]) = k
                 \/ mpc[p] = "clear"

\* A stamp without a cached key does not stay.
StampInv == \A k \in Range(lru) : k \in cache \/ \E p \in Procs : Settles(p, k)

\* Without overlaps one process at a time is inside, and a cached key has a stamp.
AloneInv ==
  ~overlapped =>
    /\ \A p, q \in Procs : ~Out(p) /\ ~Out(q) => p = q
    /\ cache \subseteq Range(lru)
    /\ \A p \in Procs : /\ mpc[p] = "lru" => Head(items[p]) \notin cache
                        /\ mpc[p] = "clear" => cache = {}
                        /\ mpc[p] = "put" => mkey[p] \in Range(lru)

\* Without overlaps an insert in progress has room for its key or is about to make it.
Roomy(p) ==
  \/ Fits(Cardinality(cache) + 1)
  \/ mpc[p] = "evict" /\ count[p] > 0 /\ cache # {}
  \/ mpc[p] = "cache" /\ items[p] # <<>> /\ Head(items[p]) \in cache

SizeInv ==
  /\ IsFiniteSet(cache)
  /\ ~overlapped => Fits(Cardinality(cache)) /\ \A p \in Procs : Inserting(p) => Roomy(p)

MemoryInv == MemoryTypeInv /\ StampInv /\ AloneInv /\ SizeInv

-----------------------------------------------------------------------------
(* The stamps as a sequence without duplicates.                            *)

\* lru.remove: the keys that stay are all but the one removed, each once.
LEMMA RemoveFirstFacts ==
  ASSUME NEW S, NEW s \in Seq(S), IsInjective(s), NEW e
  PROVE  /\ RemoveFirst(s, e) \in Seq(S)
         /\ IsInjective(RemoveFirst(s, e))
         /\ Range(RemoveFirst(s, e)) = Range(s) \ {e}
<1>1. CASE ~ \E i \in 1..Len(s) : s[i] = e
  BY <1>1 DEF RemoveFirst, Range
<1>2. CASE \E i \in 1..Len(s) : s[i] = e
  <2>1. PICK i \in 1..Len(s) : s[i] = e
    BY <1>2
  <2>2. {j \in 1..Len(s) : s[j] = e} = {i}
    BY <2>1 DEF IsInjective
  <2>3. SelectInSeq(s, LAMBDA v : v = e) = i
    BY <2>2 DEF SelectInSeq, Min
  <2>4. RemoveFirst(s, e) = RemoveAt(s, i)
    BY <1>2, <2>3 DEF RemoveFirst
  <2> DEFINE t == [j \in 1..Len(s) - 1 |-> IF j < i THEN s[j] ELSE s[j + 1]]
  <2>5. RemoveAt(s, i) = t
    <3> DEFINE a == SubSeq(s, 1, i - 1)
               b == SubSeq(s, i + 1, Len(s))
    <3>1. a \in Seq(S) /\ Len(a) = i - 1 /\ \A j \in 1..i - 1 : a[j] = s[j]
      BY <2>1, SubSeqProperties
    <3>2. b \in Seq(S) /\ Len(b) = Len(s) - i /\ \A j \in 1..Len(s) - i : b[j] = s[i + j]
      BY <2>1
    <3> HIDE DEF a, b
    <3>3. a \o b \in Seq(S) /\ Len(a \o b) = Len(s) - 1
      BY <3>1, <3>2, <2>1
    <3>4. ASSUME NEW j \in 1..Len(s) - 1 PROVE (a \o b)[j] = t[j]
      BY <3>1, <3>2, <2>1
    <3>5. t \in Seq(S) /\ Len(t) = Len(s) - 1
      BY <2>1
    <3>6. a \o b = t
      <4> HIDE DEF t
      <4> QED BY <3>3, <3>4, <3>5, SeqEqual
    <3> QED BY <3>6 DEF RemoveAt, a, b
  <2>6. t \in Seq(S) /\ DOMAIN t = 1..Len(s) - 1 /\ DOMAIN s = 1..Len(s)
    BY <2>1
  <2>7. IsInjective(t)
    BY <2>1, <2>6 DEF IsInjective
  <2>8. Range(t) \subseteq Range(s) \ {e}
    BY <2>1, <2>6 DEF IsInjective, Range
  <2>9. Range(s) \ {e} \subseteq Range(t)
    <3> SUFFICES ASSUME NEW k \in Range(s), k # e PROVE k \in Range(t)
      OBVIOUS
    <3>1. PICK j \in 1..Len(s) : s[j] = k
      BY DEF Range
    <3>2. CASE j < i
      <4>1. j \in DOMAIN t /\ t[j] = k
        BY <3>1, <3>2, <2>1, <2>6
      <4> QED BY <4>1 DEF Range
    <3>3. CASE j > i
      <4>1. j - 1 \in DOMAIN t /\ t[j - 1] = k
        BY <3>1, <3>3, <2>1, <2>6
      <4> QED BY <4>1 DEF Range
    <3> QED BY <3>1, <3>2, <3>3, <2>1
  <2> QED BY <2>4, <2>5, <2>6, <2>7, <2>8, <2>9
<1> QED BY <1>1, <1>2

\* lru.insert of a key without a stamp.
LEMMA AppendFacts ==
  ASSUME NEW S, NEW s \in Seq(S), IsInjective(s), NEW e \in S, e \notin Range(s)
  PROVE  /\ Append(s, e) \in Seq(S)
         /\ IsInjective(Append(s, e))
         /\ Range(Append(s, e)) = Range(s) \cup {e}
<1> DEFINE t == Append(s, e)
<1>1. /\ t \in Seq(S) /\ DOMAIN s = 1..Len(s) /\ DOMAIN t = 1..Len(s) + 1
      /\ t[Len(s) + 1] = e /\ \A i \in 1..Len(s) : t[i] = s[i]
  OBVIOUS
<1> HIDE DEF t
<1>2. IsInjective(t)
  BY <1>1 DEF IsInjective, Range
<1>3. Range(t) \subseteq Range(s) \cup {e}
  BY <1>1 DEF Range
<1>4. Range(s) \cup {e} \subseteq Range(t)
  <2>1. e \in Range(t)
    <3>1. Len(s) + 1 \in DOMAIN t
      BY <1>1
    <3> QED BY <1>1, <3>1 DEF Range
  <2>2. Range(s) \subseteq Range(t)
    <3>1. \A i \in 1..Len(s) : i \in DOMAIN t
      BY <1>1
    <3> QED BY <1>1, <3>1 DEF Range
  <2> QED BY <2>1, <2>2
<1> QED BY <1>1, <1>2, <1>3, <1>4 DEF t

-----------------------------------------------------------------------------
(* The limit in entries and what fits under it.                            *)

\* A limit wraps to some number of entries.
LEMMA MaxEntriesType == \A l \in Limits : MaxEntries(l) \in Nat
<1> SUFFICES ASSUME NEW l \in Limits PROVE MaxEntries(l) \in Nat
  OBVIOUS
<1>1. l * PerMb \in Nat
  BY MemoryAssumption
<1> QED BY <1>1, MemoryAssumption DEF MaxEntries

\* A smaller cache fits too.
LEMMA FitsLess ==
  ASSUME NEW m \in Nat, NEW n \in Nat, m <= n, Fits(n)
  PROVE  Fits(m)
BY MaxEntriesType, MemoryAssumption DEF Fits

\* From Fraction entries on, evict_lru takes at least one.
LEMMA ShareNotZero ==
  ASSUME NEW n \in Nat
  PROVE  n \div Fraction \in Nat /\ (n >= Fraction => n \div Fraction > 0)
BY MemoryAssumption

-----------------------------------------------------------------------------
(* One lemma per step of the memory tier.                                  *)

\* A stamp of a key that is not cached, while one process p is inside, is p's business.
LEMMA AloneStamps ==
  ASSUME MemoryInv, NEW p \in Procs, ~overlapped, ~Out(p),
         mpc[p] \in {"evict", "cache", "stamp"}
  PROVE  Range(lru) = cache
BY DEF MemoryInv, StampInv, AloneInv, Settles, Out

\* insert: the size of the cache decides whether evict_lru runs.
LEMMA InsertBeginStep ==
  ASSUME MemoryInv, NEW p \in Procs, NEW k \in Keys, InsertBegin(p, k)
  PROVE  MemoryInv'
<1> USE DEF MemoryInv
<1> DEFINE entries == Cardinality(cache)
<1>0. entries \in Nat
  BY FS_CardinalityType DEF SizeInv
<1> HIDE DEF entries
<1>1. MemoryTypeInv'
  BY <1>0, ShareNotZero DEF InsertBegin, MemoryTypeInv, MemoryTypeOK, KeyInv, Inserting, Meet, At, Out, entries
<1>2. StampInv'
  BY DEF InsertBegin, MemoryTypeInv, MemoryTypeOK, StampInv, Settles, At, Out
<1>3. AloneInv'
  BY ZenonT(40) DEF InsertBegin, MemoryTypeInv, MemoryTypeOK, AloneInv, At, Out, Meet
<1>4. SizeInv'
  <2>1. IsFiniteSet(cache')
    BY DEF InsertBegin, SizeInv
  <2> SUFFICES ASSUME ~overlapped' PROVE (Fits(Cardinality(cache)) /\ \A q \in Procs : Inserting(q) => Roomy(q))'
    BY <2>1 DEF SizeInv
  <2>2. ~overlapped /\ cache' = cache /\ \A q \in Procs \ {p} : mpc'[q] = "out"
    BY DEF InsertBegin, MemoryTypeInv, MemoryTypeOK, At, Out, Meet
  <2>3. Fits(entries)
    BY <2>2 DEF SizeInv, entries
  <2>4. CASE entries > MaxEntries(max_ram_mb) /\ entries # 0
    <3>1. mpc'[p] = "evict" /\ count'[p] = entries \div Fraction
      BY <2>4 DEF InsertBegin, MemoryTypeInv, MemoryTypeOK, At, entries
    <3>2. cache # {}
      BY <2>4, FS_EmptySet DEF entries
    <3>3. entries < Fraction => Fits(entries + 1)
      BY <1>0, MemoryAssumption DEF Fits
    <3>4. Fits(entries + 1) \/ count'[p] > 0
      BY <1>0, <3>1, <3>3, ShareNotZero, MemoryAssumption
    <3> QED BY <2>2, <2>3, <3>1, <3>2, <3>4 DEF Roomy, Inserting, Fits, entries
  <2>5. CASE ~(entries > MaxEntries(max_ram_mb) /\ entries # 0)
    <3>1. max_ram_mb \in Limits /\ MaxEntries(max_ram_mb) \in Nat
      BY MaxEntriesType DEF MemoryTypeInv, MemoryTypeOK
    <3>2. Fits(entries + 1)
      BY <2>5, <3>1, <1>0 DEF Fits
    <3> QED BY <2>2, <2>3, <3>2 DEF Roomy, Inserting, Fits, entries
  <2> QED BY <2>4, <2>5
<1> QED BY <1>1, <1>2, <1>3, <1>4

\* evict_lru: the keys to evict are chosen.
LEMMA EvictOldestStep ==
  ASSUME MemoryInv, NEW p \in Procs, EvictOldest(p)
  PROVE  MemoryInv'
<1> USE DEF MemoryInv
<1> DEFINE n == IF count[p] < Len(lru) THEN count[p] ELSE Len(lru)
<1>0. /\ lru \in Seq(Keys) /\ count[p] \in Nat /\ n \in 0..Len(lru)
      /\ SubSeq(lru, 1, n) \in Seq(Keys) /\ items' = [items EXCEPT ![p] = SubSeq(lru, 1, n)]
  BY DEF MemoryTypeInv, MemoryTypeOK, EvictOldest
<1>1. MemoryTypeInv'
  <2> HIDE DEF n
  <2> QED BY <1>0 DEF EvictOldest, MemoryTypeInv, MemoryTypeOK, KeyInv, Inserting, At
<1>2. StampInv'
  BY DEF EvictOldest, MemoryTypeInv, MemoryTypeOK, StampInv, Settles, At
<1>3. AloneInv'
  BY DEF EvictOldest, MemoryTypeInv, MemoryTypeOK, AloneInv, At, Out
<1>4. SizeInv'
  <2>1. IsFiniteSet(cache')
    BY DEF EvictOldest, SizeInv
  <2> SUFFICES ASSUME ~overlapped' PROVE (Fits(Cardinality(cache)) /\ \A q \in Procs : Inserting(q) => Roomy(q))'
    BY <2>1 DEF SizeInv
  <2>2. ~overlapped /\ cache' = cache /\ Inserting(p) /\ \A q \in Procs \ {p} : mpc'[q] = "out"
    BY DEF EvictOldest, MemoryTypeInv, MemoryTypeOK, AloneInv, At, Out, Inserting
  <2>3. Fits(Cardinality(cache)) /\ (Fits(Cardinality(cache) + 1) \/ (count[p] > 0 /\ cache # {}))
    BY <2>2 DEF SizeInv, Roomy, EvictOldest
  <2>4. CASE Fits(Cardinality(cache) + 1)
    BY <2>2, <2>3, <2>4 DEF Roomy, Inserting, Fits
  <2>5. CASE count[p] > 0 /\ cache # {}
    <3>1. Range(lru) = cache
      BY <2>2, AloneStamps DEF EvictOldest, Out
    <3>2. Len(lru) > 0
      BY <3>1, <2>5, <1>0 DEF Range
    <3>3. n > 0
      BY <3>2, <2>5, <1>0
    <3>4. SubSeq(lru, 1, n) # <<>> /\ Head(SubSeq(lru, 1, n)) = lru[1]
      <4> HIDE DEF n
      <4>1. Len(SubSeq(lru, 1, n)) = n /\ SubSeq(lru, 1, n)[1] = lru[1]
        BY <3>3, <1>0, SubSeqProperties
      <4> QED BY <4>1, <3>3, <1>0, HeadTailProperties
    <3>5. lru[1] \in cache
      BY <3>1, <3>2, <1>0 DEF Range
    <3>6. mpc'[p] = "cache" /\ items'[p] # <<>> /\ Head(items'[p]) \in cache'
      <4> HIDE DEF n
      <4> QED BY <3>4, <3>5, <2>2, <1>0 DEF EvictOldest, At, MemoryTypeInv, MemoryTypeOK
    <3> QED BY <2>2, <2>3, <3>6 DEF Roomy, Inserting, Fits
  <2> QED BY <2>3, <2>4, <2>5
<1> QED BY <1>1, <1>2, <1>3, <1>4

\* evict_lru: the next key leaves the cache.
LEMMA EvictCacheStep ==
  ASSUME MemoryInv, NEW p \in Procs, EvictCache(p)
  PROVE  MemoryInv'
<1> USE DEF MemoryInv
<1>1. MemoryTypeInv'
  BY DEF EvictCache, MemoryTypeInv, MemoryTypeOK, KeyInv, Inserting, At
<1>2. StampInv'
  BY ZenonT(40) DEF EvictCache, MemoryTypeInv, MemoryTypeOK, StampInv, Settles, At
<1>3. AloneInv'
  BY ZenonT(40) DEF EvictCache, MemoryTypeInv, MemoryTypeOK, AloneInv, At, Out
<1>4. SizeInv'
  <2>0. IsFiniteSet(cache) /\ Cardinality(cache) \in Nat
    BY FS_CardinalityType DEF SizeInv
  <2>1. CASE items[p] = <<>>
    <3>1. cache' = cache /\ mpc' = [mpc EXCEPT ![p] = "stamp"]
      BY <2>1 DEF EvictCache, At
    <3>2. ~overlapped' => ~overlapped /\ \A q \in Procs \ {p} : mpc'[q] = "out"
      BY DEF EvictCache, MemoryTypeInv, MemoryTypeOK, AloneInv, At, Out
    <3>3. ~overlapped => Fits(Cardinality(cache) + 1)
      BY <2>1 DEF SizeInv, Roomy, Inserting, EvictCache
    <3> QED BY <2>0, <3>1, <3>2, <3>3 DEF SizeInv, Roomy, Inserting, Fits
  <2>2. CASE items[p] # <<>>
    <3> DEFINE k == Head(items[p])
    <3>1. cache' = cache \ {k} /\ mpc' = [mpc EXCEPT ![p] = "lru"]
      BY <2>2 DEF EvictCache, At
    <3>2. ~overlapped' => ~overlapped /\ \A q \in Procs \ {p} : mpc'[q] = "out"
      BY <3>1 DEF EvictCache, MemoryTypeInv, MemoryTypeOK, AloneInv, At, Out
    <3>3. /\ IsFiniteSet(cache') /\ Cardinality(cache') \in Nat
          /\ Cardinality(cache') = IF k \in cache THEN Cardinality(cache) - 1 ELSE Cardinality(cache)
      BY <2>0, <3>1, FS_RemoveElement, FS_CardinalityType
    <3>4. ~overlapped => /\ Fits(Cardinality(cache))
                         /\ k \in cache \/ Fits(Cardinality(cache) + 1)
      BY <2>2 DEF SizeInv, Roomy, Inserting, EvictCache
    <3> HIDE DEF k
    <3>5. ~overlapped => Fits(Cardinality(cache')) /\ Fits(Cardinality(cache') + 1)
      <4>1. CASE k \in cache
        BY <4>1, <2>0, <3>3, <3>4, FitsLess
      <4>2. CASE k \notin cache
        BY <4>2, <2>0, <3>3, <3>4
      <4> QED BY <4>1, <4>2
    <3> QED BY <3>2, <3>3, <3>5 DEF SizeInv, Roomy, Inserting, Fits
  <2> QED BY <2>1, <2>2
<1> QED BY <1>1, <1>2, <1>3, <1>4

\* Steps that leave the cache and what is inside alone.
LEMMA SameSize ==
  ASSUME MemoryInv, NEW p \in Procs, ~Out(p), cache' = cache, overlapped' = overlapped,
         MemoryTypeInv', \A q \in Procs \ {p} : mpc'[q] = mpc[q],
         ~overlapped => (Inserting(p)' => Fits(Cardinality(cache) + 1))
  PROVE  SizeInv'
<1>1. ~overlapped => \A q \in Procs \ {p} : mpc'[q] = "out"
  BY DEF MemoryInv, AloneInv, Out
<1> QED BY <1>1 DEF MemoryInv, SizeInv, Roomy, Inserting, Fits

\* evict_lru: its stamp goes too.
LEMMA EvictStampStep ==
  ASSUME MemoryInv, NEW p \in Procs, EvictStamp(p)
  PROVE  MemoryInv'
<1> USE DEF MemoryInv
<1> DEFINE k == Head(items[p])
           s == RemoveFirst(lru, k)
<1>0. s \in Seq(Keys) /\ IsInjective(s) /\ Range(s) = Range(lru) \ {k}
  BY RemoveFirstFacts DEF MemoryTypeInv, MemoryTypeOK
<1>a. /\ lru' = s /\ items' = [items EXCEPT ![p] = Tail(@)] /\ Tail(items[p]) \in Seq(Keys)
      /\ mpc' = [mpc EXCEPT ![p] = "cache"] /\ mpc[p] = "lru"
      /\ UNCHANGED <<cache, max_ram_mb, mkey, count, overlapped>>
  BY DEF MemoryTypeInv, MemoryTypeOK, EvictStamp, At
<1> HIDE DEF s
<1>1. MemoryTypeInv'
  BY <1>0, <1>a DEF MemoryTypeInv, MemoryTypeOK, KeyInv, Inserting
<1>2. StampInv'
  BY <1>0, <1>a DEF MemoryTypeInv, MemoryTypeOK, StampInv, Settles
<1>3. AloneInv'
  <2> SUFFICES ASSUME ~overlapped PROVE AloneInv'
    BY <1>a DEF AloneInv
  <2>1. k \notin cache /\ \A q \in Procs \ {p} : mpc[q] = "out"
    BY <1>a DEF AloneInv, Out
  <2>2. cache' \subseteq Range(lru')
    BY <2>1, <1>0, <1>a DEF AloneInv
  <2>3. mpc'[p] = "cache" /\ \A q \in Procs \ {p} : mpc'[q] = "out"
    BY <2>1, <1>a DEF MemoryTypeInv, MemoryTypeOK
  <2> QED BY <2>2, <2>3 DEF AloneInv, Out
<1>4. SizeInv'
  <2>1. ~overlapped => Fits(Cardinality(cache) + 1)
    BY <1>a DEF SizeInv, Roomy, Inserting
  <2> QED BY <2>1, <1>1, <1>a, SameSize DEF MemoryTypeInv, MemoryTypeOK, Out
<1> QED BY <1>1, <1>2, <1>3, <1>4

\* insert: the stamp.
LEMMA StampStep ==
  ASSUME MemoryInv, NEW p \in Procs, Stamp(p)
  PROVE  MemoryInv'
<1> USE DEF MemoryInv
<1> DEFINE k == mkey[p]
           s == Append(RemoveFirst(lru, k), k)
<1>0. s \in Seq(Keys) /\ IsInjective(s) /\ Range(s) = Range(lru) \cup {k} /\ k \in Keys
  <2>1. k \in Keys
    BY DEF MemoryTypeInv, KeyInv, Inserting, Stamp
  <2>2. /\ RemoveFirst(lru, k) \in Seq(Keys) /\ IsInjective(RemoveFirst(lru, k))
        /\ Range(RemoveFirst(lru, k)) = Range(lru) \ {k}
    BY RemoveFirstFacts DEF MemoryTypeInv, MemoryTypeOK
  <2> QED BY <2>1, <2>2, AppendFacts
<1>a. /\ lru' = s /\ mpc' = [mpc EXCEPT ![p] = "put"] /\ mpc[p] = "stamp"
      /\ UNCHANGED <<cache, max_ram_mb, mkey, count, items, overlapped>>
  BY DEF Stamp, At
<1> HIDE DEF s
<1>1. MemoryTypeInv'
  BY <1>0, <1>a DEF MemoryTypeInv, MemoryTypeOK, KeyInv, Inserting
<1>2. StampInv'
  BY <1>0, <1>a DEF MemoryTypeInv, MemoryTypeOK, StampInv, Settles
<1>3. AloneInv'
  BY <1>0, <1>a DEF MemoryTypeInv, MemoryTypeOK, AloneInv, Out
<1>4. SizeInv'
  <2>1. ~overlapped => Fits(Cardinality(cache) + 1)
    BY <1>a DEF SizeInv, Roomy, Inserting
  <2> QED BY <2>1, <1>1, <1>a, SameSize DEF MemoryTypeInv, MemoryTypeOK, Out
<1> QED BY <1>1, <1>2, <1>3, <1>4

\* insert: the key and its value.
LEMMA PutStep ==
  ASSUME MemoryInv, NEW p \in Procs, Put(p)
  PROVE  MemoryInv'
<1> USE DEF MemoryInv
<1>a. /\ cache' = cache \cup {mkey[p]} /\ mkey' = [mkey EXCEPT ![p] = 0] /\ mkey[p] \in Keys
      /\ mpc' = [mpc EXCEPT ![p] = "out"] /\ mpc[p] = "put"
      /\ UNCHANGED <<lru, max_ram_mb, count, items, overlapped>>
  BY DEF Put, At, MemoryTypeInv, KeyInv, Inserting
<1>1. MemoryTypeInv'
  BY <1>a DEF MemoryTypeInv, MemoryTypeOK, KeyInv, Inserting
<1>2. StampInv'
  BY <1>a DEF MemoryTypeInv, MemoryTypeOK, StampInv, Settles
<1>3. AloneInv'
  BY <1>a DEF MemoryTypeInv, MemoryTypeOK, AloneInv, Out
<1>4. SizeInv'
  <2>1. IsFiniteSet(cache) /\ Cardinality(cache) \in Nat
    BY FS_CardinalityType DEF SizeInv
  <2>2. /\ IsFiniteSet(cache') /\ Cardinality(cache') \in Nat
        /\ Cardinality(cache') = Cardinality(cache) \/ Cardinality(cache') = Cardinality(cache) + 1
    BY <2>1, <1>a, FS_AddElement, FS_CardinalityType
  <2>3. ~overlapped => Fits(Cardinality(cache)) /\ Fits(Cardinality(cache) + 1)
    BY <1>a DEF SizeInv, Roomy, Inserting
  <2>4. ~overlapped => Fits(Cardinality(cache'))
    BY <2>2, <2>3
  <2>5. ~overlapped => \A q \in Procs : mpc'[q] = "out"
    BY <1>a DEF MemoryTypeInv, MemoryTypeOK, AloneInv, Out
  <2> QED BY <2>2, <2>4, <2>5, <1>a DEF SizeInv, Inserting, Fits
<1> QED BY <1>1, <1>2, <1>3, <1>4

\* clear: the cache.
LEMMA ClearCacheStep ==
  ASSUME MemoryInv, NEW p \in Procs, ClearCache(p)
  PROVE  MemoryInv'
<1> USE DEF MemoryInv
<1>a. /\ cache' = {} /\ mpc' = [mpc EXCEPT ![p] = "clear"] /\ mpc[p] = "out"
      /\ ~overlapped' => ~overlapped /\ \A q \in Procs \ {p} : mpc[q] = "out"
      /\ UNCHANGED <<lru, max_ram_mb, mkey, count, items>>
  BY DEF ClearCache, At, Meet, Out
<1>1. MemoryTypeInv'
  BY <1>a DEF ClearCache, Meet, MemoryTypeInv, MemoryTypeOK, KeyInv, Inserting
<1>2. StampInv'
  BY <1>a DEF MemoryTypeInv, MemoryTypeOK, StampInv, Settles
<1>3. AloneInv'
  BY <1>a DEF MemoryTypeInv, MemoryTypeOK, AloneInv, Out
<1>4. SizeInv'
  <2>1. IsFiniteSet(cache') /\ Cardinality(cache') = 0
    BY <1>a, FS_EmptySet
  <2>2. Fits(Cardinality(cache'))
    BY <2>1, MemoryAssumption DEF Fits
  <2>3. ~overlapped' => \A q \in Procs : ~Inserting(q)'
    BY <1>a DEF MemoryTypeInv, MemoryTypeOK, Inserting
  <2> QED BY <2>1, <2>2, <2>3 DEF SizeInv, Fits
<1> QED BY <1>1, <1>2, <1>3, <1>4

\* clear: the stamps.
LEMMA ClearStampsStep ==
  ASSUME MemoryInv, NEW p \in Procs, ClearStamps(p)
  PROVE  MemoryInv'
<1> USE DEF MemoryInv
<1>a. /\ lru' = <<>> /\ mpc' = [mpc EXCEPT ![p] = "out"] /\ mpc[p] = "clear"
      /\ UNCHANGED <<cache, max_ram_mb, mkey, count, items, overlapped>>
  BY DEF ClearStamps, At
<1>0. Range(lru') = {} /\ lru' \in Seq(Keys) /\ IsInjective(lru')
  BY <1>a DEF Range, IsInjective
<1>1. MemoryTypeInv'
  BY <1>0, <1>a DEF MemoryTypeInv, MemoryTypeOK, KeyInv, Inserting
<1>2. StampInv'
  BY <1>0 DEF StampInv
<1>3. AloneInv'
  BY <1>0, <1>a DEF MemoryTypeInv, MemoryTypeOK, AloneInv, Out
<1>4. SizeInv'
  BY <1>1, <1>a, SameSize DEF MemoryTypeInv, MemoryTypeOK, Out, Inserting
<1> QED BY <1>1, <1>2, <1>3, <1>4

\* memory_limit_handler: the entries already cached fit under some other limit.
LEMMA SetLimitStep ==
  ASSUME MemoryInv, SetLimit
  PROVE  MemoryInv'
BY DEF SetLimit, MemoryInv, MemoryTypeInv, MemoryTypeOK, KeyInv, StampInv, AloneInv, SizeInv,
       Inserting, Settles, Roomy, Out, Fits, IsInjective, Range

\* Steps that do not touch the memory tier.
LEMMA MemoryUnchanged ==
  ASSUME MemoryInv, UNCHANGED memory
  PROVE  MemoryInv'
BY DEF memory, MemoryInv, MemoryTypeInv, MemoryTypeOK, KeyInv, StampInv, AloneInv, SizeInv,
       Inserting, Settles, Roomy, Out, Fits, IsInjective, Range

\* Every step of insert, evict_lru or clear after the first.
LEMMA MemoryStepKeeps ==
  ASSUME MemoryInv, NEW p \in Procs, MemoryStep(p)
  PROVE  MemoryInv'
BY EvictOldestStep, EvictCacheStep, EvictStampStep, StampStep, PutStep, ClearStampsStep DEF MemoryStep

\* The empty memory tier.
LEMMA MemoryInitial ==
  ASSUME MemoryInit
  PROVE  MemoryInv
<1>1. IsFiniteSet(cache) /\ Cardinality(cache) = 0
  BY FS_EmptySet DEF MemoryInit
<1>2. Fits(Cardinality(cache))
  BY <1>1, MemoryAssumption DEF Fits
<1>3. Range(lru) = {} /\ IsInjective(lru) /\ lru \in Seq(Keys)
  BY DEF MemoryInit, Range, IsInjective
<1> QED BY <1>1, <1>2, <1>3 DEF MemoryInit, MemoryInv, MemoryTypeInv, MemoryTypeOK, KeyInv, StampInv,
           AloneInv, SizeInv, Inserting, Settles, Out

\* The properties the runs check.
LEMMA MemoryInvImplies ==
  ASSUME MemoryInv
  PROVE  StampsMatch /\ SizeBounded
<1>1. StampsMatch
  BY DEF StampsMatch, MemoryInv, StampInv, AloneInv, Settles, Out
<1> QED BY <1>1 DEF SizeBounded, MemoryInv, SizeInv

-----------------------------------------------------------------------------
(* The sessions.                                                           *)

Accepted == {s \in Sessions : session[s] # "none"}

\* A connection has a number from the moment it is accepted, and no two have the same.
ConnInv ==
  /\ \A s \in Sessions : IF session[s] = "none" THEN conn[s] = 0 ELSE conn[s] \in FirstConn..next_conn_id - 1
  /\ \A s, t \in Accepted : conn[s] = conn[t] => s = t
  /\ \A r \in Requests : conn[r] = HttpConn

\* As many numbers were given out as connections were accepted.
CountInv == Cardinality(Accepted) = next_conn_id - FirstConn

\* The updates in a transaction come from processes that execute under its number.
OwnerInv == \A i \in Conns : \A u \in active_transactions[i].updates : conn[u.by] = i

CommittedInv == committed \subseteq [key : Keys, by : Procs, committer : Procs] /\ CommitsOwn

\* As long as no two undos met, the one that passed the check still finds something to subtract.
UndoInv ==
  ~undos_met => /\ current_version <= MaxVersion
                /\ \A p, q \in undoing : p = q
                /\ undoing # {} => current_version > 0

SessionType ==
  /\ next_conn_id \in FirstConn..FirstConn + Cardinality(Sessions)
  /\ session \in [Sessions -> {"none", "connected", "authenticated", "closed"}]
  /\ conn \in [Procs -> Conns \cup {0}]
  /\ active_transactions \in [Conns -> [open : BOOLEAN, updates : SUBSET [key : Keys, by : Procs]]]
  /\ todo \in [Procs -> SUBSET Keys]
  /\ \A p \in Procs : p \in Sessions /\ todo[p] # {} => session[p] = "authenticated"

VersionType == /\ current_version \in 0..VersionWidth - 1 /\ undoing \subseteq Requests
               /\ undos_met \in BOOLEAN /\ writes \in 0..MaxWrites

SessionInv == SessionType /\ ConnInv /\ CountInv /\ OwnerInv /\ CommittedInv
VersionInv == VersionType /\ UndoInv
ServerInv == MemoryInv /\ SessionInv /\ VersionInv

-----------------------------------------------------------------------------
(* The numbers of connections.                                             *)

\* The connections that may be made are finitely many.
LEMMA CountType == Cardinality(Sessions) \in Nat
BY FS_CardinalityType, ServerAssumption

\* A process that runs statements has a connection number with a transaction slot.
LEMMA ReadyConn ==
  ASSUME SessionInv, NEW p \in Procs, Ready(p)
  PROVE  conn[p] \in Conns /\ (p \in Sessions => p \in Accepted /\ conn[p] # HttpConn)
<1>1. CASE p \in Requests
  BY <1>1, ServerAssumption DEF SessionInv, ConnInv, Conns
<1>2. CASE p \in Sessions
  <2>1. session[p] = "authenticated" /\ conn[p] \in FirstConn..next_conn_id - 1
    BY <1>2 DEF SessionInv, ConnInv, Ready
  <2>2. conn[p] \in FirstConn..FirstConn + Cardinality(Sessions)
    BY <2>1, CountType DEF SessionInv, SessionType, FirstConn
  <2>3. conn[p] # 0 /\ conn[p] # HttpConn
    BY <2>2, CountType DEF FirstConn, HttpConn
  <2>4. conn[p] \in Conns
    BY <2>3, ServerAssumption DEF SessionInv, SessionType
  <2> QED BY <1>2, <2>1, <2>3, <2>4 DEF Accepted
<1> QED BY <1>1, <1>2, ServerAssumption

\* Two processes under one number are the same session, or requests both.
LEMMA SameConn ==
  ASSUME SessionInv, NEW p \in Procs, NEW q \in Procs, conn[p] = conn[q], conn[p] # 0
  PROVE  p \in Sessions \/ q \in Sessions => p = q
<1>1. \A s \in Sessions : conn[s] # 0 => s \in Accepted /\ conn[s] # HttpConn
  <2> SUFFICES ASSUME NEW s \in Sessions, conn[s] # 0 PROVE s \in Accepted /\ conn[s] # HttpConn
    OBVIOUS
  <2>1. session[s] # "none" /\ conn[s] \in FirstConn..next_conn_id - 1
    BY DEF SessionInv, ConnInv
  <2>2. conn[s] # HttpConn
    BY <2>1, CountType DEF SessionInv, SessionType, FirstConn, HttpConn
  <2> QED BY <2>1, <2>2 DEF Accepted
<1> QED BY <1>1, ServerAssumption DEF SessionInv, ConnInv

-----------------------------------------------------------------------------
(* Steps of the sessions.                                                  *)

\* Steps that leave the sessions alone.
LEMMA SessionsUnchanged ==
  ASSUME SessionInv, UNCHANGED <<sessions, committed>>
  PROVE  SessionInv'
BY DEF sessions, SessionInv, SessionType, ConnInv, CountInv, Accepted, OwnerInv, CommittedInv, CommitsOwn

\* Every connection gets the next number.
LEMMA AcceptStep ==
  ASSUME SessionInv, NEW s \in Sessions, Accept(s)
  PROVE  SessionInv'
<1> USE DEF SessionInv
<1>a. /\ session[s] = "none" /\ session' = [session EXCEPT ![s] = "connected"]
      /\ conn' = [conn EXCEPT ![s] = next_conn_id] /\ next_conn_id' = next_conn_id + 1
      /\ UNCHANGED <<active_transactions, todo, committed>> /\ s \in Procs
  BY ServerAssumption DEF Accept
<1>b. s \notin Accepted /\ Accepted' = Accepted \cup {s}
  BY <1>a DEF Accepted, SessionType
<1>c. /\ Cardinality(Accepted') = Cardinality(Accepted) + 1
      /\ Cardinality(Accepted') <= Cardinality(Sessions)
  <2>1. IsFiniteSet(Accepted) /\ Accepted' \in SUBSET Sessions
    BY FS_Subset, ServerAssumption DEF Accepted
  <2> QED BY <2>1, <1>b, FS_AddElement, FS_Subset, ServerAssumption
<1>d. next_conn_id \in Int /\ next_conn_id >= FirstConn /\ next_conn_id' \in FirstConn..FirstConn + Cardinality(Sessions)
  BY <1>a, <1>c, CountType DEF SessionType, CountInv, FirstConn
<1>e. next_conn_id \in Conns
  <2>1. next_conn_id - FirstConn \in 0..Cardinality(Sessions) /\ next_conn_id = FirstConn + (next_conn_id - FirstConn)
    BY <1>a, <1>d, CountType DEF FirstConn
  <2> QED BY <2>1 DEF Conns
<1>1. SessionType'
  BY <1>a, <1>d, <1>e DEF SessionType
<1>2. ConnInv'
  <2>1. \A t \in Sessions : IF session'[t] = "none" THEN conn'[t] = 0 ELSE conn'[t] \in FirstConn..next_conn_id' - 1
    BY <1>a, <1>d DEF ConnInv, SessionType, FirstConn
  <2>2. \A t \in Accepted : conn'[t] = conn[t] /\ conn[t] # next_conn_id
    BY <1>a, <1>b, <1>d DEF ConnInv, SessionType, Accepted, FirstConn
  <2>3. \A t, u \in Accepted' : conn'[t] = conn'[u] => t = u
    BY <2>2, <1>a, <1>b DEF ConnInv, SessionType
  <2>4. \A r \in Requests : conn'[r] = HttpConn
    BY <1>a, ServerAssumption DEF ConnInv, SessionType
  <2> QED BY <2>1, <2>3, <2>4 DEF ConnInv
<1>3. CountInv'
  BY <1>a, <1>c, <1>d, CountType DEF CountInv, SessionType, FirstConn
<1>4. OwnerInv'
  <2>1. 0 \notin Conns
    BY CountType DEF Conns, HttpConn, FirstConn
  <2>2. conn[s] = 0
    BY <1>a DEF ConnInv
  <2> QED BY <2>1, <2>2, <1>a DEF OwnerInv, SessionType
<1>5. CommittedInv'
  BY <1>a DEF CommittedInv, CommitsOwn
<1> QED BY <1>1, <1>2, <1>3, <1>4, <1>5

\* Steps that change nothing but how far the session of an accepted connection is.
LEMMA SessionGoesOn ==
  ASSUME SessionInv, NEW s \in Sessions, NEW v \in {"connected", "authenticated", "closed"},
         session[s] # "none", v = "authenticated" \/ todo[s] = {},
         session' = [session EXCEPT ![s] = v],
         UNCHANGED <<next_conn_id, conn, active_transactions, todo, committed>>
  PROVE  SessionInv'
<1> USE DEF SessionInv
<1>1. Accepted' = Accepted
  BY DEF Accepted, SessionType
<1>2. SessionType'
  BY DEF SessionType
<1>3. ConnInv'
  BY <1>1 DEF ConnInv, SessionType
<1> QED BY <1>1, <1>2, <1>3 DEF CountInv, OwnerInv, CommittedInv, CommitsOwn

\* Steps that change one transaction; what they add to it is their own.
LEMMA SetTxStep ==
  ASSUME SessionInv, NEW p \in Procs, Ready(p),
         NEW tx \in [open : BOOLEAN, updates : SUBSET [key : Keys, by : Procs]],
         \A u \in tx.updates : u \in Tx(p).updates \/ u.by = p,
         SetTx(p, tx), UNCHANGED <<next_conn_id, session, conn, todo, committed>>
  PROVE  SessionInv'
<1> USE DEF SessionInv
<1>1. conn[p] \in Conns
  BY ReadyConn
<1>2. active_transactions' = [active_transactions EXCEPT ![conn[p]] = tx]
  BY DEF SetTx
<1>3. SessionType'
  BY <1>2 DEF SessionType
<1>4. OwnerInv'
  BY <1>1, <1>2 DEF OwnerInv, SessionType, Tx
<1> QED BY <1>3, <1>4 DEF ConnInv, CountInv, Accepted, CommittedInv, CommitsOwn

\* COMMIT takes the updates of its transaction.
LEMMA CommitStep ==
  ASSUME SessionInv, NEW p \in Procs, Commit(p)
  PROVE  SessionInv'
<1> USE DEF SessionInv
<1>1. Ready(p) /\ conn[p] \in Conns
  BY ReadyConn DEF Commit
<1>2. /\ active_transactions' = [active_transactions EXCEPT ![conn[p]] = NoTx]
      /\ todo' = [todo EXCEPT ![p] = {u.key : u \in Tx(p).updates}]
      /\ committed' = committed \cup {[key |-> u.key, by |-> u.by, committer |-> p] : u \in Tx(p).updates}
      /\ UNCHANGED <<next_conn_id, session, conn>>
  BY DEF Commit, SetTx
<1>3. Tx(p).updates \subseteq [key : Keys, by : Procs]
  BY <1>1 DEF SessionType, Tx
<1>4. SessionType'
  BY <1>1, <1>2, <1>3 DEF SessionType, NoTx, Ready
<1>5. OwnerInv'
  BY <1>1, <1>2 DEF OwnerInv, SessionType, NoTx
<1>6. CommittedInv'
  <2>1. 0 \notin Conns
    BY CountType DEF Conns, HttpConn, FirstConn
  <2>2. ASSUME NEW u \in Tx(p).updates
        PROVE  u.by \in Procs /\ (u.by \in Sessions \/ p \in Sessions => u.by = p)
    BY <1>1, <1>3, <2>1, SameConn DEF OwnerInv, Tx
  <2>3. ASSUME NEW c \in committed' \ committed
        PROVE  /\ c \in [key : Keys, by : Procs, committer : Procs]
               /\ c.by \in Sessions => c.committer = c.by
               /\ c.committer \in Sessions => c.by = c.committer
    <3>1. PICK u \in Tx(p).updates : c = [key |-> u.key, by |-> u.by, committer |-> p]
      BY <1>2, <2>3
    <3> QED BY <1>3, <2>2, <3>1
  <2> QED BY <2>3 DEF CommittedInv, CommitsOwn
<1> QED BY <1>2, <1>4, <1>5, <1>6 DEF ConnInv, CountInv, Accepted

\* COMMIT installs one row.
LEMMA CommitRowStep ==
  ASSUME SessionInv, NEW p \in Procs, CommitRow(p)
  PROVE  SessionInv'
<1>1. PICK k \in todo[p] : todo' = [todo EXCEPT ![p] = @ \ {k}]
  BY DEF CommitRow
<1>2. UNCHANGED <<next_conn_id, session, conn, active_transactions, committed>>
  BY DEF CommitRow
<1>3. SessionType'
  BY <1>1, <1>2 DEF SessionInv, SessionType
<1> QED BY <1>2, <1>3 DEF SessionInv, ConnInv, CountInv, Accepted, OwnerInv, CommittedInv, CommitsOwn

-----------------------------------------------------------------------------
(* Steps of the version counter.                                           *)

\* Steps that leave the counter and the undos alone.
LEMMA VersionsUnchanged ==
  ASSUME VersionInv, UNCHANGED versions, writes' \in 0..MaxWrites
  PROVE  VersionInv'
BY DEF versions, VersionInv, VersionType, UndoInv

\* UPDATE, DELETE, COMMIT and redo draw the next version.
LEMMA VersionDrawn ==
  ASSUME VersionInv, current_version < MaxVersion, current_version' = current_version + 1,
         UNCHANGED <<undoing, undos_met>>, writes' \in 0..MaxWrites
  PROVE  VersionInv'
BY ServerAssumption DEF VersionInv, VersionType, UndoInv, VersionWidth

\* undo compares with zero.
LEMMA UndoCheckStep ==
  ASSUME VersionInv, NEW p \in Requests, UndoCheck(p)
  PROVE  VersionInv'
<1>1. /\ current_version > 0 /\ undoing' = undoing \cup {p} /\ undos_met' = (undos_met \/ undoing # {})
      /\ UNCHANGED <<current_version, writes>>
  BY DEF UndoCheck
<1>2. VersionType'
  BY <1>1 DEF VersionInv, VersionType
<1>3. UndoInv'
  BY <1>1 DEF VersionInv, UndoInv
<1> QED BY <1>2, <1>3 DEF VersionInv

\* undo subtracts.
LEMMA UndoSubtractStep ==
  ASSUME VersionInv, NEW p \in Requests, UndoSubtract(p)
  PROVE  VersionInv'
<1>1. /\ p \in undoing /\ undoing' = undoing \ {p} /\ UNCHANGED <<undos_met, writes>>
      /\ current_version' = (current_version - 1) % VersionWidth
  BY DEF UndoSubtract
<1>2. VersionWidth \in Nat \ {0} /\ current_version \in 0..VersionWidth - 1
  BY ServerAssumption DEF VersionWidth, VersionInv, VersionType
<1>3. current_version' \in 0..VersionWidth - 1
  BY <1>1, <1>2
<1>4. current_version > 0 => current_version' = current_version - 1
  BY <1>1, <1>2
<1>5. VersionType'
  BY <1>1, <1>3 DEF VersionInv, VersionType
<1>6. ~undos_met => undoing' = {} /\ current_version' <= MaxVersion
  BY <1>1, <1>2, <1>4, ServerAssumption DEF VersionInv, UndoInv
<1>7. UndoInv'
  BY <1>1, <1>6 DEF UndoInv
<1> QED BY <1>5, <1>7 DEF VersionInv

-----------------------------------------------------------------------------
(* The inductive invariant.                                                *)

\* A server that has just started.
LEMMA ServerInitial == Init => ServerInv
<1> SUFFICES ASSUME Init PROVE ServerInv
  OBVIOUS
<1> USE DEF Init
<1>1. MemoryInv
  BY MemoryInitial
<1>2. Accepted = {} /\ Cardinality(Accepted) = 0
  BY FS_EmptySet DEF Accepted
<1>3. HttpConn \in Conns
  BY DEF Conns
<1>4. SessionType
  BY <1>3, CountType DEF SessionType, NoTx, FirstConn
<1>5. ConnInv /\ CountInv
  BY <1>2, ServerAssumption DEF ConnInv, CountInv, FirstConn, Accepted
<1>6. OwnerInv /\ CommittedInv
  BY DEF OwnerInv, NoTx, CommittedInv, CommitsOwn
<1>7. VersionInv
  <2>1. 0 \in 0..VersionWidth - 1 /\ 0 \in 0..MaxWrites /\ 0 <= MaxVersion
    BY ServerAssumption DEF VersionWidth
  <2>2. VersionType
    BY <2>1 DEF VersionType
  <2>3. UndoInv
    BY <2>1 DEF UndoInv
  <2> QED BY <2>2, <2>3 DEF VersionInv
<1> QED BY <1>1, <1>4, <1>5, <1>6, <1>7 DEF ServerInv, SessionInv

\* Every step of a session, a request or the memory tier keeps the invariant.
LEMMA ServerStep == ServerInv /\ [Next]_vars => ServerInv'
<1> SUFFICES ASSUME ServerInv, [Next]_vars PROVE ServerInv'
  OBVIOUS
<1>0. MemoryInv /\ SessionInv /\ VersionInv /\ writes \in 0..MaxWrites
  BY DEF ServerInv, VersionInv, VersionType
<1> USE <1>0
<1>1. ASSUME NEW s \in Sessions, Accept(s) PROVE ServerInv'
  BY <1>1, AcceptStep, MemoryUnchanged, VersionsUnchanged DEF Accept, ServerInv
<1>2. ASSUME NEW s \in Sessions, Authenticate(s) PROVE ServerInv'
  <2>1. todo[s] = {} /\ session[s] = "connected"
    BY <1>2, ServerAssumption DEF Authenticate, SessionInv, SessionType
  <2>2. SessionInv'
    <3>1. CASE session' = [session EXCEPT ![s] = "authenticated"]
      BY <1>2, <2>1, <3>1, SessionGoesOn DEF Authenticate
    <3>2. CASE session' = [session EXCEPT ![s] = "closed"]
      BY <1>2, <2>1, <3>2, SessionGoesOn DEF Authenticate
    <3> QED BY <1>2, <3>1, <3>2 DEF Authenticate
  <2> QED BY <1>2, <2>2, MemoryUnchanged, VersionsUnchanged DEF Authenticate, ServerInv
<1>3. ASSUME NEW s \in Sessions, Disconnect(s) PROVE ServerInv'
  <2>1. todo[s] = {} /\ session[s] # "none"
    BY <1>3, ServerAssumption DEF Disconnect, Ready, SessionInv, SessionType
  <2>2. SessionInv'
    BY <1>3, <2>1, SessionGoesOn DEF Disconnect
  <2> QED BY <1>3, <2>2, MemoryUnchanged, VersionsUnchanged DEF Disconnect, ServerInv
<1>4. ASSUME NEW p \in Procs, Begin(p) PROVE ServerInv'
  <2>1. SessionInv'
    BY <1>4, SetTxStep DEF Begin
  <2> QED BY <1>4, <2>1, MemoryUnchanged, VersionsUnchanged DEF Begin, ServerInv
<1>5. ASSUME NEW p \in Procs, Commit(p) PROVE ServerInv'
  BY <1>5, CommitStep, MemoryUnchanged, VersionDrawn DEF Commit, ServerInv
<1>6. ASSUME NEW p \in Procs, CommitRow(p) PROVE ServerInv'
  <2>1. PICK k \in todo[p] : InsertBegin(p, k)
    BY <1>6 DEF CommitRow
  <2>2. k \in Keys
    BY DEF SessionInv, SessionType
  <2> QED BY <1>6, <2>1, <2>2, CommitRowStep, InsertBeginStep, VersionsUnchanged DEF CommitRow, ServerInv
<1>7. ASSUME NEW p \in Procs, Rollback(p) PROVE ServerInv'
  <2>1. SessionInv'
    BY <1>7, SetTxStep DEF Rollback, NoTx
  <2> QED BY <1>7, <2>1, MemoryUnchanged, VersionsUnchanged DEF Rollback, ServerInv
<1>8. ASSUME NEW p \in Procs, Continue(p) PROVE ServerInv'
  BY <1>8, MemoryStepKeeps, SessionsUnchanged, VersionsUnchanged DEF Continue, ServerInv
<1>9. ASSUME NEW p \in Procs, NEW k \in Keys, WriteInTx(p, k) PROVE ServerInv'
  <2> DEFINE tx == [Tx(p) EXCEPT !.updates = {u \in @ : u.key # k} \cup {[key |-> k, by |-> p]}]
  <2>1. conn[p] \in Conns /\ Ready(p) /\ SetTx(p, tx)
    BY <1>9, ReadyConn DEF WriteInTx
  <2>2. Tx(p) \in [open : BOOLEAN, updates : SUBSET [key : Keys, by : Procs]]
    BY <2>1 DEF SessionInv, SessionType, Tx
  <2>3. /\ tx \in [open : BOOLEAN, updates : SUBSET [key : Keys, by : Procs]]
        /\ \A u \in tx.updates : u \in Tx(p).updates \/ u.by = p
    BY <2>2
  <2> HIDE DEF tx
  <2>4. SessionInv'
    BY <1>9, <2>1, <2>3, SetTxStep DEF WriteInTx
  <2>5. writes' \in 0..MaxWrites
    BY <1>9, ServerAssumption DEF WriteInTx
  <2> QED BY <1>9, <2>4, <2>5, MemoryUnchanged, VersionsUnchanged DEF WriteInTx, ServerInv
<1>10. ASSUME NEW p \in Procs, NEW k \in Keys, Write(p, k) PROVE ServerInv'
  <2>1. writes' \in 0..MaxWrites
    BY <1>10, ServerAssumption DEF Write
  <2>2. VersionInv'
    <3>1. CASE UNCHANGED current_version
      BY <1>10, <2>1, <3>1, VersionsUnchanged DEF Write, versions
    <3>2. CASE current_version < MaxVersion /\ current_version' = current_version + 1
      BY <1>10, <2>1, <3>2, VersionDrawn DEF Write
    <3> QED BY <1>10, <3>1, <3>2 DEF Write
  <2> QED BY <1>10, <2>2, InsertBeginStep, SessionsUnchanged DEF Write, ServerInv
<1>11. ASSUME NEW p \in Requests, UndoCheck(p) PROVE ServerInv'
  BY <1>11, UndoCheckStep, MemoryUnchanged, SessionsUnchanged DEF UndoCheck, ServerInv
<1>12. ASSUME NEW p \in Requests, UndoSubtract(p) PROVE ServerInv'
  BY <1>12, UndoSubtractStep, MemoryUnchanged, SessionsUnchanged DEF UndoSubtract, ServerInv
<1>13. ASSUME NEW p \in Requests, Redo(p) PROVE ServerInv'
  BY <1>13, VersionDrawn, MemoryUnchanged, SessionsUnchanged DEF Redo, ServerInv
<1>14. ASSUME NEW p \in Requests, Purge(p) PROVE ServerInv'
  BY <1>14, ClearCacheStep, SessionsUnchanged, VersionsUnchanged, ServerAssumption DEF Purge, ServerInv
<1>15. ASSUME NEW p \in Requests, Limit(p) PROVE ServerInv'
  BY <1>15, SetLimitStep, SessionsUnchanged, VersionsUnchanged DEF Limit, ServerInv
<1>16. CASE UNCHANGED vars
  BY <1>16, MemoryUnchanged, SessionsUnchanged, VersionsUnchanged DEF vars, ServerInv
<1> QED BY <1>1, <1>2, <1>3, <1>4, <1>5, <1>6, <1>7, <1>8, <1>9, <1>10, <1>11, <1>12, <1>13,
           <1>14, <1>15, <1>16 DEF Next

\* The inductive invariant holds in every reachable state.
THEOREM ServerInvariant == Spec => []ServerInv
BY ServerInitial, ServerStep, PTL DEF Spec

\* Sessions, transactions, the version counter and the memory tier keep their types; a queue of
\* rows to install belongs to a session that is logged in.
THEOREM TypeCorrect == Spec => []TypeOK
<1>1. ServerInv => TypeOK
  BY DEF ServerInv, MemoryInv, MemoryTypeInv, SessionInv, SessionType, VersionInv, VersionType, TypeOK
<1> QED BY <1>1, ServerInvariant, PTL

\* COMMIT on a TCP connection takes the updates of its own session and no other's, whatever
\* closed connections and HTTP requests left in active_transactions.
THEOREM CommitsOwnAlways == Spec => []CommitsOwn
<1>1. ServerInv => CommitsOwn
  BY DEF ServerInv, SessionInv, CommittedInv
<1> QED BY <1>1, ServerInvariant, PTL

\* undo wraps the version counter only where two undos passed the check together.
THEOREM VersionDoesNotWrapAlways == Spec => []VersionDoesNotWrap
<1>1. ServerInv => VersionDoesNotWrap
  BY DEF ServerInv, VersionInv, UndoInv, VersionDoesNotWrap
<1> QED BY <1>1, ServerInvariant, PTL

\* Once insert, evict_lru and clear are over, a stamp is the stamp of a cached key, and without
\* overlaps every cached key has one.
THEOREM StampsMatchAlways == Spec => []StampsMatch
<1>1. ServerInv => StampsMatch
  BY MemoryInvImplies DEF ServerInv
<1> QED BY <1>1, ServerInvariant, PTL

\* Without overlaps the cache stays within its limit and one, or the fraction.
THEOREM SizeBoundedAlways == Spec => []SizeBounded
<1>1. ServerInv => SizeBounded
  BY MemoryInvImplies DEF ServerInv
<1> QED BY <1>1, ServerInvariant, PTL
=============================================================================
