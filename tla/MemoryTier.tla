----------------------------- MODULE MemoryTier -----------------------------
(***************************************************************************)
(* The memory tier of src/storage/mod.rs: a cache and the time stamps that *)
(* choose what leaves it.  Each of the two maps has its own locks, so the  *)
(* steps of insert, evict_lru and clear interleave.                        *)
(*                                                                         *)
(* Values do not matter here and the stamps only by their order: lru lists *)
(* the stamped keys, the oldest first.  turbo_mode and the hit counters    *)
(* decide nothing but what the dashboard shows.                            *)
(***************************************************************************)
EXTENDS Integers, SequencesExt

CONSTANTS
  Procs,    \* who inserts and clears: TCP sessions and HTTP requests
  Keys,
  Limits,   \* bound: values of max_ram_mb
  PerMb,    \* 4096: entries of estimated 256 bytes in a megabyte
  Fraction, \* 10: an eviction takes one entry of this many
  Width     \* 2^64 bytes in entries of 256: limits are multiplied modulo this

ASSUME MemoryAssumption == /\ Limits \subseteq Nat /\ Limits # {}
                           /\ PerMb \in Nat /\ Fraction \in Nat \ {0} /\ Width \in Nat \ {0}

VARIABLES
  cache,      \* MemoryTier::cache: its keys
  lru,        \* MemoryTier::lru
  max_ram_mb,
  mpc,        \* per process: where it is in insert or clear, "out" when in neither
  mkey,       \* per process: the key it inserts, or 0
  count,      \* per process: how many entries it means to evict
  items,      \* per process: keys it has still to evict
  overlapped  \* some insert or clear began during another one

memory == <<cache, lru, max_ram_mb, mpc, mkey, count, items, overlapped>>

MemoryInit ==
  /\ cache = {} /\ lru = <<>> /\ max_ram_mb \in Limits
  /\ mpc = [p \in Procs |-> "out"] /\ mkey = [p \in Procs |-> 0]
  /\ count = [p \in Procs |-> 0] /\ items = [p \in Procs |-> <<>>]
  /\ overlapped = FALSE

Out(p) == mpc[p] = "out"
At(p, l) == mpc' = [mpc EXCEPT ![p] = l]
Meet(p) == overlapped' = (overlapped \/ \E q \in Procs \ {p} : ~Out(q))

\* max_ram_mb * 1024 * 1024, in entries.
MaxEntries(limit) == (limit * PerMb) % Width

\* Faulty variant of InsertBegin: one entry over the limit is let pass.
InsertBeginLate(p, k) ==
  /\ Out(p)
  /\ mkey' = [mkey EXCEPT ![p] = k]
  /\ LET entries == Cardinality(cache) IN
     IF entries > MaxEntries(max_ram_mb) + 1
     THEN At(p, "evict") /\ count' = [count EXCEPT ![p] = entries \div Fraction]
     ELSE At(p, "stamp") /\ UNCHANGED count
  /\ Meet(p)
  /\ UNCHANGED <<cache, lru, max_ram_mb, items>>

\* insert: the limit and the size of the cache are read first.
InsertBegin(p, k) ==
  /\ Out(p)
  /\ mkey' = [mkey EXCEPT ![p] = k]
  /\ LET entries == Cardinality(cache) IN
     IF entries > MaxEntries(max_ram_mb) /\ entries # 0
     THEN At(p, "evict") /\ count' = [count EXCEPT ![p] = entries \div Fraction]
     ELSE At(p, "stamp") /\ UNCHANGED count
  /\ Meet(p)
  /\ UNCHANGED <<cache, lru, max_ram_mb, items>>

\* evict_lru: the oldest of the stamped keys.
EvictOldest(p) ==
  /\ mpc[p] = "evict"
  /\ items' = [items EXCEPT ![p] = SubSeq(lru, 1, IF count[p] < Len(lru) THEN count[p] ELSE Len(lru))]
  /\ count' = [count EXCEPT ![p] = 0]
  /\ At(p, "cache")
  /\ UNCHANGED <<cache, lru, max_ram_mb, mkey, overlapped>>

EvictCache(p) ==
  /\ mpc[p] = "cache"
  /\ IF items[p] = <<>> THEN At(p, "stamp") /\ UNCHANGED cache
     ELSE At(p, "lru") /\ cache' = cache \ {Head(items[p])}
  /\ UNCHANGED <<lru, max_ram_mb, mkey, count, items, overlapped>>

\* Faulty variant of EvictStamp: the stamp stays.
EvictStampKept(p) ==
  /\ mpc[p] = "lru"
  /\ items' = [items EXCEPT ![p] = Tail(@)]
  /\ At(p, "cache")
  /\ UNCHANGED <<cache, lru, max_ram_mb, mkey, count, overlapped>>

EvictStamp(p) ==
  /\ mpc[p] = "lru"
  /\ lru' = RemoveFirst(lru, Head(items[p]))
  /\ items' = [items EXCEPT ![p] = Tail(@)]
  /\ At(p, "cache")
  /\ UNCHANGED <<cache, max_ram_mb, mkey, count, overlapped>>

Stamp(p) ==
  /\ mpc[p] = "stamp"
  /\ lru' = Append(RemoveFirst(lru, mkey[p]), mkey[p])
  /\ At(p, "put")
  /\ UNCHANGED <<cache, max_ram_mb, mkey, count, items, overlapped>>

Put(p) ==
  /\ mpc[p] = "put"
  /\ cache' = cache \cup {mkey[p]}
  /\ mkey' = [mkey EXCEPT ![p] = 0]
  /\ At(p, "out")
  /\ UNCHANGED <<lru, max_ram_mb, count, items, overlapped>>

\* clear: the cache, then the stamps.
ClearCache(p) ==
  /\ Out(p)
  /\ cache' = {}
  /\ At(p, "clear") /\ Meet(p)
  /\ UNCHANGED <<lru, max_ram_mb, mkey, count, items>>

ClearStamps(p) ==
  /\ mpc[p] = "clear"
  /\ lru' = <<>>
  /\ At(p, "out")
  /\ UNCHANGED <<cache, max_ram_mb, mkey, count, items, overlapped>>

MemoryStep(p) == \/ EvictOldest(p) \/ EvictCache(p) \/ EvictStamp(p) \/ Stamp(p) \/ Put(p)
                 \/ ClearStamps(p)

\* memory_limit_handler.
SetLimit ==
  /\ max_ram_mb' \in Limits \ {max_ram_mb}
  /\ UNCHANGED <<cache, lru, mpc, mkey, count, items, overlapped>>

-----------------------------------------------------------------------------
\* Every variable has its type; a key has one stamp; evict_lru drops no stamp without a key it
\* chose.
MemoryTypeOK ==
  /\ cache \subseteq Keys /\ lru \in Seq(Keys) /\ IsInjective(lru) /\ max_ram_mb \in Limits
  /\ mpc \in [Procs -> {"out", "evict", "cache", "lru", "stamp", "put", "clear"}]
  /\ mkey \in [Procs -> Keys \cup {0}] /\ count \in [Procs -> Nat]
  /\ items \in [Procs -> Seq(Keys)]
  /\ \A p \in Procs : mpc[p] = "lru" => items[p] # <<>>

\* When nobody is in insert or clear, every stamp is the stamp of a cached key, so evictions
\* are not spent on keys that are gone; insert stamps first and evict_lru and clear drop the
\* stamp last.  The converse, that every cached key has a stamp and can be evicted, holds only
\* as long as no two of them overlapped.
StampsMatch ==
  (\A p \in Procs : Out(p)) => /\ Range(lru) \subseteq cache
                               /\ ~overlapped => cache = Range(lru)

\* As many entries as some limit lets in and one, or as few as evict_lru takes none of.
Fits(n) == n <= Fraction \/ \E l \in Limits : n <= MaxEntries(l) + 1

\* MemoryTier::insert: inserts that do not overlap keep the cache within one entry over a
\* limit, or within the number of entries below which evict_lru's share rounds down to none.
SizeBounded == ~overlapped => Fits(Cardinality(cache))
=============================================================================
