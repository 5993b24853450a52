---------------------------- MODULE CacheManager ----------------------------
(***************************************************************************)
(* CacheManager, by which a database decides what to drop from its caches: *)
(* a queue of sets of ids, those used last in the first set.  Entries of a *)
(* cache count one byte each here.                                         *)
(***************************************************************************)
EXTENDS Integers, Sequences, FiniteSets

CONSTANTS
  COLLECTION_QUEUE_SIZE,
  PrefCacheSize, MaxCacheSize, BytesPerCacheEntry

ASSUME CacheManagerSizes ==
  /\ COLLECTION_QUEUE_SIZE \in Nat \ {0}
  /\ PrefCacheSize \in Nat /\ MaxCacheSize \in Nat /\ BytesPerCacheEntry \in Nat

NoUsage == [i \in 1..COLLECTION_QUEUE_SIZE |-> {}]

\* Each of the ids moves to the first set, from the first other set that has it.
note_used(usage, ids) ==
  [i \in 1..COLLECTION_QUEUE_SIZE |->
     IF i = 1 THEN usage[1] \cup ids
     ELSE {x \in usage[i] : x \in ids => \E j \in 1..(i - 1) : x \in usage[j]}]

\* The last set comes to the front, full as it is.
rotate_cache_if_needed(usage) ==
  IF Cardinality(usage[1]) * BytesPerCacheEntry > PrefCacheSize \div COLLECTION_QUEUE_SIZE
  THEN [i \in 1..COLLECTION_QUEUE_SIZE |->
          IF i = 1 THEN usage[COLLECTION_QUEUE_SIZE] ELSE usage[i - 1]]
  ELSE usage

\* What the last k sets hold.
Oldest(usage, k) ==
  UNION {usage[i] : i \in (COLLECTION_QUEUE_SIZE - k + 1)..COLLECTION_QUEUE_SIZE}

\* The rounds of collect_garbage over the ids `cached`: until the caches are small
\* enough, and at most one for each set.
Rounds(usage, cached) ==
  LET enough == {k \in 1..COLLECTION_QUEUE_SIZE :
                   \/ Cardinality(cached \ Oldest(usage, k)) < MaxCacheSize
                   \/ k = COLLECTION_QUEUE_SIZE}
  IN CHOOSE k \in enough : \A j \in enough : k <= j

\* The ids that collect_garbage drops, and the queue after it.
Dropped(usage, cached) ==
  IF Cardinality(cached) < PrefCacheSize THEN {} ELSE Oldest(usage, Rounds(usage, cached))

Collected(usage, cached) ==
  IF Cardinality(cached) < PrefCacheSize THEN rotate_cache_if_needed(usage)
  ELSE LET k == Rounds(usage, cached)
       IN [i \in 1..COLLECTION_QUEUE_SIZE |-> IF i <= k THEN {} ELSE usage[i - k]]
=============================================================================
