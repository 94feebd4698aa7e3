------------------------------- MODULE Cache -------------------------------
(***************************************************************************)
(* fixed_sized_cache (turbo/container/cache/cache_internal.h) with each of *)
(* its replacement policies.  An operation holds safe_op from begin to     *)
(* end, so that it is one step.  The policy's lookup table holds, for each *)
(* key, its place in the list or multimap, and is left out.                *)
(***************************************************************************)
EXTENDS Naturals, SequencesExt

CONSTANTS
  Keys, Values,
  Policies,         \* a subset of AllPolicies
  CacheSizes,       \* max_cache_size of a new cache
  MaxUses           \* bound: a key is not used more often

AllPolicies == {"NoCache", "FIFO", "LRU", "LFU"}

VARIABLES
  policy, max_cache_size,
  cache,            \* items: cache_items_map; storage: what the policy keeps, front first
  since,            \* history: for each key, the keys used since it was used last
  uses              \* history: for each key, how often it was used since it came (for LFU)

vars == <<policy, max_cache_size, cache, since, uses>>

Empty == [items |-> <<>>, storage |-> <<>>]

Init ==
  /\ policy \in Policies /\ max_cache_size \in CacheSizes \ {0}
  /\ cache = Empty
  /\ since = [k \in Keys |-> {}] /\ uses = [k \in Keys |-> 0]

-----------------------------------------------------------------------------
(* The policies.  An entry is a key with its frequency, 1 but for LFU. *)

Present == DOMAIN cache.items
Without(s, k) == SelectSeq(s, LAMBDA e : e.key # k)
FrequencyOf(s, k) == (CHOOSE e \in Range(s) : e.key = k).frequency

\* In front, also for LFU, where the hint of emplace_hint() is the begin.
PolicyInsert(s, k) == <<[key |-> k, frequency |-> 1]>> \o s

\* LFU: behind all that are not used more often, as the hint is the end.
Emplace(s, e) ==
  LET less == SelectSeq(s, LAMBDA x : x.frequency <= e.frequency)
      more == SelectSeq(s, LAMBDA x : x.frequency > e.frequency)
  IN  less \o <<e>> \o more

LRUTouch(s, k) == PolicyInsert(Without(s, k), k)
LFUTouch(s, k) == Emplace(Without(s, k), [key |-> k, frequency |-> FrequencyOf(s, k) + 1])

\* FIFO and NoCachePolicy do nothing.
PolicyTouch(s, k) ==
  CASE policy = "LRU" -> LRUTouch(s, k)
    [] policy = "LFU" -> LFUTouch(s, k)
    [] OTHER -> s

LeastUsed(s) == Head(s).key
Oldest(s) == Last(s).key        \* FIFO, LRU

\* The order of NoCachePolicy's flat_hash_set can be any.
repl_candidate(s) ==
  CASE policy = "NoCache" -> {e.key : e \in Range(s)}
    [] policy = "LFU" -> {LeastUsed(s)}
    [] OTHER -> {Oldest(s)}

-----------------------------------------------------------------------------
(* The cache *)

insert(c, k, v) ==
  [items |-> [x \in DOMAIN c.items \cup {k} |-> IF x = k THEN v ELSE c.items[x]],
   storage |-> PolicyInsert(c.storage, k)]

erase(c, k) ==
  [items |-> [x \in DOMAIN c.items \ {k} |-> c.items[x]], storage |-> Without(c.storage, k)]

update(c, k, v) == [items |-> [c.items EXCEPT ![k] = v], storage |-> PolicyTouch(c.storage, k)]

\* The loop of prune(), once per candidate that it may meet.
RECURSIVE Pruned(_, _)
Pruned(c, size_to_reserve) ==
  IF Cardinality(DOMAIN c.items) <= size_to_reserve THEN {c}
  ELSE UNION {Pruned(erase(c, k), size_to_reserve) : k \in repl_candidate(c.storage)}

\* History: key k is used, after those in gone have gone.
Use(k, gone) ==
  /\ since' = [x \in Keys |-> IF x \in Present \ (gone \cup {k}) THEN (since[x] \ gone) \cup {k} ELSE {}]
  /\ uses' = [x \in Keys |-> IF x = k /\ policy = "LFU" THEN uses[k] + 1
                           ELSE IF x \in gone THEN 0 ELSE uses[x]]
Gone(gone) ==
  /\ since' = [x \in Keys |-> IF x \in gone THEN {} ELSE since[x] \ gone]
  /\ uses' = [x \in Keys |-> IF x \in gone THEN 0 ELSE uses[x]]

\* For FIFO only coming counts.
Touched(k) == IF policy = "FIFO" THEN UNCHANGED <<since, uses>> ELSE Use(k, {})

put(k, v) ==
  IF k \in Present THEN cache' = update(cache, k, v) /\ Touched(k)
  ELSE IF Cardinality(Present) + 1 > max_cache_size
  THEN \E old \in repl_candidate(cache.storage) :
         cache' = insert(erase(cache, old), k, v) /\ Use(k, {old})
  ELSE cache' = insert(cache, k, v) /\ Use(k, {})

\* try_get() and get_or_die() of a key that is there; of another they change nothing.
try_get(k) ==
  /\ k \in Present
  /\ cache' = [cache EXCEPT !.storage = PolicyTouch(@, k)]
  /\ Touched(k)

remove(k) == k \in Present /\ cache' = erase(cache, k) /\ Gone({k})

prune(size_to_reserve) ==
  /\ cache' \in Pruned(cache, size_to_reserve)
  /\ Gone(Present \ DOMAIN cache'.items)

\* The destructor: clear() erases every key from the policy.  Then there is a new cache.
Destroy ==
  /\ cache' = [items |-> <<>>, storage |-> SelectSeq(cache.storage, LAMBDA e : e.key \notin Present)]
  /\ Gone(Present)

Next ==
  /\ \/ \E k \in Keys : (\E v \in Values : put(k, v)) \/ try_get(k) \/ remove(k)
     \/ \E n \in 0..max_cache_size : prune(n)
     \/ Destroy
  /\ \A k \in Keys : uses'[k] <= MaxUses
  /\ UNCHANGED <<policy, max_cache_size>>

Spec == Init /\ [][Next]_vars

-----------------------------------------------------------------------------
\* The map and the policy hold the same keys, each once, and not too many.
SameKeys ==
  /\ {e.key : e \in Range(cache.storage)} = Present
  /\ Len(cache.storage) = Cardinality(Present) /\ Len(cache.storage) <= max_cache_size

\* What the policies promise of the key to be replaced: all others were added (FIFO) or used
\* (LRU) after it, or no other is used less often (LFU).
CandidateRight ==
  cache.storage # <<>> =>
    \A k \in repl_candidate(cache.storage) :
      /\ policy \in {"FIFO", "LRU"} => since[k] = Present \ {k}
      /\ policy = "LFU" => \A x \in Present : uses[k] <= uses[x]
=============================================================================
