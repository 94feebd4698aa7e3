----------------------------- MODULE Containers -----------------------------
(***************************************************************************)
(* The containers of turbo/container: an MPSCQueue or a DoublyBufferedData *)
(* shared by threads; or a raw_hash_set, a btree, a FlatMap, a cache or a  *)
(* queue in a ring with one user at a time.  Which one is used is chosen   *)
(* initially; the variables of the others have no value, or the one they   *)
(* start with.                                                             *)
(***************************************************************************)
EXTENDS MPSCQueue

CONSTANTS
  Readers, Modifiers, MaxReads, MaxModifies,                   \* of DoublyBufferedData
  HashedKeys, kWidth, LoadUnit, Sizes, Salts, MaxCapacity,     \* of RawHashSet
  kNodeSlots, MaxNodes, TreeKeys, Starts, Modes,               \* of BTree
  MapKeys, Hash, Kinds, WordBits, LoadFactor, Requests, MaxBuckets, MaxSize,   \* of FlatMap
  CacheKeys, Policies, CacheSizes, MaxUses,                    \* of Cache
  Capacities, Width, MaxOverrun,                               \* of RingQueues
  Items                                                        \* values in these three

ASSUME ContainersAssumption ==
  /\ MaxReads \in Nat /\ MaxModifies \in Nat
  /\ NULL \notin Readers \cup Modifiers
  /\ kWidth \in {4, 8, 16} /\ LoadUnit \in {kWidth, kWidth \div 2}
  /\ MaxCapacity \in Nat /\ Salts \subseteq Nat
  /\ kNodeSlots >= 4
  /\ LoadFactor \in 10..100
  /\ \A n \in Capacities : n <= 2 ^ (Width - 1)

VARIABLES
  using,
  suspended, copies, index, wrappers, modifyMutex, wrappersMutex, ref, modify_wait, rpc, idx,
  reads, mpc, bg, pos, changes, writing, fresh, seen,     \* of DoublyBufferedData
  soo_enabled, common,                                    \* of RawHashSet
  mode, tree, returned, rank, budget,                     \* of BTree
  kind, map, hint, keys, staying, missed,                 \* of FlatMap
  policy, max_cache_size, cache, since, uses,             \* of Cache
  class, ring, overruns,                                  \* of RingQueues
  contents                                                \* of all that have one user

buffer == INSTANCE DoublyBufferedData WITH data <- copies, None <- NULL
table == INSTANCE RawHashSet WITH Keys <- HashedKeys, None <- NULL
btree == INSTANCE BTree WITH Keys <- TreeKeys, None <- NULL
flat == INSTANCE FlatMap WITH Keys <- MapKeys, Values <- Items, None <- NULL
lookup == INSTANCE Cache WITH Keys <- CacheKeys, Values <- Items
queue == INSTANCE RingQueues WITH Values <- Items, None <- NULL

buffer_ ==
  <<suspended, copies, index, wrappers, modifyMutex, wrappersMutex, ref, modify_wait, rpc, idx,
    reads, mpc, bg, pos, changes, writing, fresh, seen>>
table_ == <<soo_enabled, common>>
tree_ == <<mode, tree, returned, rank, budget>>
flat_ == <<kind, map, hint, keys, staying, missed>>
cache_ == <<policy, max_cache_size, cache, since, uses>>
ring_ == <<class, ring, overruns>>
containers_vars == <<using, vars, buffer_, table_, tree_, flat_, cache_, ring_, contents>>

NoBuffer ==
  /\ suspended = NULL /\ copies = NULL /\ index = NULL /\ wrappers = NULL /\ modifyMutex = NULL
  /\ wrappersMutex = NULL /\ ref = NULL /\ modify_wait = NULL /\ rpc = NULL /\ idx = NULL
  /\ reads = NULL /\ mpc = NULL /\ bg = NULL /\ pos = NULL /\ changes = NULL
  /\ writing = NULL /\ fresh = NULL /\ seen = NULL
NoTable == soo_enabled = NULL /\ common = NULL
NoTree == mode = NULL /\ tree = NULL /\ returned = NULL /\ rank = NULL /\ budget = NULL
NoMap == kind = NULL /\ map = NULL /\ hint = NULL /\ keys = NULL /\ staying = NULL /\ missed = NULL
NoCache == policy = NULL /\ max_cache_size = NULL /\ cache = NULL /\ since = NULL /\ uses = NULL
NoRing == class = NULL /\ ring = NULL /\ overruns = NULL

ContainersInit ==
  /\ Init
  /\ using \in {"MPSCQueue", "DoublyBufferedData", "raw_hash_set", "btree", "FlatMap", "cache", "ring"}
  /\ IF using = "DoublyBufferedData" THEN buffer!Init ELSE NoBuffer
  /\ IF using = "raw_hash_set" THEN table!Init ELSE NoTable
  /\ IF using = "btree" THEN btree!Init ELSE NoTree
  /\ IF using = "FlatMap" THEN flat!Init ELSE NoMap
  /\ IF using = "cache" THEN lookup!Init ELSE NoCache
  /\ IF using = "ring" THEN queue!Init ELSE NoRing
  /\ using \in {"MPSCQueue", "DoublyBufferedData", "cache"} => contents = NULL

UsesQueue == using = "MPSCQueue" /\ UNCHANGED <<using, buffer_, table_, tree_, flat_, cache_, ring_, contents>>
UsesBuffer == using = "DoublyBufferedData" /\ UNCHANGED <<using, vars, table_, tree_, flat_, cache_, ring_, contents>>
UsesTable == using = "raw_hash_set" /\ UNCHANGED <<using, vars, buffer_, tree_, flat_, cache_, ring_>>
UsesTree == using = "btree" /\ UNCHANGED <<using, vars, buffer_, table_, flat_, cache_, ring_>>
UsesMap == using = "FlatMap" /\ UNCHANGED <<using, vars, buffer_, table_, tree_, cache_, ring_>>
UsesCache == using = "cache" /\ UNCHANGED <<using, vars, buffer_, table_, tree_, flat_, ring_, contents>>
UsesRing == using = "ring" /\ UNCHANGED <<using, vars, buffer_, table_, tree_, flat_, cache_>>

ContainersNext ==
  \/ UsesQueue /\ Next
  \/ UsesBuffer /\ buffer!Next
  \/ UsesTable /\ table!Next
  \/ UsesTree /\ btree!Next
  \/ UsesMap /\ flat!Next
  \/ UsesCache /\ lookup!Next
  \/ UsesRing /\ queue!Next

\* As in MPSCQueue and DoublyBufferedData: the consumer polls, and calls are finished.
ContainersFairness ==
  /\ WF_containers_vars(UsesQueue /\ Consume)
  /\ \A t \in Producers : WF_containers_vars(UsesQueue /\ ppc[t] # "idle" /\ Produce(t))
  /\ \A r \in Readers : WF_containers_vars(UsesBuffer /\ buffer!ReadStep(r))
  /\ \A m \in Modifiers : WF_containers_vars(UsesBuffer /\ buffer!ModifyStep(m))

ContainersSpec == ContainersInit /\ [][ContainersNext]_containers_vars /\ ContainersFairness

-----------------------------------------------------------------------------
\* DoublyBufferedData: whenever no Modify() is under way both copies have had the same
\* changes; a Read() never sees less than a reader could see when it was called.
ReadsConverge == using = "DoublyBufferedData" => buffer!Converged /\ buffer!FreshRead

\* Modify() walks over wrappers of living threads only, each once, and the one it waits
\* for stays where it is.
WrappersAlive == using = "DoublyBufferedData" => buffer!WrappersAlive

\* Every value whose exchange took place is delivered, and every Modify() returns: calls
\* are finite in number, and in the end nothing is left to deliver and nobody waits.
AllDelivered ==
  <>[](/\ using = "MPSCQueue" => enqueued = dequeued
       /\ using = "DoublyBufferedData" => \A m \in Modifiers : mpc[m] = "idle")

\* A hash table finds the keys that were inserted and not erased since, through every
\* growth, rehash in place, tombstone and copy; a tree answers every search, walk and
\* returned iterator as the sorted sequence of its values does, through every split,
\* merge and rebalancing.  The representation stays what the code relies on without
\* looking: the load of a table leaves an empty slot for every probe to stop at, its counts
\* are true and its cloned bytes equal to those they clone; the nodes of a tree are
\* balanced, linked both ways, neither empty nor overfull, and none is leaked.  A FlatMap
\* finds and walks over what its chains should hold, also in several passes; the map and
\* the policy of a cache agree, and the key to be replaced is the one the policy promises;
\* a queue in a ring is the sequence of its items, however often it went round.
ActsAsItsContents ==
  /\ using = "raw_hash_set" => table!FindsContents /\ table!TableSound
  /\ using = "btree" => btree!ActsAsSortedSequence /\ btree!TreeSound
  /\ using = "FlatMap" => flat!FindsContents /\ flat!VisitsStaying /\ flat!FirstOneInRange
  /\ using = "cache" => lookup!SameKeys /\ lookup!CandidateRight
  /\ using = "ring" => queue!ActsAsSequence

-----------------------------------------------------------------------------
\* Keys <<H1, H2, identity>>: four that probe from the same place, two and two with the
\* same H2, and two others.
MCHashedKeys == {<<5, 0, 1>>, <<5, 1, 2>>, <<5, 0, 3>>, <<5, 1, 4>>, <<0, 0, 5>>, <<1, 1, 6>>}

\* Trees of up to three levels, built by inserting upwards and downwards.
Up(n) == [i \in 1..n |-> 2 * i]
Down(n) == [i \in 1..n |-> 2 * (n + 1 - i)]
MCStarts == {<<<<>>, 4>>, <<Up(12), 2>>, <<Down(12), 2>>, <<Up(24), 1>>, <<Down(24), 1>>}

\* Keys of a FlatMap are their hash codes: 0, 8 and 16 meet in 8 buckets, 0 and 16 in 16.  A
\* sparse map has whole words of the bit array, of WordBits bits.
MCHash == [k \in MapKeys |-> k]
MCKinds == [multi : BOOLEAN, sparse : BOOLEAN, stray : {FALSE}]
MCModes == [multi : BOOLEAN, compare_to : BOOLEAN]
=============================================================================
