----------------------------- MODULE RawHashSet -----------------------------
(***************************************************************************)
(* container_internal::raw_hash_set, the table of flat_hash_map and        *)
(* node_hash_set (turbo/container/internal/raw_hash_set.h and .cc): one    *)
(* control byte per slot, a probe by groups of control bytes, tombstones   *)
(* only where a probe may have passed, and a count of the empty slots that *)
(* may still be filled.  Release build, without generations.  A key is     *)
(* <<H1 bits, H2 bits, name>>: keys may share a hash value.                *)
(***************************************************************************)
EXTENDS Integers, FiniteSets, SequencesExt, Bitwise

CONSTANTS
  Keys,
  kWidth,             \* Group::kWidth
  LoadUnit,           \* 8: a table is filled to 7/8
  Sizes,              \* arguments of rehash() and reserve()
  Salts,              \* what PerTableSalt() can be, in the bits that matter
  MaxCapacity,        \* bound: no operation grows the table further
  None

VARIABLES
  soo_enabled,        \* SooEnabled()
  common,             \* CommonFields and the arrays it points to
  contents            \* history: the keys a std::unordered_set would have

vars == <<soo_enabled, common, contents>>

kEmpty == -128
kDeleted == -2
kSentinel == -1
IsFull(h) == h >= 0
H2(k) == k[2]
H1(c, k) == IF c.salt = 0 THEN k[1] ELSE k[1] ^^ c.salt

SooCapacity == 1
NumClonedBytes == kWidth - 1
is_small(cap) == cap < kWidth - 1
is_single_group(cap) == cap <= kWidth
NextCapacity(n) == n * 2 + 1
NormalizeCapacity(n) == 2 ^ (CHOOSE b \in 1..n + 1 : 2 ^ b > n /\ 2 ^ (b - 1) <= Max({n, 1})) - 1
CapacityToGrowth(cap) ==
  IF kWidth = LoadUnit /\ cap = LoadUnit - 1 THEN LoadUnit - 2 ELSE cap - cap \div LoadUnit
GrowthToLowerboundCapacity(n) ==
  IF kWidth = LoadUnit /\ n = LoadUnit - 1 THEN LoadUnit
  ELSE n + (Max({n, 1}) - 1) \div (LoadUnit - 1)
IsGrowingIntoSingleGroupApplicable(old, new) == is_single_group(new) /\ old < new

-----------------------------------------------------------------------------
(* Control bytes: one per slot, the sentinel, the clones of the first ones. *)

Full(c) == {i \in 0..c.capacity - 1 : IsFull(c.ctrl[i])}
Tombstones(c) == {i \in 0..c.capacity - 1 : c.ctrl[i] = kDeleted}
is_soo(c) == soo_enabled /\ c.capacity <= SooCapacity
IsEmptyOrDeleted(h) == h < kSentinel

\* The masks of the Group of kWidth control bytes at pos.
MaskEmpty(c, pos) == {i \in 0..kWidth - 1 : c.ctrl[pos + i] = kEmpty}
MaskEmptyOrDeleted(c, pos) == {i \in 0..kWidth - 1 : IsEmptyOrDeleted(c.ctrl[pos + i])}

ResetCtrl(cap) ==
  [i \in 0..cap + NumClonedBytes |-> IF i = cap THEN kSentinel ELSE kEmpty]

SetCtrl(c, i, h) ==
  LET clone == ((i - NumClonedBytes) % (c.capacity + 1)) + Min({NumClonedBytes, c.capacity})
  IN  [c EXCEPT !.ctrl = [@ EXCEPT ![i] = h, ![clone] = h]]

Put(c, i, k) == [SetCtrl(c, i, H2(k)) EXCEPT !.slots[i] = k]

ResetGrowthLeft(c) ==
  [c EXCEPT !.growth_left = CapacityToGrowth(c.capacity) - c.size, !.deleted = FALSE]

OverwriteControlAsFull(c, i) ==
  [c EXCEPT !.growth_left = @ - (IF c.ctrl[i] = kEmpty THEN 1 ELSE 0)]

\* probe_seq: the offset after j calls of next(), and the offset of its i-th slot.
probe(c, k, j) == (H1(c, k) + kWidth * ((j * (j + 1)) \div 2)) % (c.capacity + 1)
Slot(c, k, j, i) == (probe(c, k, j) + i) % (c.capacity + 1)
Probes(c) == 0..c.capacity \div kWidth       \* index() <= capacity: "full table!"

find_first_non_full(c, k) ==
  IF IsEmptyOrDeleted(c.ctrl[probe(c, k, 0)]) THEN probe(c, k, 0)
  ELSE LET j == Min({n \in Probes(c) : MaskEmptyOrDeleted(c, probe(c, k, n)) # {}})
       IN  Slot(c, k, j, Min(MaskEmptyOrDeleted(c, probe(c, k, j))))

\* find_non_soo: the probes up to the first group with an empty slot, and the slots of
\* their groups whose control byte matches.
Probed(c, k) ==
  {j \in Probes(c) : \A n \in 0..j - 1 : MaskEmpty(c, probe(c, k, n)) = {}}
Match(c, k, j) == {Slot(c, k, j, i) : i \in {n \in 0..kWidth - 1 : c.ctrl[probe(c, k, j) + n] = H2(k)}}
find_non_soo(c, k) ==
  {s \in UNION {Match(c, k, j) : j \in Probed(c, k)} : c.slots[s] = k}
find(c, k) ==
  IF is_soo(c) THEN {s \in {0} : c.size = 1 /\ c.slots[s] = k} ELSE find_non_soo(c, k)

-----------------------------------------------------------------------------
(* Growth.  A table without slots is CommonFields{}: the static empty group. *)

NewTable(cap, salt, size) ==
  ResetGrowthLeft([capacity |-> cap, size |-> size, growth_left |-> 0, deleted |-> FALSE,
                   ctrl |-> ResetCtrl(cap), slots |-> [i \in 0..cap - 1 |-> None],
                   salt |-> salt])
CreateDefault == NewTable(IF soo_enabled THEN SooCapacity ELSE 0, 0, 0)

Memset(f, from, n, h) == [i \in DOMAIN f |-> IF i \in from..from + n - 1 THEN h ELSE f[i]]
Memcpy(f, to, g, from, n) ==
  [i \in DOMAIN f |-> IF i \in to..to + n - 1 THEN g[from + i - to] ELSE f[i]]

InitControlBytesAfterSoo(c, h2) ==
  [c EXCEPT !.ctrl = [@ EXCEPT ![1] = h2, ![c.capacity + 2] = h2, ![c.capacity] = kSentinel]]

\* The bytes of the new array are the sentinel's until they are written.
GrowIntoSingleGroupShuffleControlBytes(old, new) ==
  LET kHalfWidth == kWidth \div 2
      half == old.capacity \div 2
      fresh == [i \in 0..new + NumClonedBytes |-> kSentinel]
      rotated == Memcpy(fresh, 0, old.ctrl, half + 1, kHalfWidth)
      cleaned == Memset([rotated EXCEPT ![half] = kEmpty], old.capacity + 1, kHalfWidth, kEmpty)
      padded == Memset(Memset(cleaned, kHalfWidth, kHalfWidth, kEmpty),
                       new + kHalfWidth, kHalfWidth, kEmpty)
  IN  [Memcpy(padded, new + 1, padded, 0, kHalfWidth) EXCEPT ![new] = kSentinel]

\* old slot i goes to i ^ shuffle_bit
GrowSizeIntoSingleGroup(old, c) ==
  [c EXCEPT !.slots =
     [n \in 0..c.capacity - 1 |->
        LET i == n ^^ (old.capacity \div 2 + 1)
        IN  IF i < old.capacity /\ IsFull(old.ctrl[i]) THEN old.slots[i] ELSE None]]

\* Every element of the old table is inserted into the empty new one.
Reinsert(old, c) ==
  FoldLeft(LAMBDA t, i : Put(t, find_first_non_full(t, old.slots[i]), old.slots[i]),
           c, SetToSortSeq(Full(old), LAMBDA i, j : i < j))

resize(old, cap, salt) ==
  LET c == NewTable(cap, salt, old.size)
      single == IsGrowingIntoSingleGroupApplicable(old.capacity, cap)
  IN  CASE is_soo(old) /\ old.size = 0 -> c
        [] is_soo(old) /\ old.size = 1 /\ single ->
             [InitControlBytesAfterSoo(c, H2(old.slots[0])) EXCEPT !.slots[1] = old.slots[0]]
        [] is_soo(old) /\ old.size = 1 /\ ~single ->
             Put(c, find_first_non_full(c, old.slots[0]), old.slots[0])
        [] ~is_soo(old) /\ old.capacity = 0 -> c
        [] ~is_soo(old) /\ old.capacity > 0 /\ single ->
             GrowSizeIntoSingleGroup(old,
               [c EXCEPT !.ctrl = GrowIntoSingleGroupShuffleControlBytes(old, cap)])
        [] OTHER -> Reinsert(old, c)

FindFirstNonFullAfterResize(c, old_capacity, k) ==
  IF ~IsGrowingIntoSingleGroupApplicable(old_capacity, c.capacity) THEN find_first_non_full(c, k)
  ELSE IF probe(c, k, 0) \in old_capacity + 1..2 * old_capacity THEN probe(c, k, 0)
  ELSE old_capacity \div 2

-----------------------------------------------------------------------------
(* Rehash in place: full slots are marked deleted, then put where a probe    *)
(* for them would now find them.                                             *)

ConvertDeletedToEmptyAndFullToDeleted(c) ==
  LET new == [i \in 0..c.capacity - 1 |-> IF IsFull(c.ctrl[i]) THEN kDeleted ELSE kEmpty]
      all == [i \in 0..c.capacity + NumClonedBytes |->
                IF i = c.capacity THEN kSentinel ELSE new[i % (c.capacity + 1)]]
  IN  [c EXCEPT !.ctrl = all]

Unknown == -1
FindEmptySlot(c, from) == Min({i \in from..c.capacity - 1 : c.ctrl[i] = kEmpty})
ProbeIndex(c, k, pos) == ((pos - probe(c, k, 0)) % (c.capacity + 1)) \div kWidth

\* The elements of slots i and j change places through the slot tmp.
SwapThrough(c, i, j, tmp) ==
  LET s1 == [c.slots EXCEPT ![tmp] = c.slots[j]]
      s2 == [s1 EXCEPT ![j] = s1[i]]
      s3 == [s2 EXCEPT ![i] = s2[tmp]]
  IN  [c EXCEPT !.slots = [s3 EXCEPT ![tmp] = None]]

RECURSIVE DropFrom(_, _, _)
DropFrom(c, i, tmp) ==
  IF i = c.capacity THEN c
  ELSE IF c.ctrl[i] = kEmpty THEN DropFrom(c, i + 1, i)
  ELSE IF c.ctrl[i] # kDeleted THEN DropFrom(c, i + 1, tmp)
  ELSE LET k == c.slots[i]
           new_i == find_first_non_full(c, k)
           space == IF tmp = Unknown THEN FindEmptySlot(c, i + 1) ELSE tmp
       IN  IF ProbeIndex(c, k, new_i) = ProbeIndex(c, k, i)
           THEN DropFrom(SetCtrl(c, i, H2(k)), i + 1, tmp)
           ELSE IF c.ctrl[new_i] = kEmpty
           THEN DropFrom([SetCtrl(Put(c, new_i, k), i, kEmpty) EXCEPT !.slots[i] = None], i + 1, i)
           ELSE DropFrom(SwapThrough(SetCtrl(c, new_i, H2(k)), i, new_i, space), i, space)

DropDeletesWithoutResize(c) ==
  ResetGrowthLeft(DropFrom(ConvertDeletedToEmptyAndFullToDeleted(c), 0, Unknown))

\* (wrong) an empty slot behind it is taken to be enough
WasNeverFullBehind(c, index) ==
  is_single_group(c.capacity) \/ MaskEmpty(c, index) # {}

\* Whether every probe that could have passed the slot met an empty one before.
WasNeverFull(c, index) ==
  \/ is_single_group(c.capacity)
  \/ LET after == MaskEmpty(c, index)
         before == MaskEmpty(c, (index - kWidth) % (c.capacity + 1))
     IN  /\ before # {} /\ after # {}
         /\ Min(after) + (kWidth - 1 - Max(before)) < kWidth

EraseMetaOnly(c, index) ==
  LET gone == [c EXCEPT !.size = @ - 1, !.slots[index] = None]
  IN  IF WasNeverFull(c, index)
      THEN [SetCtrl(gone, index, kEmpty) EXCEPT !.growth_left = @ + 1]
      ELSE [SetCtrl(gone, index, kDeleted) EXCEPT !.deleted = TRUE]

-----------------------------------------------------------------------------
FindInsertPositionWithGrowthOrRehash(c, salt) ==
  IF c.capacity > kWidth /\ c.size * 32 <= c.capacity * 25
  THEN DropDeletesWithoutResize(c)
  ELSE resize(c, NextCapacity(c.capacity), salt)

\* Fill the target, counting it.
PrepareInsert(c, target, k) ==
  Put([OverwriteControlAsFull(c, target) EXCEPT !.size = @ + 1], target, k)

PrepareInsertNonSoo(c, target, k, salt) ==
  CASE ~c.deleted /\ c.growth_left > 0 -> PrepareInsert(c, target, k)
    [] ~c.deleted /\ c.growth_left = 0 ->
         LET grown == resize(c, NextCapacity(c.capacity), salt)
         IN  PrepareInsert(grown, FindFirstNonFullAfterResize(grown, c.capacity, k), k)
    [] c.deleted /\ c.growth_left > 0 -> PrepareInsert(c, find_first_non_full(c, k), k)
    [] c.deleted /\ c.growth_left = 0 ->
         LET room == FindInsertPositionWithGrowthOrRehash(c, salt)
         IN  PrepareInsert(room, find_first_non_full(room, k), k)

\* After the slot 1 of the former inline element: slot 0 or 2.
PrepareInsertAfterSoo(c, k) ==
  LET offset == IF (H1(c, k) \div 2) % 2 = 1 THEN 2 ELSE 0
      counted == [c EXCEPT !.size = @ + 1, !.growth_left = @ - 1]
  IN  [counted EXCEPT
         !.ctrl = [@ EXCEPT ![offset] = H2(k), ![offset + c.capacity + 1] = H2(k)],
         !.slots[offset] = k]

find_or_prepare_insert(c, k, salt) ==
  IF is_soo(c)
  THEN IF c.size = 0 THEN [c EXCEPT !.size = 1, !.slots[0] = k]
       ELSE PrepareInsertAfterSoo(resize(c, NextCapacity(SooCapacity), salt), k)
  ELSE LET j == Max(Probed(c, k))
           target == Slot(c, k, j, Min(MaskEmpty(c, probe(c, k, j))))
       IN  PrepareInsertNonSoo(c, target, k, salt)

Init ==
  /\ soo_enabled \in BOOLEAN
  /\ common = CreateDefault /\ contents = {}

insert(k, salt) ==
  /\ common' = IF find(common, k) = {} THEN find_or_prepare_insert(common, k, salt) ELSE common
  /\ contents' = contents \cup {k}

erase(k) ==
  /\ common' = IF find(common, k) = {} THEN common
               ELSE IF is_soo(common) THEN [common EXCEPT !.size = 0, !.slots[0] = None]
               ELSE EraseMetaOnly(common, CHOOSE i \in find(common, k) : TRUE)
  /\ contents' = contents \ {k}

ClearBackingArray(c, reuse) ==
  IF reuse THEN NewTable(c.capacity, c.salt, 0) ELSE CreateDefault

clear ==
  /\ common' = IF common.capacity = 0 THEN common
               ELSE IF is_soo(common) THEN [common EXCEPT !.size = 0, !.slots[0] = None]
               ELSE ClearBackingArray(common, common.capacity < 128)
  /\ contents' = {}

rehash(n, salt) ==
  LET m == NormalizeCapacity(Max({n, GrowthToLowerboundCapacity(common.size)}))
      one == CHOOSE i \in Full(common) : TRUE
  IN  /\ common' =
           CASE n = 0 /\ (common.capacity = 0 \/ is_soo(common)) -> common
             [] n = 0 /\ common.capacity > 0 /\ ~is_soo(common) /\ common.size = 0 ->
                  ClearBackingArray(common, FALSE)
             [] n = 0 /\ soo_enabled /\ ~is_soo(common) /\ common.size = 1 ->
                  [CreateDefault EXCEPT !.size = 1, !.slots[0] = common.slots[one]]
             [] OTHER -> IF n = 0 \/ m > common.capacity THEN resize(common, m, salt) ELSE common
      /\ UNCHANGED contents

reserve(n, salt) ==
  LET room == IF is_soo(common) THEN SooCapacity ELSE common.size + common.growth_left
  IN  /\ common' = IF n > room THEN resize(common, NormalizeCapacity(GrowthToLowerboundCapacity(n)), salt)
                   ELSE common
      /\ UNCHANGED contents

\* operator=(const raw_hash_set&) of a copy of the table itself.
Copy(that, salt) ==
  LET buckets == GrowthToLowerboundCapacity(that.size)
      c == IF buckets > (IF soo_enabled THEN SooCapacity ELSE 0)
           THEN resize(CreateDefault, NormalizeCapacity(buckets), salt) ELSE CreateDefault
      shift == IF salt % 2 = 1 THEN salt ELSE salt + 1
      full == SetToSortSeq(Full(that), LAMBDA i, j : i < j)
      Target(t, n) == IF is_single_group(t.capacity) THEN (t.capacity + n * shift) % (t.capacity + 1)
                      ELSE find_first_non_full(t, that.slots[full[n]])
  IN  IF that.size = 0 THEN c
      ELSE IF soo_enabled /\ that.size = 1
      THEN [c EXCEPT !.size = 1, !.slots[0] = IF is_soo(that) THEN that.slots[0] ELSE that.slots[full[1]]]
      ELSE [FoldLeft(LAMBDA t, n : Put(t, Target(t, n), that.slots[full[n]]), c, [n \in 1..that.size |-> n])
              EXCEPT !.size = that.size, !.growth_left = @ - that.size]

assign(salt) == common' = Copy(common, salt) /\ UNCHANGED contents

Next ==
  /\ UNCHANGED soo_enabled
  /\ \E salt \in Salts :
       \/ \E k \in Keys : insert(k, salt) \/ erase(k)
       \/ \E n \in Sizes : rehash(n, salt) \/ reserve(n, salt)
       \/ assign(salt)
       \/ clear
  /\ common'.capacity <= MaxCapacity

Spec == Init /\ [][Next]_vars

-----------------------------------------------------------------------------
\* find() finds a key exactly when it was inserted and not erased since.
FindsContents == \A k \in Keys : (find(common, k) # {}) = (k \in contents)

\* A probe ends, the counts are right, the clones are true, no tombstone in one group.
TableSound ==
  ~is_soo(common) =>
    /\ common.size = Cardinality(contents) /\ common.size = Cardinality(Full(common))
    /\ common.growth_left = (IF common.capacity = 0 THEN 0 ELSE CapacityToGrowth(common.capacity))
                              - common.size - Cardinality(Tombstones(common))
    /\ common.growth_left >= 0
    /\ Tombstones(common) # {} => common.deleted /\ ~is_single_group(common.capacity)
    /\ \A i \in 0..common.capacity + NumClonedBytes :
         common.ctrl[i] =
           IF i = common.capacity THEN kSentinel
           ELSE IF i <= 2 * common.capacity THEN common.ctrl[i % (common.capacity + 1)]
           ELSE kEmpty
    /\ \A k \in Keys : \E j \in Probes(common) : MaskEmpty(common, probe(common, k, j)) # {}
=============================================================================
