------------------------------ MODULE FlatMap ------------------------------
(***************************************************************************)
(* FlatMap (turbo/container/flat_map.h and flat_map_inl.h): a hash table   *)
(* with chained buckets, MultiFlatMap and SparseFlatMap included, and the  *)
(* bit array in which a sparse map marks its valid buckets.  One user at a *)
(* time; an iteration in several passes lets others in between.            *)
(***************************************************************************)
EXTENDS Naturals, SequencesExt

CONSTANTS
  Keys, Values,
  Hash,             \* _hashfn of a key
  Kinds,            \* [multi, sparse, stray]: the template's parameters, and whether malloc()
                    \* returns words with bits set, which matters beyond the last bucket
  WordBits,         \* bits of a word of the bit array
  LoadFactor,       \* _load_factor, in percent
  Requests,         \* arguments of init() and resize()
  MaxBuckets, MaxSize,  \* bounds
  None

VARIABLES
  kind,
  map,              \* nbucket, buckets: a chain of elements each, thumbnail: its 1-bits, size
  hint,             \* PositionHint of the iteration under way, or None
  keys,             \* keys it has visited
  staying,          \* history: keys that have been there since it began
  missed,           \* history: those of them that it did not visit, at its end
  contents          \* history: how often each element was inserted and not erased

vars == <<kind, map, hint, keys, staying, missed, contents>>

-----------------------------------------------------------------------------
(* The bit array *)

Word(i) == i \div WordBits

bit_array_first1(array, begin, end) ==
  LET first == Word(begin) * WordBits
      v == {i \in array : Word(i) = Word(begin) /\ i >= begin}
      off1 == IF first # begin THEN Word(begin) + 1 ELSE Word(begin)
      full == {i \in array : Word(i) \in off1..(Word(end) - 1)}
      last == {i \in array : Word(i) = Word(end)}
  IN  IF first # begin /\ v # {} THEN Min({Min(v), end})
      ELSE IF full # {} THEN Min(full)
      ELSE IF Word(end) * WordBits # end /\ last # {} THEN Min({Min(last), end})
      ELSE end

\* bit_array_malloc() and bit_array_clear(): the bits of the last word behind nbit stay.
Cleared(nbit) == IF kind.stray THEN {i \in nbit..(nbit + WordBits) : nbit % WordBits # 0 /\ Word(i) = Word(nbit)} ELSE {}

-----------------------------------------------------------------------------
(* The table *)

flatmap_round(nbucket) == IF nbucket <= 8 THEN 8 ELSE 2 ^ Min({b \in 0..nbucket : 2 ^ b >= nbucket})
flatmap_mod(hash_code, nbucket) == hash_code % nbucket
is_too_crowded(size, nbucket) == size * 100 >= nbucket * LoadFactor

NewMap(nbucket) ==
  [nbucket |-> flatmap_round(nbucket), size |-> 0,
   buckets |-> [i \in 0..(flatmap_round(nbucket) - 1) |-> <<>>],
   thumbnail |-> IF kind.sparse THEN Cleared(flatmap_round(nbucket)) ELSE {}]

\* find_and_set_valid_node() of both iterators; bucket nbucket is the end.
Valid(m, i) ==
  IF i = m.nbucket \/ m.buckets[i] # <<>> THEN i
  ELSE IF kind.sparse THEN bit_array_first1(m.thumbnail, i + 1, m.nbucket)
  ELSE Min({j \in i..m.nbucket : j = m.nbucket \/ m.buckets[j] # <<>>})

RECURSIVE WalkFrom(_, _)
WalkFrom(m, i) == IF i = m.nbucket THEN <<>> ELSE m.buckets[i] \o WalkFrom(m, Valid(m, i + 1))
Walk(m) == WalkFrom(m, Valid(m, 0))

Chain(m, k) == m.buckets[flatmap_mod(Hash[k], m.nbucket)]
Places(c, k) == {j \in DOMAIN c : c[j][1] = k}
seek(m, k) == LET c == Chain(m, k) IN IF Places(c, k) = {} THEN None ELSE c[Min(Places(c, k))][2]
seek_all(m, k) == LET c == Chain(m, k) IN SelectSeq(c, LAMBDA e : e[1] = k)

SetChain(m, i, c, size) ==
  [m EXCEPT !.buckets[i] = c, !.size = size,
            !.thumbnail = IF ~kind.sparse THEN {} ELSE IF c = <<>> THEN @ \ {i} ELSE @ \cup {i}]

\* insert(): operator[] of either kind, and the assignment through what it returns.
RECURSIVE Inserted(_, _), Resized(_, _)
Inserted(m, e) ==
  LET i == flatmap_mod(Hash[e[1]], m.nbucket)
      c == m.buckets[i]
      at == Places(c, e[1])
      collides == IF kind.multi THEN at # DOMAIN c ELSE at = {}
  IN  IF c = <<>> THEN SetChain(m, i, <<e>>, m.size + 1)
      ELSE IF ~kind.multi /\ at # {} THEN SetChain(m, i, [c EXCEPT ![Min(at)] = e], m.size)
      ELSE IF collides /\ is_too_crowded(m.size, m.nbucket) THEN Inserted(Resized(m, m.nbucket + 1), e)
      ELSE SetChain(m, i, IF kind.multi THEN <<c[1], e>> \o Tail(c) ELSE Append(c, e), m.size + 1)

Resized(m, nbucket) ==
  IF flatmap_round(nbucket) = m.nbucket THEN m
  ELSE FoldLeft(Inserted, NewMap(nbucket), Walk(m))

Erased(m, k) ==
  LET i == flatmap_mod(Hash[k], m.nbucket)
      c == m.buckets[i]
      rest == SelectSeq(c, LAMBDA e : e[1] # k)
  IN  IF rest = c THEN m ELSE SetChain(m, i, rest, m.size - (Len(c) - Len(rest)))

Emptied(m) == IF m.size = 0 THEN m ELSE NewMap(m.nbucket)

\* operator=() of m to an empty map with n buckets, or to one without init() if n is 0.
Assigned(m, n) ==
  LET to == NewMap(IF n = 0 \/ is_too_crowded(m.size, flatmap_round(n)) THEN m.nbucket ELSE n)
  IN  IF to.nbucket = m.nbucket
      THEN [to EXCEPT !.buckets = m.buckets, !.size = m.size,
                      !.thumbnail = IF kind.sparse THEN @ \cup {i \in DOMAIN m.buckets : m.buckets[i] # <<>>} ELSE {}]
      ELSE FoldLeft(Inserted, to, Walk(m))

-----------------------------------------------------------------------------
(* Iteration in several passes.  An iterator is a bucket and a place in its chain. *)

AtBucket(m, i) == <<Valid(m, i), 1>>
begin(m) == AtBucket(m, 0)
end(m) == <<m.nbucket, 1>>
Increment(m, it) ==
  IF it[2] = Len(m.buckets[it[1]]) THEN AtBucket(m, it[1] + 1) ELSE <<it[1], it[2] + 1>>

save_iterator(m, it) ==
  [nbucket |-> m.nbucket, offset |-> it[1], at_entry |-> it[2] = 1, key |-> m.buckets[it[1]][it[2]][1]]

restore_iterator(m, h) ==
  IF h.nbucket # m.nbucket THEN begin(m)
  ELSE IF h.offset >= m.nbucket THEN end(m)
  ELSE IF h.at_entry THEN AtBucket(m, h.offset)
  ELSE IF m.buckets[h.offset] = <<>> THEN AtBucket(m, h.offset + 1)
  ELSE LET at == Places(m.buckets[h.offset], h.key)
       IN  IF at # {} THEN <<h.offset, Min(at)>> ELSE AtBucket(m, h.offset)

-----------------------------------------------------------------------------
(* What users do *)

Elements == Keys \X Values
Present == {k \in Keys : \E v \in Values : contents[<<k, v>>] > 0}

Init ==
  /\ kind \in Kinds
  /\ \E n \in Requests \ {0} : map = NewMap(n)
  /\ hint = None /\ keys = {} /\ staying = {} /\ missed = {}
  /\ contents = [e \in Elements |-> 0]

\* An iteration that finds its hint as it left it visits what has been there all along,
\* unless the map was resized and back, or the key of the hint came anew, behind others.
Becomes(m, gone) ==
  LET back == m.nbucket = hint.nbucket /\ map.nbucket # m.nbucket
      anew == m.nbucket = hint.nbucket /\ hint.key \notin Present /\ seek(m, hint.key) # None
  IN  /\ m.nbucket <= MaxBuckets /\ m.size <= MaxSize
      /\ map' = m
      /\ staying' = IF hint = None \/ back THEN {}
                    ELSE IF anew /\ ~hint.at_entry THEN {k \in staying : Chain(m, k) # Chain(m, hint.key)}
                    ELSE staying \ gone
      /\ UNCHANGED <<kind, hint, keys, missed>>

insert(k, v) ==
  /\ Becomes(Inserted(map, <<k, v>>), {})
  /\ contents' = IF kind.multi THEN [contents EXCEPT ![<<k, v>>] = @ + 1]
                 ELSE [e \in Elements |-> IF e[1] # k THEN contents[e] ELSE IF e[2] = v THEN 1 ELSE 0]

erase(k) ==
  /\ Becomes(Erased(map, k), {k})
  /\ contents' = [e \in Elements |-> IF e[1] = k THEN 0 ELSE contents[e]]

clear == Becomes(Emptied(map), Keys) /\ contents' = [e \in Elements |-> 0]
resize(n) == Becomes(Resized(map, n), {}) /\ UNCHANGED contents

\* The copy is used from now on; hints are of the map they were taken from.
assign(n) == hint = None /\ Becomes(Assigned(map, n), {}) /\ UNCHANGED contents

\* The loop in the comment of save_iterator(), with one element per pass.  Only for maps that
\* are neither sparse nor multi: the others do not give it access to their iterators.
StartIteration ==
  /\ hint = None /\ ~kind.multi /\ ~kind.sparse
  /\ begin(map) # end(map)
  /\ hint' = save_iterator(map, begin(map))
  /\ keys' = {} /\ staying' = Present /\ missed' = {}
  /\ UNCHANGED <<kind, map, contents>>

Pass ==
  LET it == restore_iterator(map, hint)
      before == IF it = begin(map) THEN {} ELSE keys
      visited == IF it = end(map) THEN before ELSE before \cup {map.buckets[it[1]][it[2]][1]}
      next == IF it = end(map) THEN it ELSE Increment(map, it)
  IN  /\ hint # None
      /\ IF next = end(map)
         THEN hint' = None /\ keys' = {} /\ staying' = {} /\ missed' = staying \ visited
         ELSE hint' = save_iterator(map, next) /\ keys' = visited /\ UNCHANGED <<staying, missed>>
      /\ UNCHANGED <<kind, map, contents>>

Next ==
  \/ \E k \in Keys : (\E v \in Values : insert(k, v)) \/ erase(k)
  \/ clear
  \/ \E n \in Requests : resize(n) \/ assign(n)
  \/ StartIteration \/ Pass

Spec == Init /\ [][Next]_vars

-----------------------------------------------------------------------------
\* A map finds, and walks over, what was inserted and not erased.
FindsContents ==
  /\ \A k \in Keys : LET all == seek_all(map, k)
                     IN  /\ \A v \in Values : Cardinality({j \in DOMAIN all : all[j] = <<k, v>>}) = contents[<<k, v>>]
                         /\ seek(map, k) = IF all = <<>> THEN None ELSE all[1][2]
  /\ LET walk == Walk(map) 
     IN  /\ Len(walk) = map.size
         /\ \A e \in Elements : Cardinality({j \in DOMAIN walk : walk[j] = e}) = contents[e]

\* An iteration in several passes visits every key that is there from its begin to its end.
VisitsStaying == missed = {}

\* What the comment of bit_array_first1() says, for the ranges in which a map searches: "Find
\* index of first 1-bit from bit |begin| to |end| in |array|. Returns |end| if all bits are 0."
FirstOneInRange ==
  \A i \in 0..map.nbucket :
    bit_array_first1(map.thumbnail, i, map.nbucket)
      = Min({j \in i..map.nbucket : j = map.nbucket \/ j \in map.thumbnail})

-----------------------------------------------------------------------------
\* Keys are their hash codes; a sparse map, with what malloc() may return.
MCHash == [k \in Keys |-> k]
MCSparse == [multi : {FALSE}, sparse : {TRUE}, stray : BOOLEAN]
=============================================================================
