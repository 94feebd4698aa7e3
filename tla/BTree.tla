------------------------------- MODULE BTree -------------------------------
(***************************************************************************)
(* The B-tree behind turbo::btree_set, btree_map and their multi variants  *)
(* (turbo/container/internal/btree.h).                                     *)
(*                                                                         *)
(* A tree is a store of nodes: vals are the slots [start, finish) of a     *)
(* node, kids its children, max its max_count() (0 for an internal node).  *)
(* The leftmost leaf is the parent of the root, as in the code.  Positions *)
(* are counted from 0, as in the code; the slot at position p is vals[p+1].*)
(* Keys stand for values.  An iterator is a pair of a node and a position. *)
(***************************************************************************)
EXTENDS Integers, FiniteSets, SequencesExt

CONSTANTS
    kNodeSlots,   \* slots of a full-size node, at least kMinNodeSlots = 4
    MaxNodes,     \* bound: nodes that may be allocated at one time
    Keys,         \* the keys the callers use
    Starts,       \* bound: <<keys inserted first, operations that follow>>
    Modes,        \* <<multi, compare_to>>: the instantiations of the template
    None

VARIABLES
    mode,         \* multi: duplicate keys; compare_to: three-way comparison
    tree,         \* root_, rightmost_, size_ and the nodes
    returned,     \* the iterator the last operation returned
    contents,     \* history: the values in order
    rank,         \* history: how many values precede the one to be returned
    budget        \* bound: operations still to come

vars == <<mode, tree, returned, contents, rank, budget>>

kMinNodeValues == kNodeSlots \div 2
EmptyNode == 0

Take(s, k) == [i \in 1 .. (IF k < Len(s) THEN k ELSE Len(s)) |-> s[i]]
Drop(s, k) == SubSeq(s, k + 1, Len(s))
LargerOf(a, b) == IF a > b THEN a ELSE b
SmallerOf(a, b) == IF a < b THEN a ELSE b

-----------------------------------------------------------------------------
(* Nodes *)

It(n, p) == [n |-> n, p |-> p]
count(t, n) == Len(t.node[n].vals)
is_leaf(t, n) == t.node[n].max # 0
is_root(t, n) == is_leaf(t, t.node[n].parent)
child(t, n, p) == t.node[n].kids[p + 1]
key(t, it) == t.node[it.n].vals[it.p + 1]

\* An empty tree: root_ and rightmost_ are the shared EmptyNode, a leaf whose
\* parent is itself.
NoTree ==
    [root |-> EmptyNode, rightmost |-> EmptyNode, size |-> 0,
     node |-> [n \in {EmptyNode} |->
         [max |-> 1, vals |-> <<>>, kids |-> <<>>, parent |-> n, pos |-> 0]]]

\* The address the allocator hands out next.
Fresh(t) == CHOOSE n \in 1 .. MaxNodes :
                /\ n \notin DOMAIN t.node
                /\ \A m \in 1 .. n - 1 : m \in DOMAIN t.node

new_node(t, max, parent, pos) ==
    LET q == Fresh(t)
    IN  [t EXCEPT !.node = [n \in DOMAIN t.node \cup {q} |->
             IF n # q THEN t.node[n]
             ELSE [max |-> max, vals |-> <<>>, kids |-> <<>>,
                   parent |-> parent, pos |-> pos]]]

\* new_leaf_root_node: the root is a leaf, its parent (the leftmost leaf) itself.
new_leaf_root_node(t, max) ==
    LET q == Fresh(t)
    IN  [new_node(t, max, q, 0) EXCEPT !.root = q, !.rightmost = q]

deallocate(t, gone) ==
    [t EXCEPT !.node = [n \in DOMAIN t.node \ gone |-> t.node[n]]]

RECURSIVE Below(_, _)
Below(t, n) == {n} \cup UNION {Below(t, c) : c \in Range(t.node[n].kids)}

\* clear_and_delete: an internal node without values goes alone, its children
\* having been moved; any other takes its whole subtree along.
clear_and_delete(t, n) ==
    deallocate(t, IF count(t, n) = 0 THEN {n} ELSE Below(t, n))

\* init_child(i, c) and set_child(i, c) for every child of n.
init_children(t, n, kids) ==
    [t EXCEPT !.node = [m \in DOMAIN t.node |->
        LET at == {i \in DOMAIN kids : kids[i] = m}
            s  == IF m = n THEN [t.node[m] EXCEPT !.kids = kids] ELSE t.node[m]
        IN  IF at = {} THEN s
            ELSE [s EXCEPT !.parent = n, !.pos = (CHOOSE i \in at : TRUE) - 1]]]

\* emplace_value, with the child the caller puts to the right of the value.
emplace_value(t, n, i, v, right) ==
    LET t1 == [t EXCEPT !.node[n].vals = InsertAt(@, i + 1, v)]
    IN  IF right = None THEN t1
        ELSE init_children(t1, n, InsertAt(t.node[n].kids, i + 2, right))

RECURSIVE clear_and_delete_all(_, _)
clear_and_delete_all(t, ns) ==
    IF ns = <<>> THEN t
    ELSE clear_and_delete_all(clear_and_delete(t, Head(ns)), Tail(ns))

\* remove_values: k values from position i, and in an internal node the
\* subtrees to the right of each of them.
remove_values(t, n, i, k) ==
    LET kids == t.node[n].kids
        t1 == [t EXCEPT !.node[n].vals = Take(@, i) \o Drop(@, i + k)]
    IN  IF is_leaf(t, n) THEN t1
        ELSE init_children(
                 clear_and_delete_all(t1, SubSeq(kids, i + 2, i + k + 1)),
                 n, Take(kids, i + 1) \o Drop(kids, i + k + 1))

\* The value of the parent between a node and its right sibling.
Delimiter(t, n) == t.node[t.node[n].parent].vals[t.node[n].pos + 1]

rebalance_right_to_left(t, left, right, to_move) ==
    LET l == t.node[left]
        r == t.node[right]
        t1 == [t EXCEPT
            !.node[left].vals = @ \o <<Delimiter(t, left)>> \o Take(r.vals, to_move - 1),
            !.node[l.parent].vals[l.pos + 1] = r.vals[to_move],
            !.node[right].vals = Drop(@, to_move)]
    IN  init_children(init_children(t1, left, l.kids \o Take(r.kids, to_move)),
                      right, Drop(r.kids, to_move))

rebalance_left_to_right(t, left, right, to_move) ==
    LET l == t.node[left]
        r == t.node[right]
        keep == Len(l.vals) - to_move
        t1 == [t EXCEPT
            !.node[right].vals = Drop(l.vals, keep + 1) \o <<Delimiter(t, left)>> \o @,
            !.node[l.parent].vals[l.pos + 1] = l.vals[keep + 1],
            !.node[left].vals = Take(@, keep)]
    IN  init_children(init_children(t1, left, Take(l.kids, keep + 1)),
                      right, Drop(l.kids, keep + 1) \o r.kids)

\* split: the values that move to dest depend on where the insertion is; the
\* largest that stays becomes the delimiter in the parent.
split(t, n, insert_position, dest) ==
    LET s == t.node[n]
        moved == CASE insert_position = 0 -> Len(s.vals) - 1
                   [] insert_position = kNodeSlots -> 0
                   [] OTHER -> Len(s.vals) \div 2
        keep == Len(s.vals) - moved
        t1 == [t EXCEPT !.node[n].vals = Take(@, keep - 1),
                        !.node[dest].vals = Drop(s.vals, keep)]
        t2 == emplace_value(t1, s.parent, s.pos, s.vals[keep], dest)
    IN  init_children(init_children(t2, n, Take(s.kids, keep)),
                      dest, Drop(s.kids, keep))

merge(t, left, src) ==
    LET l == t.node[left]
        s == t.node[src]
        t1 == [t EXCEPT
            !.node[left].vals = @ \o <<Delimiter(t, left)>> \o s.vals,
            !.node[src].vals = <<>>, !.node[src].kids = <<>>]
    IN  remove_values(init_children(t1, left, l.kids \o s.kids), l.parent, l.pos, 1)

-----------------------------------------------------------------------------
(* Iterators *)

RECURSIVE LeftmostBelow(_, _)
LeftmostBelow(t, n) == IF is_leaf(t, n) THEN n ELSE LeftmostBelow(t, child(t, n, 0))

RECURSIVE RightmostBelow(_, _)
RightmostBelow(t, n) ==
    IF is_leaf(t, n) THEN n ELSE RightmostBelow(t, child(t, n, count(t, n)))

begin(t) == It(t.node[t.root].parent, 0)
end(t) == It(t.rightmost, count(t, t.rightmost))

\* Up from the end of a node to the first ancestor that has a value there.
RECURSIVE UpRight(_, _)
UpRight(t, it) ==
    IF it.p = count(t, it.n) /\ ~is_root(t, it.n)
    THEN UpRight(t, It(t.node[it.n].parent, t.node[it.n].pos))
    ELSE it

RECURSIVE UpLeft(_, _)
UpLeft(t, it) ==
    IF it.p < 0 /\ ~is_root(t, it.n)
    THEN UpLeft(t, It(t.node[it.n].parent, t.node[it.n].pos - 1))
    ELSE it

increment(t, it) ==
    IF ~is_leaf(t, it.n) THEN It(LeftmostBelow(t, child(t, it.n, it.p + 1)), 0)
    ELSE LET next == It(it.n, it.p + 1)
             up == UpRight(t, next)
         IN  IF up.p = count(t, up.n) THEN next ELSE up

decrement(t, it) ==
    IF ~is_leaf(t, it.n)
    THEN LET n == RightmostBelow(t, child(t, it.n, it.p)) IN It(n, count(t, n) - 1)
    ELSE LET prev == It(it.n, it.p - 1)
             up == UpLeft(t, prev)
         IN  IF up.p < 0 THEN prev ELSE up

\* internal_last: the value at a position found by a descent, None past the end.
RECURSIVE internal_last(_, _)
internal_last(t, it) ==
    IF it.p # count(t, it.n) THEN it
    ELSE LET s == t.node[it.n]
         IN  IF is_leaf(t, s.parent) THEN None ELSE internal_last(t, It(s.parent, s.pos))

internal_end(t, it) == IF it = None THEN end(t) ELSE it

\* distance_slow counts the values between two iterators by walking the leaves.
RECURSIVE operator_minus(_, _, _)
operator_minus(t, to, from) ==
    IF to = from THEN 0
    ELSE IF to.n = from.n /\ is_leaf(t, to.n) THEN to.p - from.p
    ELSE IF is_leaf(t, from.n)
    THEN count(t, from.n) - from.p
            + operator_minus(t, to, UpRight(t, It(from.n, count(t, from.n))))
    ELSE 1 + operator_minus(t, to, increment(t, from))

-----------------------------------------------------------------------------
(* Searching *)

\* btree_node::lower_bound and upper_bound.
node_lower_bound(t, n, k) == Cardinality({i \in 1 .. count(t, n) : t.node[n].vals[i] < k})
node_upper_bound(t, n, k) == Cardinality({i \in 1 .. count(t, n) : t.node[n].vals[i] <= k})

\* SearchResult::IsEq: only a three-way comparison tells a match on the way down.
IsEq(t, it, k) == mode.compare_to /\ it.p < count(t, it.n) /\ key(t, it) = k

RECURSIVE Descend(_, _, _, _)
Descend(t, n, k, stop_at_match) ==
    LET it == It(n, node_lower_bound(t, n, k))
    IN  IF is_leaf(t, n) \/ (stop_at_match /\ IsEq(t, it, k)) THEN it
        ELSE Descend(t, child(t, n, it.p), k, stop_at_match)

internal_locate(t, k) == Descend(t, t.root, k, TRUE)

internal_lower_bound(t, k) ==
    IF ~mode.multi THEN internal_last(t, internal_locate(t, k))
    ELSE LET it == Descend(t, t.root, k, FALSE)
         IN  IF IsEq(t, it, k) THEN it ELSE internal_last(t, it)

RECURSIVE DescendUpper(_, _, _)
DescendUpper(t, n, k) ==
    LET it == It(n, node_upper_bound(t, n, k))
    IN  IF is_leaf(t, n) THEN it ELSE DescendUpper(t, child(t, n, it.p), k)

internal_upper_bound(t, k) == internal_last(t, DescendUpper(t, t.root, k))

internal_find(t, k) ==
    LET it == internal_locate(t, k)
        last == internal_last(t, it)
    IN  IF mode.compare_to THEN IF IsEq(t, it, k) THEN it ELSE None
        ELSE IF last # None /\ ~(k < key(t, last)) THEN last ELSE None

-----------------------------------------------------------------------------
(* Insertion *)

\* rebalance_or_split makes room in a full node at it.n for a value at it.p: by
\* moving values to a sibling that has room, or by splitting the node once its
\* parent has room for one more delimiter.  It yields the tree and the iterator.
RECURSIVE rebalance_or_split(_, _)
rebalance_or_split(t, it) ==
    LET s == t.node[it.n]
        p == s.parent
        inner == it.n # t.root
        left == child(t, p, s.pos - 1)
        right == child(t, p, s.pos + 1)
        to_left == LargerOf(1, (kNodeSlots - count(t, left))
                                   \div (IF it.p < kNodeSlots THEN 2 ELSE 1))
        to_right == LargerOf(1, (kNodeSlots - count(t, right))
                                    \div (IF it.p > 0 THEN 2 ELSE 1))
        UseLeft == /\ inner /\ s.pos > 0 /\ count(t, left) < kNodeSlots
                   /\ \/ it.p - to_left >= 0
                      \/ count(t, left) + to_left < kNodeSlots
        UseRight == /\ inner /\ s.pos < count(t, p) /\ count(t, right) < kNodeSlots
                    /\ \/ it.p <= count(t, it.n) - to_right
                       \/ count(t, right) + to_right < kNodeSlots
        \* Past the last value of n is the position after the delimiter.
        Place(u, other) ==
            [t |-> u,
             it |-> IF it.p > count(u, it.n) THEN It(other, it.p - count(u, it.n) - 1) ELSE it]
    IN  IF UseLeft
        THEN LET u == rebalance_right_to_left(t, left, it.n, to_left)
             IN  [t |-> u,
                  it |-> IF it.p - to_left < 0
                         THEN It(left, it.p - to_left + count(u, left) + 1)
                         ELSE It(it.n, it.p - to_left)]
        ELSE IF UseRight
        THEN Place(rebalance_left_to_right(t, it.n, right, to_right), right)
        ELSE LET grown == new_node(t, 0, p, 0)
                 u == IF ~inner
                      THEN [init_children(grown, Fresh(t), <<it.n>>) EXCEPT !.root = Fresh(t)]
                      ELSE IF count(t, p) = kNodeSlots
                      THEN rebalance_or_split(t, It(p, s.pos)).t
                      ELSE t
                 dest == Fresh(u)
                 v == split(new_node(u, s.max, u.node[it.n].parent, u.node[it.n].pos + 1),
                            it.n, it.p, dest)
             IN  Place(IF v.rightmost = it.n THEN [v EXCEPT !.rightmost = dest] ELSE v, dest)

EmplaceIn(room, v) ==
    [t |-> [emplace_value(room.t, room.it.n, room.it.p, v, None) EXCEPT !.size = @ + 1],
     it |-> room.it]

\* internal_emplace; a leaf root smaller than a full node is replaced by one of
\* twice its size.
internal_emplace(t, at, v) ==
    LET it == IF is_leaf(t, at.n) THEN at
              ELSE LET prev == decrement(t, at) IN It(prev.n, prev.p + 1)
        s == t.node[it.n]
        bigger == new_leaf_root_node(t, SmallerOf(kNodeSlots, 2 * s.max))
    IN  EmplaceIn(IF Len(s.vals) # s.max THEN [t |-> t, it |-> it]
                  ELSE IF s.max < kNodeSlots
                  THEN [t |-> deallocate([bigger EXCEPT !.node[Fresh(t)].vals = s.vals], {it.n}),
                        it |-> It(Fresh(t), it.p)]
                  ELSE rebalance_or_split(t, it), v)

WithRoot(t) == IF t.size = 0 THEN new_leaf_root_node(t, 1) ELSE t

insert_unique(t0, k) ==
    LET t == WithRoot(t0)
        found == internal_find(t, k)
    IN  IF found # None THEN [t |-> t, it |-> found]
        ELSE internal_emplace(t, internal_locate(t, k), k)

insert_multi(t0, k) ==
    LET t == WithRoot(t0)
    IN  internal_emplace(t, internal_end(t, internal_upper_bound(t, k)), k)

insert_hint_unique(t, at, k) ==
    LET next == increment(t, at)
    IN  IF t.size = 0 THEN insert_unique(t, k)
        ELSE IF at = end(t) \/ k < key(t, at)
        THEN IF at = begin(t) \/ key(t, decrement(t, at)) < k
             THEN internal_emplace(t, at, k)
             ELSE insert_unique(t, k)
        ELSE IF key(t, at) < k
        THEN IF next = end(t) \/ k < key(t, next)
             THEN internal_emplace(t, next, k)
             ELSE insert_unique(t, k)
        ELSE [t |-> t, it |-> at]

insert_hint_multi(t, at, k) ==
    LET next == increment(t, at)
    IN  IF t.size = 0 THEN insert_multi(t, k)
        ELSE IF at = end(t) \/ k <= key(t, at)
        THEN IF at = begin(t) \/ key(t, decrement(t, at)) <= k
             THEN internal_emplace(t, at, k)
             ELSE insert_multi(t, k)
        ELSE IF next = end(t) \/ k <= key(t, next)
        THEN internal_emplace(t, next, k)
        ELSE insert_multi(t, k)

\* copy_or_move_values_in_order: the copy appends the values one by one.
RECURSIVE Appended(_, _)
Appended(t, vs) ==
    IF t.size = Len(vs) THEN t
    ELSE Appended(IF t.size = 0 THEN insert_multi(t, vs[1]).t
                  ELSE internal_emplace(t, end(t), vs[t.size + 1]).t, vs)

\* The tree after the callers have inserted the values in this order.
RECURSIVE Built(_, _)
Built(t, vs) == IF t.size = Len(vs) THEN t ELSE Built(insert_multi(t, vs[t.size + 1]).t, vs)

-----------------------------------------------------------------------------
(* Erasure *)

merge_nodes(t, left, right) ==
    LET u == merge(t, left, right)
    IN  IF t.rightmost = right THEN [u EXCEPT !.rightmost = left] ELSE u

\* try_merge_or_rebalance: the tree, the iterator and whether two nodes merged.
\* A node that lost its first (last) value and is not empty takes none from its
\* right (left) sibling.
try_merge_or_rebalance(t, it) ==
    LET s == t.node[it.n]
        n == Len(s.vals)
        HasLeft == s.pos > 0
        HasRight == s.pos < count(t, s.parent)
        left == child(t, s.parent, s.pos - 1)
        right == child(t, s.parent, s.pos + 1)
        Share(c) == SmallerOf((c - n) \div 2, c - 1)
    IN  IF HasLeft /\ 1 + count(t, left) + n <= kNodeSlots
        THEN [t |-> merge_nodes(t, left, it.n),
              it |-> It(left, it.p + 1 + count(t, left)), merged |-> TRUE]
        ELSE IF HasRight /\ 1 + n + count(t, right) <= kNodeSlots
        THEN [t |-> merge_nodes(t, it.n, right), it |-> it, merged |-> TRUE]
        ELSE IF HasRight /\ count(t, right) > kMinNodeValues /\ (n = 0 \/ it.p > 0)
        THEN [t |-> rebalance_right_to_left(t, it.n, right, Share(count(t, right))),
              it |-> it, merged |-> FALSE]
        ELSE IF HasLeft /\ count(t, left) > kMinNodeValues /\ (n = 0 \/ it.p < n)
        THEN [t |-> rebalance_left_to_right(t, left, it.n, Share(count(t, left))),
              it |-> It(it.n, it.p + Share(count(t, left))), merged |-> FALSE]
        ELSE [t |-> t, it |-> it, merged |-> FALSE]

\* try_shrink: a root without values is replaced by its only child, which takes
\* over the pointer to the leftmost leaf.
try_shrink(t) ==
    LET r == t.root
        c == child(t, r, 0)
    IN  IF count(t, r) > 0 THEN t
        ELSE IF is_leaf(t, r)
        THEN deallocate([t EXCEPT !.root = EmptyNode, !.rightmost = EmptyNode], {r})
        ELSE deallocate([t EXCEPT !.root = c, !.node[c].parent = t.node[r].parent], {r})

\* The loop of rebalance_after_delete: up the tree for as long as nodes merge.
\* res is None until the first round has settled the position to return.
RECURSIVE Climb(_, _, _), ClimbOn(_, _)
Climb(t, it, res) ==
    LET kept == IF res = None THEN it ELSE res
    IN  IF it.n = t.root THEN [t |-> try_shrink(t), it |-> kept]
        ELSE IF count(t, it.n) >= kMinNodeValues THEN [t |-> t, it |-> kept]
        ELSE ClimbOn(try_merge_or_rebalance(t, it), res)

ClimbOn(m, res) ==
    LET first == IF res = None THEN m.it ELSE res
    IN  IF ~m.merged THEN [t |-> m.t, it |-> first]
        ELSE Climb(m.t, It(m.t.node[m.it.n].parent, m.t.node[m.it.n].pos), first)

\* At the end of a node the position moves on to the next value.
Settled(c) ==
    LET last == count(c.t, c.it.n)
    IN  [t |-> c.t,
         it |-> IF c.t.size = 0 THEN end(c.t)
                ELSE IF c.it.p = last THEN increment(c.t, It(c.it.n, last - 1))
                ELSE c.it]

rebalance_after_delete(t, it) == Settled(Climb(t, it, None))

Incremented(r) == [r EXCEPT !.it = increment(r.t, r.it)]

\* erase(iterator): the value of an internal node is replaced by its predecessor,
\* which is in a leaf.
erase_at(t, at) ==
    LET internal == ~is_leaf(t, at.n)
        it == IF internal THEN decrement(t, at) ELSE at
        u == IF internal THEN [t EXCEPT !.node[at.n].vals[at.p + 1] = key(t, it)] ELSE t
        Onward(r) == IF internal THEN Incremented(r) ELSE r
    IN  Onward(rebalance_after_delete(
            [u EXCEPT !.node[it.n].vals = RemoveAt(@, it.p + 1), !.size = @ - 1], it))

clear_tree(t) == NoTree

\* The loop of erase_range over several nodes, down to the target size.
RECURSIVE EraseFrom(_, _)
EraseFrom(r, target_size) ==
    LET n == r.it.n
        k == SmallerOf(r.t.size - target_size, count(r.t, n) - r.it.p)
    IN  IF r.t.size = target_size THEN r
        ELSE EraseFrom(
                 IF is_leaf(r.t, n)
                 THEN rebalance_after_delete(
                          [remove_values(r.t, n, r.it.p, k) EXCEPT !.size = @ - k], r.it)
                 ELSE erase_at(r.t, r.it), target_size)

erase_range(t, from, to) ==
    LET n == operator_minus(t, to, from)
    IN  IF n = 0 THEN [t |-> t, it |-> from]
        ELSE IF n = t.size THEN [t |-> clear_tree(t), it |-> end(NoTree)]
        ELSE IF from.n = to.n
        THEN rebalance_after_delete(
                 [remove_values(t, from.n, from.p, to.p - from.p) EXCEPT !.size = @ - n], from)
        ELSE EraseFrom([t |-> t, it |-> from], t.size - n)

\* btree_access::erase_if: a leaf loses all its matching values before the tree
\* is rebalanced once.
RECURSIVE EraseIf(_, _)
EraseIf(r, gone) ==
    LET n == r.it.n
        vs == r.t.node[n].vals
        kept == Take(vs, r.it.p) \o SelectSeq(Drop(vs, r.it.p), LAMBDA v : v \notin gone)
    IN  IF r.it = end(r.t) THEN r
        ELSE EraseIf(
                 IF key(r.t, r.it) \notin gone THEN Incremented(r)
                 ELSE IF ~is_leaf(r.t, n) THEN erase_at(r.t, r.it)
                 ELSE rebalance_after_delete(
                          [r.t EXCEPT !.node[n].vals = kept, !.size = @ - (Len(vs) - Len(kept))],
                          It(n, Len(kept))), gone)

equal_range(t, k) ==
    LET lower == internal_end(t, internal_lower_bound(t, k))
        next == increment(t, lower)
    IN  IF lower = end(t) \/ k < key(t, lower) THEN <<lower, lower>>
        ELSE IF ~mode.multi \/ next = end(t) \/ k < key(t, next) THEN <<lower, next>>
        ELSE <<lower, internal_end(t, internal_upper_bound(t, k))>>

-----------------------------------------------------------------------------
(* The operations of the containers *)

\* The iterators of a tree in order, by the structure of the tree.
RECURSIVE InOrder(_, _)
InOrder(t, n) ==
    IF is_leaf(t, n) THEN [i \in 1 .. count(t, n) |-> It(n, i - 1)]
    ELSE FlattenSeq([i \in 1 .. 2 * count(t, n) + 1 |->
             IF i % 2 = 1 THEN InOrder(t, child(t, n, (i - 1) \div 2))
             ELSE <<It(n, i \div 2 - 1)>>])

\* The iterator with r values before it.
At(t, r) == IF r < t.size THEN InOrder(t, t.root)[r + 1] ELSE end(t)

LessThan(s, k) == Cardinality({i \in DOMAIN s : s[i] < k})
NotAbove(s, k) == Cardinality({i \in DOMAIN s : s[i] <= k})

Sorted(s) == SortSeq(s, <)

AtEnd(t) == [t |-> t, it |-> end(t)]

Result(r) == tree' = r.t /\ returned' = r.it

Op == budget > 0 /\ budget' = budget - 1 /\ UNCHANGED mode

\* What insertion makes of the values in order, and where the value then is.
Inserted(k, r) ==
    IF ~mode.multi /\ k \in Range(contents)
    THEN contents' = contents /\ rank' = LessThan(contents, k)
    ELSE contents' = InsertAt(contents, r + 1, k) /\ rank' = r

insert(k) ==
    /\ Op
    /\ Result(IF mode.multi THEN insert_multi(tree, k) ELSE insert_unique(tree, k))
    /\ Inserted(k, NotAbove(contents, k))

\* A hint next to where the value belongs puts it there.
insert_hint(r, k) ==
    LET lo == LessThan(contents, k)
        hi == NotAbove(contents, k)
    IN  /\ Op
        /\ Result(IF mode.multi THEN insert_hint_multi(tree, At(tree, r), k)
                  ELSE insert_hint_unique(tree, At(tree, r), k))
        /\ Inserted(k, IF r \in lo .. hi THEN r ELSE IF r + 1 = lo THEN lo ELSE hi)

erase(r) ==
    /\ Op
    /\ Result(erase_at(tree, At(tree, r)))
    /\ contents' = RemoveAt(contents, r + 1)
    /\ rank' = r

erase_between(r, s) ==
    /\ Op
    /\ Result(erase_range(tree, At(tree, r), At(tree, s)))
    /\ contents' = Take(contents, r) \o Drop(contents, s)
    /\ rank' = r

erase_if(gone) ==
    /\ Op
    /\ Result(EraseIf([t |-> tree, it |-> begin(tree)], gone))
    /\ contents' = SelectSeq(contents, LAMBDA v : v \notin gone)
    /\ rank' = Len(contents')

clear ==
    /\ Op
    /\ Result(AtEnd(clear_tree(tree)))
    /\ contents' = <<>>
    /\ rank' = 0

\* operator=: another tree becomes a copy of this one, and is the one we follow.
assign ==
    LET its == InOrder(tree, tree.root)
    IN  /\ Op
        /\ Result(AtEnd(Appended(NoTree, [i \in DOMAIN its |-> key(tree, its[i])])))
        /\ UNCHANGED contents
        /\ rank' = Len(contents)

Init ==
    /\ mode \in Modes
    /\ \E start \in Starts :
          /\ tree = Built(NoTree, start[1])
          /\ contents = Sorted(start[1])
          /\ budget = start[2]
    /\ returned = end(tree)
    /\ rank = Len(contents)

Next ==
    \/ \E k \in Keys : insert(k)
    \/ \E k \in Keys, r \in 0 .. tree.size : insert_hint(r, k)
    \/ \E r \in 0 .. tree.size - 1 : erase(r)
    \/ \E r, s \in 0 .. tree.size : r <= s /\ erase_between(r, s)
    \/ \E gone \in {{k \in Keys : k % 3 = m} : m \in 0 .. 2} \cup {{k \in Keys : k % 3 # 0}} :
           erase_if(gone)
    \/ clear
    \/ assign

Spec == Init /\ [][Next]_vars

-----------------------------------------------------------------------------
(* Properties *)

\* The tree holds the values a sorted sequence would hold; ++ from begin() and
\* -- from end() walk them in order; find, lower_bound, upper_bound and
\* equal_range answer for every key what the sequence says; and the iterator an
\* insertion or erasure returned (btree.h: internal_emplace,
\* rebalance_after_delete) designates the value inserted, or the one that
\* followed the erased ones, wherever rebalancing has moved it.
ActsAsSortedSequence ==
    LET its == InOrder(tree, tree.root)
        size == Len(contents)
        at == [r \in 0 .. size |-> IF r < size THEN its[r + 1] ELSE end(tree)]
    IN  /\ tree.size = size
        /\ [i \in DOMAIN its |-> key(tree, its[i])] = contents
        /\ returned = at[rank]
        /\ begin(tree) = at[0]
        /\ \A r \in 0 .. size - 1 : /\ increment(tree, at[r]) = at[r + 1]
                                    /\ decrement(tree, at[r + 1]) = at[r]
        /\ \A k \in Keys :
              LET lo == LessThan(contents, k)
                  hi == NotAbove(contents, k)
              IN  /\ internal_find(tree, k) \in IF lo = hi THEN {None}
                                                ELSE {at[r] : r \in lo .. hi - 1}
                  /\ internal_end(tree, internal_lower_bound(tree, k)) = at[lo]
                  /\ internal_end(tree, internal_upper_bound(tree, k)) = at[hi]
                  /\ equal_range(tree, k) = <<at[lo], at[hi]>>

\* The shape internal_verify and verify ask for, and what the code relies on
\* besides: every child knows its parent and position, all leaves have the same
\* depth, no node is empty or holds more than its slots, every node but a leaf
\* root has full size, the root's parent is the leftmost leaf and rightmost_ the
\* last one, and no node that was unlinked stays allocated (or the reverse).
RECURSIVE Depths(_, _)
Depths(t, n) == IF is_leaf(t, n) THEN {0}
                ELSE {d + 1 : d \in UNION {Depths(t, c) : c \in Range(t.node[n].kids)}}

TreeSound ==
    LET linked == Below(tree, tree.root)
    IN  /\ DOMAIN tree.node = linked \cup {EmptyNode}
        /\ tree.node[EmptyNode] = NoTree.node[EmptyNode]
        /\ tree.node[tree.root].parent = LeftmostBelow(tree, tree.root)
        /\ tree.rightmost = RightmostBelow(tree, tree.root)
        /\ Cardinality(Depths(tree, tree.root)) = 1
        /\ (tree.root = EmptyNode) <=> (tree.size = 0)
        /\ \A n \in linked \ {EmptyNode} :
              LET s == tree.node[n]
              IN  /\ Len(s.vals) \in 1 .. (IF s.max = 0 THEN kNodeSlots ELSE s.max)
                  /\ s.max = 0 => Len(s.kids) = Len(s.vals) + 1
                  /\ n # tree.root => s.max \in {0, kNodeSlots}
                  /\ \A i \in DOMAIN s.kids : /\ tree.node[s.kids[i]].parent = n
                                              /\ tree.node[s.kids[i]].pos = i - 1
============================================================================
