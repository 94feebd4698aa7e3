----------------------------- MODULE RingQueues -----------------------------
(***************************************************************************)
(* The two queues in a ring of fixed size: BoundedQueue                    *)
(* (turbo/container/bounded_queue.h), whose slots are raw memory where no  *)
(* item lives, and circular_queue (turbo/container/circular_queue.h),      *)
(* which overruns its oldest item.  One user at a time.                    *)
(***************************************************************************)
EXTENDS Naturals, SequencesExt

CONSTANTS
  Values,
  Capacities,       \* of a new queue
  Width,            \* bits of _count, _cap and _start
  MaxOverrun,       \* bound: overrun_counter_
  None

VARIABLES
  class,            \* "BoundedQueue" or "circular_queue"
  ring,
  overruns,         \* history: items of a circular_queue that were overrun
  contents          \* history: the items, oldest first

vars == <<class, ring, overruns, contents>>

-----------------------------------------------------------------------------
(* BoundedQueue *)

NewBounded(capacity) ==
  [cap |-> capacity, start |-> 0, count |-> 0, items |-> [i \in 0..(capacity - 1) |-> None]]

mod(off, cap) == off % cap
Slot(i) == mod((ring.start + i) % 2 ^ Width, ring.cap)
StartBefore == IF ring.start # 0 THEN ring.start - 1 ELSE ring.cap - 1

push(v) ==
  /\ ring.count < ring.cap
  /\ ring' = [ring EXCEPT !.items[Slot(ring.count)] = v, !.count = @ + 1]
  /\ contents' = Append(contents, v)

\* On a full queue; otherwise it is push().  Not without capacity: there is no slot to assign to.
elim_push(v) ==
  /\ ring.count = ring.cap /\ ring.cap > 0
  /\ ring' = [ring EXCEPT !.items[ring.start] = v, !.start = Slot(1)]
  /\ contents' = Append(Tail(contents), v)

push_top(v) ==
  /\ ring.count < ring.cap
  /\ ring' = [ring EXCEPT !.items[StartBefore] = v, !.count = @ + 1, !.start = StartBefore]
  /\ contents' = <<v>> \o contents

pop ==
  /\ ring.count # 0
  /\ ring' = [ring EXCEPT !.items[ring.start] = None, !.count = @ - 1, !.start = Slot(1)]
  /\ contents' = Tail(contents)

pop_bottom ==
  /\ ring.count # 0
  /\ ring' = [ring EXCEPT !.items[Slot(ring.count - 1)] = None, !.count = @ - 1]
  /\ contents' = Front(contents)

Cleared ==
  [ring EXCEPT !.items = [i \in DOMAIN @ |-> IF \E n \in 0..(ring.count - 1) : i = Slot(n) THEN None ELSE @[i]],
               !.count = 0, !.start = 0]

clear == ring' = Cleared /\ contents' = <<>>

\* tmp.swap(_queue), as in the header's example, when the old queue is destroyed with tmp.
swap(capacity) == ring' = NewBounded(capacity) /\ contents' = <<>>

BoundedNext ==
  /\ \/ \E v \in Values : push(v) \/ elim_push(v) \/ push_top(v)
     \/ pop \/ pop_bottom \/ clear
     \/ \E n \in Capacities : swap(n)
  /\ UNCHANGED overruns

top(i) == IF i < ring.count THEN ring.items[Slot(i)] ELSE None
bottom(i) == IF i < ring.count THEN ring.items[Slot(ring.count - i - 1)] ELSE None

-----------------------------------------------------------------------------
(* circular_queue *)

Disabled == [max_items |-> 0, head |-> 0, tail |-> 0, overrun_counter |-> 0, v |-> <<>>]
NewCircular(max_items) ==
  [Disabled EXCEPT !.max_items = max_items + 1, !.v = [i \in 0..max_items |-> None]]

After(i) == (i + 1) % ring.max_items

push_back(item) ==
  LET full == After(ring.tail) = ring.head
  IN  IF ring.max_items = 0 THEN UNCHANGED <<ring, overruns, contents>>
      ELSE /\ ring' = [ring EXCEPT !.v[ring.tail] = item, !.tail = After(@),
                                   !.head = IF full THEN After(@) ELSE @,
                                   !.overrun_counter = IF full THEN @ + 1 ELSE @]
           /\ ring'.overrun_counter <= MaxOverrun
           /\ contents' = IF Len(contents) + 1 < ring.max_items THEN Append(contents, item)
                          ELSE Tail(Append(contents, item))
           /\ overruns' = IF Len(contents) + 1 < ring.max_items THEN overruns ELSE overruns + 1

\* Not for an empty queue, where "the behavior is undefined".
pop_front ==
  /\ contents # <<>>
  /\ ring' = [ring EXCEPT !.head = After(@)]
  /\ contents' = Tail(contents) /\ UNCHANGED overruns

reset_overrun_counter ==
  ring' = [ring EXCEPT !.overrun_counter = 0] /\ overruns' = 0 /\ UNCHANGED contents

\* The queue is moved away; what is left is used, or given a new queue.
Moved == (ring' = Disabled \/ \E n \in Capacities : ring' = NewCircular(n)) /\ overruns' = 0 /\ contents' = <<>>

CircularNext == (\E item \in Values : push_back(item)) \/ pop_front \/ reset_overrun_counter \/ Moved

size == IF ring.tail >= ring.head THEN ring.tail - ring.head ELSE ring.max_items - (ring.head - ring.tail)
at(i) == ring.v[(ring.head + i) % ring.max_items]
full == ring.max_items > 0 /\ After(ring.tail) = ring.head

-----------------------------------------------------------------------------
Init ==
  /\ \/ class = "BoundedQueue" /\ \E n \in Capacities : ring = NewBounded(n)
     \/ class = "circular_queue" /\ (ring = Disabled \/ \E n \in Capacities : ring = NewCircular(n))
  /\ overruns = 0 /\ contents = <<>>

Next ==
  /\ \/ class = "BoundedQueue" /\ BoundedNext
     \/ class = "circular_queue" /\ CircularNext
  /\ UNCHANGED class

Spec == Init /\ [][Next]_vars

-----------------------------------------------------------------------------
\* A queue answers as the sequence of its items does, from both ends, and an item lives in
\* exactly the slots that are in use.
ActsAsSequence ==
  LET n == Len(contents)
  IN  /\ class = "BoundedQueue" =>
           /\ ring.count = n
           /\ \A i \in 0..ring.cap :
                /\ top(i) = IF i < n THEN contents[i + 1] ELSE None
                /\ bottom(i) = IF i < n THEN contents[n - i] ELSE None
           /\ Cardinality({i \in DOMAIN ring.items : ring.items[i] # None}) = n
      /\ class = "circular_queue" =>
           /\ size = n /\ (ring.tail = ring.head) = (n = 0)
           /\ \A i \in 0..(n - 1) : at(i) = contents[i + 1]
           /\ full = (n + 1 = ring.max_items)
           /\ ring.overrun_counter = overruns
=============================================================================
