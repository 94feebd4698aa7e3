----------------------------- MODULE MPSCQueue -----------------------------
(***************************************************************************)
(* turbo::MPSCQueue (turbo/container/mpsc_queue.h): a linked queue with    *)
(* many producers and one consumer.                                        *)
(*                                                                         *)
(* A producer exchanges _head with its node and only then writes the       *)
(* node's next pointer, so the list behind _head runs backwards and may    *)
(* have holes (UNCONNECTED).  The producer that found _head null publishes *)
(* its node in _cur_enqueue_node.  The consumer walks a forward list in    *)
(* _cur_dequeue_node and, when that list ends, either gives _head back or  *)
(* reverses what the producers added.                                      *)
(*                                                                         *)
(* One action is one access to shared memory.  Nodes are addresses: freed  *)
(* ones are handed out again, so the reuse of an address while somebody    *)
(* still compares with it (ABA) is part of the model.                      *)
(***************************************************************************)
EXTENDS Naturals, Sequences, FiniteSets

CONSTANTS
  Producers,        \* producer threads
  Nodes,            \* addresses the allocator hands out
  MaxEnqueue,       \* bound: calls of Enqueue per producer
  NULL, UNCONNECTED

ASSUME MPSCAssumption ==
  /\ NULL \notin Nodes /\ UNCONNECTED \notin Nodes /\ NULL # UNCONNECTED
  /\ MaxEnqueue \in Nat
  /\ IsFiniteSet(Producers)

VARIABLES
  head, curEnq, curDeq,   \* _head, _cur_enqueue_node, _cur_dequeue_node
  next, data,             \* the fields of every node
  heap,                   \* addresses allocated now
  ppc, pnode, prev, calls,   \* per producer: location, node, prev, calls made
  cpc, node, newHead, p, tail,   \* the consumer's location and local pointers
  enqueued, dequeued,     \* history: values in exchange order, values delivered
  ticket, fwd             \* history: a node's place in the exchange order (0 if
                          \* none) and the place where the forward list ends

pvars == <<ppc, pnode, prev, calls>>
cvars == <<cpc, node, newHead, p, tail>>
hvars == <<enqueued, dequeued, ticket, fwd>>
vars == <<head, curEnq, curDeq, next, data, heap, pvars, cvars, hvars>>

Ptr == Nodes \cup {NULL}
Link == Ptr \cup {UNCONNECTED}
Values == Producers \X (1..MaxEnqueue)

ProducerPC == {"idle", "exchange", "link", "publish"}
ConsumerPC == {"idle", "clear", "read", "cas", "reverse", "join", "advance", "abort"}

TypeOK ==
  /\ head \in Ptr /\ curEnq \in Ptr /\ curDeq \in Link
  /\ next \in [Nodes -> Link]
  /\ data \in [Nodes -> Values \cup {NULL}]
  /\ heap \in SUBSET Nodes
  /\ ppc \in [Producers -> ProducerPC]
  /\ pnode \in [Producers -> Ptr]
  /\ prev \in [Producers -> Ptr]
  /\ calls \in [Producers -> 0..MaxEnqueue]
  /\ cpc \in ConsumerPC
  /\ node \in Link /\ newHead \in Ptr /\ p \in Ptr /\ tail \in Ptr
  /\ enqueued \in Seq(Values) /\ dequeued \in Seq(Values)
  /\ ticket \in [Nodes -> Nat] /\ fwd \in Nat

Init ==
  /\ head = NULL /\ curEnq = NULL /\ curDeq = NULL
  /\ next = [n \in Nodes |-> NULL]
  /\ data = [n \in Nodes |-> NULL]
  /\ heap = {}
  /\ ppc = [t \in Producers |-> "idle"]
  /\ pnode = [t \in Producers |-> NULL]
  /\ prev = [t \in Producers |-> NULL]
  /\ calls = [t \in Producers |-> 0]
  /\ cpc = "idle" /\ node = NULL /\ newHead = NULL /\ p = NULL /\ tail = NULL
  /\ enqueued = <<>> /\ dequeued = <<>>
  /\ ticket = [n \in Nodes |-> 0] /\ fwd = 0

-----------------------------------------------------------------------------
(* Producers *)

\* Enqueue: allocate a node, mark it unconnected, construct the value in it.
Enqueue(t) ==
  /\ ppc[t] = "idle" /\ calls[t] < MaxEnqueue
  /\ \E n \in Nodes \ heap :
       /\ heap' = heap \cup {n}
       /\ next' = [next EXCEPT ![n] = UNCONNECTED]
       /\ data' = [data EXCEPT ![n] = <<t, calls[t] + 1>>]
       /\ pnode' = [pnode EXCEPT ![t] = n]
  /\ calls' = [calls EXCEPT ![t] = @ + 1]
  /\ ppc' = [ppc EXCEPT ![t] = "exchange"]
  /\ UNCHANGED <<head, curEnq, curDeq, prev, cvars, hvars>>

\* prev = _head.exchange(node): the point where the queue's order is decided.
Exchange(t) ==
  /\ ppc[t] = "exchange"
  /\ prev' = [prev EXCEPT ![t] = head]
  /\ head' = pnode[t]
  /\ enqueued' = Append(enqueued, data[pnode[t]])
  /\ ticket' = [ticket EXCEPT ![pnode[t]] = Len(enqueued) + 1]
  /\ fwd' = IF head = NULL THEN Len(enqueued) + 1 ELSE fwd
  /\ ppc' = [ppc EXCEPT ![t] = "link"]
  /\ UNCHANGED <<curEnq, curDeq, next, data, heap, pnode, calls, cvars, dequeued>>

\* node->next = prev, which is null for the producer that must publish.
LinkNode(t) ==
  /\ ppc[t] = "link"
  /\ next' = [next EXCEPT ![pnode[t]] = prev[t]]
  /\ ppc' = [ppc EXCEPT ![t] = IF prev[t] = NULL THEN "publish" ELSE "idle"]
  /\ UNCHANGED <<head, curEnq, curDeq, data, heap, pnode, prev, calls, cvars, hvars>>

\* _cur_enqueue_node.store(node, relaxed), taken to come after the store of next.
Publish(t) ==
  /\ ppc[t] = "publish"
  /\ curEnq' = pnode[t]
  /\ ppc' = [ppc EXCEPT ![t] = "idle"]
  /\ UNCHANGED <<head, curDeq, next, data, heap, pnode, prev, calls, cvars, hvars>>

Produce(t) == Enqueue(t) \/ Exchange(t) \/ LinkNode(t) \/ Publish(t)

-----------------------------------------------------------------------------
(* The consumer *)

\* The node DequeueImpl starts from: the private list first, else the
\* published node.
First == IF curDeq # NULL THEN curDeq ELSE curEnq

Dequeue ==
  /\ cpc = "idle"
  /\ First # NULL           \* otherwise it returns false and changes nothing
  /\ node' = First
  /\ cpc' = "clear"
  /\ UNCHANGED <<head, curEnq, curDeq, next, data, heap, pvars, newHead, p, tail,
                 hvars>>

ClearPublished ==
  /\ cpc = "clear"
  /\ curEnq' = NULL
  /\ cpc' = "read"
  /\ UNCHANGED <<head, curDeq, next, data, heap, pvars, node, newHead, p, tail,
                 hvars>>

\* *data = std::move(*mem), then the test of node->next.
ReadNode ==
  /\ cpc = "read" /\ node \in Nodes
  /\ dequeued' = Append(dequeued, data[node])
  /\ cpc' = IF next[node] = NULL THEN "cas" ELSE "advance"
  /\ UNCHANGED <<head, curEnq, curDeq, next, data, heap, pvars, node, newHead, p, tail,
                 enqueued, ticket, fwd>>

\* (wrong) The new part of the list is joined without being reversed.
CloseOrJoin ==
  /\ cpc = "cas"
  /\ head' = IF head = node THEN NULL ELSE head
  /\ next' = IF head = node THEN next ELSE [next EXCEPT ![node] = head]
  /\ cpc' = "advance"
  /\ UNCHANGED <<curEnq, curDeq, data, heap, pvars, node, newHead, p, tail, hvars>>

\* (wrong) _head keeps the node that is about to be freed.
CloseKeepingHead ==
  /\ cpc = "cas"
  /\ IF head = node
     THEN cpc' = "advance" /\ UNCHANGED <<newHead, p, tail>>
     ELSE newHead' = head /\ p' = head /\ tail' = NULL /\ cpc' = "reverse"
  /\ UNCHANGED <<head, curEnq, curDeq, next, data, heap, pvars, node, hvars>>

\* ReverseList: the compare-and-exchange of _head from old_head to null; on
\* failure new_head is what _head holds.
CloseOrReverse ==
  /\ cpc = "cas"
  /\ IF head = node
     THEN head' = NULL /\ cpc' = "advance" /\ UNCHANGED <<newHead, p, tail>>
     ELSE /\ newHead' = head /\ p' = head /\ tail' = NULL
          /\ cpc' = "reverse" /\ UNCHANGED head
  /\ UNCHANGED <<curEnq, curDeq, next, data, heap, pvars, node, hvars>>

\* One turn of the do-loop, entered once the producer has linked p.
\* KCHECK(p) aborts the process when the walk meets a null link.
ReverseStep ==
  /\ cpc = "reverse" /\ p \in Nodes
  /\ next[p] # UNCONNECTED
  /\ LET saved == next[p]
     IN  /\ next' = [next EXCEPT ![p] = tail]
         /\ tail' = p
         /\ p' = saved
         /\ cpc' = CASE saved = NULL -> "abort"
                     [] saved = node -> "join"
                     [] OTHER -> "reverse"
  /\ UNCHANGED <<head, curEnq, curDeq, data, heap, pvars, node, newHead, hvars>>

\* old_head->next = tail
JoinLists ==
  /\ cpc = "join"
  /\ next' = [next EXCEPT ![node] = tail]
  /\ fwd' = ticket[newHead]
  /\ cpc' = "advance"
  /\ UNCHANGED <<head, curEnq, curDeq, data, heap, pvars, node, newHead, p, tail,
                 enqueued, dequeued, ticket>>

\* (wrong) _cur_enqueue_node is cleared at the end of the call.
AdvanceClearing ==
  /\ cpc = "advance"
  /\ curDeq' = next[node]
  /\ curEnq' = NULL
  /\ heap' = heap \ {node}
  /\ ticket' = [ticket EXCEPT ![node] = 0]
  /\ cpc' = "idle"
  /\ UNCHANGED <<head, next, data, pvars, node, newHead, p, tail,
                 enqueued, dequeued, fwd>>

\* _cur_dequeue_node = node->next; Free(old_node)
Advance ==
  /\ cpc = "advance"
  /\ curDeq' = next[node]
  /\ heap' = heap \ {node}
  /\ ticket' = [ticket EXCEPT ![node] = 0]
  /\ cpc' = "idle"
  /\ UNCHANGED <<head, curEnq, next, data, pvars, node, newHead, p, tail,
                 enqueued, dequeued, fwd>>

Consume ==
  \/ Dequeue \/ ClearPublished \/ ReadNode \/ CloseOrReverse
  \/ ReverseStep \/ JoinLists \/ Advance

-----------------------------------------------------------------------------
Next == Consume \/ \E t \in Producers : Produce(t)

\* Every thread inside a call keeps running, and the consumer keeps calling
\* Dequeue (it polls; nothing else wakes it).  No producer has to call Enqueue.
Fairness ==
  /\ WF_vars(Consume)
  /\ \A t \in Producers : WF_vars(ppc[t] # "idle" /\ Produce(t))

Spec == Init /\ [][Next]_vars /\ Fairness

-----------------------------------------------------------------------------
(* Properties *)

\* DequeueImpl delivers values in the order in which the producers' exchanges
\* of _head took place: nothing is lost, duplicated or overtaken, whatever
\* part of the list was reversed and whichever addresses were reused.
DequeuedInOrder ==
  /\ Len(dequeued) <= Len(enqueued)
  /\ \A i \in 1..Len(dequeued) : dequeued[i] = enqueued[i]

\* No thread touches a freed node: not the consumer in DequeueImpl and
\* ReverseList, not a producer still writing its own node's next, and _head
\* never keeps the address of a node the consumer has freed (line 152).
MemorySafe ==
  /\ cpc \in {"read", "cas", "join", "advance"} => node \in heap
  /\ cpc = "reverse" => p \in heap
  /\ \A t \in Producers : ppc[t] \in {"exchange", "link", "publish"} => pnode[t] \in heap
  /\ head \in heap \cup {NULL}

\* KCHECK(p) in ReverseList never fires: walking back from _head always meets
\* old_head before it meets the end of a list.
NeverAborts == cpc # "abort"

\* Dequeue may return false while values are queued, but only while the
\* producer that found the queue empty is between its exchange and its store
\* to _cur_enqueue_node.
EmptyAnswerJustified ==
  cpc = "idle" /\ First = NULL =>
    \/ enqueued = dequeued
    \/ \E t \in Producers : ppc[t] \in {"link", "publish"} /\ prev[t] = NULL

-----------------------------------------------------------------------------
(* Why the queue is in order: the inductive invariant *)

E == Len(enqueued)
D == Len(dequeued)

Holding == cpc \in {"cas", "reverse", "join", "advance"}

\* A node carries a ticket from its exchange until it is freed, tickets number
\* the exchanges, and every ticket below the consumer's is gone.
TicketsOrdered ==
  /\ fwd <= E
  /\ \A n \in Nodes : ticket[n] # 0 =>
       /\ n \in heap
       /\ ticket[n] <= E
       /\ enqueued[ticket[n]] = data[n]
       /\ ticket[n] > D \/ (Holding /\ n = node /\ ticket[n] = D)
  /\ \A m, n \in Nodes : ticket[m] # 0 /\ ticket[m] = ticket[n] => m = n

\* n is followed by the node with the next ticket, or preceded by it.
LinkedForward(n) == next[n] \in Nodes /\ ticket[next[n]] = ticket[n] + 1
LinkedBack(n) ==
  /\ next[n] \in Nodes /\ ticket[n] = ticket[next[n]] + 1 /\ ticket[next[n]] # 0

\* Its producer has exchanged _head and not yet written next.
Unlinked(n) ==
  next[n] = UNCONNECTED /\ \E t \in Producers : ppc[t] = "link" /\ pnode[t] = n

\* ReverseList has turned n round already.
Reversed(n) ==
  \/ cpc = "reverse" /\ ticket[n] > ticket[p] /\ ticket[n] <= ticket[newHead]
  \/ cpc = "join" /\ ticket[n] > D /\ ticket[n] <= ticket[newHead]

\* The list runs forward up to the ticket fwd, where it ends; beyond it every
\* node points at the one exchanged before it, or is not linked yet.
ListShape ==
  \A n \in Nodes : ticket[n] > D =>
    /\ ticket[n] < fwd => LinkedForward(n)
    /\ ticket[n] = fwd => next[n] = NULL \/ Unlinked(n)
    /\ ticket[n] > fwd /\ ~Reversed(n) => LinkedBack(n) \/ Unlinked(n)
    /\ Reversed(n) => IF n = newHead THEN next[n] = NULL ELSE LinkedForward(n)

HeadIsLast ==
  /\ head = NULL => E = D /\ cpc \in {"idle", "advance"}
  /\ head # NULL => ticket[head] = E /\ E # 0

\* The queue was empty at t's exchange, and t has still to publish its node.
OpensQueue(t) == ppc[t] \in {"link", "publish"} /\ prev[t] = NULL
ConsumerOut == (cpc = "idle" /\ curDeq = NULL) \/ (cpc = "advance" /\ next[node] = NULL)

ProducersOK ==
  /\ \A t \in Producers :
       /\ ppc[t] # "idle" => pnode[t] \in Nodes
       /\ ppc[t] = "exchange" =>
            /\ pnode[t] \in heap /\ ticket[pnode[t]] = 0
            /\ next[pnode[t]] = UNCONNECTED /\ data[pnode[t]] \in Values
       /\ ppc[t] = "link" =>
            /\ ticket[pnode[t]] # 0 /\ next[pnode[t]] = UNCONNECTED
            /\ prev[t] # NULL => /\ ticket[prev[t]] # 0
                                 /\ ticket[pnode[t]] = ticket[prev[t]] + 1
                                 /\ ticket[pnode[t]] > fwd
       /\ ppc[t] = "publish" => prev[t] = NULL /\ next[pnode[t]] = NULL
       /\ OpensQueue(t) =>
            ticket[pnode[t]] = D + 1 /\ fwd = D + 1 /\ curEnq = NULL /\ ConsumerOut
  /\ \A s, t \in Producers :
       ppc[s] # "idle" /\ ppc[t] # "idle" /\ pnode[s] = pnode[t] => s = t

ConsumerOK ==
  /\ cpc # "abort"
  /\ curEnq # NULL => /\ ticket[curEnq] = D + 1 /\ fwd = D + 1 /\ next[curEnq] = NULL
                      /\ ConsumerOut \/ (cpc = "clear" /\ node = curEnq)
  /\ cpc = "idle" /\ curDeq # NULL =>
       curDeq \in Nodes /\ ticket[curDeq] = D + 1 /\ D < fwd /\ next[curDeq] # UNCONNECTED
  /\ cpc \in {"clear", "read"} =>
       node \in Nodes /\ ticket[node] = D + 1 /\ D < fwd /\ next[node] # UNCONNECTED
  /\ Holding => node \in Nodes /\ ticket[node] = D /\ D # 0
  /\ cpc \in {"cas", "reverse", "join"} => fwd = D /\ next[node] = NULL
  /\ cpc = "reverse" =>
       /\ newHead \in Nodes /\ p \in Nodes
       /\ D < ticket[p] /\ ticket[p] <= ticket[newHead]
       /\ IF p = newHead THEN tail = NULL
          ELSE tail \in Nodes /\ ticket[tail] = ticket[p] + 1
  /\ cpc = "join" =>
       newHead \in Nodes /\ D < ticket[newHead] /\ tail \in Nodes /\ ticket[tail] = D + 1
  /\ cpc = "advance" =>
       \/ next[node] = NULL /\ (head = NULL \/ D < fwd)
       \/ next[node] \in Nodes /\ ticket[next[node]] = D + 1 /\ D < fwd
          /\ next[next[node]] # UNCONNECTED

\* The order in which EnqueueImpl and ReverseList link the nodes is the order
\* of the exchanges at every instant; this is what DequeuedInOrder,
\* MemorySafe and NeverAborts follow from.
QueueInv ==
  /\ TypeOK /\ DequeuedInOrder
  /\ TicketsOrdered /\ ListShape /\ HeadIsLast /\ ProducersOK /\ ConsumerOK
=============================================================================
