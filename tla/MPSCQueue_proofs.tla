-------------------------- MODULE MPSCQueue_proofs --------------------------
(***************************************************************************)
(* Proofs about MPSCQueue: QueueInv is an invariant for any producers, any *)
(* addresses and any number of calls, and with it the order of delivery,   *)
(* memory safety and the absence of aborts.  One lemma per action, one     *)
(* step per conjunct of the invariant.  Announced, on top of it, justifies *)
(* the answer that the queue is empty.                                     *)
(***************************************************************************)
EXTENDS MPSCQueue, TLAPS

LEMMA InvInit == Init => QueueInv
<1> SUFFICES ASSUME Init PROVE QueueInv
  BY Zenon
<1> USE MPSCAssumption DEF Init
<1>1. TypeOK
  BY DEF TypeOK, Ptr, Link, ProducerPC, ConsumerPC, Values
<1>2. DequeuedInOrder /\ TicketsOrdered /\ HeadIsLast
  BY DEF DequeuedInOrder, TicketsOrdered, HeadIsLast, E, D
<1>3. ListShape /\ ProducersOK /\ ConsumerOK
  BY DEF ListShape, ProducersOK, ConsumerOK, OpensQueue, Holding, E, D
<1> QED
  BY Zenon, <1>1, <1>2, <1>3 DEF QueueInv

LEMMA EnqueueInv ==
  ASSUME NEW t \in Producers, QueueInv, Enqueue(t) PROVE QueueInv'
<1> USE MPSCAssumption DEF QueueInv, Enqueue, cvars, hvars
<1>1. TypeOK'
  BY SMTT(40) DEF TypeOK, Ptr, Link, ProducerPC, ConsumerPC, Values
<1>2. DequeuedInOrder'
  BY Zenon DEF DequeuedInOrder, TypeOK, D, E
<1>3. TicketsOrdered'
  BY DEF TicketsOrdered, DequeuedInOrder, TypeOK, ConsumerOK, ProducersOK, Holding, D, E
<1>4. ListShape'
  BY SMTT(30) DEF ListShape, LinkedForward, LinkedBack, Unlinked, Reversed, TicketsOrdered, TypeOK,
    ProducersOK, ConsumerOK, HeadIsLast, OpensQueue, ConsumerOut, Holding, D, E
<1>5. HeadIsLast'
  BY Zenon DEF HeadIsLast, TypeOK, TicketsOrdered, ConsumerOK, ProducersOK, Holding, D, E
<1>6. ProducersOK'
  <2> PICK n \in Nodes \ heap : /\ heap' = heap \cup {n}
                                /\ next' = [next EXCEPT ![n] = UNCONNECTED]
                                /\ data' = [data EXCEPT ![n] = <<t, calls[t] + 1>>]
                                /\ pnode' = [pnode EXCEPT ![t] = n]
    BY Zenon
  <2>1. ticket[n] = 0
    BY Zenon DEF TicketsOrdered
  <2>2. \A s \in Producers : ppc[s] # "idle" => pnode[s] \in heap
    BY DEF ProducersOK, OpensQueue, TicketsOrdered, TypeOK, ProducerPC, D
  <2>3. data'[n] \in Values
    BY DEF TypeOK, Values
  <2>4. ConsumerOut => ConsumerOut'
    BY <2>1 DEF ConsumerOut, ConsumerOK, Holding, TypeOK, D
  <2> QED
    BY <2>1, <2>2, <2>3, <2>4 DEF ProducersOK, OpensQueue, TypeOK, D
<1>7. ConsumerOK'
  BY DEF ConsumerOK, OpensQueue, ConsumerOut, TypeOK, TicketsOrdered, ListShape,
    LinkedForward, LinkedBack, Unlinked, Reversed, ProducersOK, HeadIsLast, Holding, D, E
<1> QED
  BY Zenon, <1>1, <1>2, <1>3, <1>4, <1>5, <1>6, <1>7 DEF QueueInv

LEMMA ExchangeInv ==
  ASSUME NEW t \in Producers, QueueInv, Exchange(t) PROVE QueueInv'
<1> USE MPSCAssumption DEF QueueInv, Exchange, cvars
<1>1. TypeOK'
  BY SMTT(30) DEF TypeOK, Ptr, Link, ProducerPC, ConsumerPC, Values, ProducersOK
<1>2. DequeuedInOrder'
  BY DEF DequeuedInOrder, TypeOK, D, E
<1>3. TicketsOrdered'
  BY DEF TicketsOrdered, DequeuedInOrder, TypeOK, ConsumerOK, ProducersOK, Holding, D, E
<1>4. ListShape'
  <2>1. pnode[t] \in Nodes /\ ticket[pnode[t]] = 0 /\ next[pnode[t]] = UNCONNECTED
    BY Zenon DEF ProducersOK
  <2>2. D' = D /\ E' = E + 1 /\ D \in Nat /\ E \in Nat
    BY DEF TypeOK, D, E
  <2>3. Unlinked(pnode[t])'
    BY Zenon, <2>1 DEF Unlinked, TypeOK
  <2>4. \A m \in Nodes : Unlinked(m) => Unlinked(m)'
    BY Zenon DEF Unlinked, TypeOK
  <2>5. /\ cpc \in {"reverse", "join"} =>
             newHead \in Nodes /\ newHead # pnode[t] /\ ticket[newHead] <= E
        /\ cpc = "reverse" => p \in Nodes /\ p # pnode[t]
    BY <2>1, <2>2 DEF ConsumerOK, TicketsOrdered, TypeOK
  <2>6. ticket'[pnode[t]] = E + 1 /\ fwd' <= E + 1
    BY <2>1, <2>2 DEF TypeOK, TicketsOrdered, E
  <2>7. ~Reversed(pnode[t])'
    BY <2>1, <2>2, <2>6, <2>5 DEF Reversed, TypeOK
  <2>8. ASSUME NEW n \in Nodes, n # pnode[t], ticket[n] > D
        PROVE  /\ ticket'[n] = ticket[n] /\ fwd' = fwd
               /\ LinkedForward(n) => LinkedForward(n)'
               /\ LinkedBack(n) => LinkedBack(n)'
               /\ Reversed(n)' <=> Reversed(n)
    <3>1. ticket'[n] = ticket[n]
      BY Zenon, <2>8 DEF TypeOK
    <3>2. fwd' = fwd
      <4>1. ticket[n] # 0
        BY <2>2, <2>8 DEF TypeOK
      <4>2. D < E
        BY <2>2, <2>8, <4>1 DEF TicketsOrdered, TypeOK
      <4> QED
        BY <2>2, <4>2 DEF HeadIsLast
    <3>3. Reversed(n)' <=> Reversed(n)
      BY Zenon, <2>2, <2>5, <3>1 DEF Reversed, TypeOK
    <3>4. LinkedForward(n) => LinkedForward(n)'
      BY <2>1, <2>8, <3>1 DEF LinkedForward, TypeOK
    <3>5. LinkedBack(n) => LinkedBack(n)'
      BY Zenon, <2>1, <2>8, <3>1 DEF LinkedBack, TypeOK
    <3> QED
      BY Zenon, <3>1, <3>2, <3>3, <3>4, <3>5
  <2> QED
    BY <2>1, <2>2, <2>3, <2>4, <2>6, <2>7, <2>8 DEF ListShape, TypeOK
<1>5. HeadIsLast'
  BY DEF HeadIsLast, TypeOK, TicketsOrdered, ConsumerOK, ProducersOK, Holding, D, E
<1>6. ProducersOK'
  BY DEF ProducersOK, OpensQueue, ConsumerOut, TypeOK, TicketsOrdered, ListShape,
    LinkedForward, LinkedBack, Unlinked, Reversed, ConsumerOK, HeadIsLast, Holding, D, E
<1>7. ConsumerOK'
  BY SMTT(30) DEF ConsumerOK, OpensQueue, ConsumerOut, TypeOK, TicketsOrdered, ListShape,
    LinkedForward, LinkedBack, Unlinked, Reversed, ProducersOK, HeadIsLast, Holding, D, E
<1> QED
  BY Zenon, <1>1, <1>2, <1>3, <1>4, <1>5, <1>6, <1>7 DEF QueueInv

LEMMA LinkNodeInv ==
  ASSUME NEW t \in Producers, QueueInv, LinkNode(t) PROVE QueueInv'
<1> USE MPSCAssumption DEF QueueInv, LinkNode, cvars, hvars
<1>1. TypeOK'
  BY DEF TypeOK, Ptr, Link, ProducerPC, ConsumerPC, Values, ProducersOK
<1>2. DequeuedInOrder'
  BY Zenon DEF DequeuedInOrder, TypeOK, D, E
<1>3. TicketsOrdered'
  BY Zenon DEF TicketsOrdered, DequeuedInOrder, TypeOK, ConsumerOK, ProducersOK, Holding, D, E
<1>4. ListShape'
  <2>1. pnode[t] \in Nodes /\ next[pnode[t]] = UNCONNECTED /\ ~Reversed(pnode[t])
    BY DEF ProducersOK, ListShape, Reversed, LinkedForward, TypeOK, ConsumerOK, D
  <2>2. \A m \in Nodes : m # pnode[t] => next'[m] = next[m]
    BY Zenon, <2>1 DEF TypeOK
  <2>3. \A m \in Nodes : Reversed(m)' <=> Reversed(m)
    BY Zenon DEF Reversed, D
  <2>4. IF prev[t] = NULL THEN ticket[pnode[t]] = fwd /\ next'[pnode[t]] = NULL
        ELSE ticket[pnode[t]] > fwd /\ LinkedBack(pnode[t])'
    BY <2>1 DEF ProducersOK, OpensQueue, LinkedBack, TypeOK, Ptr
  <2>5. \A n \in Nodes \ {pnode[t]} : ticket[n] > D =>
          /\ ticket[n] < fwd => LinkedForward(n)'
          /\ ticket[n] = fwd => next'[n] = NULL \/ Unlinked(n)'
          /\ ticket[n] > fwd /\ ~Reversed(n)' => LinkedBack(n)' \/ Unlinked(n)'
          /\ Reversed(n)' => IF n = newHead THEN next'[n] = NULL ELSE LinkedForward(n)'
    <3> TAKE n \in Nodes \ {pnode[t]}
    <3>1. next'[n] = next[n] /\ (Reversed(n)' <=> Reversed(n))
      BY Zenon, <2>2, <2>3
    <3> HAVE ticket[n] > D
    <3>2. /\ ticket[n] < fwd => LinkedForward(n)
          /\ ticket[n] = fwd => next[n] = NULL \/ Unlinked(n)
          /\ ticket[n] > fwd /\ ~Reversed(n) => LinkedBack(n) \/ Unlinked(n)
          /\ Reversed(n) => IF n = newHead THEN next[n] = NULL ELSE LinkedForward(n)
      BY Zenon DEF ListShape
    <3>3. /\ LinkedForward(n) => LinkedForward(n)'
          /\ LinkedBack(n) => LinkedBack(n)'
          /\ Unlinked(n) => Unlinked(n)'
      BY Zenon DEF LinkedForward, LinkedBack, Unlinked, TypeOK
    <3> QED
      BY ONLY Zenon, <3>1, <3>2, <3>3
  <2> QED
    BY <2>1, <2>3, <2>4, <2>5 DEF ListShape, TypeOK, D
<1>5. HeadIsLast'
  BY Zenon DEF HeadIsLast, TypeOK, TicketsOrdered, ConsumerOK, ProducersOK, Holding, D, E
<1>6. ProducersOK'
  <2>1. pnode[t] \in Nodes /\ next[pnode[t]] = UNCONNECTED /\ prev[t] \in Ptr
    BY Zenon DEF ProducersOK, TypeOK
  <2>2. ConsumerOut => ConsumerOut'
    BY Zenon, <2>1 DEF ConsumerOut, ConsumerOK, Holding, TypeOK
  <2> QED
    BY <2>1, <2>2 DEF ProducersOK, OpensQueue, TypeOK, Ptr, D
<1>7. ConsumerOK'
  <2>1. pnode[t] \in Nodes /\ next[pnode[t]] = UNCONNECTED /\ prev[t] # UNCONNECTED
    BY Zenon DEF ProducersOK, TypeOK, Ptr
  <2>2. \A n \in Nodes : /\ next[n] # UNCONNECTED => next'[n] = next[n]
                         /\ next'[n] # next[n] => next'[n] # UNCONNECTED
    BY Zenon, <2>1 DEF TypeOK
  <2> QED
    BY Zenon, <2>1, <2>2 DEF ConsumerOK, ConsumerOut, Holding, TypeOK, Ptr, D
<1> QED
  BY Zenon, <1>1, <1>2, <1>3, <1>4, <1>5, <1>6, <1>7 DEF QueueInv

LEMMA PublishInv ==
  ASSUME NEW t \in Producers, QueueInv, Publish(t) PROVE QueueInv'
<1> USE MPSCAssumption DEF QueueInv, Publish, cvars, hvars
<1>1. TypeOK'
  BY DEF TypeOK, Ptr, Link, ProducerPC, ConsumerPC, Values
<1>2. DequeuedInOrder'
  BY Zenon DEF DequeuedInOrder, TypeOK, D, E
<1>3. TicketsOrdered'
  BY Zenon DEF TicketsOrdered, Holding, D, E
<1>4. ListShape'
  BY Zenon DEF ListShape, LinkedForward, LinkedBack, Unlinked, Reversed, TypeOK, D
<1>5. HeadIsLast'
  BY Zenon DEF HeadIsLast, TypeOK, TicketsOrdered, ConsumerOK, ProducersOK, Holding, D, E
<1>6. ProducersOK'
  <2>1. OpensQueue(t)
    BY Zenon DEF ProducersOK, OpensQueue
  <2>2. \A s \in Producers : s # t => ~OpensQueue(s)
    <3> SUFFICES ASSUME NEW s \in Producers, OpensQueue(s) PROVE s = t
      BY Zenon
    <3>0. D \in Nat
      BY DEF TypeOK, D
    <3>1. ticket[pnode[s]] = D + 1 /\ ticket[pnode[t]] = D + 1
      BY <2>1, Zenon DEF ProducersOK
    <3>2. pnode[s] \in Nodes /\ pnode[t] \in Nodes
      BY Zenon, <2>1 DEF ProducersOK, OpensQueue
    <3>4. \A m, n \in Nodes : ticket[m] # 0 /\ ticket[m] = ticket[n] => m = n
      BY Zenon DEF TicketsOrdered
    <3>3. pnode[s] = pnode[t]
      BY ONLY <3>0, <3>1, <3>2, <3>4
    <3> QED
      BY Zenon, <2>1, <3>3 DEF ProducersOK, OpensQueue
  <2> QED
    BY Zenon, <2>1, <2>2 DEF ProducersOK, OpensQueue, ConsumerOut, TypeOK, D
<1>7. ConsumerOK'
  BY Zenon DEF ConsumerOK, OpensQueue, ConsumerOut, TypeOK, TicketsOrdered, ListShape,
    LinkedForward, LinkedBack, Unlinked, Reversed, ProducersOK, HeadIsLast, Holding, D, E
<1> QED
  BY Zenon, <1>1, <1>2, <1>3, <1>4, <1>5, <1>6, <1>7 DEF QueueInv

LEMMA DequeueInv ==
  ASSUME QueueInv, Dequeue PROVE QueueInv'
<1> USE MPSCAssumption DEF QueueInv, Dequeue, First, pvars, hvars
<1>0. node' \in Nodes /\ ticket[node'] = D + 1 /\ D < fwd /\ next[node'] # UNCONNECTED
  BY DEF ConsumerOK, TypeOK, Ptr, D
<1>1. TypeOK'
  BY Zenon DEF TypeOK, Ptr, Link, ProducerPC, ConsumerPC, Values
<1>2. DequeuedInOrder'
  BY Zenon DEF DequeuedInOrder, TypeOK, D, E
<1>3. TicketsOrdered'
  BY Zenon DEF TicketsOrdered, Holding, D, E
<1>4. ListShape'
  BY Zenon DEF ListShape, LinkedForward, LinkedBack, Unlinked, Reversed, D
<1>5. HeadIsLast'
  <2>1. D \in Nat /\ D < E
    BY <1>0 DEF TicketsOrdered, TypeOK, D, E
  <2> QED
    BY <2>1 DEF HeadIsLast, D, E
<1>6. ProducersOK'
  BY DEF ProducersOK, OpensQueue, ConsumerOut, TypeOK, TicketsOrdered, ListShape,
    LinkedForward, LinkedBack, Unlinked, Reversed, ConsumerOK, HeadIsLast, Holding, D, E
<1>7. ConsumerOK'
  <2>1. curEnq # NULL => curEnq = node'
    BY Zenon DEF ConsumerOK, ConsumerOut
  <2> QED
    BY Zenon, <1>0, <2>1 DEF ConsumerOK, TypeOK, Holding, D
<1> QED
  BY Zenon, <1>1, <1>2, <1>3, <1>4, <1>5, <1>6, <1>7 DEF QueueInv

LEMMA ClearPublishedInv ==
  ASSUME QueueInv, ClearPublished PROVE QueueInv'
<1> USE MPSCAssumption DEF QueueInv, ClearPublished, pvars, hvars
<1>1. TypeOK'
  BY Zenon DEF TypeOK, Ptr, Link, ProducerPC, ConsumerPC, Values
<1>2. DequeuedInOrder'
  BY Zenon DEF DequeuedInOrder, TypeOK, D, E
<1>3. TicketsOrdered'
  BY Zenon DEF TicketsOrdered, Holding, D, E
<1>4. ListShape'
  BY Zenon DEF ListShape, LinkedForward, LinkedBack, Unlinked, Reversed, D
<1>5. HeadIsLast'
  BY Zenon DEF HeadIsLast, TypeOK, TicketsOrdered, ConsumerOK, ProducersOK, Holding, D, E
<1>6. ProducersOK'
  BY Zenon DEF ProducersOK, OpensQueue, ConsumerOut, TypeOK, TicketsOrdered, ListShape,
    LinkedForward, LinkedBack, Unlinked, Reversed, ConsumerOK, HeadIsLast, Holding, D, E
<1>7. ConsumerOK'
  BY Zenon DEF ConsumerOK, OpensQueue, ConsumerOut, TypeOK, TicketsOrdered, ListShape,
    LinkedForward, LinkedBack, Unlinked, Reversed, ProducersOK, HeadIsLast, Holding, D, E
<1> QED
  BY Zenon, <1>1, <1>2, <1>3, <1>4, <1>5, <1>6, <1>7 DEF QueueInv

LEMMA ReadNodeInv ==
  ASSUME QueueInv, ReadNode PROVE QueueInv'
<1> USE MPSCAssumption DEF QueueInv, ReadNode, pvars
<1>0. D \in Nat /\ E \in Nat /\ D' = D + 1 /\ E' = E /\ ticket[node] = D + 1
  BY DEF ConsumerOK, TypeOK, D, E
<1>8. next[node] # UNCONNECTED /\ D < fwd /\ fwd \in Nat
  BY Zenon DEF ConsumerOK, TypeOK
<1>9. IF next[node] = NULL THEN fwd = D + 1 ELSE LinkedForward(node) /\ D + 1 < fwd
  <2>1. D + 1 < fwd => LinkedForward(node)
    BY <1>0 DEF ListShape
  <2>2. D + 1 = fwd => next[node] = NULL
    BY Zenon, <1>0, <1>8 DEF ListShape, Unlinked
  <2> QED
    BY <1>0, <1>8, <2>1, <2>2, SMTT(30) DEF LinkedForward
<1>1. TypeOK'
  <2>1. data[node] \in Values
    <3>1. ticket[node] # 0
      BY DEF TypeOK, ConsumerOK, D
    <3>2. data[node] = enqueued[ticket[node]] /\ ticket[node] \in 1..Len(enqueued)
      BY <3>1 DEF TypeOK, TicketsOrdered, E
    <3> QED
      BY <3>2 DEF TypeOK
  <2> QED
    BY <2>1 DEF TypeOK, Ptr, Link, ConsumerPC
<1>2. DequeuedInOrder'
  BY SMTT(30) DEF DequeuedInOrder, TypeOK, D, E, TicketsOrdered, ConsumerOK
<1>3. TicketsOrdered'
  <2>1. cpc' \in {"cas", "advance"} /\ ticket \in [Nodes -> Nat] /\ ~Holding /\ node' = node
    BY Zenon DEF TypeOK, Holding
  <2>3. node \in Nodes
    BY Zenon DEF ConsumerOK
  <2>2. ASSUME NEW n \in Nodes, ticket[n] # 0
        PROVE  ticket[n] > D' \/ (Holding' /\ n = node' /\ ticket[n] = D')
    <3>1. ticket[n] > D
      BY <2>1, <2>2, Zenon DEF TicketsOrdered
    <3>2. ticket[n] = ticket[node] => n = node
      BY <2>2, <2>3, Zenon DEF TicketsOrdered
    <3> QED
      BY ONLY <1>0, <2>1, <3>1, <3>2 DEF Holding
  <2> QED
    BY Zenon, <1>0, <2>2 DEF TicketsOrdered
<1>4. ListShape'
  BY <1>0, SMTT(30) DEF ListShape, LinkedForward, LinkedBack, Unlinked, Reversed, TypeOK
<1>5. HeadIsLast'
  BY Zenon DEF HeadIsLast, TypeOK, TicketsOrdered, ConsumerOK, ProducersOK, Holding, D, E
<1>6. ProducersOK'
  BY Zenon DEF ProducersOK, OpensQueue, ConsumerOut, TypeOK, TicketsOrdered, ListShape,
    LinkedForward, LinkedBack, Unlinked, Reversed, ConsumerOK, HeadIsLast, Holding, D, E
<1>7. ConsumerOK'
  <2>1. next[node] # NULL => next[next[node]] # UNCONNECTED
    <3> SUFFICES ASSUME next[node] # NULL, next[next[node]] = UNCONNECTED PROVE FALSE
      BY Zenon
    <3>1. next[node] \in Nodes /\ ticket[next[node]] = D + 2 /\ D + 2 <= fwd
      BY <1>0, <1>9 DEF LinkedForward, TypeOK
    <3>2. ticket[next[node]] = fwd /\ Unlinked(next[node])
      <4>1. ~LinkedForward(next[node])
        BY Zenon DEF LinkedForward
      <4>2. ticket[next[node]] < fwd => LinkedForward(next[node])
        BY <1>0, <3>1 DEF ListShape
      <4>3. ticket[next[node]] = fwd
        BY ONLY <1>0, <1>8, <3>1, <4>1, <4>2
      <4>4. next[next[node]] = NULL \/ Unlinked(next[node])
        BY <1>0, <3>1, <4>3, SMTT(30) DEF ListShape
      <4> QED
        BY Zenon, <4>3, <4>4
    <3> QED
      BY <1>0, <3>1, <3>2 DEF Unlinked, ProducersOK, OpensQueue, TypeOK
  <2> QED
    BY <1>0, <1>9, <2>1, SMTT(30) DEF ConsumerOK, ConsumerOut, LinkedForward, Holding, TypeOK
<1> QED
  BY Zenon, <1>1, <1>2, <1>3, <1>4, <1>5, <1>6, <1>7 DEF QueueInv

LEMMA CloseOrReverseInv ==
  ASSUME QueueInv, CloseOrReverse PROVE QueueInv'
<1> USE MPSCAssumption DEF QueueInv, CloseOrReverse, pvars, hvars
<1>0. head \in Nodes /\ ticket[head] = E
  BY Zenon DEF HeadIsLast, TypeOK, Ptr
<1>1. TypeOK'
  BY Zenon DEF TypeOK, Ptr, Link, ProducerPC, ConsumerPC, Values
<1>2. DequeuedInOrder'
  BY Zenon DEF DequeuedInOrder, TypeOK, D, E
<1>3. TicketsOrdered'
  BY Zenon DEF TicketsOrdered, DequeuedInOrder, TypeOK, ConsumerOK, ProducersOK, Holding, D, E
<1>4. ListShape'
  <2>1. \A n \in Nodes : ~Reversed(n) /\ ~Reversed(n)'
    BY <1>0 DEF Reversed, TypeOK
  <2> QED
    BY Zenon, <2>1 DEF ListShape, LinkedForward, LinkedBack, Unlinked, D
<1>5. HeadIsLast'
  BY Zenon, <1>0 DEF HeadIsLast, TypeOK, TicketsOrdered, ConsumerOK, ProducersOK, Holding, D, E
<1>6. ProducersOK'
  <2>1. \A t \in Producers : ~OpensQueue(t)
    BY Zenon DEF ProducersOK, ConsumerOut
  <2> QED
    BY Zenon, <2>1 DEF ProducersOK, OpensQueue, D
<1>7. ConsumerOK'
  <2>1. head # node => D < ticket[head]
    <3>1. E \in Nat /\ D \in Nat
      BY DEF TypeOK, D, E
    <3>2. E # 0
      BY Zenon, <1>0 DEF HeadIsLast
    <3>3. ticket[head] # 0 => ticket[head] > D \/ head = node
      BY <1>0, Zenon DEF TicketsOrdered
    <3> QED
      BY ONLY Zenon, <1>0, <3>1, <3>2, <3>3
  <2> QED
    BY <1>0, <2>1 DEF ConsumerOK, ConsumerOut, Holding, TypeOK, D
<1> QED
  BY Zenon, <1>1, <1>2, <1>3, <1>4, <1>5, <1>6, <1>7 DEF QueueInv

LEMMA ReverseStepInv ==
  ASSUME QueueInv, ReverseStep PROVE QueueInv'
<1> USE MPSCAssumption DEF QueueInv, ReverseStep, pvars, hvars
<1>0. next[p] \in Nodes /\ ticket[p] = ticket[next[p]] + 1 /\ ticket[next[p]] # 0
  BY DEF ListShape, LinkedBack, Unlinked, Reversed, ConsumerOK, TypeOK, D
<1>1. TypeOK'
  BY Zenon DEF TypeOK, Ptr, Link, ProducerPC, ConsumerPC, Values
<1>2. DequeuedInOrder'
  BY Zenon DEF DequeuedInOrder, TypeOK, D, E
<1>3. TicketsOrdered'
  BY <1>0 DEF TicketsOrdered, DequeuedInOrder, TypeOK, ConsumerOK, ProducersOK, Holding,
    D, E
<1>4. ListShape'
  BY <1>0 DEF ListShape, LinkedForward, LinkedBack, Unlinked, Reversed, TicketsOrdered,
    TypeOK, ProducersOK, ConsumerOK, HeadIsLast, OpensQueue, ConsumerOut, Holding, D, E
<1>5. HeadIsLast'
  BY Zenon, <1>0 DEF HeadIsLast, TypeOK, TicketsOrdered, ConsumerOK, ProducersOK, Holding, D, E
<1>6. ProducersOK'
  BY <1>0 DEF ProducersOK, OpensQueue, ConsumerOut, TypeOK, TicketsOrdered, ListShape,
    LinkedForward, LinkedBack, Unlinked, Reversed, ConsumerOK, HeadIsLast, Holding, D, E
<1>7. ConsumerOK'
  BY <1>0 DEF ConsumerOK, OpensQueue, ConsumerOut, TypeOK, TicketsOrdered, ListShape,
    LinkedForward, LinkedBack, Unlinked, Reversed, ProducersOK, HeadIsLast, Holding, D, E
<1> QED
  BY Zenon, <1>1, <1>2, <1>3, <1>4, <1>5, <1>6, <1>7 DEF QueueInv

LEMMA JoinListsInv ==
  ASSUME QueueInv, JoinLists PROVE QueueInv'
<1> USE MPSCAssumption DEF QueueInv, JoinLists, pvars
<1>0. newHead \in Nodes /\ D < ticket[newHead] /\ ticket[newHead] <= E /\ fwd = D
  <2>1. newHead \in Nodes /\ D < ticket[newHead] /\ fwd = D
    BY Zenon DEF ConsumerOK
  <2>2. D \in Nat
    BY DEF TypeOK, D
  <2>3. ticket[newHead] # 0 => ticket[newHead] <= E
    BY <2>1, Zenon DEF TicketsOrdered
  <2> QED
    BY ONLY <2>1, <2>2, <2>3
<1>1. TypeOK'
  BY Zenon DEF TypeOK, Ptr, Link, ProducerPC, ConsumerPC, Values, ConsumerOK
<1>2. DequeuedInOrder'
  BY Zenon DEF DequeuedInOrder, TypeOK, D, E
<1>3. TicketsOrdered'
  BY Zenon, <1>0 DEF TicketsOrdered, Holding, TypeOK, D, E
<1>4. ListShape'
  <2>1. node \in Nodes /\ ticket[node] = D /\ D \in Nat
    BY Zenon DEF ConsumerOK, Holding, TypeOK, D
  <2> SUFFICES ASSUME NEW n \in Nodes, ticket[n] > D
               PROVE  /\ ticket[n] < fwd' => LinkedForward(n)'
                      /\ ticket[n] = fwd' => next'[n] = NULL
                      /\ ticket[n] > fwd' => LinkedBack(n)' \/ Unlinked(n)'
    BY Zenon DEF ListShape, Reversed, D
  <2>2. next'[n] = next[n]
    BY <2>1 DEF TypeOK
  <2>3. ticket[n] <= ticket[newHead] =>
          IF n = newHead THEN next[n] = NULL ELSE LinkedForward(n)
    BY Zenon DEF ListShape, Reversed
  <2>4. ticket[n] > ticket[newHead] => LinkedBack(n) \/ Unlinked(n)
    BY <1>0, <2>1 DEF ListShape, Reversed, TypeOK
  <2>5. ticket[n] = ticket[newHead] => n = newHead
    BY <1>0, <2>1 DEF TicketsOrdered, TypeOK
  <2> QED
    BY <1>0, <2>1, <2>2, <2>3, <2>4, <2>5 DEF LinkedForward, LinkedBack, Unlinked, TypeOK
<1>5. HeadIsLast'
  BY Zenon DEF HeadIsLast, TypeOK, TicketsOrdered, ConsumerOK, ProducersOK, Holding, D, E
<1>6. ProducersOK'
  <2>1. \A s \in Producers : ppc[s] = "link" /\ prev[s] # NULL => ticket[pnode[s]] > fwd'
    <3> SUFFICES ASSUME NEW s \in Producers, ppc[s] = "link", prev[s] # NULL
                 PROVE  ticket[pnode[s]] > ticket[newHead]
      BY Zenon
    <3>1. pnode[s] \in Nodes /\ next[pnode[s]] = UNCONNECTED /\ ticket[pnode[s]] > D
      BY Zenon, <1>0 DEF ProducersOK
    <3>2. ~Reversed(pnode[s])
      BY Zenon, <3>1 DEF ListShape, LinkedForward
    <3> QED
      BY <1>0, <3>1, <3>2 DEF Reversed, TypeOK
  <2>2. node \in Nodes /\ \A s \in Producers : ~OpensQueue(s)
    BY Zenon DEF ProducersOK, ConsumerOut, ConsumerOK, Holding
  <2>3. next[node] # UNCONNECTED /\ ticket[node] # 0
    BY Zenon DEF ConsumerOK, Holding, D
  <2> QED
    BY Zenon, <2>1, <2>2, <2>3 DEF ProducersOK, OpensQueue, TypeOK, D
<1>7. ConsumerOK'
  <2>1. next'[node] = tail /\ tail \in Nodes /\ tail # node
    BY DEF ConsumerOK, TypeOK, Holding, D
  <2>2. next[tail] # UNCONNECTED
    <3>1. Reversed(tail) /\ ticket[tail] > D
      BY DEF Reversed, ConsumerOK, TypeOK, D
    <3> QED
      BY Zenon, <2>1, <3>1 DEF ListShape, LinkedForward
  <2> QED
    BY Zenon, <2>1, <2>2 DEF ConsumerOK, ConsumerOut, TypeOK, Holding, D
<1> QED
  BY Zenon, <1>1, <1>2, <1>3, <1>4, <1>5, <1>6, <1>7 DEF QueueInv

LEMMA AdvanceInv ==
  ASSUME QueueInv, Advance PROVE QueueInv'
<1> USE MPSCAssumption DEF QueueInv, Advance, pvars
<1>0. node \in Nodes /\ ticket[node] = D /\ D # 0 /\ D \in Nat /\ next[node] # UNCONNECTED
  BY DEF ConsumerOK, Holding, TypeOK, D
<1>8. \A n \in Nodes : n # node => ticket'[n] = ticket[n]
  BY Zenon DEF TypeOK
<1>9. fwd <= D => E = D
  BY <1>0 DEF ConsumerOK, HeadIsLast, TypeOK
<1>1. TypeOK'
  BY Zenon DEF TypeOK, Ptr, Link, ProducerPC, ConsumerPC, Values, ConsumerOK, Holding
<1>2. DequeuedInOrder'
  BY Zenon DEF DequeuedInOrder, TypeOK, D, E
<1>3. TicketsOrdered'
  BY Zenon, <1>0, <1>8 DEF TicketsOrdered, Holding, TypeOK, D, E
<1>4. ListShape'
  <2> SUFFICES ASSUME NEW n \in Nodes, ticket'[n] > D
               PROVE  /\ ticket'[n] < fwd => LinkedForward(n)'
                      /\ ticket'[n] = fwd => next[n] = NULL \/ Unlinked(n)'
                      /\ ticket'[n] > fwd => LinkedBack(n)' \/ Unlinked(n)'
    BY Zenon DEF ListShape, Reversed, D
  <2>1. n # node /\ ticket'[n] = ticket[n] /\ ~Reversed(n)
    BY <1>0, <1>8 DEF TypeOK, Reversed
  <2>2. LinkedForward(n) => LinkedForward(n)'
    BY <1>0, <1>8, <2>1 DEF LinkedForward, TypeOK
  <2>5. ticket[n] > D
    BY Zenon, <2>1
  <2>3. ticket[n] > fwd /\ LinkedBack(n) => LinkedBack(n)'
    <3> SUFFICES ASSUME ticket[n] > fwd, LinkedBack(n) PROVE next[n] # node
      BY Zenon, <1>8, <2>1 DEF LinkedBack
    <3>0. ticket[n] # 0
      BY ONLY <1>0, <2>5
    <3>1. ticket[n] <= E
      BY <3>0, Zenon DEF TicketsOrdered
    <3> QED
      BY <1>0, <1>9, <2>1, <3>1 DEF LinkedBack, TypeOK
  <2>4. Unlinked(n) => Unlinked(n)'
    BY Zenon DEF Unlinked
  <2> QED
    BY Zenon, <2>1, <2>2, <2>3, <2>4 DEF ListShape
<1>5. HeadIsLast'
  <2>1. head # NULL => head # node
    <3>1. head # NULL => ticket[head] = E
      BY Zenon DEF HeadIsLast
    <3>2. head # NULL => D < fwd
      BY Zenon DEF ConsumerOK
    <3>3. fwd <= E
      BY Zenon DEF TicketsOrdered
    <3>4. fwd \in Nat /\ E \in Nat
      BY DEF TypeOK, E
    <3> QED
      BY ONLY <1>0, <3>1, <3>2, <3>3, <3>4
  <2>2. head' = head /\ E' = E /\ D' = D /\ cpc' = "idle" /\ head \in Nodes \cup {NULL}
    BY Zenon DEF TypeOK, Ptr, D, E
  <2> QED
    BY Zenon, <1>8, <2>1, <2>2 DEF HeadIsLast
<1>6. ProducersOK'
  <2>1. ASSUME NEW s \in Producers, ppc[s] = "exchange" PROVE pnode[s] # node
    BY Zenon, <1>0, <2>1 DEF ProducersOK
  <2>2. ASSUME NEW s \in Producers, ppc[s] = "link"
        PROVE  pnode[s] # node /\ (prev[s] # NULL => prev[s] # node)
    <3>1. pnode[s] \in Nodes /\ pnode[s] # node /\ ticket[pnode[s]] <= E
      BY Zenon, <1>0, <2>2 DEF ProducersOK, TicketsOrdered
    <3> SUFFICES ASSUME prev[s] # NULL, prev[s] = node PROVE FALSE
      BY Zenon, <3>1
    <3>2. ticket[pnode[s]] = D + 1 /\ ticket[pnode[s]] > fwd
      BY Zenon, <1>0, <2>2 DEF ProducersOK
    <3> QED
      BY <1>0, <1>9, <3>1, <3>2 DEF TypeOK
  <2>3. ASSUME NEW s \in Producers, OpensQueue(s)
        PROVE  pnode[s] # node /\ ConsumerOut'
    <3>1. ticket[pnode[s]] = D + 1 /\ ConsumerOut
      BY <2>3, Zenon DEF ProducersOK
    <3>2. next[node] = NULL /\ cpc' = "idle" /\ curDeq' = next[node]
      BY Zenon, <3>1 DEF ConsumerOut
    <3>3. pnode[s] # node
      BY ONLY <1>0, <3>1
    <3>4. ConsumerOut'
      BY ONLY Zenon, <3>2 DEF ConsumerOut
    <3> QED
      BY ONLY Zenon, <3>3, <3>4
  <2>4. D' = D
    BY Zenon DEF D
  <2>5. \A s \in Producers : ppc[s] # "idle" => pnode[s] # node /\ pnode[s] \in Nodes
    BY Zenon, <2>1, <2>2, <2>3 DEF ProducersOK, OpensQueue, TypeOK, ProducerPC
  <2>6. ASSUME NEW s \in Producers, ppc[s] = "exchange"
        PROVE  /\ pnode[s] \in heap' /\ ticket'[pnode[s]] = 0
               /\ next[pnode[s]] = UNCONNECTED /\ data[pnode[s]] \in Values
    BY Zenon, <1>8, <2>5, <2>6 DEF ProducersOK
  <2>7. ASSUME NEW s \in Producers, ppc[s] = "link"
        PROVE  /\ ticket'[pnode[s]] # 0 /\ next[pnode[s]] = UNCONNECTED
               /\ prev[s] # NULL => /\ ticket'[prev[s]] # 0
                                    /\ ticket'[pnode[s]] = ticket'[prev[s]] + 1
                                    /\ ticket'[pnode[s]] > fwd
    <3>1. prev[s] # NULL => prev[s] \in Nodes
      BY Zenon DEF TypeOK, Ptr
    <3> QED
      BY Zenon, <1>8, <2>2, <2>5, <2>7, <3>1 DEF ProducersOK
  <2>8. ASSUME NEW s \in Producers, OpensQueue(s)
        PROVE  ticket'[pnode[s]] = D + 1 /\ fwd = D + 1 /\ curEnq = NULL
    BY Zenon, <1>8, <2>3, <2>5, <2>8 DEF ProducersOK, OpensQueue
  <2> QED
    BY Zenon, <2>3, <2>4, <2>5, <2>6, <2>7, <2>8 DEF ProducersOK, OpensQueue
<1>7. ConsumerOK'
  <2>1. curEnq # NULL => curEnq # node /\ curEnq \in Nodes /\ next[node] = NULL
    <3>1. curEnq # NULL => ticket[curEnq] = D + 1 /\ ConsumerOut
      BY Zenon DEF ConsumerOK
    <3>2. curEnq \in Nodes \cup {NULL} /\ (ConsumerOut => next[node] = NULL)
      BY Zenon DEF ConsumerOut, TypeOK, Ptr
    <3> QED
      BY ONLY <1>0, <3>1, <3>2
  <2>0. next[node] # NULL =>
          next[node] \in Nodes /\ ticket[next[node]] = D + 1 /\ D < fwd
          /\ next[next[node]] # UNCONNECTED
    BY Zenon DEF ConsumerOK
  <2>2. next[node] # NULL => next[node] # node
    BY ONLY <1>0, <2>0
  <2>3. D' = D /\ cpc' = "idle" /\ curDeq' = next[node]
    BY Zenon DEF D
  <2>4. curEnq # NULL => /\ ticket'[curEnq] = D + 1 /\ fwd = D + 1
                         /\ next[curEnq] = NULL /\ ConsumerOut'
    BY Zenon, <1>0, <1>8, <2>1, <2>3 DEF ConsumerOK, ConsumerOut
  <2>5. next[node] # NULL =>
          next[node] \in Nodes /\ ticket'[next[node]] = D + 1 /\ D < fwd
          /\ next[next[node]] # UNCONNECTED
    BY ONLY Zenon, <1>8, <2>0, <2>2
  <2> QED
    BY Zenon, <2>3, <2>4, <2>5 DEF ConsumerOK, Holding
<1> QED
  BY Zenon, <1>1, <1>2, <1>3, <1>4, <1>5, <1>6, <1>7 DEF QueueInv

LEMMA InvNext == QueueInv /\ [Next]_vars => QueueInv'
<1> SUFFICES ASSUME QueueInv, [Next]_vars PROVE QueueInv'
  BY Zenon
<1>1. CASE UNCHANGED vars
  <2> USE <1>1 DEF vars, pvars, cvars, hvars, QueueInv
  <2>1. TypeOK' /\ DequeuedInOrder' /\ TicketsOrdered' /\ HeadIsLast'
    BY Zenon DEF TypeOK, DequeuedInOrder, TicketsOrdered, HeadIsLast, Holding, D, E
  <2>2. ListShape'
    BY Zenon DEF ListShape, LinkedForward, LinkedBack, Unlinked, Reversed, D
  <2>3. ProducersOK'
    BY Zenon DEF ProducersOK, OpensQueue, ConsumerOut, D
  <2>4. ConsumerOK'
    BY Zenon DEF ConsumerOK, ConsumerOut, Holding, D
  <2> QED
    BY Zenon, <2>1, <2>2, <2>3, <2>4
<1> QED
  BY Zenon, <1>1, EnqueueInv, ExchangeInv, LinkNodeInv, PublishInv, DequeueInv, ClearPublishedInv,
     ReadNodeInv, CloseOrReverseInv, ReverseStepInv, JoinListsInv, AdvanceInv
  DEF Next, Produce, Consume

\* DequeuedInOrder, MemorySafe and NeverAborts are what QueueInv says of the
\* consumer's and the producers' pointers.
LEMMA InvImplies == QueueInv => DequeuedInOrder /\ MemorySafe /\ NeverAborts
<1> SUFFICES ASSUME QueueInv PROVE MemorySafe /\ NeverAborts
  BY Zenon DEF QueueInv
<1> USE MPSCAssumption DEF QueueInv
<1>0. D \in Nat /\ \A n \in Nodes : ticket[n] # 0 => n \in heap
  BY DEF TicketsOrdered, TypeOK, D
<1>1. head \in heap \cup {NULL}
  <2>1. head \in Nodes \cup {NULL} /\ (head # NULL => ticket[head] # 0)
    BY Zenon DEF HeadIsLast, TypeOK, Ptr
  <2> QED
    BY ONLY Zenon, <1>0, <2>1
<1>2. cpc \in {"read", "cas", "join", "advance"} => node \in heap
  <2>1. cpc = "read" => node \in Nodes /\ ticket[node] = D + 1
    BY Zenon DEF ConsumerOK
  <2>2. cpc \in {"cas", "join", "advance"} => node \in Nodes /\ ticket[node] = D /\ D # 0
    BY Zenon DEF ConsumerOK, Holding
  <2> QED
    BY ONLY <1>0, <2>1, <2>2
<1>3. cpc = "reverse" => p \in heap
  <2>1. cpc = "reverse" => p \in Nodes /\ D < ticket[p]
    BY Zenon DEF ConsumerOK
  <2> QED
    BY ONLY <1>0, <2>1
<1>4. \A t \in Producers : ppc[t] # "idle" => pnode[t] \in heap
  <2> SUFFICES ASSUME NEW t \in Producers, ppc[t] # "idle" PROVE pnode[t] \in heap
    BY Zenon
  <2>1. pnode[t] \in Nodes /\ ppc[t] \in {"exchange", "link", "publish"}
    BY Zenon DEF ProducersOK, TypeOK, ProducerPC
  <2>2. CASE ppc[t] = "exchange"
    BY Zenon, <2>2 DEF ProducersOK
  <2>3. CASE ppc[t] = "link"
    BY Zenon, <1>0, <2>1, <2>3 DEF ProducersOK
  <2>4. CASE ppc[t] = "publish"
    <3>1. OpensQueue(t)
      BY Zenon, <2>4 DEF ProducersOK, OpensQueue
    <3>2. ticket[pnode[t]] = D + 1
      BY Zenon, <3>1 DEF ProducersOK
    <3> QED
      BY ONLY <1>0, <2>1, <3>2
  <2> QED
    BY ONLY Zenon, <2>1, <2>2, <2>3, <2>4
<1> QED
  BY Zenon, <1>1, <1>2, <1>3, <1>4 DEF MemorySafe, NeverAborts, ConsumerOK

\* The inductive invariant holds in every reachable state of the queue.
THEOREM QueueCorrect == Spec => []QueueInv
BY InvInit, InvNext, PTL DEF Spec

\* Values leave DequeueImpl in the order of the exchanges in EnqueueImpl.
THEOREM InOrder == Spec => []DequeuedInOrder
BY QueueCorrect, InvImplies, PTL

\* No thread of the queue touches a node DequeueImpl has freed.
THEOREM Safe == Spec => []MemorySafe
BY QueueCorrect, InvImplies, PTL

\* The KCHECK in ReverseList never fires.
THEOREM NoAbort == Spec => []NeverAborts
BY QueueCorrect, InvImplies, PTL
-----------------------------------------------------------------------------
(* A false from DequeueImpl is justified *)

\* When the consumer has given _head back and nothing is published, either nothing is
\* queued or the producer that opened the queue has still to publish its node.
Announced ==
  ConsumerOut /\ curEnq = NULL => E = D \/ \E t \in Producers : OpensQueue(t)

LEMMA AnnouncedInit == Init => Announced
BY Zenon DEF Init, Announced, E, D

\* The producers' steps: the exchange that finds _head null makes its thread the opener.
LEMMA ProduceAnnounced ==
  ASSUME NEW t \in Producers, QueueInv, Announced, Produce(t) PROVE Announced'
<1> USE MPSCAssumption DEF QueueInv
<1>0. E \in Nat /\ D \in Nat
  BY DEF TypeOK, E, D
<1>1. CASE Enqueue(t)
  <2>1. E' = E /\ D' = D /\ \A s \in Producers : OpensQueue(s) => OpensQueue(s)'
    BY Zenon, <1>1 DEF Enqueue, OpensQueue, TypeOK, hvars, E, D
  <2>2. ConsumerOut' /\ curEnq' = NULL => ConsumerOut /\ curEnq = NULL
    <3>1. cpc = "advance" => node \in Nodes /\ node \in heap
      BY Zenon, <1>0 DEF ConsumerOK, Holding, TicketsOrdered, TypeOK
    <3> QED
      BY Zenon, <1>1, <3>1 DEF Enqueue, ConsumerOut, TypeOK, cvars
  <2> QED
    BY Zenon, <2>1, <2>2 DEF Announced
<1>2. CASE Exchange(t)
  <2>1. ConsumerOut /\ E = D => head = NULL
    <3> SUFFICES ASSUME ConsumerOut, E = D, head # NULL PROVE FALSE
      BY Zenon
    <3>1. head \in Nodes /\ ticket[head] = D /\ D # 0
      BY Zenon DEF HeadIsLast, TypeOK, Ptr
    <3>2. Holding
      <4>1. TicketsOrdered
        BY Zenon
      <4>2. ticket[head] > D \/ Holding
        BY ONLY Zenon, <1>0, <3>1, <4>1 DEF TicketsOrdered
      <4> QED BY ONLY <1>0, <3>1, <4>2
    <3>3. cpc = "advance" /\ next[node] = NULL
      BY Zenon, <3>2 DEF ConsumerOut, Holding
    <3>4. D < fwd
      BY Zenon, <3>3 DEF ConsumerOK
    <3>5. fwd <= D /\ fwd \in Nat
      BY Zenon DEF TicketsOrdered, TypeOK
    <3> QED BY <1>0, <3>4, <3>5
  <2>2. head = NULL => OpensQueue(t)'
    BY Zenon, <1>2 DEF Exchange, OpensQueue, TypeOK
  <2>3. \A s \in Producers : OpensQueue(s) => OpensQueue(s)'
    BY Zenon, <1>2 DEF Exchange, OpensQueue, TypeOK
  <2>4. ConsumerOut' /\ curEnq' = NULL => ConsumerOut /\ curEnq = NULL
    BY Zenon, <1>2 DEF Exchange, ConsumerOut, cvars
  <2> QED
    BY Zenon, <2>1, <2>2, <2>3, <2>4 DEF Announced
<1>3. CASE LinkNode(t)
  <2>1. E' = E /\ D' = D /\ \A s \in Producers : OpensQueue(s) => OpensQueue(s)'
    BY Zenon, <1>3 DEF LinkNode, OpensQueue, TypeOK, hvars, E, D
  <2>2. ConsumerOut' /\ curEnq' = NULL => ConsumerOut /\ curEnq = NULL
    <3>1. cpc = "advance" => node \in Nodes /\ next[node] # UNCONNECTED
      BY Zenon DEF ConsumerOK, Holding
    <3>2. pnode[t] \in Nodes /\ next[pnode[t]] = UNCONNECTED
      BY Zenon, <1>3 DEF LinkNode, ProducersOK
    <3> QED
      BY Zenon, <1>3, <3>1, <3>2 DEF LinkNode, ConsumerOut, TypeOK, cvars
  <2> QED
    BY Zenon, <2>1, <2>2 DEF Announced
<1>4. CASE Publish(t)
  BY Zenon, <1>4 DEF Publish, ProducersOK, Announced
<1> QED
  BY Zenon, <1>1, <1>2, <1>3, <1>4 DEF Produce

\* The consumer's steps: it leaves the list only by the compare-and-exchange that finds
\* its own node in _head, the last one exchanged.
LEMMA ConsumeAnnounced ==
  ASSUME QueueInv, Announced, Consume PROVE Announced'
<1> USE MPSCAssumption DEF QueueInv
<1>1. CASE Dequeue \/ ClearPublished \/ ReverseStep
  BY Zenon, <1>1 DEF Dequeue, ClearPublished, ReverseStep, Announced, ConsumerOut
<1>2. CASE ReadNode
  BY Zenon, <1>2 DEF ReadNode, Announced, ConsumerOut
<1>3. CASE CloseOrReverse
  <2>1. head = node => E = D
    BY Zenon, <1>3 DEF CloseOrReverse, HeadIsLast, ConsumerOK, Holding
  <2> QED
    BY Zenon, <1>3, <2>1 DEF CloseOrReverse, Announced, ConsumerOut, hvars, E, D
<1>4. CASE JoinLists
  BY Zenon, <1>4 DEF JoinLists, ConsumerOK, Holding, Announced, ConsumerOut, TypeOK
<1>5. CASE Advance
  BY Zenon, <1>5 DEF Advance, Announced, ConsumerOut, OpensQueue, pvars, E, D
<1> QED
  BY Zenon, <1>1, <1>2, <1>3, <1>4, <1>5 DEF Consume

LEMMA AnnouncedNext == QueueInv /\ Announced /\ [Next]_vars => Announced'
<1> SUFFICES ASSUME QueueInv, Announced, [Next]_vars PROVE Announced'
  BY Zenon
<1>1. CASE UNCHANGED vars
  BY Zenon, <1>1 DEF vars, pvars, cvars, hvars, Announced, ConsumerOut, OpensQueue, E, D
<1> QED
  BY Zenon, <1>1, ProduceAnnounced, ConsumeAnnounced DEF Next

LEMMA AnnouncedImplies == QueueInv /\ Announced => EmptyAnswerJustified
<1> SUFFICES ASSUME QueueInv, Announced, cpc = "idle", First = NULL,
                    ~\E t \in Producers : OpensQueue(t)
             PROVE  enqueued = dequeued
  BY Zenon DEF EmptyAnswerJustified, OpensQueue
<1>1. curDeq = NULL /\ curEnq = NULL
  BY Zenon DEF First
<1>2. Len(enqueued) = Len(dequeued)
  BY Zenon, <1>1 DEF Announced, ConsumerOut, E, D
<1>3. /\ enqueued \in Seq(Values) /\ dequeued \in Seq(Values)
      /\ \A i \in 1..Len(dequeued) : dequeued[i] = enqueued[i]
  BY Zenon DEF QueueInv, DequeuedInOrder, TypeOK
<1>4. /\ enqueued = [i \in 1..Len(enqueued) |-> enqueued[i]]
      /\ dequeued = [i \in 1..Len(dequeued) |-> dequeued[i]]
  BY <1>3
<1> QED
  BY ONLY <1>2, <1>3, <1>4, Zenon

\* Dequeue returns false only when nothing is queued or the producer that opened the
\* queue has not yet stored its node in _cur_enqueue_node.
THEOREM EmptyMeansEmpty == Spec => []EmptyAnswerJustified
BY AnnouncedInit, AnnouncedNext, AnnouncedImplies, QueueCorrect, PTL DEF Spec
=============================================================================
