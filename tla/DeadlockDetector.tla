-------------------------- MODULE DeadlockDetector --------------------------
(***************************************************************************)
(* The deadlock detector of debug builds (turbo/synchronization/mutex.cc:  *)
(* DeadlockCheck, LockEnter, LockLeave, ForgetDeadlockInfo) on the graph   *)
(* of module GraphCycles.  Threads lock, try to lock and unlock mutexes in *)
(* any order; a Mutex is an owner here.  What runs under deadlock_graph_mu *)
(* is one step.                                                            *)
(***************************************************************************)
EXTENDS GraphCycles

CONSTANTS
  Threads, Mutexes,
  HeldSlots,     \* size of SynchLocksHeld::locks, 40 in the code
  MaxForgets,    \* bound: calls of ForgetDeadlockInfo, ~Mutex included
  MaxLocks       \* bound: calls of Lock and TryLock

VARIABLES
  deadlock_graph,
  held, overflow,   \* per thread: SynchLocksHeld
  owner,            \* per mutex: the thread that holds it
  want, want_id,    \* per thread: the mutex it is blocked on, the id DeadlockCheck gave
  reported,         \* per thread: DeadlockCheck reported a cycle for that mutex
  released_unheld,  \* LockLeave found no trace of a mutex
  locks, forgets,   \* calls made
  blind             \* history: mutexes forgotten while in use

vars == <<deadlock_graph, held, overflow, owner, want, want_id, reported, released_unheld,
          locks, forgets, blind>>

Init ==
  /\ deadlock_graph = NoGraph
  /\ held = [t \in Threads |-> <<>>] /\ overflow = [t \in Threads |-> FALSE]
  /\ owner = [m \in Mutexes |-> None]
  /\ want = [t \in Threads |-> None] /\ want_id = [t \in Threads |-> None]
  /\ reported = [t \in Threads |-> FALSE] /\ released_unheld = FALSE
  /\ locks = 0 /\ forgets = 0 /\ blind = {}

Called == locks < MaxLocks /\ locks' = locks + 1

\* Stop inserting edges at the first that is refused; skip stale ids.
RECURSIVE InsertEdges(_, _, _)
InsertEdges(g, ids, mu_id) ==
  IF ids = <<>> THEN [g |-> g, ok |-> TRUE]
  ELSE IF Ptr(g, Head(ids)) = None THEN InsertEdges(g, Tail(ids), mu_id)
  ELSE LET e == InsertEdge(g, Head(ids), mu_id)
       IN  IF e.ok THEN InsertEdges(e.g, Tail(ids), mu_id) ELSE e

\* Lock: DeadlockCheck adds an edge from every mutex the thread holds.
DeadlockCheck(t, m) ==
  LET got == GetId(deadlock_graph, m)
      e == InsertEdges(got.g, [i \in DOMAIN held[t] |-> held[t][i].id], got.id)
  IN  /\ want[t] = None /\ owner[m] # t /\ Called
      /\ deadlock_graph' = e.g
      /\ want' = [want EXCEPT ![t] = m]
      /\ want_id' = [want_id EXCEPT ![t] = got.id]
      /\ reported' = [reported EXCEPT ![t] = ~e.ok]
      /\ UNCHANGED <<held, overflow, owner, released_unheld, forgets, blind>>

LockEnter(t, m, id) ==
  LET at == {i \in DOMAIN held[t] : held[t][i].id = id}
  IN  IF at # {}
      THEN LET i == CHOOSE i \in at : TRUE
           IN  held' = [held EXCEPT ![t][i].count = @ + 1] /\ UNCHANGED overflow
      ELSE IF Len(held[t]) = HeldSlots
      THEN overflow' = [overflow EXCEPT ![t] = TRUE] /\ UNCHANGED held
      ELSE /\ held' = [held EXCEPT ![t] = Append(@, [mu |-> m, id |-> id, count |-> 1])]
           /\ UNCHANGED overflow

\* The mutex is free: Lock returns, with the id it was given when it was called.
Acquire(t) ==
  LET m == want[t]
  IN  /\ m # None /\ owner[m] = None
      /\ owner' = [owner EXCEPT ![m] = t]
      /\ LockEnter(t, m, want_id[t])
      /\ want' = [want EXCEPT ![t] = None] /\ want_id' = [want_id EXCEPT ![t] = None]
      /\ reported' = [reported EXCEPT ![t] = FALSE]
      /\ UNCHANGED <<deadlock_graph, released_unheld, locks, forgets, blind>>

\* TryLock cannot block and is not checked.
TryLock(t, m) ==
  LET got == GetId(deadlock_graph, m)
  IN  /\ want[t] = None /\ owner[m] = None /\ Called
      /\ owner' = [owner EXCEPT ![m] = t]
      /\ deadlock_graph' = got.g
      /\ LockEnter(t, m, got.id)
      /\ UNCHANGED <<want, want_id, reported, released_unheld, forgets, blind>>

\* LockLeave removes the entry with the id, or, when the mutex was forgotten in between,
\* is content that there is one with the mutex.
LockLeave(t, m, id) ==
  LET at == {i \in DOMAIN held[t] : held[t][i].id = id}
      i == CHOOSE i \in at : TRUE
      last == Last(held[t])
  IN  IF at = {}
      THEN /\ released_unheld' = (released_unheld \/
                 (~overflow[t] /\ \A k \in DOMAIN held[t] : held[t][k].mu # m))
           /\ UNCHANGED held
      ELSE /\ held' = [held EXCEPT ![t] =
                 IF @[i].count = 1 THEN Front([@ EXCEPT ![i] = last])
                 ELSE [@ EXCEPT ![i].count = @ - 1]]
           /\ UNCHANGED released_unheld

Idle(m, own, wanted) == own[m] = None /\ \A t \in Threads : wanted[t] # m

Unlock(t, m) ==
  LET got == GetId(deadlock_graph, m)
  IN  /\ want[t] = None /\ owner[m] = t
      /\ owner' = [owner EXCEPT ![m] = None]
      /\ deadlock_graph' = got.g
      /\ LockLeave(t, m, got.id)
      /\ blind' = {b \in blind : ~Idle(b, owner', want)}
      /\ UNCHANGED <<overflow, want, want_id, reported, locks, forgets>>

\* ForgetDeadlockInfo, which ~Mutex calls too.
ForgetDeadlockInfo(m) ==
  /\ forgets < MaxForgets /\ forgets' = forgets + 1
  /\ deadlock_graph' = RemoveNode(deadlock_graph, m)
  /\ blind' = IF Idle(m, owner, want) THEN blind ELSE blind \cup {m}
  /\ UNCHANGED <<held, overflow, owner, want, want_id, reported, released_unheld, locks>>

Next ==
  \/ \E t \in Threads : Acquire(t) \/ \E m \in Mutexes : DeadlockCheck(t, m) \/ TryLock(t, m) \/ Unlock(t, m)
  \/ \E m \in Mutexes : ForgetDeadlockInfo(m)

Spec == Init /\ [][Next]_vars

-----------------------------------------------------------------------------
\* t waits for a mutex that u holds.
WaitsFor(t, u) == want[t] # None /\ owner[want[t]] = u

\* The threads that wait in a circle: from each of them one comes back to it.
Stuck == LET S == {t \in Threads : \E u \in Threads : WaitsFor(t, u)}
             to == [t \in Threads |-> {u \in Threads : WaitsFor(t, u)}]
         IN  {t \in S : t \in Visit(to, to[t], {})}

\* Threads do not come to wait for one another in a circle without a report: one of the
\* circle was told when it called Lock (DeadlockCheck), unless one of them has once held
\* more mutexes than SynchLocksHeld has room for (overflow is never reset), or one of the
\* circle's mutexes was forgotten since it was last neither held nor waited for.
\* The graph keeps its ranks a topological order, which is what InsertEdge searches by,
\* and a thread that unlocks what it holds is never taken for one that does not hold it.
DeadlockReported ==
  /\ CheckInvariants(deadlock_graph)
  /\ ~released_unheld
  /\ Stuck # {} => \E t \in Stuck : reported[t] \/ overflow[t] \/ want[t] \in blind
=============================================================================
