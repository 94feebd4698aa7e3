-------------------------- MODULE BlockingCounter --------------------------
(***************************************************************************)
(* turbo::BlockingCounter (turbo/synchronization/blocking_counter.h, .cc)  *)
(* over the contract of its Mutex, module CriticalRegion: workers call     *)
(* DecrementCount(), one thread calls Wait() and then destroys the         *)
(* counter.  count_ is atomic and outside the lock, done_ is under it.     *)
(***************************************************************************)
EXTENDS Integers, FiniteSets

CONSTANTS Workers, Waiter, InitialCounts, None

VARIABLES
  view, want, truth,          \* lock_; truth is {"IsDone"} when done_
  count, num_waiting, initial_count,
  pc, alive

region == <<view, want, truth>>
vars == <<region, count, num_waiting, initial_count, pc, alive>>

Callers == Workers \cup {Waiter}

lock == INSTANCE CriticalRegion WITH Threads <- Callers, Conds <- {"IsDone"}

Locations == {"idle", "entering", "inside", "await", "blocked", "unlock", "out"}

Wish(cond) == [how |-> "Exclusive", cond |-> cond, timed |-> FALSE, cv |-> FALSE]

TypeOK ==
  /\ view \in [Callers -> lock!Modes]
  /\ want \in [Callers -> lock!Wishes \cup {None}]
  /\ truth \in SUBSET {"IsDone"}
  /\ initial_count \in InitialCounts
  /\ count \in 0..initial_count
  /\ num_waiting \in 0..1
  /\ pc \in [Callers -> Locations]
  /\ alive \in BOOLEAN

Init ==
  /\ view = [t \in Callers |-> "none"]
  /\ want = [t \in Callers |-> None]
  /\ initial_count \in InitialCounts
  /\ count = initial_count
  /\ num_waiting = 0
  /\ truth = IF initial_count = 0 THEN {"IsDone"} ELSE {}
  /\ pc = [t \in Callers |-> "idle"]
  /\ alive = TRUE

Goto(t, where) == pc' = [pc EXCEPT ![t] = where]
LockFor(t) == lock!Ask(t) /\ want'[t] = Wish(None)

Called == {w \in Workers : pc[w] # "idle"}

-----------------------------------------------------------------------------
\* DecrementCount(), called at most initial_count times: the fetch_sub, and the
\* begin of MutexLock for the worker that brought the count to zero.
DecrementCount(w) ==
  /\ pc[w] = "idle" /\ Cardinality(Called) < initial_count
  /\ count' = count - 1
  /\ IF count' = 0 THEN LockFor(w) /\ Goto(w, "entering")
                   ELSE UNCHANGED region /\ Goto(w, "out")
  /\ UNCHANGED <<num_waiting, initial_count, alive>>

\* Wait(): the begin of MutexLock.
Wait ==
  /\ pc[Waiter] = "idle"
  /\ LockFor(Waiter) /\ Goto(Waiter, "entering")
  /\ UNCHANGED <<count, num_waiting, initial_count, alive>>

Enter(t) ==
  /\ pc[t] = "entering"
  /\ lock!Get(t) /\ Goto(t, "inside")
  /\ UNCHANGED <<count, num_waiting, initial_count, alive>>

\* done_ = true
SetDone(w) ==
  /\ w \in Workers /\ pc[w] = "inside"
  /\ lock!Write(w) /\ truth' = {"IsDone"}
  /\ Goto(w, "unlock")
  /\ UNCHANGED <<count, num_waiting, initial_count, alive>>

\* num_waiting_++, after the check that nobody else waits.
CountWaiter ==
  /\ pc[Waiter] = "inside"
  /\ num_waiting' = num_waiting + 1
  /\ Goto(Waiter, "await")
  /\ UNCHANGED <<region, count, initial_count, alive>>

\* (wrong) the waiter looks at count_ instead of done_
AwaitCount ==
  /\ pc[Waiter] = "await"
  /\ IF count = 0
     THEN Goto(Waiter, "unlock") /\ UNCHANGED region
     ELSE lock!Suspend(Waiter) /\ want'[Waiter] = Wish("IsDone") /\ Goto(Waiter, "blocked")
  /\ UNCHANGED <<count, num_waiting, initial_count, alive>>

\* lock_.Await(Condition(IsDone, &done_))
Await ==
  /\ pc[Waiter] = "await"
  /\ IF "IsDone" \in truth
     THEN Goto(Waiter, "unlock") /\ UNCHANGED region
     ELSE lock!Suspend(Waiter) /\ want'[Waiter] = Wish("IsDone") /\ Goto(Waiter, "blocked")
  /\ UNCHANGED <<count, num_waiting, initial_count, alive>>

Resume ==
  /\ pc[Waiter] = "blocked"
  /\ lock!Get(Waiter) /\ Goto(Waiter, "unlock")
  /\ UNCHANGED <<count, num_waiting, initial_count, alive>>

\* The end of MutexLock: the last use of the object in either call.
Return(t) ==
  /\ pc[t] = "unlock"
  /\ lock!Leave(t) /\ Goto(t, "out")
  /\ UNCHANGED <<count, num_waiting, initial_count, alive>>

\* "When Wait() returns, it is legal to destroy the BlockingCounter."
Destroy ==
  /\ pc[Waiter] = "out" /\ alive
  /\ alive' = FALSE
  /\ UNCHANGED <<region, count, num_waiting, initial_count, pc>>

WorkerStep(w) == DecrementCount(w) \/ Enter(w) \/ SetDone(w) \/ Return(w)
WaiterStep == Wait \/ Enter(Waiter) \/ CountWaiter \/ Await \/ Resume \/ Return(Waiter) \/ Destroy

Next == WaiterStep \/ \E w \in Workers : WorkerStep(w)

Spec == Init /\ [][Next]_vars

-----------------------------------------------------------------------------
\* When Wait() has returned no worker uses the object any more, not even the last
\* one to release its lock (blocking_counter.cc:61-64).
SafeToDestroy == ~alive => \A w \in Called : pc[w] = "out"

\* "When Wait() returns, the number of calls to DecrementCount() on this blocking
\* counter exactly equals initial_count", and each of them has had its effect.
ExactCount ==
  pc[Waiter] \in {"unlock", "out"} => Cardinality(Called) = initial_count /\ count = 0

\* Wait() has returned.
WaitReturned == pc[Waiter] = "out"
=============================================================================
