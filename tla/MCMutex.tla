------------------------------ MODULE MCMutex ------------------------------
(***************************************************************************)
(* Instances of Mutex: three threads, and sets of programs of calls for    *)
(* them.                                                                   *)
(***************************************************************************)
EXTENDS Mutex

CONSTANTS t1, t2, t3, c1

Call(op) == [op |-> op, how |-> "Exclusive", cond |-> None, timed |-> FALSE]
LockFor(how, cond, timed) == [op |-> "Lock", how |-> how, cond |-> cond, timed |-> timed]
TryLockFor(how) == [Call("TryLock") EXCEPT !.how = how]
On(op, cond) == [Call(op) EXCEPT !.cond = cond]

\* Two threads of equal and one of a higher priority.
Priorities == [t \in Threads |-> IF t = t3 THEN 1 ELSE 0]

\* All ways to give the programs of the sequence p to the threads, up to the
\* names of the threads.
Deal(p) ==
  {[t \in Threads |-> p[deal[t]]] :
     deal \in {d \in [Threads -> DOMAIN p] : d[t1] <= d[t2] /\ d[t2] <= d[t3]}}

\* Writers and readers, with and without blocking.
Writer == <<LockFor("Exclusive", None, FALSE), Call("Unlock")>>
Reader == <<LockFor("Shared", None, FALSE), Call("Unlock")>>
TryWriter == <<TryLockFor("Exclusive"), Call("Unlock")>>
TryReader == <<TryLockFor("Shared"), Call("Unlock")>>

LockPrograms ==
  Deal(<<Writer, Reader, TryWriter, TryReader, <<Call("EnableDebugLog")>> >>)

\* Conditions: LockWhen and Await in both modes.
Setter == <<LockFor("Exclusive", None, FALSE), On("Set", c1), Call("Unlock")>>
When(how, timed) == <<LockFor(how, c1, timed), Call("Unlock")>>
Awaits(how, timed) ==
  <<LockFor(how, None, FALSE), [On("Await", c1) EXCEPT !.timed = timed], Call("Unlock")>>

CondPrograms ==
  Deal(<<Setter, When("Exclusive", FALSE), When("Shared", FALSE),
         Awaits("Exclusive", FALSE), Awaits("Shared", FALSE)>>)

Different(p) == \A t, u \in Threads : p[t] = p[u] => t = u

\* Timeouts that race with each other and with a writer that makes the condition true.
TimeoutPrograms ==
  {p \in Deal(<<Setter, When("Exclusive", TRUE), Awaits("Shared", TRUE)>>) : Different(p)}

\* A condition variable: waiters in both modes, one with a timeout, and signallers
\* that hold the lock, in either mode, or do not.
CvWaits(how, timed) ==
  <<LockFor(how, None, FALSE), [Call("CvWait") EXCEPT !.timed = timed], Call("Unlock")>>
SignalsHolding(how) == <<LockFor(how, None, FALSE), Call("SignalAll"), Call("Unlock")>>

CondVarPrograms ==
  LET waits == <<CvWaits("Exclusive", FALSE), CvWaits("Shared", FALSE), CvWaits("Exclusive", TRUE)>>
      signals == <<SignalsHolding("Exclusive"), SignalsHolding("Shared"), <<Call("Signal")>> >>
  IN {p \in Deal(waits \o signals) :
        Different(p) /\ p[t1] \in Range(waits) /\ p[t3] \in Range(signals)}

\* A condition that is true only for a while, for threads of any priority: a woken
\* waiter may find it false again, or the lock taken, and queue once more.
Flicker ==
  Setter \o <<LockFor("Exclusive", None, FALSE), On("Clear", c1), Call("Unlock")>>
PriorityPrograms ==
  LET p == <<Flicker, When("Exclusive", FALSE), When("Shared", FALSE)>>
  IN {f \in {[t \in Threads |-> p[deal[t]]] :
                deal \in {d \in [Threads -> DOMAIN p] : d[t1] <= d[t2]}} :
        Different(f)}

AllPrograms ==
  UNION {LockPrograms, CondPrograms, TimeoutPrograms, CondVarPrograms, PriorityPrograms}
=============================================================================
