--------------------------- MODULE WaitableEvent ---------------------------
(***************************************************************************)
(* turbo::WaitableEvent on POSIX (turbo/threading/waitable_event_posix.cc):*)
(* Signal, Reset, IsSignaled, Wait, TimedWait and WaitMany over events     *)
(* with a list of waiters each.                                            *)
(*                                                                         *)
(* Events are numbered by address.  Every thread has at most one           *)
(* SyncWaiter, on its stack, and the waiter is named by its thread.  Both  *)
(* kinds of locks have owners: that of an event's kernel, and that of a    *)
(* SyncWaiter, which TimedWait and WaitMany hold from before the waiter is *)
(* seen by others until they return, but for the sleep.                    *)
(***************************************************************************)
EXTENDS Integers, Sequences, FiniteSets, Functions

CONSTANTS
  Threads, None,
  Events,            \* numbers, in the order of the addresses
  Manual,            \* the events with manual_reset
  Timed, Many,       \* whether callers use finite timeouts, WaitMany
  MaxCalls           \* bound: calls of all the threads

ASSUME EventAssumption ==
  /\ IsFiniteSet(Threads) /\ None \notin Threads
  /\ Events \subseteq Nat /\ IsFiniteSet(Events) /\ Manual \subseteq Events
  /\ Timed \in BOOLEAN /\ Many \in BOOLEAN /\ MaxCalls \in Nat

VARIABLES
  signaled, waiters, klock,  \* per event: signaled_, waiters_, owner of lock_
  fired, got, slock,         \* per waiter: fired_, signaling_event_, owner of lock_
  pc, on, todo,              \* per thread: location, events of the call, events left
  finite, late,              \* per thread: the call has a timeout; it has passed
  result, calls,             \* per thread: the value to return; calls so far
  owed                       \* history: signals accepted by an auto-reset event, not used up

events == <<signaled, waiters, klock, owed>>
waits == <<fired, got, slock>>
vars == <<events, waits, pc, on, todo, finite, late, result, calls>>

NoEvent == -1
PC == {"idle", "lock", "lockMany", "enqueueMany", "test", "asleep", "awake", "dequeue", "signal"}

TypeOK ==
  /\ signaled \in [Events -> BOOLEAN]
  /\ waiters \in [Events -> Seq(Threads)]
  /\ klock \in [Events -> Threads \cup {None}] /\ slock \in [Threads -> Threads \cup {None}]
  /\ fired \in [Threads -> BOOLEAN] /\ got \in [Threads -> Events \cup {NoEvent}]
  /\ pc \in [Threads -> PC]
  /\ on \in [Threads -> SUBSET Events] /\ todo \in [Threads -> SUBSET Events]
  /\ finite \in [Threads -> BOOLEAN] /\ late \in [Threads -> BOOLEAN]
  /\ result \in [Threads -> BOOLEAN] /\ calls \in 0..MaxCalls
  /\ owed \in [Events -> Nat]

Init ==
  /\ signaled \in [Events -> BOOLEAN]
  /\ waiters = [e \in Events |-> <<>>] /\ klock = [e \in Events |-> None]
  /\ fired = [t \in Threads |-> FALSE] /\ got = [t \in Threads |-> NoEvent]
  /\ slock = [t \in Threads |-> None]
  /\ pc = [t \in Threads |-> "idle"] /\ on = [t \in Threads |-> {}]
  /\ todo = [t \in Threads |-> {}]
  /\ finite = [t \in Threads |-> FALSE] /\ late = [t \in Threads |-> FALSE]
  /\ result = [t \in Threads |-> FALSE] /\ calls = 0
  /\ owed = [e \in Events |-> IF signaled[e] /\ e \notin Manual THEN 1 ELSE 0]

Goto(t, where) == pc' = [pc EXCEPT ![t] = where]
Call(t) ==
  /\ pc[t] = "idle" /\ calls < MaxCalls
  /\ calls' = calls + 1

\* How the signals owed by an event change.
Owe(e, d) == [owed EXCEPT ![e] = IF e \in Manual THEN 0 ELSE @ + d]

\* A signaled auto-reset event goes back to non-signaled when a caller sees it.
Consume(e) ==
  /\ signaled' = [signaled EXCEPT ![e] = e \in Manual]
  /\ owed' = Owe(e, -1)

-----------------------------------------------------------------------------
(* Reset(), IsSignaled() *)

Reset(t, e) ==
  /\ Call(t) /\ klock[e] = None
  /\ signaled' = [signaled EXCEPT ![e] = FALSE]
  /\ owed' = IF signaled[e] THEN Owe(e, -1) ELSE owed
  /\ UNCHANGED <<waiters, klock, waits, pc, on, todo, finite, late, result>>

IsSignaled(t, e) ==
  /\ Call(t) /\ klock[e] = None
  /\ IF signaled[e] THEN Consume(e) ELSE UNCHANGED <<signaled, owed>>
  /\ UNCHANGED <<waiters, klock, waits, pc, on, todo, finite, late, result>>

-----------------------------------------------------------------------------
(* Signal() *)

Signal(t, e) ==
  /\ Call(t) /\ klock[e] = None
  /\ IF signaled[e]
     THEN UNCHANGED <<klock, owed, pc, on>>
     ELSE /\ klock' = [klock EXCEPT ![e] = t]
          /\ owed' = Owe(e, 1)
          /\ on' = [on EXCEPT ![t] = {e}]
          /\ Goto(t, "signal")
  /\ UNCHANGED <<signaled, waiters, waits, todo, finite, late, result>>

Signals(t, e) == pc[t] = "signal" /\ on[t] = {e}

\* Waiter::Fire of the first waiter, under the waiter's lock; it is off the list then.
\* (SignalAll clears the list at the end, before it gives up the event's lock.)
Fire(w, e) ==
  /\ slock[w] = None
  /\ fired' = [fired EXCEPT ![w] = TRUE]
  /\ got' = [got EXCEPT ![w] = IF fired[w] THEN @ ELSE e]

\* The notification of a sleeping waiter, and the end of a SignalOne that woke one.
Wake(t, w, done) ==
  pc' = [pc EXCEPT ![w] = IF @ = "asleep" /\ ~fired[w] THEN "awake" ELSE @,
                   ![t] = IF done THEN "idle" ELSE @]

\* (wrong) SignalOne() takes a waiter that rejects the wake for one that was woken
FireIgnoringReject(t, e) ==
  /\ Signals(t, e) /\ waiters[e] # <<>>
  /\ LET w == Head(waiters[e])
         done == e \notin Manual
     IN  /\ Fire(w, e)
         /\ Wake(t, w, done)
         /\ klock' = [klock EXCEPT ![e] = IF done THEN None ELSE @]
  /\ waiters' = [waiters EXCEPT ![e] = Tail(@)]
  /\ UNCHANGED <<signaled, owed, slock, on, todo, finite, late, result, calls>>

FireWaiter(t, e) ==
  /\ Signals(t, e) /\ waiters[e] # <<>>
  /\ LET w == Head(waiters[e])
         done == e \notin Manual /\ ~fired[w]
     IN  /\ Fire(w, e)
         /\ Wake(t, w, done)
         /\ klock' = [klock EXCEPT ![e] = IF done THEN None ELSE @]
  /\ waiters' = [waiters EXCEPT ![e] = Tail(@)]
  /\ UNCHANGED <<signaled, owed, slock, on, todo, finite, late, result, calls>>

\* No waiter left: the event stays signaled.
SignalStays(t, e) ==
  /\ Signals(t, e) /\ waiters[e] = <<>>
  /\ signaled' = [signaled EXCEPT ![e] = TRUE]
  /\ klock' = [klock EXCEPT ![e] = None]
  /\ Goto(t, "idle")
  /\ UNCHANGED <<waiters, owed, waits, on, todo, finite, late, result, calls>>

-----------------------------------------------------------------------------
(* Wait(), TimedWait() *)

TimedWait(t, e, f) ==
  /\ Call(t)
  /\ f => Timed
  /\ on' = [on EXCEPT ![t] = {e}]
  /\ finite' = [finite EXCEPT ![t] = f] /\ late' = [late EXCEPT ![t] = FALSE]
  /\ Goto(t, "lock")
  /\ UNCHANGED <<events, waits, todo, result>>

\* A fresh SyncWaiter, locked and on the lists of the events S.
NewWaiter(t, S) ==
  /\ fired' = [fired EXCEPT ![t] = FALSE] /\ got' = [got EXCEPT ![t] = NoEvent]
  /\ slock' = [slock EXCEPT ![t] = t]
  /\ waiters' = [e \in Events |-> IF e \in S THEN Append(waiters[e], t) ELSE waiters[e]]
  /\ Goto(t, "test")

\* The event is signaled, or the waiter is put on its list, under the event's lock.
Enqueue(t) ==
  /\ pc[t] = "lock"
  /\ \E e \in on[t] :
       /\ klock[e] = None
       /\ IF signaled[e]
          THEN Consume(e) /\ Goto(t, "idle") /\ UNCHANGED <<waiters, waits>>
          ELSE NewWaiter(t, on[t]) /\ UNCHANGED <<signaled, owed>>
  /\ UNCHANGED <<klock, on, todo, finite, late, result, calls>>

\* The timeout passes.
Expire(t) ==
  /\ pc[t] \in {"test", "asleep", "awake"} /\ finite[t] /\ ~late[t]
  /\ late' = [late EXCEPT ![t] = TRUE]
  /\ pc' = [pc EXCEPT ![t] = IF @ = "asleep" THEN "awake" ELSE @]
  /\ UNCHANGED <<events, waits, on, todo, finite, result, calls>>

\* A condition variable may wake without a notification.
SpuriousWakeup(t) ==
  /\ pc[t] = "asleep"
  /\ Goto(t, "awake")
  /\ UNCHANGED <<events, waits, on, todo, finite, late, result, calls>>

Relock(t) ==
  /\ pc[t] = "awake" /\ slock[t] = None
  /\ slock' = [slock EXCEPT ![t] = t]
  /\ Goto(t, "test")
  /\ UNCHANGED <<events, fired, got, on, todo, finite, late, result, calls>>

Sleep(t) ==
  /\ pc[t] = "test" /\ ~fired[t] /\ ~late[t]
  /\ slock' = [slock EXCEPT ![t] = None]
  /\ Goto(t, "asleep")
  /\ UNCHANGED <<events, fired, got, on, todo, finite, late, result, calls>>

\* The loop ends: the waiter is disabled, and is to be taken off the lists: of the
\* event of a TimedWait, or of all events but the one that fired of a WaitMany.
WakeUp(t) ==
  /\ pc[t] = "test" /\ (fired[t] \/ late[t])
  /\ result' = [result EXCEPT ![t] = fired[t]]
  /\ fired' = [fired EXCEPT ![t] = TRUE]
  /\ todo' = [todo EXCEPT ![t] = IF Cardinality(on[t]) = 1 THEN on[t] ELSE on[t] \ {got[t]}]
  /\ Goto(t, "dequeue")
  /\ UNCHANGED <<events, got, slock, on, finite, late, calls>>

\* (wrong) the waiter is left on the list
DequeueNothing(t, e) ==
  /\ pc[t] = "dequeue" /\ e \in todo[t] /\ klock[e] = None
  /\ todo' = [todo EXCEPT ![t] = @ \ {e}]
  /\ UNCHANGED <<events, waits, pc, on, finite, late, result, calls>>

\* waiters_.erase(i)
Erase(s, i) == [j \in 1..Len(s) - 1 |-> IF j < i THEN s[j] ELSE s[j + 1]]

\* Dequeue under the event's lock, with the waiter's own lock still held: the first entry
\* that is the waiter goes, if there is one.
Dequeue(t, e) ==
  /\ pc[t] = "dequeue" /\ e \in todo[t] /\ klock[e] = None
  /\ \/ \E i \in DOMAIN waiters[e] :
          /\ waiters[e][i] = t /\ \A j \in 1..i - 1 : waiters[e][j] # t
          /\ waiters' = [waiters EXCEPT ![e] = Erase(@, i)]
     \/ t \notin Range(waiters[e]) /\ UNCHANGED waiters
  /\ todo' = [todo EXCEPT ![t] = @ \ {e}]
  /\ UNCHANGED <<signaled, owed, klock, waits, pc, on, finite, late, result, calls>>

\* The call returns and the SyncWaiter is gone.
Return(t) ==
  /\ pc[t] = "dequeue" /\ todo[t] = {}
  /\ slock' = [slock EXCEPT ![t] = None]
  /\ got' = [got EXCEPT ![t] = NoEvent]
  /\ owed' = IF result[t] THEN Owe(got[t], -1) ELSE owed
  /\ Goto(t, "idle")
  /\ UNCHANGED <<signaled, waiters, klock, fired, on, todo, finite, late, result, calls>>

-----------------------------------------------------------------------------
(* WaitMany(), on two events or more *)

WaitMany(t, S) ==
  /\ Many /\ Cardinality(S) > 1
  /\ Call(t)
  /\ on' = [on EXCEPT ![t] = S] /\ todo' = [todo EXCEPT ![t] = S]
  /\ finite' = [finite EXCEPT ![t] = FALSE] /\ late' = [late EXCEPT ![t] = FALSE]
  /\ Goto(t, "lockMany")
  /\ UNCHANGED <<events, waits, result>>

Lowest(S) == CHOOSE e \in S : \A f \in S : e <= f
Unlocked(t) == [e \in Events |-> IF klock[e] = t THEN None ELSE klock[e]]

\* (wrong) the locks are taken in the order of the caller's array
LockNextUnsorted(t) ==
  /\ pc[t] = "lockMany"
  /\ \E e \in todo[t] :
       /\ klock[e] = None
       /\ IF signaled[e]
          THEN Consume(e) /\ klock' = Unlocked(t) /\ Goto(t, "idle") /\ UNCHANGED todo
          ELSE /\ klock' = [klock EXCEPT ![e] = t]
               /\ todo' = [todo EXCEPT ![t] = @ \ {e}]
               /\ Goto(t, IF todo'[t] = {} THEN "enqueueMany" ELSE "lockMany")
               /\ UNCHANGED <<signaled, owed>>
  /\ UNCHANGED <<waiters, waits, on, finite, late, result, calls>>

\* EnqueueMany: the locks are taken by address, until an event is found signaled.
LockNext(t) ==
  /\ pc[t] = "lockMany"
  /\ LET e == Lowest(todo[t]) IN
       /\ klock[e] = None
       /\ IF signaled[e]
          THEN Consume(e) /\ klock' = Unlocked(t) /\ Goto(t, "idle") /\ UNCHANGED todo
          ELSE /\ klock' = [klock EXCEPT ![e] = t]
               /\ todo' = [todo EXCEPT ![t] = @ \ {e}]
               /\ Goto(t, IF todo'[t] = {} THEN "enqueueMany" ELSE "lockMany")
               /\ UNCHANGED <<signaled, owed>>
  /\ UNCHANGED <<waiters, waits, on, finite, late, result, calls>>

\* With all locks held the waiter goes on all lists, and the locks are released.
EnqueueMany(t) ==
  /\ pc[t] = "enqueueMany"
  /\ NewWaiter(t, on[t])
  /\ klock' = Unlocked(t)
  /\ UNCHANGED <<signaled, owed, on, todo, finite, late, result, calls>>

-----------------------------------------------------------------------------
Step(t) ==
  \/ Enqueue(t) \/ Relock(t) \/ Sleep(t) \/ WakeUp(t) \/ Return(t) \/ LockNext(t) \/ EnqueueMany(t)
  \/ \E e \in Events : FireWaiter(t, e) \/ SignalStays(t, e) \/ Dequeue(t, e)

Calls(t) ==
  \/ \E e \in Events : Signal(t, e) \/ Reset(t, e) \/ IsSignaled(t, e)
  \/ \E e \in Events, f \in BOOLEAN : TimedWait(t, e, f)
  \/ \E S \in SUBSET Events : WaitMany(t, S)

Next == \E t \in Threads : Calls(t) \/ Step(t) \/ Expire(t) \/ SpuriousWakeup(t)

Spec == Init /\ [][Next]_vars

-----------------------------------------------------------------------------
InWait(t) == pc[t] \in {"test", "asleep", "awake", "dequeue"}

\* A list only ever names waiters whose thread is still inside the wait for that event,
\* each once: no event fires a SyncWaiter that has gone off the stack.
NoDanglingWaiter ==
  \A e \in Events :
    /\ IsInjective(waiters[e])
    /\ \A i \in DOMAIN waiters[e] : InWait(waiters[e][i]) /\ e \in on[waiters[e][i]]

\* An accepted signal of an auto-reset event is used exactly once: it is the flag, or
\* one waiter has it and will return true, or one caller used it up.  A waiter that
\* times out, or was fired by another event, takes none.  Nobody sleeps on an event that is
\* signaled.
SignalsAccounted ==
  \A e \in {e \in Events : klock[e] = None} :
    /\ e \notin Manual =>
         owed[e] = Cardinality({t \in Threads : InWait(t) /\ got[t] = e}) + (IF signaled[e] THEN 1 ELSE 0)
    /\ signaled[e] => \A t \in Threads : pc[t] = "asleep" => e \notin on[t]

\* Calls of WaitMany on overlapping sets of events never wait for one another in a circle,
\* of however many threads.
NoLockCycle ==
  \A S \in (SUBSET Threads) \ {{}} :
    \E t \in S : ~(pc[t] = "lockMany" /\ klock[Lowest(todo[t])] \in S)

\* "We can't acquire @lock_ before releasing the SyncWaiter lock (because of locking
\* order)" (waitable_event_posix.cc): no waiter holds its own lock and waits for the lock
\* of an event whose holder waits for the waiter.
LockingOrder ==
  ~\E s, t \in Threads, e \in Events :
    /\ pc[t] = "dequeue" /\ e \in todo[t] /\ slock[t] = t /\ klock[e] = s
    /\ Signals(s, e) /\ waiters[e] # <<>> /\ Head(waiters[e]) = t
=============================================================================
