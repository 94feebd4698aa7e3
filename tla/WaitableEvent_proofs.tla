------------------------ MODULE WaitableEvent_proofs ------------------------
(***************************************************************************)
(* Proofs about WaitableEvent: NoDanglingWaiter, SignalsAccounted and      *)
(* NoLockCycle, for any number of threads, events and calls.               *)
(*                                                                         *)
(* One inductive invariant, EventInv, carries all three.  It says who holds*)
(* which lock (Locking), which event fired a waiter (Fired), on which lists*)
(* a waiter is (Listed) and what the signals of an event are owed to       *)
(* (Accounts).                                                             *)
(***************************************************************************)
EXTENDS WaitableEvent, FiniteSetTheorems, WellFoundedInduction, TLAPS

(* The inductive invariant *)

Types ==
  /\ DOMAIN signaled = Events
  /\ waiters \in [Events -> Seq(Threads)]
  /\ klock \in [Events -> Threads \cup {None}]
  /\ DOMAIN fired = Threads /\ got \in [Threads -> Events \cup {NoEvent}]
  /\ DOMAIN slock = Threads
  /\ pc \in [Threads -> PC]
  /\ on \in [Threads -> SUBSET Events] /\ todo \in [Threads -> SUBSET Events]
  /\ DOMAIN finite = Threads /\ DOMAIN late = Threads /\ DOMAIN result = Threads
  /\ owed \in [Events -> Int]

\* Who holds the lock of an event, and what a thread that collects locks holds.
LocksOf(t) ==
  /\ pc[t] = "lock" => \E e \in Events : on[t] = {e}
  /\ pc[t] = "signal" => \E e \in Events : on[t] = {e} /\ klock[e] = t
  /\ pc[t] = "lockMany" =>
       /\ todo[t] # {} /\ todo[t] \subseteq on[t]
       /\ \A e \in on[t] \ todo[t] : klock[e] = t /\ \A f \in todo[t] : e < f
  /\ pc[t] = "enqueueMany" => todo[t] = {} /\ \A e \in on[t] : klock[e] = t

LockHeld(e) ==
  LET t == klock[e] IN
  t # None =>
    /\ ~signaled[e]
    /\ \/ pc[t] = "signal" /\ on[t] = {e}
       \/ pc[t] \in {"lockMany", "enqueueMany"} /\ e \in on[t] \ todo[t]

Locking == (\A t \in Threads : LocksOf(t)) /\ (\A e \in Events : LockHeld(e))

\* A waiter was fired by one event or by none, and the call knows which.
GotOf(t) ==
  /\ ~InWait(t) => got[t] = NoEvent
  /\ pc[t] \in {"test", "awake"} => (fired[t] <=> got[t] # NoEvent)
  /\ pc[t] = "asleep" => ~fired[t] /\ got[t] = NoEvent
  /\ pc[t] = "dequeue" => fired[t] /\ (result[t] <=> got[t] # NoEvent)

Fired == \A t \in Threads : GotOf(t)

\* Where a waiter is listed: from the time it is enqueued until it is fired, or is
\* dequeued.
Entry(e, w) ==
  InWait(w) /\ e \in on[w] /\ got[w] # e /\ (pc[w] = "dequeue" => e \in todo[w])

ListOf(e) ==
  /\ IsInjective(waiters[e])
  /\ \A i \in DOMAIN waiters[e] : Entry(e, waiters[e][i])
  /\ signaled[e] => waiters[e] = <<>>

Waiting(t, e) == pc[t] \in {"test", "asleep", "awake"} /\ ~fired[t] /\ e \in on[t]
OnList(t, e) == \E i \in DOMAIN waiters[e] : waiters[e][i] = t

Listed ==
  /\ \A e \in Events : ListOf(e)
  /\ \A t \in Threads : \A e \in Events : Waiting(t, e) => OnList(t, e)

\* The signals an event owes: to those it fired, to the next caller, or to the waiter that
\* a Signal() under way looks for.
Takers(e) == {t \in Threads : got[t] = e}
UnderWay(e) == klock[e] # None /\ pc[klock[e]] = "signal"

Account(e) ==
  owed[e] = Cardinality(Takers(e)) + (IF signaled[e] \/ UnderWay(e) THEN 1 ELSE 0)

Accounts == \A e \in Events \ Manual : Account(e)

EventInv == Types /\ Locking /\ Fired /\ Listed /\ Accounts

USE EventAssumption DEF NoEvent, PC

-----------------------------------------------------------------------------
(* The count of signals *)

LEMMA TakersFinite ==
  ASSUME NEW e
  PROVE  IsFiniteSet(Takers(e)) /\ Cardinality(Takers(e)) \in Nat
<1>1. Takers(e) \in SUBSET Threads
  BY Zenon DEF Takers
<1> QED BY Zenon, <1>1, FS_Subset, FS_CardinalityType

\* What leaves the events, the waiters that are fired and the locks of signals alone.
LEMMA AccountsKept ==
  ASSUME Accounts, owed' = owed, signaled' = signaled, got' = got,
         \A e \in Events : UnderWay(e)' <=> UnderWay(e)
  PROVE  Accounts'
<1>1. \A e : Takers(e)' = Takers(e)
  BY Zenon DEF Takers
<1> QED BY Zenon, <1>1 DEF Accounts, Account

\* A signaled event is used up.
LEMMA AccountsConsumed ==
  ASSUME Types, Locking, Accounts, NEW e \in Events, signaled[e], Consume(e), got' = got,
         \A x \in Events : UnderWay(x)' <=> UnderWay(x)
  PROVE  Accounts'
<1>1. \A x : Takers(x)' = Takers(x)
  BY Zenon DEF Takers
<1>2. ASSUME NEW x \in Events \ Manual, x # e
      PROVE  Account(x)'
  <2>1. owed'[x] = owed[x] /\ signaled'[x] = signaled[x]
    BY Zenon, <1>2 DEF Consume, Owe, Types
  <2> QED BY Zenon, <1>1, <1>2, <2>1 DEF Accounts, Account
<1>3. ASSUME e \notin Manual
      PROVE  Account(e)'
  <2>1. owed'[e] = owed[e] - 1 /\ ~signaled'[e]
    BY Zenon, <1>3 DEF Consume, Owe, Types
  <2>2. ~UnderWay(e)
    BY Zenon DEF UnderWay, Locking, LockHeld
  <2>3. owed[e] = Cardinality(Takers(e)) + 1
    BY Zenon, <1>3 DEF Accounts, Account
  <2>4. owed'[e] = Cardinality(Takers(e)) + 0
    BY <2>1, <2>3, TakersFinite
  <2> QED BY Zenon, <1>1, <2>1, <2>2, <2>4 DEF Account
<1> QED BY Zenon, <1>2, <1>3 DEF Accounts

-----------------------------------------------------------------------------
(* Steps that take no lock of an event and release none *)

Quiet == {"idle", "lock", "test", "asleep", "awake", "dequeue"}

\* A step of thread t alone.
Alone(t) ==
  \A u \in Threads \ {t} : pc'[u] = pc[u] /\ on'[u] = on[u] /\ todo'[u] = todo[u]

LEMMA UnderWayKept ==
  ASSUME Types, Locking, NEW t \in Threads, Alone(t), pc[t] # "signal", pc'[t] # "signal",
         \A e \in Events : klock'[e] = klock[e] \/ {klock[e], klock'[e]} \subseteq {None, t}
  PROVE  \A e \in Events : UnderWay(e)' <=> UnderWay(e)
<1> SUFFICES ASSUME NEW e \in Events
             PROVE  UnderWay(e)' <=> UnderWay(e)
  BY Zenon
<1>1. CASE klock'[e] = klock[e] /\ klock[e] = None
  BY Zenon, <1>1 DEF UnderWay
<1>2. CASE klock'[e] = klock[e] /\ klock[e] \in Threads
  BY Zenon, <1>2 DEF UnderWay, Alone
<1>3. CASE {klock[e], klock'[e]} \subseteq {None, t}
  BY Zenon, <1>3 DEF UnderWay
<1> QED BY Zenon, <1>1, <1>2, <1>3 DEF Types

LEMMA SeqElements == \A w \in Seq(Threads) : \A i \in DOMAIN w : w[i] \in Threads
OBVIOUS

LEMMA ListOfThreads ==
  ASSUME Types
  PROVE  \A x \in Events : waiters[x] \in Seq(Threads) /\ \A i \in DOMAIN waiters[x] : waiters[x][i] \in Threads
<1>1. \A x \in Events : waiters[x] \in Seq(Threads)
  BY Zenon DEF Types
<1> QED BY Zenon, <1>1, SeqElements

LEMMA LocksOfKept ==
  ASSUME Types, NEW u \in Threads, LocksOf(u),
         pc'[u] = pc[u], on'[u] = on[u], todo'[u] = todo[u],
         \A x \in Events : klock[x] = u => klock'[x] = u
  PROVE  LocksOf(u)'
<1>1. on[u] \subseteq Events
  BY Zenon DEF Types
<1>2. pc[u] = "signal" => \E e \in Events : on'[u] = {e} /\ klock'[e] = u
  BY Zenon DEF LocksOf
<1>3. pc[u] = "lockMany" =>
        \A e \in on'[u] \ todo'[u] : klock'[e] = u /\ \A f \in todo'[u] : e < f
  BY Zenon, <1>1 DEF LocksOf
<1>4. pc[u] = "enqueueMany" => \A e \in on'[u] : klock'[e] = u
  BY Zenon, <1>1 DEF LocksOf
<1> QED BY Zenon, <1>2, <1>3, <1>4 DEF LocksOf

LEMMA LockHeldKept ==
  ASSUME Types, NEW x \in Events, LockHeld(x), klock'[x] = klock[x], signaled'[x] => signaled[x],
         klock[x] # None =>
           /\ pc'[klock[x]] = pc[klock[x]] /\ on'[klock[x]] = on[klock[x]]
           /\ todo'[klock[x]] = todo[klock[x]]
  PROVE  LockHeld(x)'
BY Zenon DEF LockHeld

LEMMA ListedKept ==
  ASSUME Types, Listed, waiters' = waiters,
         \A e \in Events : signaled'[e] => signaled[e],
         \A e \in Events : \A u \in Threads : Entry(e, u) => Entry(e, u)',
         \A u \in Threads : \A e \in Events : Waiting(u, e)' => Waiting(u, e)
  PROVE  Listed'
<1>1. ASSUME NEW e \in Events
      PROVE  ListOf(e)'
  <2>1. \A i \in DOMAIN waiters[e] : waiters[e][i] \in Threads
    BY Zenon, ListOfThreads
  <2>2. \A i \in DOMAIN waiters[e] : Entry(e, waiters[e][i])'
    BY Zenon, <2>1 DEF Listed, ListOf
  <2> QED BY Zenon, <2>2 DEF Listed, ListOf
<1>2. \A u \in Threads : \A e \in Events : Waiting(u, e)' => OnList(u, e)'
  BY Zenon DEF Listed, OnList
<1> QED BY Zenon, <1>1, <1>2 DEF Listed

LEMMA LocksKept ==
  ASSUME Types, Locking, NEW t \in Threads, Alone(t), klock' = klock,
         pc[t] \in Quiet, pc'[t] \in Quiet,
         pc'[t] = "lock" => \E e \in Events : on'[t] = {e},
         \A e \in Events : signaled'[e] => signaled[e]
  PROVE  Locking'
<1>1. ASSUME NEW u \in Threads
      PROVE  LocksOf(u)'
  <2>1. CASE u = t
    BY Zenon, <2>1 DEF LocksOf, Quiet
  <2>2. CASE u # t
    <3>1. pc'[u] = pc[u] /\ on'[u] = on[u] /\ todo'[u] = todo[u]
      BY Zenon, <2>2 DEF Alone
    <3> QED BY Zenon, <3>1, LocksOfKept DEF Locking
  <2> QED BY Zenon, <2>1, <2>2
<1>2. ASSUME NEW e \in Events, klock[e] # None
      PROVE  LockHeld(e)'
  <2>1. klock[e] \in Threads
    BY Zenon, <1>2 DEF Types
  <2>2. klock[e] # t
    BY Zenon, <1>2 DEF Locking, LockHeld, Quiet
  <2>3. pc'[klock[e]] = pc[klock[e]] /\ on'[klock[e]] = on[klock[e]] /\ todo'[klock[e]] = todo[klock[e]]
    BY Zenon, <2>1, <2>2 DEF Alone
  <2> QED BY Zenon, <1>2, <2>3 DEF Locking, LockHeld
<1>3. ASSUME NEW e \in Events, klock[e] = None
      PROVE  LockHeld(e)'
  BY Zenon, <1>3 DEF LockHeld
<1> QED BY Zenon, <1>1, <1>2, <1>3 DEF Locking

\* The accounts of a step that neither fires a waiter nor uses a signal up.
LEMMA QuietAccounts ==
  ASSUME Types, Locking, Accounts, NEW t \in Threads, Alone(t), klock' = klock,
         pc[t] # "signal", pc'[t] # "signal", owed' = owed, signaled' = signaled, got' = got
  PROVE  Accounts'
BY Zenon, UnderWayKept, AccountsKept

LEMMA InvKept ==
  ASSUME EventInv,
         UNCHANGED <<signaled, waiters, klock, owed, fired, got, slock, pc, on, todo, finite, late, result>>
  PROVE  EventInv'
<1>1. Types'
  BY Zenon DEF EventInv, Types
<1>2. Locking'
  BY DEF EventInv, Locking, LocksOf, LockHeld
<1>3. Fired'
  BY Zenon DEF EventInv, Fired, GotOf, InWait
<1>4. Listed'
  BY Zenon, ListedKept DEF EventInv, Entry, InWait, Waiting
<1>5. Accounts'
  BY Zenon DEF EventInv, Accounts, Account, Takers, UnderWay
<1> QED BY Zenon, <1>1, <1>2, <1>3, <1>4, <1>5 DEF EventInv

-----------------------------------------------------------------------------
(* Reset(), IsSignaled() *)

LEMMA ResetStep ==
  ASSUME NEW t \in Threads, NEW e \in Events, EventInv, Reset(t, e)
  PROVE  EventInv'
<1>1. Types'
  BY DEF EventInv, Reset, Types, Call, Owe, waits
<1>2. Locking'
  BY DEF EventInv, Reset, Types, Locking, LocksOf, LockHeld, Call, waits
<1>3. Fired'
  BY Zenon DEF EventInv, Reset, Fired, GotOf, InWait, waits
<1>4. Listed'
  BY DEF EventInv, Reset, Types, Listed, ListOf, Waiting, OnList, Entry, InWait, IsInjective, waits
<1>5. Accounts'
  <2>1. Alone(t) /\ got' = got /\ klock' = klock /\ pc' = pc /\ pc[t] = "idle"
    BY Zenon DEF Reset, Call, Alone, waits
  <2>2. \A x \in Events : UnderWay(x)' <=> UnderWay(x)
    BY Zenon, <2>1, UnderWayKept DEF EventInv
  <2>3. CASE signaled[e]
    <3>1. \A x : Takers(x)' = Takers(x)
      BY Zenon, <2>1 DEF Takers
    <3>2. ASSUME NEW x \in Events \ Manual, x # e
          PROVE  Account(x)'
      <4>1. owed'[x] = owed[x] /\ signaled'[x] = signaled[x]
        BY Zenon, <3>2 DEF Reset, Owe, EventInv, Types
      <4> QED BY Zenon, <2>2, <3>1, <3>2, <4>1 DEF EventInv, Accounts, Account
    <3>3. ASSUME e \notin Manual
          PROVE  Account(e)'
      <4>1. owed'[e] = owed[e] - 1 /\ ~signaled'[e]
        BY Zenon, <2>3, <3>3 DEF Reset, Owe, EventInv, Types
      <4>2. ~UnderWay(e)
        BY Zenon, <2>3 DEF UnderWay, EventInv, Locking, LockHeld
      <4>3. owed[e] = Cardinality(Takers(e)) + 1
        BY Zenon, <2>3, <3>3 DEF EventInv, Accounts, Account
      <4>4. owed'[e] = Cardinality(Takers(e)) + 0
        BY <4>1, <4>3, TakersFinite
      <4> QED BY Zenon, <2>2, <3>1, <4>1, <4>2, <4>4 DEF Account
    <3> QED BY Zenon, <3>2, <3>3 DEF Accounts
  <2>4. CASE ~signaled[e]
    <3>1. owed' = owed
      BY Zenon, <2>4 DEF Reset
    <3>2. \A x \in Events : signaled'[x] <=> signaled[x]
      BY Zenon, <2>4 DEF Reset, EventInv, Types
    <3>3. \A x : Takers(x)' = Takers(x)
      BY Zenon, <2>1 DEF Takers
    <3> QED BY Zenon, <2>2, <3>1, <3>2, <3>3 DEF EventInv, Accounts, Account
  <2> QED BY Zenon, <2>3, <2>4
<1> QED BY Zenon, <1>1, <1>2, <1>3, <1>4, <1>5 DEF EventInv

LEMMA IsSignaledStep ==
  ASSUME NEW t \in Threads, NEW e \in Events, EventInv, IsSignaled(t, e)
  PROVE  EventInv'
<1>1. CASE ~signaled[e]
  <2>1. UNCHANGED <<signaled, waiters, klock, owed, fired, got, slock, pc, on, todo, finite, late, result>>
    BY Zenon, <1>1 DEF IsSignaled, waits
  <2> QED BY Zenon, <2>1, InvKept
<1>2. CASE signaled[e]
  <2>1. UNCHANGED <<waiters, klock, fired, got, slock, pc, on, todo, finite, late, result>>
        /\ Consume(e) /\ pc[t] = "idle"
    BY Zenon, <1>2 DEF IsSignaled, waits, Call
  <2>2. Types'
    BY <2>1 DEF EventInv, Types, Consume, Owe
  <2>3. \A x \in Events : signaled'[x] => signaled[x]
    BY Zenon, <1>2, <2>1 DEF Consume, EventInv, Types
  <2>4. Alone(t)
    BY Zenon, <2>1 DEF Alone
  <2>5. Locking'
    BY Zenon, <2>1, <2>3, <2>4, LocksKept DEF EventInv, Quiet
  <2>6. Fired'
    BY Zenon, <2>1 DEF EventInv, Fired, GotOf, InWait
  <2>7. Listed'
    BY Zenon, <2>1, <2>3, ListedKept DEF EventInv, Entry, InWait, Waiting
  <2>8. Accounts'
    BY Zenon, <1>2, <2>1, <2>4, UnderWayKept, AccountsConsumed DEF EventInv
  <2> QED BY Zenon, <2>2, <2>5, <2>6, <2>7, <2>8 DEF EventInv
<1> QED BY Zenon, <1>1, <1>2

-----------------------------------------------------------------------------
(* Signal() *)

LEMMA SignalStep ==
  ASSUME NEW t \in Threads, NEW e \in Events, EventInv, Signal(t, e)
  PROVE  EventInv'
<1>1. CASE signaled[e]
  <2>1. UNCHANGED <<signaled, waiters, klock, owed, fired, got, slock, pc, on, todo, finite, late, result>>
    BY Zenon, <1>1 DEF Signal, waits
  <2> QED BY Zenon, <2>1, InvKept
<1>2. CASE ~signaled[e]
  <2>1. /\ UNCHANGED <<signaled, waiters, fired, got, slock, todo, finite, late, result>>
        /\ klock[e] = None /\ klock' = [klock EXCEPT ![e] = t]
        /\ pc[t] = "idle" /\ pc' = [pc EXCEPT ![t] = "signal"]
        /\ on' = [on EXCEPT ![t] = {e}] /\ owed' = Owe(e, 1)
    BY Zenon, <1>2 DEF Signal, waits, Call, Goto
  <2>2. Types'
    BY <2>1 DEF EventInv, Types, Owe
  <2>3. ASSUME NEW u \in Threads, u # t
        PROVE  pc'[u] = pc[u] /\ on'[u] = on[u] /\ todo'[u] = todo[u]
    BY Zenon, <2>1, <2>3 DEF EventInv, Types
  <2>4. pc'[t] = "signal" /\ on'[t] = {e} /\ klock'[e] = t
    BY Zenon, <2>1 DEF EventInv, Types
  <2>5. \A x \in Events : x # e => klock'[x] = klock[x]
    BY Zenon, <2>1 DEF EventInv, Types
  <2>6. \A x \in Events : klock[x] # t
    BY Zenon, <2>1 DEF EventInv, Locking, LockHeld
  <2>7. Locking'
    <3>1. ASSUME NEW u \in Threads
          PROVE  LocksOf(u)'
      <4>1. CASE u = t
        BY Zenon, <2>4, <4>1 DEF LocksOf
      <4>2. CASE u # t
        <5>1. \A x \in Events : klock[x] = u => klock'[x] = u
          BY Zenon, <2>1, <2>5, <4>2
        <5> QED BY Zenon, <2>3, <4>2, <5>1, LocksOfKept DEF EventInv, Locking
      <4> QED BY Zenon, <4>1, <4>2
    <3>2. ASSUME NEW x \in Events
          PROVE  LockHeld(x)'
      <4>1. CASE x = e
        BY Zenon, <1>2, <2>1, <2>4, <4>1 DEF LockHeld
      <4>2. CASE x # e /\ klock[x] # None
        <5>1. klock[x] \in Threads /\ klock'[x] = klock[x] /\ klock[x] # t
          BY Zenon, <2>5, <2>6, <4>2 DEF EventInv, Types
        <5>2. pc'[klock[x]] = pc[klock[x]] /\ on'[klock[x]] = on[klock[x]]
              /\ todo'[klock[x]] = todo[klock[x]]
          BY Zenon, <2>3, <5>1
        <5> QED BY Zenon, <2>1, <4>2, <5>1, <5>2 DEF EventInv, Locking, LockHeld
      <4>3. CASE x # e /\ klock[x] = None
        BY Zenon, <2>5, <4>3 DEF LockHeld
      <4> QED BY Zenon, <4>1, <4>2, <4>3
    <3> QED BY Zenon, <3>1, <3>2 DEF Locking
  <2>8. Fired'
    BY Zenon, <2>1 DEF EventInv, Types, Fired, GotOf, InWait
  <2>9. Listed'
    <3>1. \A u \in Threads : InWait(u)' <=> InWait(u)
      BY Zenon, <2>1, <2>3, <2>4 DEF InWait
    <3>2. ASSUME NEW x \in Events, NEW u \in Threads, Entry(x, u)
          PROVE  Entry(x, u)'
      <4>1. u # t
        BY Zenon, <2>1, <3>2 DEF Entry, InWait
      <4> QED BY Zenon, <2>1, <2>3, <3>1, <3>2, <4>1 DEF Entry
    <3>3. ASSUME NEW u \in Threads, NEW x \in Events, Waiting(u, x)'
          PROVE  Waiting(u, x)
      <4>1. u # t
        BY Zenon, <2>4, <3>3 DEF Waiting
      <4> QED BY Zenon, <2>1, <2>3, <3>3, <4>1 DEF Waiting
    <3> QED BY Zenon, <2>1, <3>2, <3>3, ListedKept DEF EventInv
  <2>10. Accounts'
    <3>1. \A x : Takers(x)' = Takers(x)
      BY Zenon, <2>1 DEF Takers
    <3>2. ASSUME NEW x \in Events \ Manual, x # e
          PROVE  Account(x)'
      <4>1. owed'[x] = owed[x] /\ klock'[x] = klock[x]
        BY Zenon, <2>1, <3>2 DEF Owe, EventInv, Types
      <4>2. UnderWay(x)' <=> UnderWay(x)
        BY Zenon, <2>3, <2>6, <4>1 DEF UnderWay, EventInv, Types
      <4> QED BY Zenon, <2>1, <3>1, <3>2, <4>1, <4>2 DEF EventInv, Accounts, Account
    <3>3. ASSUME e \notin Manual
          PROVE  Account(e)'
      <4>1. owed'[e] = owed[e] + 1
        BY Zenon, <2>1, <3>3 DEF Owe, EventInv, Types
      <4>2. ~UnderWay(e) /\ UnderWay(e)'
        BY Zenon, <2>1, <2>4 DEF UnderWay
      <4>3. owed[e] = Cardinality(Takers(e)) + 0
        BY Zenon, <1>2, <3>3, <4>2 DEF EventInv, Accounts, Account
      <4>4. owed'[e] = Cardinality(Takers(e)) + 1
        BY <4>1, <4>3, TakersFinite
      <4> QED BY Zenon, <3>1, <4>2, <4>4 DEF Account
    <3> QED BY Zenon, <3>2, <3>3 DEF Accounts
  <2> QED BY Zenon, <2>2, <2>7, <2>8, <2>9, <2>10 DEF EventInv
<1> QED BY Zenon, <1>1, <1>2

LEMMA FireWaiterStep ==
  ASSUME NEW t \in Threads, NEW e \in Events, EventInv, FireWaiter(t, e)
  PROVE  EventInv'
<1>1. /\ pc[t] = "signal" /\ on[t] = {e} /\ klock[e] = t
      /\ waiters[e] # <<>> /\ waiters[e] \in Seq(Threads)
  <2>1. Signals(t, e) /\ waiters[e] # <<>>
    BY Zenon DEF FireWaiter
  <2>2. LocksOf(t)
    BY Zenon DEF EventInv, Locking
  <2>3. klock[e] = t
    BY Zenon, <2>1, <2>2 DEF Signals, LocksOf
  <2> QED BY Zenon, <2>1, <2>3 DEF Signals, EventInv, Types
<1>2. PICK w \in Threads : 1 \in DOMAIN waiters[e] /\ w = waiters[e][1] /\ w = Head(waiters[e])
  BY <1>1
<1> DEFINE done == e \notin Manual /\ ~fired[w]
<1>3. Entry(e, w)
  BY Zenon, <1>2 DEF EventInv, Listed, ListOf
<1>4. w # t /\ InWait(w)
  BY Zenon, <1>1, <1>3 DEF Entry, InWait
<1>5. /\ fired' = [fired EXCEPT ![w] = TRUE]
      /\ got' = [got EXCEPT ![w] = IF fired[w] THEN got[w] ELSE e]
      /\ pc' = [pc EXCEPT ![w] = IF pc[w] = "asleep" /\ ~fired[w] THEN "awake" ELSE pc[w],
                          ![t] = IF done THEN "idle" ELSE @]
      /\ klock' = [klock EXCEPT ![e] = IF done THEN None ELSE klock[e]]
      /\ waiters' = [waiters EXCEPT ![e] = Tail(waiters[e])]
      /\ UNCHANGED <<signaled, owed, slock, on, todo, finite, late, result>>
  BY Zenon, <1>2 DEF FireWaiter, Fire, Wake
<1>6. /\ \A u \in Threads \ {t, w} : pc'[u] = pc[u]
      /\ pc'[w] = (IF pc[w] = "asleep" /\ ~fired[w] THEN "awake" ELSE pc[w])
      /\ pc'[t] = (IF done THEN "idle" ELSE "signal")
  BY Zenon, <1>1, <1>2, <1>4, <1>5 DEF EventInv, Types
<1>7. /\ \A u \in Threads \ {w} : got'[u] = got[u] /\ fired'[u] = fired[u]
      /\ fired'[w] /\ got'[w] = (IF fired[w] THEN got[w] ELSE e)
  BY Zenon, <1>2, <1>5 DEF EventInv, Types
<1>8. /\ \A x \in Events \ {e} : klock'[x] = klock[x] /\ waiters'[x] = waiters[x]
      /\ klock'[e] = (IF done THEN None ELSE t) /\ waiters'[e] = Tail(waiters[e])
  BY Zenon, <1>1, <1>5 DEF EventInv, Types
<1>9. \A u \in Threads : InWait(u)' <=> InWait(u)
  <2>1. InWait(w)'
    BY Zenon, <1>4, <1>6 DEF InWait
  <2>2. ~InWait(t) /\ ~InWait(t)'
    BY Zenon, <1>1, <1>6 DEF InWait
  <2>3. \A u \in Threads \ {t, w} : InWait(u)' <=> InWait(u)
    BY Zenon, <1>6 DEF InWait
  <2> QED BY Zenon, <1>4, <2>1, <2>2, <2>3
<1>10. Types'
  <2>1. waiters' \in [Events -> Seq(Threads)]
    BY <1>1, <1>5 DEF EventInv, Types
  <2>2. klock' \in [Events -> Threads \cup {None}]
    BY Zenon, <1>1, <1>5 DEF EventInv, Types
  <2>3. got' \in [Threads -> Events \cup {NoEvent}] /\ DOMAIN fired' = Threads
    <3>1. (IF fired[w] THEN got[w] ELSE e) \in Events \cup {NoEvent}
      BY Zenon, <1>2 DEF EventInv, Types
    <3> QED BY Zenon, <1>2, <1>5, <3>1 DEF EventInv, Types
  <2>4. pc' \in [Threads -> PC]
    <3>1. pc[w] \in PC /\ pc \in [Threads -> PC]
      BY Zenon, <1>2 DEF EventInv, Types
    <3> QED BY Zenon, <1>2, <1>5, <3>1
  <2> QED BY Zenon, <1>5, <2>1, <2>2, <2>3, <2>4 DEF EventInv, Types
<1>11. Locking'
  <2>1. ASSUME NEW u \in Threads
        PROVE  LocksOf(u)'
    <3>1. CASE u = t
      <4>1. CASE done
        BY Zenon, <1>6, <3>1, <4>1 DEF LocksOf
      <4>2. CASE ~done
        BY Zenon, <1>1, <1>5, <1>6, <1>8, <3>1, <4>2 DEF LocksOf
      <4> QED BY Zenon, <4>1, <4>2
    <3>2. CASE u = w
      BY Zenon, <1>9, <3>2, <1>4 DEF LocksOf, InWait
    <3>3. CASE u # t /\ u # w
      <4>1. \A x \in Events : klock[x] = u => klock'[x] = u
        BY Zenon, <1>1, <1>8, <3>3
      <4>2. pc'[u] = pc[u] /\ on'[u] = on[u] /\ todo'[u] = todo[u]
        BY Zenon, <1>5, <1>6, <3>3
      <4> QED BY Zenon, <4>1, <4>2, LocksOfKept DEF EventInv, Locking
    <3> QED BY Zenon, <3>1, <3>2, <3>3
  <2>2. ASSUME NEW x \in Events
        PROVE  LockHeld(x)'
    <3>1. LockHeld(x) /\ LockHeld(e)
      BY Zenon DEF EventInv, Locking
    <3>2. CASE x = e
      BY Zenon, <1>1, <1>5, <1>6, <1>8, <3>1, <3>2 DEF LockHeld
    <3>3. CASE x # e /\ klock[x] # None
      <4>1. klock[x] \in Threads
        BY Zenon, <3>3 DEF EventInv, Types
      <4>2. klock[x] # t
        BY Zenon, <1>1, <3>1, <3>3 DEF LockHeld
      <4>3. klock[x] # w
        BY Zenon, <1>4, <3>1, <3>3 DEF LockHeld, InWait
      <4> QED BY Zenon, <1>5, <1>6, <1>8, <3>1, <3>3, <4>1, <4>2, <4>3, LockHeldKept DEF EventInv
    <3>4. CASE x # e /\ klock[x] = None
      BY Zenon, <1>8, <3>4 DEF LockHeld
    <3> QED BY Zenon, <3>2, <3>3, <3>4
  <2> QED BY Zenon, <2>1, <2>2 DEF Locking
<1>12. GotOf(w)
  BY Zenon, <1>2 DEF EventInv, Fired
<1>13. ~fired[w] => got[w] = NoEvent
  BY Zenon, <1>4, <1>12 DEF GotOf, InWait
<1>14. Fired'
  <2>1. e # NoEvent
    OBVIOUS
  <2>2. GotOf(w)'
    <3>1. InWait(w)' /\ pc'[w] # "asleep" /\ (pc'[w] = "dequeue" => pc[w] = "dequeue")
      BY Zenon, <1>2, <1>4, <1>6, <1>9, <1>12 DEF GotOf, InWait
    <3>2. got'[w] # NoEvent \/ pc[w] = "dequeue"
      BY Zenon, <1>4, <1>7, <1>12, <2>1 DEF GotOf, InWait
    <3>3. pc'[w] = "dequeue" => got'[w] = got[w] /\ result'[w] = result[w]
      BY Zenon, <1>5, <1>7, <1>12, <3>1 DEF GotOf
    <3>4. pc[w] = "dequeue" => pc'[w] = "dequeue"
      BY Zenon, <1>6
    <3> QED BY Zenon, <1>7, <1>12, <3>1, <3>2, <3>3, <3>4 DEF GotOf
  <2>3. ASSUME NEW u \in Threads, u # w
        PROVE  GotOf(u)'
    <3>1. GotOf(u)
      BY Zenon DEF EventInv, Fired
    <3>2. got'[u] = got[u] /\ fired'[u] = fired[u] /\ result'[u] = result[u]
      BY Zenon, <1>5, <1>7, <2>3
    <3>3. CASE u = t
      BY Zenon, <1>1, <1>6, <3>1, <3>2, <3>3 DEF GotOf, InWait
    <3>4. CASE u # t
      BY Zenon, <1>6, <2>3, <3>1, <3>2, <3>4 DEF GotOf, InWait
    <3> QED BY Zenon, <3>3, <3>4
  <2> QED BY Zenon, <2>2, <2>3 DEF Fired
<1>15. Listed'
  <2>1. ASSUME NEW x \in Events, NEW u \in Threads, Entry(x, u), x # e \/ u # w
        PROVE  Entry(x, u)'
    <3>1. got'[u] # x
      BY Zenon, <1>7, <2>1 DEF Entry
    <3>2. pc'[u] = "dequeue" => pc[u] = "dequeue"
      BY Zenon, <1>1, <1>6
    <3> QED BY Zenon, <1>5, <1>9, <2>1, <3>1, <3>2 DEF Entry
  <2>2. ASSUME NEW x \in Events, x # e
        PROVE  ListOf(x)'
    <3>1. \A i \in DOMAIN waiters[x] : waiters[x][i] \in Threads
      BY Zenon, ListOfThreads DEF EventInv
    <3>2. ListOf(x) /\ waiters'[x] = waiters[x] /\ signaled' = signaled
      BY Zenon, <1>5, <1>8, <2>2 DEF EventInv, Listed
    <3> QED BY Zenon, <2>1, <2>2, <3>1, <3>2 DEF ListOf
  <2>3. ListOf(e) /\ ~signaled'[e]
    BY Zenon, <1>1, <1>5 DEF EventInv, Listed, ListOf
  <2>4. \A i \in DOMAIN waiters'[e] :
          i \in Nat /\ i + 1 \in DOMAIN waiters[e] /\ waiters'[e][i] = waiters[e][i + 1] /\ i + 1 # 1
    BY <1>1, <1>8
  <2>5. ListOf(e)'
    <3>1. IsInjective(waiters'[e])
      BY <2>3, <2>4 DEF ListOf, IsInjective
    <3>2. ASSUME NEW i \in DOMAIN waiters'[e]
          PROVE  Entry(e, waiters[e][i])'
      <4>1. PICK v \in Threads : v = waiters[e][i + 1] /\ i + 1 \in DOMAIN waiters[e]
        BY <1>1, <2>4
      <4>2. v # w
        BY Zenon, <1>2, <2>3, <2>4, <4>1 DEF ListOf, IsInjective
      <4>3. Entry(e, v)
        BY Zenon, <2>3, <4>1 DEF ListOf
      <4>4. Entry(e, v)'
        BY Zenon, <2>1, <4>2, <4>3
      <4>5. waiters'[e][i] = v
        BY Zenon, <2>4, <4>1
      <4> QED BY Zenon, <4>4, <4>5 DEF Entry, InWait
    <3> QED BY Zenon, <2>3, <3>1, <3>2 DEF ListOf
  <2>6. ASSUME NEW u \in Threads, NEW x \in Events, Waiting(u, x)'
        PROVE  OnList(u, x)'
    <3>1. u # w
      BY Zenon, <1>7, <2>6 DEF Waiting
    <3>2. Waiting(u, x)
      <4>1. u # t
        BY Zenon, <1>6, <2>6 DEF Waiting
      <4> QED BY Zenon, <1>5, <1>6, <1>7, <2>6, <3>1, <4>1 DEF Waiting
    <3>3. OnList(u, x)
      BY Zenon, <3>2 DEF EventInv, Listed
    <3>4. CASE x # e
      BY Zenon, <1>8, <3>3, <3>4 DEF OnList
    <3>5. CASE x = e
      <4>1. PICK i \in DOMAIN waiters[e] : waiters[e][i] = u
        BY Zenon, <3>3, <3>5 DEF OnList
      <4>2. i # 1
        BY Zenon, <1>2, <3>1, <4>1
      <4>3. i - 1 \in DOMAIN waiters'[e] /\ waiters'[e][i - 1] = u
        BY <1>1, <1>8, <4>1, <4>2
      <4> QED BY Zenon, <3>5, <4>3 DEF OnList
    <3> QED BY Zenon, <3>4, <3>5
  <2> QED BY Zenon, <2>2, <2>5, <2>6 DEF Listed
<1>16. Accounts'
  <2>1. UnderWay(e)
    BY Zenon, <1>1 DEF UnderWay
  <2>2. ASSUME NEW x \in Events, x # e
        PROVE  UnderWay(x)' <=> UnderWay(x)
    <3>1. klock'[x] = klock[x]
      BY Zenon, <1>8, <2>2
    <3>2. CASE klock[x] = None
      BY Zenon, <3>1, <3>2 DEF UnderWay
    <3>3. CASE klock[x] \in Threads
      <4>1. LockHeld(x)
        BY Zenon DEF EventInv, Locking
      <4>2. klock[x] # t /\ klock[x] # w
        BY Zenon, <1>1, <1>4, <2>2, <3>3, <4>1 DEF LockHeld, InWait
      <4> QED BY Zenon, <1>6, <3>1, <3>3, <4>2 DEF UnderWay
    <3> QED BY Zenon, <3>2, <3>3 DEF EventInv, Types
  <2>3. ASSUME NEW x \in Events, x # e
        PROVE  Takers(x)' = Takers(x)
    <3>1. \A u \in Threads : got'[u] = x <=> got[u] = x
      BY <1>2, <1>7, <1>13, <2>3
    <3> QED BY Zenon, <3>1 DEF Takers
  <2>4. ASSUME NEW x \in Events \ Manual, x # e
        PROVE  Account(x)'
    BY Zenon, <1>5, <2>2, <2>3, <2>4 DEF EventInv, Accounts, Account
  <2>5. ASSUME e \notin Manual
        PROVE  Account(e)'
    <3>1. owed[e] = Cardinality(Takers(e)) + 1
      BY Zenon, <2>1, <2>5 DEF EventInv, Accounts, Account
    <3>2. CASE fired[w]
      <4>1. Takers(e)' = Takers(e)
        <5>1. \A u \in Threads : got'[u] = got[u]
          BY Zenon, <1>7, <3>2
        <5> QED BY Zenon, <5>1 DEF Takers
      <4>2. UnderWay(e)'
        BY Zenon, <1>6, <1>8, <3>2 DEF UnderWay
      <4> QED BY Zenon, <1>5, <3>1, <4>1, <4>2 DEF Account
    <3>3. CASE ~fired[w]
      <4>1. w \notin Takers(e)
        BY Zenon, <1>3 DEF Takers, Entry
      <4>2. Takers(e)' = Takers(e) \cup {w}
        <5>1. got'[w] = e /\ \A u \in Threads \ {w} : got'[u] = got[u]
          BY Zenon, <1>7, <3>3
        <5> QED BY Zenon, <1>2, <5>1 DEF Takers
      <4>3. Cardinality(Takers(e) \cup {w}) = Cardinality(Takers(e)) + 1
        BY Zenon, <4>1, TakersFinite, FS_AddElement
      <4>4. ~UnderWay(e)' /\ ~signaled'[e]
        <5>1. klock'[e] = None
          BY Zenon, <1>8, <2>5, <3>3
        <5> QED BY Zenon, <1>1, <1>5, <5>1 DEF UnderWay, EventInv, Locking, LockHeld
      <4>5. owed'[e] = Cardinality(Takers(e)') + 0
        BY <1>5, <3>1, <4>2, <4>3, TakersFinite
      <4> QED BY Zenon, <4>4, <4>5 DEF Account
    <3> QED BY Zenon, <3>2, <3>3
  <2> QED BY Zenon, <2>4, <2>5 DEF Accounts
<1> QED BY Zenon, <1>10, <1>11, <1>14, <1>15, <1>16 DEF EventInv

-----------------------------------------------------------------------------
(* Wait(), TimedWait() *)

LEMMA TimedWaitStep ==
  ASSUME NEW t \in Threads, NEW e \in Events, NEW f \in BOOLEAN, EventInv, TimedWait(t, e, f)
  PROVE  EventInv'
<1>1. Types'
  BY Zenon DEF EventInv, Types, TimedWait, Call, Goto, events, waits
<1>2. /\ Alone(t) /\ pc[t] \in Quiet /\ pc'[t] \in Quiet
      /\ klock' = klock /\ signaled' = signaled /\ owed' = owed /\ got' = got /\ waiters' = waiters
      /\ pc'[t] = "lock" => \E x \in Events : on'[t] = {x}
  BY Zenon DEF EventInv, Types, TimedWait, Call, Goto, events, waits, Alone, Quiet
<1>3. Locking'
  BY Zenon, <1>2, LocksKept DEF EventInv
<1>4. Fired'
  BY Zenon DEF EventInv, Types, Fired, GotOf, InWait, TimedWait, Call, Goto, events, waits
<1>5. Listed'
  <2>1. \A x \in Events : \A u \in Threads : Entry(x, u) => Entry(x, u)'
    BY Zenon DEF EventInv, Types, Entry, InWait, TimedWait, Call, Goto, events, waits
  <2>2. \A u \in Threads : \A x \in Events : Waiting(u, x)' => Waiting(u, x)
    BY Zenon DEF EventInv, Types, Waiting, TimedWait, Call, Goto, events, waits
  <2> QED BY Zenon, <1>2, <2>1, <2>2, ListedKept DEF EventInv
<1>6. Accounts'
  BY Zenon, <1>2, QuietAccounts DEF EventInv, Quiet
<1> QED BY Zenon, <1>1, <1>3, <1>4, <1>5, <1>6 DEF EventInv

LEMMA ExpireStep ==
  ASSUME NEW t \in Threads, EventInv, Expire(t)
  PROVE  EventInv'
<1>1. Types'
  BY Zenon DEF EventInv, Types, Expire, events, waits
<1>2. /\ Alone(t) /\ pc[t] \in Quiet /\ pc'[t] \in Quiet
      /\ klock' = klock /\ signaled' = signaled /\ owed' = owed /\ got' = got /\ waiters' = waiters
      /\ pc'[t] = "lock" => \E x \in Events : on'[t] = {x}
  BY Zenon DEF EventInv, Types, Expire, events, waits, Alone, Quiet
<1>3. Locking'
  BY Zenon, <1>2, LocksKept DEF EventInv
<1>4. Fired'
  BY Zenon DEF EventInv, Types, Fired, GotOf, InWait, Expire, events, waits
<1>5. Listed'
  <2>1. \A x \in Events : \A u \in Threads : Entry(x, u) => Entry(x, u)'
    BY Zenon DEF EventInv, Types, Entry, InWait, Expire, events, waits
  <2>2. \A u \in Threads : \A x \in Events : Waiting(u, x)' => Waiting(u, x)
    BY Zenon DEF EventInv, Types, Waiting, Expire, events, waits
  <2> QED BY Zenon, <1>2, <2>1, <2>2, ListedKept DEF EventInv
<1>6. Accounts'
  BY Zenon, <1>2, QuietAccounts DEF EventInv, Quiet
<1> QED BY Zenon, <1>1, <1>3, <1>4, <1>5, <1>6 DEF EventInv

LEMMA SpuriousWakeupStep ==
  ASSUME NEW t \in Threads, EventInv, SpuriousWakeup(t)
  PROVE  EventInv'
<1>1. Types'
  BY Zenon DEF EventInv, Types, SpuriousWakeup, Goto, events, waits
<1>2. /\ Alone(t) /\ pc[t] \in Quiet /\ pc'[t] \in Quiet
      /\ klock' = klock /\ signaled' = signaled /\ owed' = owed /\ got' = got /\ waiters' = waiters
      /\ pc'[t] = "lock" => \E x \in Events : on'[t] = {x}
  BY Zenon DEF EventInv, Types, SpuriousWakeup, Goto, events, waits, Alone, Quiet
<1>3. Locking'
  BY Zenon, <1>2, LocksKept DEF EventInv
<1>4. Fired'
  BY Zenon DEF EventInv, Types, Fired, GotOf, InWait, SpuriousWakeup, Goto, events, waits
<1>5. Listed'
  <2>1. \A x \in Events : \A u \in Threads : Entry(x, u) => Entry(x, u)'
    BY Zenon DEF EventInv, Types, Entry, InWait, SpuriousWakeup, Goto, events, waits
  <2>2. \A u \in Threads : \A x \in Events : Waiting(u, x)' => Waiting(u, x)
    BY Zenon DEF EventInv, Types, Waiting, SpuriousWakeup, Goto, events, waits
  <2> QED BY Zenon, <1>2, <2>1, <2>2, ListedKept DEF EventInv
<1>6. Accounts'
  BY Zenon, <1>2, QuietAccounts DEF EventInv, Quiet
<1> QED BY Zenon, <1>1, <1>3, <1>4, <1>5, <1>6 DEF EventInv

LEMMA RelockStep ==
  ASSUME NEW t \in Threads, EventInv, Relock(t)
  PROVE  EventInv'
<1>1. Types'
  BY Zenon DEF EventInv, Types, Relock, Goto, events
<1>2. /\ Alone(t) /\ pc[t] \in Quiet /\ pc'[t] \in Quiet
      /\ klock' = klock /\ signaled' = signaled /\ owed' = owed /\ got' = got /\ waiters' = waiters
      /\ pc'[t] = "lock" => \E x \in Events : on'[t] = {x}
  BY Zenon DEF EventInv, Types, Relock, Goto, events, Alone, Quiet
<1>3. Locking'
  BY Zenon, <1>2, LocksKept DEF EventInv
<1>4. Fired'
  BY Zenon DEF EventInv, Types, Fired, GotOf, InWait, Relock, Goto, events
<1>5. Listed'
  <2>1. \A x \in Events : \A u \in Threads : Entry(x, u) => Entry(x, u)'
    BY Zenon DEF EventInv, Types, Entry, InWait, Relock, Goto, events
  <2>2. \A u \in Threads : \A x \in Events : Waiting(u, x)' => Waiting(u, x)
    BY Zenon DEF EventInv, Types, Waiting, Relock, Goto, events
  <2> QED BY Zenon, <1>2, <2>1, <2>2, ListedKept DEF EventInv
<1>6. Accounts'
  BY Zenon, <1>2, QuietAccounts DEF EventInv, Quiet
<1> QED BY Zenon, <1>1, <1>3, <1>4, <1>5, <1>6 DEF EventInv

LEMMA SleepStep ==
  ASSUME NEW t \in Threads, EventInv, Sleep(t)
  PROVE  EventInv'
<1>1. Types'
  BY Zenon DEF EventInv, Types, Sleep, Goto, events
<1>2. /\ Alone(t) /\ pc[t] \in Quiet /\ pc'[t] \in Quiet
      /\ klock' = klock /\ signaled' = signaled /\ owed' = owed /\ got' = got /\ waiters' = waiters
      /\ pc'[t] = "lock" => \E x \in Events : on'[t] = {x}
  BY Zenon DEF EventInv, Types, Sleep, Goto, events, Alone, Quiet
<1>3. Locking'
  BY Zenon, <1>2, LocksKept DEF EventInv
<1>4. Fired'
  BY Zenon DEF EventInv, Types, Fired, GotOf, InWait, Sleep, Goto, events
<1>5. Listed'
  <2>1. \A x \in Events : \A u \in Threads : Entry(x, u) => Entry(x, u)'
    BY Zenon DEF EventInv, Types, Entry, InWait, Sleep, Goto, events
  <2>2. \A u \in Threads : \A x \in Events : Waiting(u, x)' => Waiting(u, x)
    BY Zenon DEF EventInv, Types, Waiting, Sleep, Goto, events
  <2> QED BY Zenon, <1>2, <2>1, <2>2, ListedKept DEF EventInv
<1>6. Accounts'
  BY Zenon, <1>2, QuietAccounts DEF EventInv, Quiet
<1> QED BY Zenon, <1>1, <1>3, <1>4, <1>5, <1>6 DEF EventInv

LEMMA WakeUpStep ==
  ASSUME NEW t \in Threads, EventInv, WakeUp(t)
  PROVE  EventInv'
<1>1. Types'
  BY Zenon DEF EventInv, Types, WakeUp, Goto, events
<1>2. /\ Alone(t) /\ pc[t] \in Quiet /\ pc'[t] \in Quiet
      /\ klock' = klock /\ signaled' = signaled /\ owed' = owed /\ got' = got /\ waiters' = waiters
      /\ pc'[t] = "lock" => \E x \in Events : on'[t] = {x}
  BY Zenon DEF EventInv, Types, WakeUp, Goto, events, Alone, Quiet
<1>3. Locking'
  BY Zenon, <1>2, LocksKept DEF EventInv
<1>4. Fired'
  BY Zenon DEF EventInv, Types, Fired, GotOf, InWait, WakeUp, Goto, events
<1>5. Listed'
  <2>1. \A x \in Events : \A u \in Threads : Entry(x, u) => Entry(x, u)'
    BY Zenon DEF EventInv, Types, Entry, InWait, WakeUp, Goto, events
  <2>2. \A u \in Threads : \A x \in Events : Waiting(u, x)' => Waiting(u, x)
    BY Zenon DEF EventInv, Types, Waiting, WakeUp, Goto, events
  <2> QED BY Zenon, <1>2, <2>1, <2>2, ListedKept DEF EventInv
<1>6. Accounts'
  BY Zenon, <1>2, QuietAccounts DEF EventInv, Quiet
<1> QED BY Zenon, <1>1, <1>3, <1>4, <1>5, <1>6 DEF EventInv

LEMMA SignalStaysStep ==
  ASSUME NEW t \in Threads, NEW e \in Events, EventInv, SignalStays(t, e)
  PROVE  EventInv'
<1>1. /\ pc[t] = "signal" /\ on[t] = {e} /\ waiters[e] = <<>>
      /\ signaled' = [signaled EXCEPT ![e] = TRUE]
      /\ klock' = [klock EXCEPT ![e] = None]
      /\ pc' = [pc EXCEPT ![t] = "idle"]
      /\ UNCHANGED <<waiters, owed, fired, got, slock, on, todo, finite, late, result>>
  BY Zenon DEF SignalStays, Signals, Goto, waits
<1>2. LocksOf(t)
  BY Zenon DEF EventInv, Locking
<1>3. klock[e] = t
  BY Zenon, <1>1, <1>2 DEF LocksOf
<1>4. Types'
  BY Zenon, <1>1 DEF EventInv, Types
<1>5. /\ \A u \in Threads \ {t} : pc'[u] = pc[u]
      /\ pc'[t] = "idle" /\ klock'[e] = None /\ signaled'[e]
      /\ \A x \in Events \ {e} : klock'[x] = klock[x] /\ signaled'[x] = signaled[x]
  BY Zenon, <1>1 DEF EventInv, Types
<1>6. ASSUME NEW x \in Events, x # e
      PROVE  LockHeld(x) /\ klock[x] # t
  BY Zenon, <1>1, <1>6 DEF EventInv, Locking, LockHeld
<1>7. Locking'
  <2>1. ASSUME NEW u \in Threads
        PROVE  LocksOf(u)'
    <3>1. CASE u = t
      BY Zenon, <1>5, <3>1 DEF LocksOf
    <3>2. CASE u # t
      <4>1. \A x \in Events : klock[x] = u => klock'[x] = u
        BY Zenon, <1>3, <1>5, <3>2
      <4> QED BY Zenon, <1>1, <1>5, <3>2, <4>1, LocksOfKept DEF EventInv, Locking
    <3> QED BY Zenon, <3>1, <3>2
  <2>2. ASSUME NEW x \in Events
        PROVE  LockHeld(x)'
    <3>1. CASE x = e
      BY Zenon, <1>5, <3>1 DEF LockHeld
    <3>2. CASE x # e
      <4>1. klock[x] # None => klock[x] \in Threads
        BY Zenon DEF EventInv, Types
      <4> QED BY Zenon, <1>1, <1>5, <1>6, <3>2, <4>1, LockHeldKept DEF EventInv
    <3> QED BY Zenon, <3>1, <3>2
  <2> QED BY Zenon, <2>1, <2>2 DEF Locking
<1>8. Fired'
  BY Zenon, <1>1, <1>5 DEF EventInv, Fired, GotOf, InWait
<1>9. Listed'
  <2>1. ASSUME NEW x \in Events, NEW u \in Threads, Entry(x, u)
        PROVE  Entry(x, u)'
    <3>1. u # t
      BY Zenon, <1>1, <2>1 DEF Entry, InWait
    <3> QED BY Zenon, <1>1, <1>5, <2>1, <3>1 DEF Entry, InWait
  <2>2. ASSUME NEW x \in Events
        PROVE  ListOf(x)'
    <3>1. \A i \in DOMAIN waiters[x] : waiters[x][i] \in Threads
      BY Zenon, ListOfThreads DEF EventInv
    <3>2. ListOf(x) /\ (signaled'[x] => waiters[x] = <<>>)
      BY Zenon, <1>1, <1>5 DEF EventInv, Listed, ListOf
    <3> QED BY Zenon, <1>1, <2>1, <3>1, <3>2 DEF ListOf
  <2>3. ASSUME NEW u \in Threads, NEW x \in Events, Waiting(u, x)'
        PROVE  OnList(u, x)'
    <3>1. u # t
      BY Zenon, <1>5, <2>3 DEF Waiting
    <3>2. Waiting(u, x)
      BY Zenon, <1>1, <1>5, <2>3, <3>1 DEF Waiting
    <3> QED BY Zenon, <1>1, <3>2 DEF EventInv, Listed, OnList
  <2> QED BY Zenon, <2>2, <2>3 DEF Listed
<1>10. Accounts'
  <2>1. \A x : Takers(x)' = Takers(x)
    BY Zenon, <1>1 DEF Takers
  <2>2. ASSUME NEW x \in Events \ Manual
        PROVE  Account(x)'
    <3>1. CASE x = e
      BY Zenon, <1>1, <1>3, <1>5, <2>1, <2>2, <3>1 DEF EventInv, Accounts, Account, UnderWay
    <3>2. CASE x # e
      <4>1. klock[x] = None \/ klock[x] \in Threads \ {t}
        BY Zenon, <1>6, <3>2 DEF EventInv, Types
      <4>2. UnderWay(x)' <=> UnderWay(x)
        BY Zenon, <1>5, <3>2, <4>1 DEF UnderWay
      <4> QED BY Zenon, <1>1, <1>5, <2>1, <2>2, <3>2, <4>2 DEF EventInv, Accounts, Account
    <3> QED BY Zenon, <3>1, <3>2
  <2> QED BY Zenon, <2>2 DEF Accounts
<1> QED BY Zenon, <1>4, <1>7, <1>8, <1>9, <1>10 DEF EventInv

\* A waiter that is put on the lists of its events.
LEMMA NewWaiterListed ==
  ASSUME EventInv, NEW t \in Threads, NewWaiter(t, on[t]), ~InWait(t),
         UNCHANGED <<on, todo, signaled, result>>, \A e \in on[t] : ~signaled[e]
  PROVE  /\ Fired' /\ Listed' /\ got' = got
         /\ waiters' \in [Events -> Seq(Threads)] /\ DOMAIN fired' = Threads /\ DOMAIN slock' = Threads
         /\ pc' \in [Threads -> PC] /\ pc'[t] = "test" /\ Alone(t)
<1>1. got[t] = NoEvent
  BY Zenon DEF EventInv, Fired, GotOf
<1>2. /\ pc' = [pc EXCEPT ![t] = "test"] /\ fired' = [fired EXCEPT ![t] = FALSE]
      /\ got' = [got EXCEPT ![t] = NoEvent] /\ slock' = [slock EXCEPT ![t] = t]
      /\ waiters' = [x \in Events |-> IF x \in on[t] THEN Append(waiters[x], t) ELSE waiters[x]]
  BY Zenon DEF NewWaiter, Goto
<1>3. got' = got
  BY Zenon, <1>1, <1>2 DEF EventInv, Types
<1>4. /\ \A u \in Threads \ {t} : pc'[u] = pc[u] /\ fired'[u] = fired[u]
      /\ pc'[t] = "test" /\ ~fired'[t]
  BY Zenon, <1>2 DEF EventInv, Types
<1>5. Alone(t)
  BY Zenon, <1>4 DEF Alone
<1>6. \A x \in Events : waiters[x] \in Seq(Threads)
  BY Zenon DEF EventInv, Types
<1>7. /\ waiters' \in [Events -> Seq(Threads)] /\ DOMAIN fired' = Threads
      /\ DOMAIN slock' = Threads /\ pc' \in [Threads -> PC]
  <2>1. \A x \in Events : (IF x \in on[t] THEN Append(waiters[x], t) ELSE waiters[x]) \in Seq(Threads)
    BY <1>6
  <2>2. waiters' \in [Events -> Seq(Threads)]
    BY Zenon, <1>2, <2>1
  <2> QED BY Zenon, <1>2, <2>2 DEF EventInv, Types
<1>8. Fired'
  <2>1. GotOf(t)'
    BY Zenon, <1>1, <1>3, <1>4 DEF GotOf, InWait
  <2>2. ASSUME NEW u \in Threads, u # t
        PROVE  GotOf(u)'
    BY Zenon, <1>3, <1>4, <2>2 DEF GotOf, InWait, EventInv, Fired
  <2> QED BY Zenon, <2>1, <2>2 DEF Fired
<1>9. Listed'
  <2>1. ASSUME NEW x \in Events, NEW u \in Threads, Entry(x, u)
        PROVE  u # t /\ Entry(x, u)'
    <3>1. u # t
      BY Zenon, <2>1 DEF Entry
    <3> QED BY Zenon, <1>3, <1>4, <2>1, <3>1 DEF Entry, InWait
  <2>2. ASSUME NEW x \in Events
        PROVE  ListOf(x)'
    <3>1. ListOf(x) /\ \A i \in DOMAIN waiters[x] : waiters[x][i] \in Threads /\ waiters[x][i] # t
      <4>1. \A i \in DOMAIN waiters[x] : waiters[x][i] \in Threads
        BY Zenon, ListOfThreads DEF EventInv
      <4>2. ListOf(x)
        BY Zenon DEF EventInv, Listed
      <4> QED BY Zenon, <2>1, <4>1, <4>2 DEF ListOf
    <3>2. CASE x \notin on[t]
      <4>1. waiters'[x] = waiters[x]
        BY Zenon, <1>2, <3>2
      <4> QED BY Zenon, <2>1, <3>1, <4>1 DEF ListOf
    <3>3. CASE x \in on[t]
      <4>1. waiters'[x] = Append(waiters[x], t)
        BY Zenon, <1>2, <3>3
      <4>2. \A i \in DOMAIN waiters'[x] :
              \/ i \in DOMAIN waiters[x] /\ waiters'[x][i] = waiters[x][i]
              \/ i = Len(waiters[x]) + 1 /\ waiters'[x][i] = t
        BY <1>6, <4>1
      <4>3. IsInjective(waiters'[x])
        BY Zenon, <3>1, <4>2 DEF ListOf, IsInjective
      <4>4. Entry(x, t)'
        <5>1. x # NoEvent
          BY EventAssumption DEF NoEvent
        <5> QED BY Zenon, <1>1, <1>3, <1>4, <3>3, <5>1 DEF Entry, InWait
      <4>5. ASSUME NEW i \in DOMAIN waiters'[x]
            PROVE  Entry(x, waiters[x][i])'
        <5>1. CASE i \in DOMAIN waiters[x] /\ waiters'[x][i] = waiters[x][i]
          <6>1. PICK v \in Threads : v = waiters[x][i]
            BY Zenon, <3>1, <5>1
          <6>2. Entry(x, v)'
            BY Zenon, <2>1, <3>1, <5>1, <6>1 DEF ListOf
          <6>3. waiters'[x][i] = v
            BY Zenon, <5>1, <6>1
          <6> QED BY Zenon, <6>2, <6>3 DEF Entry, InWait
        <5>2. CASE waiters'[x][i] = t
          BY Zenon, <4>4, <5>2 DEF Entry, InWait
        <5> QED BY Zenon, <4>2, <5>1, <5>2
      <4> QED BY Zenon, <3>3, <4>3, <4>5 DEF ListOf
    <3> QED BY Zenon, <3>2, <3>3
  <2>3. ASSUME NEW u \in Threads, NEW x \in Events, Waiting(u, x)'
        PROVE  OnList(u, x)'
    <3>1. CASE u = t
      <4>1. waiters'[x] = Append(waiters[x], t)
        BY Zenon, <1>2, <2>3, <3>1 DEF Waiting
      <4>2. Len(waiters[x]) + 1 \in DOMAIN waiters'[x] /\ waiters'[x][Len(waiters[x]) + 1] = t
        BY <1>6, <4>1
      <4> QED BY Zenon, <3>1, <4>2 DEF OnList
    <3>2. CASE u # t
      <4>1. OnList(u, x)
        BY Zenon, <1>4, <2>3, <3>2 DEF Waiting, EventInv, Listed
      <4>2. PICK i \in DOMAIN waiters[x] : waiters[x][i] = u
        BY Zenon, <4>1 DEF OnList
      <4>3. waiters'[x] = Append(waiters[x], t) \/ waiters'[x] = waiters[x]
        BY Zenon, <1>2
      <4>4. i \in DOMAIN waiters'[x] /\ waiters'[x][i] = u
        BY <1>6, <4>2, <4>3
      <4> QED BY Zenon, <4>4 DEF OnList
    <3> QED BY Zenon, <3>1, <3>2
  <2> QED BY Zenon, <2>2, <2>3 DEF Listed
<1> QED BY Zenon, <1>3, <1>4, <1>5, <1>7, <1>8, <1>9

LEMMA EnqueueStep ==
  ASSUME NEW t \in Threads, EventInv, Enqueue(t)
  PROVE  EventInv'
<1>1. /\ pc[t] = "lock"
      /\ UNCHANGED <<klock, on, todo, finite, late, result>>
  BY Zenon DEF Enqueue
<1>2. PICK e \in on[t] :
        /\ klock[e] = None
        /\ IF signaled[e]
           THEN Consume(e) /\ Goto(t, "idle") /\ UNCHANGED <<waiters, waits>>
           ELSE NewWaiter(t, on[t]) /\ UNCHANGED <<signaled, owed>>
  BY Zenon DEF Enqueue
<1>3. e \in Events /\ on[t] = {e}
  <2>1. e \in Events
    BY Zenon DEF EventInv, Types
  <2>2. \E x \in Events : on[t] = {x}
    BY Zenon, <1>1 DEF EventInv, Locking, LocksOf
  <2> QED BY Zenon, <2>1, <2>2
<1>4. pc[t] \in Quiet /\ ~InWait(t)
  BY Zenon, <1>1 DEF Quiet, InWait
<1>5. CASE signaled[e]
  <2>1. /\ Consume(e) /\ pc' = [pc EXCEPT ![t] = "idle"]
        /\ UNCHANGED <<waiters, fired, got, slock>>
    BY Zenon, <1>2, <1>5 DEF Goto, waits
  <2>2. /\ Alone(t) /\ pc'[t] = "idle" /\ \A u \in Threads \ {t} : pc'[u] = pc[u]
        /\ \A x \in Events : signaled'[x] => signaled[x]
    <3>1. /\ pc'[t] = "idle" /\ \A u \in Threads \ {t} : pc'[u] = pc[u]
      BY Zenon, <2>1 DEF EventInv, Types
    <3>2. \A x \in Events : signaled'[x] => signaled[x]
      BY Zenon, <1>3, <1>5, <2>1 DEF Consume, EventInv, Types
    <3> QED BY Zenon, <1>1, <3>1, <3>2 DEF Alone
  <2>3. Types'
    <3>1. DOMAIN signaled' = Events /\ owed' \in [Events -> Int]
      BY <2>1 DEF Consume, Owe, EventInv, Types
    <3>2. pc' \in [Threads -> PC]
      BY Zenon, <2>1 DEF EventInv, Types
    <3> QED BY Zenon, <1>1, <2>1, <3>1, <3>2 DEF EventInv, Types
  <2>4. Locking'
    BY Zenon, <1>1, <1>4, <2>2, LocksKept DEF EventInv, Quiet
  <2>5. Fired'
    BY Zenon, <1>1, <1>4, <2>1, <2>2 DEF EventInv, Fired, GotOf, InWait
  <2>6. Listed'
    <3>1. \A x \in Events : \A u \in Threads : Entry(x, u) => Entry(x, u)'
      BY Zenon, <1>1, <1>4, <2>1, <2>2 DEF Entry, InWait
    <3>2. \A u \in Threads : \A x \in Events : Waiting(u, x)' => Waiting(u, x)
      BY Zenon, <1>1, <1>4, <2>1, <2>2 DEF Waiting
    <3> QED BY Zenon, <2>1, <2>2, <3>1, <3>2, ListedKept DEF EventInv
  <2>7. Accounts'
    BY Zenon, <1>1, <1>3, <1>5, <2>1, <2>2, UnderWayKept, AccountsConsumed DEF EventInv
  <2> QED BY Zenon, <2>3, <2>4, <2>5, <2>6, <2>7 DEF EventInv
<1>6. CASE ~signaled[e]
  <2>1. NewWaiter(t, on[t]) /\ UNCHANGED <<signaled, owed>> /\ \A x \in on[t] : ~signaled[x]
    BY Zenon, <1>2, <1>3, <1>6
  <2>2. /\ Fired' /\ Listed' /\ got' = got
        /\ waiters' \in [Events -> Seq(Threads)] /\ DOMAIN fired' = Threads /\ DOMAIN slock' = Threads
        /\ pc' \in [Threads -> PC] /\ pc'[t] = "test" /\ Alone(t)
    BY Zenon, <1>1, <1>4, <2>1, NewWaiterListed
  <2>3. Types'
    BY Zenon, <1>1, <2>1, <2>2 DEF EventInv, Types
  <2>4. Locking'
    BY Zenon, <1>1, <1>4, <2>1, <2>2, LocksKept DEF EventInv, Quiet
  <2>5. Accounts'
    BY Zenon, <1>1, <2>1, <2>2, QuietAccounts DEF EventInv
  <2> QED BY Zenon, <2>2, <2>3, <2>4, <2>5 DEF EventInv
<1> QED BY Zenon, <1>5, <1>6

\* What the erasure of an entry leaves of a list.
LEMMA Erased ==
  ASSUME NEW s \in Seq(Threads), IsInjective(s), NEW i \in DOMAIN s
  PROVE  /\ Erase(s, i) \in Seq(Threads) /\ IsInjective(Erase(s, i))
         /\ \A j \in DOMAIN Erase(s, i) : \E k \in DOMAIN s : k # i /\ Erase(s, i)[j] = s[k]
         /\ \A k \in DOMAIN s : k # i => \E j \in DOMAIN Erase(s, i) : Erase(s, i)[j] = s[k]
<1>1. Len(s) \in Nat /\ DOMAIN s = 1..Len(s) /\ \A k \in DOMAIN s : s[k] \in Threads
  OBVIOUS
<1>2. /\ DOMAIN Erase(s, i) = 1..Len(s) - 1
      /\ \A j \in 1..Len(s) - 1 : Erase(s, i)[j] = IF j < i THEN s[j] ELSE s[j + 1]
  BY Zenon DEF Erase
<1>3. \A j \in 1..Len(s) - 1 : Erase(s, i)[j] \in Threads
  BY <1>1, <1>2
<1>4. Erase(s, i) \in Seq(Threads)
  <2>1. Len(s) - 1 \in Nat
    BY <1>1
  <2>2. Erase(s, i) \in [1..Len(s) - 1 -> Threads]
    BY Zenon, <1>3 DEF Erase
  <2> QED BY <2>1, <2>2
<1>5. \A j \in DOMAIN Erase(s, i) : \E k \in DOMAIN s : k # i /\ Erase(s, i)[j] = s[k]
  <2> SUFFICES ASSUME NEW j \in 1..Len(s) - 1
               PROVE  \E k \in DOMAIN s : k # i /\ Erase(s, i)[j] = s[k]
    BY Zenon, <1>2
  <2>1. CASE j < i
    BY <1>1, <1>2, <2>1
  <2>2. CASE ~(j < i)
    <3>1. j + 1 \in DOMAIN s /\ j + 1 # i /\ Erase(s, i)[j] = s[j + 1]
      BY <1>1, <1>2, <2>2
    <3> QED BY Zenon, <3>1
  <2> QED BY Zenon, <2>1, <2>2
<1>6. \A k \in DOMAIN s : k # i => \E j \in DOMAIN Erase(s, i) : Erase(s, i)[j] = s[k]
  <2> SUFFICES ASSUME NEW k \in DOMAIN s, k # i
               PROVE  \E j \in DOMAIN Erase(s, i) : Erase(s, i)[j] = s[k]
    BY Zenon
  <2>1. CASE k < i
    <3>1. k \in DOMAIN Erase(s, i) /\ Erase(s, i)[k] = s[k]
      BY <1>1, <1>2, <2>1
    <3> QED BY Zenon, <3>1
  <2>2. CASE ~(k < i)
    <3>1. k - 1 \in DOMAIN Erase(s, i) /\ Erase(s, i)[k - 1] = s[k]
      BY <1>1, <1>2, <2>2
    <3> QED BY Zenon, <3>1
  <2> QED BY Zenon, <2>1, <2>2
<1>7. IsInjective(Erase(s, i))
  <2>1. ASSUME NEW a \in 1..Len(s) - 1, NEW b \in 1..Len(s) - 1, Erase(s, i)[a] = Erase(s, i)[b]
        PROVE  a = b
    <3>1. \A x, y \in DOMAIN s : s[x] = s[y] => x = y
      BY Zenon DEF IsInjective
    <3> QED BY <1>1, <1>2, <2>1, <3>1
  <2> QED BY Zenon, <1>2, <2>1 DEF IsInjective
<1> QED BY Zenon, <1>4, <1>5, <1>6, <1>7

\* What is left of the list of e, and of the others, without t.
Left(t, e) ==
  /\ waiters' \in [Events -> Seq(Threads)]
  /\ \A x \in Events \ {e} : waiters'[x] = waiters[x]
  /\ IsInjective(waiters'[e]) /\ (waiters[e] = <<>> => waiters'[e] = <<>>)
  /\ \A j \in DOMAIN waiters'[e] :
       \E k \in DOMAIN waiters[e] : waiters'[e][j] = waiters[e][k] /\ waiters[e][k] # t
  /\ \A k \in DOMAIN waiters[e] :
       waiters[e][k] # t => \E j \in DOMAIN waiters'[e] : waiters'[e][j] = waiters[e][k]

LEMMA DequeueStep ==
  ASSUME NEW t \in Threads, NEW e \in Events, EventInv, Dequeue(t, e)
  PROVE  EventInv'
<1>1. /\ pc[t] = "dequeue" /\ e \in todo[t] /\ klock[e] = None
      /\ todo' = [todo EXCEPT ![t] = @ \ {e}]
      /\ UNCHANGED <<signaled, owed, klock, fired, got, slock, pc, on, finite, late, result>>
  BY Zenon DEF Dequeue, waits
<1>2. /\ waiters[e] \in Seq(Threads) /\ IsInjective(waiters[e])
      /\ DOMAIN waiters = Events /\ \A x \in Events : waiters[x] \in Seq(Threads)
  BY Zenon DEF EventInv, Types, Listed, ListOf
\* What is left of the lists.
<1>3. Left(t, e)
  <2>1. ASSUME NEW i \in DOMAIN waiters[e], waiters[e][i] = t,
               waiters' = [waiters EXCEPT ![e] = Erase(@, i)]
        PROVE  Left(t, e)
    <3>1. /\ Erase(waiters[e], i) \in Seq(Threads) /\ IsInjective(Erase(waiters[e], i))
          /\ \A j \in DOMAIN Erase(waiters[e], i) :
               \E k \in DOMAIN waiters[e] : k # i /\ Erase(waiters[e], i)[j] = waiters[e][k]
          /\ \A k \in DOMAIN waiters[e] :
               k # i => \E j \in DOMAIN Erase(waiters[e], i) : Erase(waiters[e], i)[j] = waiters[e][k]
      BY Zenon, <1>2, Erased
    <3>2. waiters'[e] = Erase(waiters[e], i) /\ \A x \in Events \ {e} : waiters'[x] = waiters[x]
      BY Zenon, <1>2, <2>1
    <3>3. waiters' \in [Events -> Seq(Threads)]
      BY Zenon, <1>2, <2>1, <3>1 DEF EventInv, Types
    <3>4. \A k \in DOMAIN waiters[e] : waiters[e][k] # t <=> k # i
      BY Zenon, <1>2, <2>1 DEF IsInjective
    <3>5. waiters[e] # <<>>
      BY <1>2, <2>1
    <3>6. \A j \in DOMAIN waiters'[e] :
            \E k \in DOMAIN waiters[e] : waiters'[e][j] = waiters[e][k] /\ waiters[e][k] # t
      <4> SUFFICES ASSUME NEW j \in DOMAIN waiters'[e]
                   PROVE  \E k \in DOMAIN waiters[e] : waiters'[e][j] = waiters[e][k] /\ waiters[e][k] # t
        BY Zenon
      <4>1. PICK k \in DOMAIN waiters[e] : k # i /\ Erase(waiters[e], i)[j] = waiters[e][k]
        BY Zenon, <3>1, <3>2
      <4> QED BY Zenon, <3>2, <3>4, <4>1
    <3>7. \A k \in DOMAIN waiters[e] :
            waiters[e][k] # t => \E j \in DOMAIN waiters'[e] : waiters'[e][j] = waiters[e][k]
      BY Zenon, <3>1, <3>2, <3>4
    <3> QED BY Zenon, <3>1, <3>2, <3>3, <3>5, <3>6, <3>7 DEF Left
  <2>2. ASSUME t \notin Range(waiters[e]), waiters' = waiters
        PROVE  Left(t, e)
    <3>1. \A k \in DOMAIN waiters[e] : waiters[e][k] # t
      BY Zenon, <2>2 DEF Range
    <3> QED BY Zenon, <1>2, <2>2, <3>1 DEF EventInv, Types, Left
  <2> QED BY Zenon, <2>1, <2>2 DEF Dequeue
<1>4. Types'
  <2>1. todo' \in [Threads -> SUBSET Events]
    BY Zenon, <1>1 DEF EventInv, Types
  <2> QED BY Zenon, <1>1, <1>3, <2>1 DEF EventInv, Types, Left
<1>5. /\ Alone(t) /\ pc[t] \in Quiet /\ pc'[t] = "dequeue" /\ todo'[t] = todo[t] \ {e}
      /\ \A u \in Threads \ {t} : todo'[u] = todo[u]
  <2>1. todo'[t] = todo[t] \ {e} /\ \A u \in Threads \ {t} : todo'[u] = todo[u]
    BY Zenon, <1>1 DEF EventInv, Types
  <2> QED BY Zenon, <1>1, <2>1 DEF Alone, Quiet
<1>6. Locking'
  BY Zenon, <1>1, <1>5, LocksKept DEF EventInv, Quiet
<1>7. Fired'
  BY Zenon, <1>1 DEF EventInv, Fired, GotOf, InWait
<1>8. Accounts'
  BY Zenon, <1>1, <1>5, QuietAccounts DEF EventInv
<1>9. Listed'
  <2>1. ASSUME NEW x \in Events, NEW u \in Threads, Entry(x, u), x # e \/ u # t
        PROVE  Entry(x, u)'
    BY Zenon, <1>1, <1>5, <2>1 DEF Entry, InWait
  <2>2. ASSUME NEW x \in Events
        PROVE  ListOf(x)'
    <3>1. ListOf(x) /\ \A i \in DOMAIN waiters[x] : waiters[x][i] \in Threads
      <4>1. \A i \in DOMAIN waiters[x] : waiters[x][i] \in Threads
        BY Zenon, ListOfThreads DEF EventInv
      <4> QED BY Zenon, <4>1 DEF EventInv, Listed
    <3>2. CASE x # e
      <4>1. waiters'[x] = waiters[x]
        BY Zenon, <1>3, <3>2 DEF Left
      <4> QED BY Zenon, <1>1, <2>1, <3>1, <3>2, <4>1 DEF ListOf
    <3>3. CASE x = e
      <4>1. ASSUME NEW i \in DOMAIN waiters'[x]
            PROVE  Entry(x, waiters[x][i])'
        <5>1. PICK k \in DOMAIN waiters[x] : waiters'[x][i] = waiters[x][k] /\ waiters[x][k] # t
          BY Zenon, <1>3, <3>3 DEF Left
        <5>2. PICK v \in Threads : v = waiters[x][k]
          BY Zenon, <3>1
        <5>3. Entry(x, v)'
          BY Zenon, <2>1, <3>1, <5>1, <5>2 DEF ListOf
        <5>4. waiters'[x][i] = v
          BY Zenon, <5>1, <5>2
        <5> QED BY Zenon, <5>3, <5>4 DEF Entry, InWait
      <4> QED BY Zenon, <1>1, <1>3, <3>1, <3>3, <4>1 DEF ListOf, Left
    <3> QED BY Zenon, <3>2, <3>3
  <2>3. ASSUME NEW u \in Threads, NEW x \in Events, Waiting(u, x)'
        PROVE  OnList(u, x)'
    <3>1. u # t /\ OnList(u, x)
      BY Zenon, <1>1, <2>3 DEF Waiting, EventInv, Listed
    <3>2. PICK k \in DOMAIN waiters[x] : waiters[x][k] = u
      BY Zenon, <3>1 DEF OnList
    <3>3. \E j \in DOMAIN waiters'[x] : waiters'[x][j] = u
      BY Zenon, <1>3, <3>1, <3>2 DEF Left
    <3> QED BY Zenon, <3>3 DEF OnList
  <2> QED BY Zenon, <2>2, <2>3 DEF Listed
<1> QED BY Zenon, <1>4, <1>6, <1>7, <1>8, <1>9 DEF EventInv

LEMMA ReturnStep ==
  ASSUME NEW t \in Threads, EventInv, Return(t)
  PROVE  EventInv'
<1>1. /\ pc[t] = "dequeue" /\ todo[t] = {}
      /\ slock' = [slock EXCEPT ![t] = None]
      /\ got' = [got EXCEPT ![t] = NoEvent]
      /\ owed' = IF result[t] THEN Owe(got[t], -1) ELSE owed
      /\ pc' = [pc EXCEPT ![t] = "idle"]
      /\ UNCHANGED <<signaled, waiters, klock, fired, on, todo, finite, late, result>>
  BY Zenon DEF Return, Goto
<1>2. result[t] <=> got[t] # NoEvent
  BY Zenon, <1>1 DEF EventInv, Fired, GotOf
<1>3. got[t] \in Events \cup {NoEvent} /\ NoEvent \notin Events
  BY DEF EventInv, Types
<1>4. Types'
  <2>1. got' \in [Threads -> Events \cup {NoEvent}] /\ pc' \in [Threads -> PC] /\ DOMAIN slock' = Threads
    BY Zenon, <1>1 DEF EventInv, Types
  <2>2. owed' \in [Events -> Int]
    <3>1. owed \in [Events -> Int]
      BY Zenon DEF EventInv, Types
    <3>2. CASE got[t] = NoEvent
      BY Zenon, <1>1, <1>2, <3>1, <3>2
    <3>3. CASE got[t] \in Events
      <4>1. owed' = Owe(got[t], -1)
        BY Zenon, <1>1, <1>2, <1>3, <3>3
      <4>2. owed[got[t]] + -1 \in Int /\ 0 \in Int
        <5>1. PICK n \in Int : n = owed[got[t]]
          BY Zenon, <3>1, <3>3
        <5>2. n + -1 \in Int /\ 0 \in Int
          OBVIOUS
        <5> QED BY Zenon, <5>1, <5>2
      <4> QED BY Zenon, <3>1, <3>3, <4>1, <4>2 DEF Owe
    <3> QED BY Zenon, <1>3, <3>2, <3>3
  <2> QED BY Zenon, <1>1, <2>1, <2>2 DEF EventInv, Types
<1>5. /\ \A u \in Threads \ {t} : pc'[u] = pc[u] /\ got'[u] = got[u]
      /\ pc'[t] = "idle" /\ got'[t] = NoEvent
  BY Zenon, <1>1 DEF EventInv, Types
<1>6. Alone(t) /\ pc[t] \in Quiet
  BY Zenon, <1>1, <1>5 DEF Alone, Quiet
<1>7. Locking'
  BY Zenon, <1>1, <1>5, <1>6, LocksKept DEF EventInv, Quiet
<1>8. Fired'
  BY Zenon, <1>1, <1>5 DEF EventInv, Fired, GotOf, InWait
<1>9. Listed'
  <2>1. ASSUME NEW x \in Events, NEW u \in Threads, Entry(x, u)
        PROVE  Entry(x, u)'
    <3>1. u # t
      BY Zenon, <1>1, <2>1 DEF Entry
    <3> QED BY Zenon, <1>1, <1>5, <2>1, <3>1 DEF Entry, InWait
  <2>2. \A u \in Threads : \A x \in Events : Waiting(u, x)' => Waiting(u, x)
    BY Zenon, <1>1, <1>5 DEF Waiting
  <2> QED BY Zenon, <1>1, <2>1, <2>2, ListedKept DEF EventInv
<1>10. Accounts'
  <2>1. \A x \in Events : UnderWay(x)' <=> UnderWay(x)
    BY Zenon, <1>1, <1>5, <1>6, UnderWayKept DEF EventInv
  <2>2. ASSUME NEW x \in Events \ Manual, got[t] # x
        PROVE  Account(x)'
    <3>1. Takers(x)' = Takers(x)
      BY Zenon, <1>3, <1>5, <2>2 DEF Takers
    <3>2. owed'[x] = owed[x]
      BY Zenon, <1>1, <2>2 DEF Owe, EventInv, Types
    <3> QED BY Zenon, <1>1, <2>1, <2>2, <3>1, <3>2 DEF Account, EventInv, Accounts
  <2>3. ASSUME NEW x \in Events \ Manual, got[t] = x
        PROVE  Account(x)'
    <3>1. Takers(x)' = Takers(x) \ {t} /\ t \in Takers(x)
      BY Zenon, <1>3, <1>5, <2>3 DEF Takers
    <3>2. Cardinality(Takers(x) \ {t}) = Cardinality(Takers(x)) - 1
      BY Zenon, <3>1, TakersFinite, FS_RemoveElement
    <3>3. owed'[x] = owed[x] - 1
      BY Zenon, <1>1, <1>2, <1>3, <2>3 DEF Owe, EventInv, Types
    <3>4. Account(x) /\ (UnderWay(x)' <=> UnderWay(x)) /\ signaled' = signaled
      BY Zenon, <1>1, <2>1, <2>3 DEF EventInv, Accounts
    <3>5. owed[x] - 1 = Cardinality(Takers(x)) - 1 + (IF signaled[x] \/ UnderWay(x) THEN 1 ELSE 0)
      BY <3>4, TakersFinite DEF Account
    <3> QED BY Zenon, <3>1, <3>2, <3>3, <3>4, <3>5 DEF Account
  <2> QED BY Zenon, <2>2, <2>3 DEF Accounts
<1> QED BY Zenon, <1>4, <1>7, <1>8, <1>9, <1>10 DEF EventInv

-----------------------------------------------------------------------------
(* WaitMany: the locks of several events *)

\* Every set of natural numbers has a least element.
LEMMA NatLeast ==
  ASSUME NEW T, T \subseteq Nat, T # {}
  PROVE  \E x \in T : \A y \in T : x <= y
<1>1. IsWellFoundedOn(OpToRel(<, Nat), Nat)
  BY Zenon, NatLessThanWellFounded
<1> DEFINE R == OpToRel(<, Nat)
<1> HIDE DEF R
<1>2. IsWellFoundedOn(R, Nat)
  BY Zenon, <1>1 DEF R
<1>3. PICK x \in T : \A y \in T : ~(<<y, x>> \in R)
  BY Zenon, <1>2, WFMin
<1>4. \A y \in T : ~(y < x)
  BY Zenon, <1>3 DEF R, OpToRel
<1> QED BY <1>4

LEMMA LowestIsLeast ==
  ASSUME NEW S \in SUBSET Events, S # {}
  PROVE  Lowest(S) \in S /\ \A f \in S : Lowest(S) <= f
<1>1. S \subseteq Nat
  BY Zenon
<1> QED BY Zenon, <1>1, NatLeast DEF Lowest

LEMMA WaitManyStep ==
  ASSUME NEW t \in Threads, NEW S \in SUBSET Events, EventInv, WaitMany(t, S)
  PROVE  EventInv'
<1>1. /\ pc[t] = "idle" /\ Cardinality(S) > 1
      /\ on' = [on EXCEPT ![t] = S] /\ todo' = [todo EXCEPT ![t] = S]
      /\ finite' = [finite EXCEPT ![t] = FALSE] /\ late' = [late EXCEPT ![t] = FALSE]
      /\ pc' = [pc EXCEPT ![t] = "lockMany"]
      /\ UNCHANGED <<signaled, waiters, klock, owed, fired, got, slock, result>>
  BY Zenon DEF WaitMany, Call, Goto, events, waits
<1>2. S # {}
  <2>1. Cardinality({}) = 0
    BY Zenon, FS_EmptySet
  <2>2. ~(0 > 1)
    OBVIOUS
  <2> QED BY Zenon, <1>1, <2>1, <2>2
<1>3. Types'
  BY Zenon, <1>1 DEF EventInv, Types
<1>4. /\ \A u \in Threads \ {t} : pc'[u] = pc[u] /\ on'[u] = on[u] /\ todo'[u] = todo[u]
      /\ pc'[t] = "lockMany" /\ on'[t] = S /\ todo'[t] = S
  BY Zenon, <1>1 DEF EventInv, Types
<1>5. Alone(t)
  BY Zenon, <1>4 DEF Alone
<1>6. Locking'
  <2>1. ASSUME NEW u \in Threads
        PROVE  LocksOf(u)'
    <3>1. CASE u = t
      BY Zenon, <1>2, <1>4, <3>1 DEF LocksOf
    <3>2. CASE u # t
      BY Zenon, <1>1, <1>4, <3>2, LocksOfKept DEF EventInv, Locking
    <3> QED BY Zenon, <3>1, <3>2
  <2>2. ASSUME NEW x \in Events
        PROVE  LockHeld(x)'
    <3>1. LockHeld(x) /\ klock[x] \in Threads \cup {None}
      BY Zenon DEF EventInv, Types, Locking
    <3>2. klock[x] # t
      BY Zenon, <1>1, <3>1 DEF LockHeld
    <3> QED BY Zenon, <1>1, <1>4, <3>1, <3>2, LockHeldKept DEF EventInv
  <2> QED BY Zenon, <2>1, <2>2 DEF Locking
<1>7. Fired'
  BY Zenon, <1>1, <1>4 DEF EventInv, Fired, GotOf, InWait
<1>8. Listed'
  <2>1. ASSUME NEW x \in Events, NEW u \in Threads, Entry(x, u)
        PROVE  Entry(x, u)'
    <3>1. u # t
      BY Zenon, <1>1, <2>1 DEF Entry, InWait
    <3> QED BY Zenon, <1>1, <1>4, <2>1, <3>1 DEF Entry, InWait
  <2>2. \A u \in Threads : \A x \in Events : Waiting(u, x)' => Waiting(u, x)
    BY Zenon, <1>1, <1>4 DEF Waiting
  <2> QED BY Zenon, <1>1, <2>1, <2>2, ListedKept DEF EventInv
<1>9. Accounts'
  BY Zenon, <1>1, <1>4, <1>5, QuietAccounts DEF EventInv
<1> QED BY Zenon, <1>3, <1>6, <1>7, <1>8, <1>9 DEF EventInv

\* The locks of t are released.
LEMMA LocksReleased ==
  ASSUME Types, Locking, NEW t \in Threads, Alone(t), klock' = Unlocked(t),
         pc[t] \in {"lockMany", "enqueueMany"}, pc'[t] \in {"idle", "test"},
         \A e \in Events : signaled'[e] => signaled[e]
  PROVE  /\ Locking' /\ klock' \in [Events -> Threads \cup {None}]
         /\ \A e \in Events : UnderWay(e)' <=> UnderWay(e)
<1>1. \A x \in Events : klock'[x] = IF klock[x] = t THEN None ELSE klock[x]
  BY Zenon DEF Unlocked
<1>2. klock' \in [Events -> Threads \cup {None}]
  BY Zenon DEF Unlocked, Types
<1>3. ASSUME NEW u \in Threads
      PROVE  LocksOf(u)'
  <2>1. CASE u = t
    BY Zenon, <2>1 DEF LocksOf
  <2>2. CASE u # t
    <3>1. pc'[u] = pc[u] /\ on'[u] = on[u] /\ todo'[u] = todo[u]
      BY Zenon, <2>2 DEF Alone
    <3>2. \A x \in Events : klock[x] = u => klock'[x] = u
      BY Zenon, <1>1, <2>2
    <3> QED BY Zenon, <3>1, <3>2, LocksOfKept DEF Locking
  <2> QED BY Zenon, <2>1, <2>2
<1>4. ASSUME NEW x \in Events
      PROVE  LockHeld(x)'
  <2>1. CASE klock[x] = t \/ klock[x] = None
    BY Zenon, <1>1, <2>1 DEF LockHeld
  <2>2. CASE klock[x] \in Threads \ {t}
    <3>1. klock'[x] = klock[x] /\ LockHeld(x)
      BY Zenon, <1>1, <2>2 DEF Locking
    <3> QED BY Zenon, <2>2, <3>1, LockHeldKept DEF Alone
  <2> QED BY Zenon, <2>1, <2>2 DEF Types
<1>5. \A e \in Events : UnderWay(e)' <=> UnderWay(e)
  <2>1. \A e \in Events : klock'[e] = klock[e] \/ {klock[e], klock'[e]} \subseteq {None, t}
    BY Zenon, <1>1
  <2> QED BY Zenon, <2>1, UnderWayKept
<1> QED BY Zenon, <1>2, <1>3, <1>4, <1>5 DEF Locking

LEMMA EnqueueManyStep ==
  ASSUME NEW t \in Threads, EventInv, EnqueueMany(t)
  PROVE  EventInv'
<1>1. /\ pc[t] = "enqueueMany" /\ NewWaiter(t, on[t]) /\ klock' = Unlocked(t)
      /\ UNCHANGED <<signaled, owed, on, todo, finite, late, result>>
  BY Zenon DEF EnqueueMany
<1>2. ~InWait(t)
  BY Zenon, <1>1 DEF InWait
<1>3. \A e \in on[t] : ~signaled[e]
  <2>1. \A e \in on[t] : e \in Events /\ klock[e] = t
    BY Zenon, <1>1 DEF EventInv, Locking, LocksOf, Types
  <2> QED BY Zenon, <2>1 DEF EventInv, Locking, LockHeld
<1>4. /\ Fired' /\ Listed' /\ got' = got
      /\ waiters' \in [Events -> Seq(Threads)] /\ DOMAIN fired' = Threads /\ DOMAIN slock' = Threads
      /\ pc' \in [Threads -> PC] /\ pc'[t] = "test" /\ Alone(t)
  BY Zenon, <1>1, <1>2, <1>3, NewWaiterListed
<1>5. /\ Locking' /\ klock' \in [Events -> Threads \cup {None}]
      /\ \A e \in Events : UnderWay(e)' <=> UnderWay(e)
  BY Zenon, <1>1, <1>4, LocksReleased DEF EventInv
<1>6. Types'
  BY Zenon, <1>1, <1>4, <1>5 DEF EventInv, Types
<1>7. Accounts'
  BY Zenon, <1>1, <1>4, <1>5, AccountsKept DEF EventInv
<1> QED BY Zenon, <1>4, <1>5, <1>6, <1>7 DEF EventInv

LEMMA LockNextStep ==
  ASSUME NEW t \in Threads, EventInv, LockNext(t)
  PROVE  EventInv'
<1>1. /\ pc[t] = "lockMany"
      /\ UNCHANGED <<waiters, fired, got, slock, on, finite, late, result>>
  BY Zenon DEF LockNext, waits
<1>2. /\ todo[t] # {} /\ todo[t] \subseteq on[t] /\ todo[t] \in SUBSET Events
      /\ \A x \in on[t] \ todo[t] : klock[x] = t /\ \A f \in todo[t] : x < f
  BY Zenon, <1>1 DEF EventInv, Locking, LocksOf, Types
<1>3. PICK e \in todo[t] : e = Lowest(todo[t]) /\ \A f \in todo[t] : e <= f
  BY Zenon, <1>2, LowestIsLeast
<1>4. e \in Events /\ e \in on[t] /\ on[t] \subseteq Events
  BY Zenon, <1>2 DEF EventInv, Types
<1>5. /\ klock[e] = None
      /\ IF signaled[e]
         THEN Consume(e) /\ klock' = Unlocked(t) /\ Goto(t, "idle") /\ UNCHANGED todo
         ELSE /\ klock' = [klock EXCEPT ![e] = t]
              /\ todo' = [todo EXCEPT ![t] = @ \ {e}]
              /\ Goto(t, IF todo'[t] = {} THEN "enqueueMany" ELSE "lockMany")
              /\ UNCHANGED <<signaled, owed>>
  BY Zenon, <1>3 DEF LockNext
<1>6. CASE signaled[e]
  <2>1. /\ Consume(e) /\ klock' = Unlocked(t) /\ pc' = [pc EXCEPT ![t] = "idle"] /\ todo' = todo
    BY Zenon, <1>5, <1>6 DEF Goto
  <2>2. /\ pc'[t] = "idle" /\ \A u \in Threads \ {t} : pc'[u] = pc[u]
        /\ \A x \in Events : signaled'[x] => signaled[x]
    <3>1. \A x \in Events : signaled'[x] => signaled[x]
      BY Zenon, <1>4, <1>6, <2>1 DEF Consume, EventInv, Types
    <3> QED BY Zenon, <2>1, <3>1 DEF EventInv, Types
  <2>3. Alone(t)
    BY Zenon, <1>1, <2>1, <2>2 DEF Alone
  <2>4. /\ Locking' /\ klock' \in [Events -> Threads \cup {None}]
        /\ \A x \in Events : UnderWay(x)' <=> UnderWay(x)
    BY Zenon, <1>1, <2>1, <2>2, <2>3, LocksReleased DEF EventInv
  <2>5. Types'
    <3>1. DOMAIN signaled' = Events /\ owed' \in [Events -> Int]
      BY <2>1 DEF Consume, Owe, EventInv, Types
    <3>2. pc' \in [Threads -> PC]
      BY Zenon, <2>1 DEF EventInv, Types
    <3> QED BY Zenon, <1>1, <2>1, <2>4, <3>1, <3>2 DEF EventInv, Types
  <2>6. Fired'
    BY Zenon, <1>1, <2>1, <2>2 DEF EventInv, Fired, GotOf, InWait
  <2>7. Listed'
    <3>1. \A x \in Events : \A u \in Threads : Entry(x, u) => Entry(x, u)'
      BY Zenon, <1>1, <2>1, <2>2 DEF Entry, InWait
    <3>2. \A u \in Threads : \A x \in Events : Waiting(u, x)' => Waiting(u, x)
      BY Zenon, <1>1, <2>1, <2>2 DEF Waiting
    <3> QED BY Zenon, <1>1, <2>1, <2>2, <3>1, <3>2, ListedKept DEF EventInv
  <2>8. Accounts'
    BY Zenon, <1>1, <1>4, <1>6, <2>1, <2>4, AccountsConsumed DEF EventInv
  <2> QED BY Zenon, <2>4, <2>5, <2>6, <2>7, <2>8 DEF EventInv
<1>7. CASE ~signaled[e]
  <2>1. /\ klock' = [klock EXCEPT ![e] = t] /\ todo' = [todo EXCEPT ![t] = @ \ {e}]
        /\ pc' = [pc EXCEPT ![t] = IF todo'[t] = {} THEN "enqueueMany" ELSE "lockMany"]
        /\ UNCHANGED <<signaled, owed>>
    BY Zenon, <1>5, <1>7 DEF Goto
  <2>2. Types'
    <3>1. todo' \in [Threads -> SUBSET Events] /\ klock' \in [Events -> Threads \cup {None}]
      BY Zenon, <1>4, <2>1 DEF EventInv, Types
    <3>2. pc' \in [Threads -> PC]
      BY Zenon, <2>1 DEF EventInv, Types
    <3> QED BY Zenon, <1>1, <2>1, <3>1, <3>2 DEF EventInv, Types
  <2>3. /\ \A u \in Threads \ {t} : pc'[u] = pc[u] /\ todo'[u] = todo[u]
        /\ todo'[t] = todo[t] \ {e}
        /\ pc'[t] = IF todo'[t] = {} THEN "enqueueMany" ELSE "lockMany"
        /\ klock'[e] = t /\ \A x \in Events \ {e} : klock'[x] = klock[x]
    BY Zenon, <1>4, <2>1 DEF EventInv, Types
  <2>4. Alone(t) /\ pc'[t] \in {"lockMany", "enqueueMany"}
    BY Zenon, <1>1, <2>3 DEF Alone
  <2>5. Locking'
    <3>1. LocksOf(t)'
      <4>1. \A x \in on'[t] \ todo'[t] : klock'[x] = t
        BY Zenon, <1>1, <1>2, <1>4, <2>3
      <4>2. \A x \in on'[t] \ todo'[t] : \A f \in todo'[t] : x < f
        <5>1. \A f \in todo'[t] : e < f
          <6>1. \A f \in todo[t] : e <= f /\ f \in Nat
            BY Zenon, <1>2, <1>3
          <6> QED BY <1>4, <2>3, <6>1
        <5>2. ASSUME NEW x \in on[t], x \notin todo[t] \ {e}, NEW f \in todo[t] \ {e}
              PROVE  x < f
          BY Zenon, <1>2, <2>3, <5>1, <5>2
        <5> QED BY Zenon, <1>1, <2>3, <5>2
      <4>3. todo'[t] \subseteq on'[t]
        BY Zenon, <1>1, <1>2, <2>3
      <4> QED BY Zenon, <2>3, <4>1, <4>2, <4>3 DEF LocksOf
    <3>2. ASSUME NEW u \in Threads, u # t
          PROVE  LocksOf(u)'
      <4>1. \A x \in Events : klock[x] = u => klock'[x] = u
        BY Zenon, <1>5, <2>3
      <4> QED BY Zenon, <1>1, <2>3, <3>2, <4>1, LocksOfKept DEF EventInv, Locking
    <3>3. ASSUME NEW x \in Events
          PROVE  LockHeld(x)'
      <4>1. CASE x = e
        BY Zenon, <1>1, <1>4, <1>7, <2>1, <2>3, <2>4, <4>1 DEF LockHeld
      <4>2. CASE x # e /\ klock[x] = t
        <5>1. ~signaled'[x] /\ x \in on'[t] \ todo'[t] /\ klock'[x] = t
          BY Zenon, <1>1, <2>1, <2>3, <4>2 DEF EventInv, Locking, LockHeld
        <5> QED BY Zenon, <2>4, <5>1 DEF LockHeld
      <4>3. CASE x # e /\ klock[x] # t
        <5>1. klock[x] \in Threads \cup {None} /\ LockHeld(x) /\ klock'[x] = klock[x]
          BY Zenon, <2>3, <4>3 DEF EventInv, Types, Locking
        <5> QED BY Zenon, <1>1, <2>1, <2>3, <4>3, <5>1, LockHeldKept DEF EventInv
      <4> QED BY Zenon, <4>1, <4>2, <4>3
    <3> QED BY Zenon, <3>1, <3>2, <3>3 DEF Locking
  <2>6. Fired'
    BY Zenon, <1>1, <2>3, <2>4 DEF EventInv, Fired, GotOf, InWait
  <2>7. Listed'
    <3>1. ASSUME NEW x \in Events, NEW u \in Threads, Entry(x, u)
          PROVE  Entry(x, u)'
      <4>1. u # t
        BY Zenon, <1>1, <3>1 DEF Entry, InWait
      <4> QED BY Zenon, <1>1, <2>3, <3>1, <4>1 DEF Entry, InWait
    <3>2. \A u \in Threads : \A x \in Events : Waiting(u, x)' => Waiting(u, x)
      BY Zenon, <1>1, <2>3, <2>4 DEF Waiting
    <3> QED BY Zenon, <1>1, <2>1, <3>1, <3>2, ListedKept DEF EventInv
  <2>8. Accounts'
    <3>1. \A x \in Events : klock'[x] = klock[x] \/ {klock[x], klock'[x]} \subseteq {None, t}
      BY Zenon, <1>5, <2>3
    <3>2. pc[t] # "signal" /\ pc'[t] # "signal"
      BY Zenon, <1>1, <2>4
    <3>3. \A x \in Events : UnderWay(x)' <=> UnderWay(x)
      BY Zenon, <2>4, <3>1, <3>2, UnderWayKept DEF EventInv
    <3> QED BY Zenon, <1>1, <2>1, <3>3, AccountsKept DEF EventInv
  <2> QED BY Zenon, <2>2, <2>5, <2>6, <2>7, <2>8 DEF EventInv
<1> QED BY Zenon, <1>6, <1>7

-----------------------------------------------------------------------------
(* The invariant, and what follows from it *)

LEMMA EventInitInv == ASSUME Init PROVE EventInv
<1>1. Types
  <2>1. /\ DOMAIN signaled = Events /\ waiters \in [Events -> Seq(Threads)]
        /\ klock \in [Events -> Threads \cup {None}] /\ owed \in [Events -> Int]
    BY DEF Init
  <2>2. pc \in [Threads -> PC] /\ got \in [Threads -> Events \cup {NoEvent}]
    BY Zenon DEF Init
  <2>3. on \in [Threads -> SUBSET Events] /\ todo \in [Threads -> SUBSET Events]
    BY Zenon DEF Init
  <2> QED BY Zenon, <2>1, <2>2, <2>3 DEF Init, Types
<1>2. Locking
  BY Zenon DEF Init, Locking, LocksOf, LockHeld
<1>3. Fired
  BY Zenon DEF Init, Fired, GotOf
<1>4. Listed
  <2>1. \A e \in Events : waiters[e] = <<>>
    BY Zenon DEF Init
  <2>2. \A e \in Events : DOMAIN waiters[e] = {}
    BY <2>1
  <2> QED BY Zenon, <2>1, <2>2 DEF Init, Listed, ListOf, Waiting, IsInjective
<1>5. Accounts
  <2>1. ASSUME NEW e \in Events \ Manual
        PROVE  Account(e)
    <3>1. e # NoEvent
      OBVIOUS
    <3>2. Takers(e) = {}
      BY Zenon, <3>1 DEF Init, Takers
    <3>3. Cardinality(Takers(e)) = 0
      BY Zenon, <3>2, FS_EmptySet
    <3>4. ~UnderWay(e) /\ owed[e] = IF signaled[e] THEN 1 ELSE 0
      BY Zenon, <2>1 DEF Init, UnderWay
    <3>5. owed[e] = 0 + (IF signaled[e] THEN 1 ELSE 0)
      BY <3>4
    <3> QED BY Zenon, <3>3, <3>4, <3>5 DEF Account
  <2> QED BY Zenon, <2>1 DEF Accounts
<1> QED BY Zenon, <1>1, <1>2, <1>3, <1>4, <1>5 DEF EventInv

LEMMA EventNextInv == ASSUME EventInv, [Next]_vars PROVE EventInv'
<1>1. ASSUME NEW t \in Threads, Calls(t)
      PROVE  EventInv'
  BY Zenon, <1>1, SignalStep, ResetStep, IsSignaledStep, TimedWaitStep, WaitManyStep DEF Calls
<1>2. ASSUME NEW t \in Threads, Step(t)
      PROVE  EventInv'
  BY Zenon, <1>2, EnqueueStep, RelockStep, SleepStep, WakeUpStep, ReturnStep, LockNextStep,
     EnqueueManyStep, FireWaiterStep, SignalStaysStep, DequeueStep DEF Step
<1>3. CASE UNCHANGED vars
  BY Zenon, <1>3, InvKept DEF vars, events, waits
<1> QED BY Zenon, <1>1, <1>2, <1>3, ExpireStep, SpuriousWakeupStep DEF Next

\* The lists, the locks, the waiters that were fired and the count of signals agree, for
\* any number of threads and events, in every state of WaitableEvent.
THEOREM EventsConsistent == Spec => []EventInv
BY EventInitInv, EventNextInv, PTL DEF Spec

\* Signal() never fires a SyncWaiter whose Wait(), TimedWait() or WaitMany() has returned.
THEOREM NoWaiterDangles == Spec => []NoDanglingWaiter
<1>1. EventInv => NoDanglingWaiter
  BY Zenon DEF EventInv, Listed, ListOf, Entry, NoDanglingWaiter
<1> QED BY <1>1, EventsConsistent, PTL

\* Signal() of an auto-reset event lets exactly one waiter or caller through, whatever
\* the races with timeouts and with other events; and nobody sleeps on a signaled event.
THEOREM SignalsUsedOnce == Spec => []SignalsAccounted
<1>1. ASSUME EventInv, NEW e \in Events, klock[e] = None, e \notin Manual
      PROVE  owed[e] = Cardinality({t \in Threads : InWait(t) /\ got[t] = e}) + (IF signaled[e] THEN 1 ELSE 0)
  <2>1. e # NoEvent
    OBVIOUS
  <2>2. {t \in Threads : InWait(t) /\ got[t] = e} = Takers(e)
    BY Zenon, <1>1, <2>1 DEF EventInv, Fired, GotOf, Takers
  <2> QED BY Zenon, <1>1, <2>2 DEF EventInv, Accounts, Account, UnderWay
<1>2. ASSUME EventInv, NEW e \in Events, signaled[e], NEW t \in Threads, pc[t] = "asleep", e \in on[t]
      PROVE  FALSE
  <2>1. Waiting(t, e)
    BY Zenon, <1>2 DEF EventInv, Fired, GotOf, Waiting
  <2>2. PICK i \in DOMAIN waiters[e] : waiters[e][i] = t
    BY Zenon, <1>2, <2>1 DEF EventInv, Listed, OnList
  <2>3. waiters[e] = <<>>
    BY Zenon, <1>2 DEF EventInv, Listed, ListOf
  <2> QED BY <2>2, <2>3
<1>3. EventInv => SignalsAccounted
  BY Zenon, <1>1, <1>2 DEF SignalsAccounted
<1> QED BY <1>3, EventsConsistent, PTL

\* EnqueueMany(), which locks the events of a WaitMany() by address, never waits in a
\* circle of such calls: the thread in it that waits for the highest event would wait for
\* one that waits for a higher one.
THEOREM NoCircleOfLocks == Spec => []NoLockCycle
<1>1. EventInv => NoLockCycle
  <2> SUFFICES ASSUME EventInv, NEW S \in SUBSET Threads, S # {},
                      \A t \in S : pc[t] = "lockMany" /\ klock[Lowest(todo[t])] \in S
               PROVE  FALSE
    BY Zenon DEF NoLockCycle
  <2> DEFINE L(t) == Lowest(todo[t])
             Above(t) == {e \in Events : e > L(t)}
             A(t) == Cardinality(Above(t))
  <2>1. \A t \in S : L(t) \in todo[t] /\ todo[t] \subseteq Events
    BY Zenon, LowestIsLeast DEF EventInv, Types, Locking, LocksOf
  <2>2. \A t \in S : L(t) \in Nat
    BY Zenon, <2>1
  <2>3. \A t \in S : \E u \in S : L(t) < L(u)
    <3> TAKE t \in S
    <3>1. PICK u \in S : u = klock[L(t)]
      BY Zenon
    <3>2. L(t) \in Events /\ u # None
      BY Zenon, <2>1
    <3>3. L(t) \in on[u] \ todo[u]
      BY Zenon, <3>1, <3>2 DEF EventInv, Locking, LockHeld
    <3>4. L(t) < L(u)
      BY Zenon, <2>1, <3>3 DEF EventInv, Locking, LocksOf
    <3> QED BY Zenon, <3>4
  <2> HIDE DEF L
  <2>4. \A t \in S : IsFiniteSet(Above(t)) /\ A(t) \in Nat
    BY Zenon, FS_Subset, FS_CardinalityType
  <2> HIDE DEF A
  <2> DEFINE M == {A(t) : t \in S}
  <2>5. PICK m \in M : \A x \in M : m <= x
    <3>1. M \subseteq Nat /\ M # {}
      BY Zenon, <2>4
    <3> HIDE DEF M
    <3> QED BY Zenon, <3>1, NatLeast
  <2>6. PICK t \in S : m = A(t)
    BY Zenon
  <2>7. PICK u \in S : L(t) < L(u)
    BY Zenon, <2>3
  <2>8. Above(u) \in SUBSET Above(t) /\ Above(u) # Above(t)
    <3>1. \A e \in Events : e > L(u) => e > L(t)
      BY <2>2, <2>7
    <3>2. L(u) \in Above(t) /\ L(u) \notin Above(u)
      BY <2>1, <2>2, <2>7
    <3> QED BY Zenon, <3>1, <3>2
  <2>9. A(u) <= A(t) /\ A(u) # A(t)
    <3> HIDE DEF Above
    <3> QED BY Zenon, <2>4, <2>8, FS_Subset DEF A
  <2>10. A(t) <= A(u)
    BY Zenon, <2>5, <2>6
  <2>11. PICK a \in Nat, b \in Nat : a = A(t) /\ b = A(u)
    BY Zenon, <2>4
  <2>12. b <= a /\ b # a /\ a <= b
    BY Zenon, <2>9, <2>10, <2>11
  <2> QED BY <2>12
<1> QED BY <1>1, EventsConsistent, PTL

=============================================================================
