------------------------- MODULE MutexUsers_proofs -------------------------
(***************************************************************************)
(* The classes built on Mutex are correct for any threads, keys, counts    *)
(* and work, from the contract of Mutex alone.                             *)
(***************************************************************************)
EXTENDS MutexUsers, Rendezvous_proofs

-----------------------------------------------------------------------------
(* SlotsLock *)

\* What a constructor has locked and what it has still to lock are all the indexes of its
\* keys; outside of constructors nothing is wanted, and an idle thread holds nothing.
GuardInv ==
  \A t \in Threads :
    /\ pc[t] # "locking" => wanted[t] = {}
    /\ pc[t] = "idle" => held(t) = {}
    /\ pc[t] \in {"locking", "locked"} => \A k \in keys[t] : hash(k) \in wanted[t] \cup held(t)

SlotsInv == TypeOK /\ GuardInv /\ OrderedWaiting

\* Every set of natural numbers has a least element.
LEMMA NatLeast ==
  ASSUME NEW T, T \subseteq Nat, T # {}
  PROVE  \E x \in T : \A y \in T : x <= y
<1>1. IsWellFoundedOn(OpToRel(<, Nat), Nat)
  BY Zenon, NatLessThanWellFounded
<1> DEFINE R == OpToRel(<, Nat)
<1> HIDE DEF R
<1>2. IsWellFoundedOn(R, Nat)
  BY Zenon, <1>1 DEF R
<1>3. PICK x \in T : \A y \in T : ~(<<y, x>> \in R)
  BY Zenon, <1>2, WFMin
<1>4. \A y \in T : ~(y < x)
  BY Zenon, <1>3 DEF R, OpToRel
<1> QED BY <1>4

\* A bounded one has a greatest.
LEMMA IndexGreatest ==
  ASSUME NEW I, I \subseteq Indexes, I # {}
  PROVE  /\ Greatest(I) \in I
         /\ \A j \in I : j <= Greatest(I)
<1>1. size \in Nat \ {0}
  BY Zenon, SlotsAssumption DEF size
<1> DEFINE n == size
<1>2. n \in Nat /\ \A i \in I : i \in Nat /\ i < n
  <2> HIDE DEF size
  <2> QED BY <1>1 DEF Indexes
<1> HIDE DEF n
<1> DEFINE D == {n - i : i \in I}
<1>3. D \subseteq Nat
  <2>1. \A i \in I : n - i \in Nat
    BY <1>2
  <2> QED BY Zenon, <2>1
<1>4. D # {}
  BY Zenon
<1>5. PICK d \in D : \A e \in D : d <= e
  <2> HIDE DEF D
  <2> QED BY Zenon, <1>3, <1>4, NatLeast
<1>6. PICK i \in I : d = n - i
  BY Zenon
<1>7. \A j \in I : j <= i
  <2> TAKE j \in I
  <2>1. n - i <= n - j
    BY Zenon, <1>5, <1>6
  <2> QED BY <2>1, <1>2
<1> QED BY Zenon, <1>7 DEF Greatest

LEMMA IndexLeast ==
  ASSUME NEW I, I \subseteq Indexes, I # {}
  PROVE  Least(I) \in I
<1>1. I \subseteq Nat
  BY DEF Indexes
<1> QED BY Zenon, <1>1, NatLeast DEF Least

\* Every hash value is reduced to an index of the pool.
LEMMA HashIsIndex ==
  ASSUME hash_factor \in [Keys -> 0..MaxHash], NEW k \in Keys
  PROVE  hash(k) \in Indexes
<1>1. size \in Nat \ {0}
  BY Zenon, SlotsAssumption DEF size
<1>2. hash_factor[k] \in Nat
  BY SlotsAssumption
<1> HIDE DEF size
<1> QED BY <1>1, <1>2 DEF hash, Indexes

LEMMA SlotsInitInv == Init => SlotsInv
<1> SUFFICES ASSUME Init PROVE SlotsInv
  BY Zenon
<1>1. TypeOK
  BY Zenon DEF Init, TypeOK
<1>2. \A t \in Threads : held(t) = {}
  BY Zenon, SlotsAssumption DEF Init, held
<1> QED BY Zenon, <1>1, <1>2 DEF Init, SlotsInv, GuardInv, OrderedWaiting

\* The constructor starts to lock: the thread holds nothing yet.
LEMMA SlotsMultiGetKeeps ==
  ASSUME SlotsInv, NEW t \in Threads, NEW K \in SUBSET Keys, MultiGet(t, K)
  PROVE  SlotsInv'
<1>1. {hash(k) : k \in K} \subseteq Indexes
  BY Zenon, HashIsIndex DEF SlotsInv, TypeOK
<1>2. TypeOK'
  BY Zenon, <1>1 DEF SlotsInv, TypeOK, MultiGet
<1>3. \A u \in Threads : held(u)' = held(u)
  BY Zenon DEF MultiGet, held
<1>4. \A k \in Keys : hash(k)' = hash(k)
  BY Zenon DEF MultiGet, hash
<1>5. held(t) = {}
  BY Zenon DEF MultiGet, SlotsInv, GuardInv
<1>6. /\ keys'[t] = K /\ wanted'[t] = {hash(k) : k \in K} /\ pc'[t] = "locking"
      /\ \A u \in Threads \ {t} : keys'[u] = keys[u] /\ wanted'[u] = wanted[u] /\ pc'[u] = pc[u]
  BY Zenon DEF MultiGet, SlotsInv, TypeOK
<1>7. \A u \in Threads : keys[u] \subseteq Keys
  BY Zenon DEF SlotsInv, TypeOK
<1>8. GuardInv'
  BY <1>3, <1>4, <1>6, <1>7 DEF SlotsInv, GuardInv
<1>9. OrderedWaiting'
  BY Zenon, <1>3, <1>5, <1>6 DEF SlotsInv, OrderedWaiting
<1> QED BY Zenon, <1>2, <1>8, <1>9 DEF SlotsInv

\* The greatest wanted mutex is locked: what is still wanted is below it, and it is below
\* what the thread held.
LEMMA SlotsLockKeeps ==
  ASSUME SlotsInv, NEW t \in Threads, Lock(t)
  PROVE  SlotsInv'
<1> DEFINE i == Greatest(wanted[t])
<1>1. wanted[t] \subseteq Indexes /\ wanted[t] # {}
  BY Zenon DEF SlotsInv, TypeOK, Lock
<1>2. i \in wanted[t] /\ \A j \in wanted[t] : j <= i
  BY Zenon, <1>1, IndexGreatest
<1>3. /\ owner[i] = None /\ owner' = [owner EXCEPT ![i] = t]
      /\ wanted' = [wanted EXCEPT ![t] = @ \ {i}]
      /\ UNCHANGED <<hash_factor, keys, pc>>
  BY Zenon DEF Lock
<1> HIDE DEF i
<1>4. TypeOK'
  BY Zenon, <1>1, <1>2, <1>3 DEF SlotsInv, TypeOK
<1>5. /\ wanted'[t] = wanted[t] \ {i}
      /\ \A u \in Threads \ {t} : wanted'[u] = wanted[u]
  BY Zenon, <1>3 DEF SlotsInv, TypeOK
<1>6. i \in Indexes
  BY Zenon, <1>1, <1>2
<1>7. /\ owner'[i] = t
      /\ \A j \in Indexes \ {i} : owner'[j] = owner[j]
  BY Zenon, <1>3, <1>6 DEF SlotsInv, TypeOK
<1>8. held(t)' = held(t) \cup {i}
  BY Zenon, <1>6, <1>7 DEF held
<1>9. \A u \in Threads \ {t} : held(u)' = held(u)
  BY Zenon, <1>3, <1>6, <1>7, SlotsAssumption DEF held
<1>10. \A k \in Keys : hash(k)' = hash(k)
  BY Zenon, <1>3 DEF hash
<1>11. pc[t] = "locking" /\ \A u \in Threads : keys[u] \subseteq Keys
  BY Zenon DEF Lock, SlotsInv, TypeOK
<1>12. GuardInv'
  BY <1>3, <1>5, <1>8, <1>9, <1>10, <1>11 DEF SlotsInv, GuardInv
<1>13. \A j \in wanted[t] \ {i} : j < i
  <2> \A j \in wanted[t] : j \in Nat
    BY <1>1 DEF Indexes
  <2> QED BY <1>2
<1>14. OrderedWaiting'
  BY <1>2, <1>5, <1>8, <1>9, <1>13 DEF SlotsInv, OrderedWaiting
<1> QED BY Zenon, <1>4, <1>12, <1>14 DEF SlotsInv

\* Steps of a guard that lock and unlock nothing.
LEMMA SlotsPhaseKeeps ==
  ASSUME SlotsInv, NEW t \in Threads, Constructed(t) \/ Destroy(t) \/ Destroyed(t)
  PROVE  SlotsInv'
<1>1. /\ \A u \in Threads : held(u)' = held(u) /\ wanted'[u] = wanted[u]
      /\ \A k \in Keys : hash(k)' = hash(k)
  BY Zenon DEF Constructed, Destroy, Destroyed, held, hash
<1>2. TypeOK'
  BY Zenon DEF SlotsInv, TypeOK, Constructed, Destroy, Destroyed
<1>3. \A u \in Threads : keys[u] \subseteq Keys
  BY Zenon DEF SlotsInv, TypeOK
<1>4. \A u \in Threads \ {t} : keys'[u] = keys[u] /\ pc'[u] = pc[u]
  BY Zenon DEF SlotsInv, TypeOK, Constructed, Destroy, Destroyed
<1>5. \/ pc[t] = "locking" /\ wanted[t] = {} /\ pc'[t] = "locked" /\ keys'[t] = keys[t]
      \/ pc[t] = "locked" /\ pc'[t] = "unlocking"
      \/ pc[t] = "unlocking" /\ held(t) = {} /\ pc'[t] = "idle"
  BY Zenon DEF SlotsInv, TypeOK, Constructed, Destroy, Destroyed
<1>6. GuardInv'
  BY <1>1, <1>3, <1>4, <1>5 DEF SlotsInv, GuardInv
<1>7. OrderedWaiting'
  BY Zenon, <1>1 DEF SlotsInv, OrderedWaiting
<1> QED BY Zenon, <1>2, <1>6, <1>7 DEF SlotsInv

LEMMA SlotsUnlockKeeps ==
  ASSUME SlotsInv, NEW t \in Threads, Unlock(t)
  PROVE  SlotsInv'
<1> DEFINE i == Least(held(t))
<1>1. held(t) \subseteq Indexes /\ held(t) # {}
  BY Zenon DEF held, Unlock
<1>2. i \in held(t)
  BY Zenon, <1>1, IndexLeast
<1>3. /\ owner' = [owner EXCEPT ![i] = None]
      /\ UNCHANGED <<hash_factor, keys, pc, wanted>> /\ pc[t] = "unlocking"
  BY Zenon DEF Unlock
<1> HIDE DEF i
<1>4. TypeOK'
  BY Zenon, <1>3 DEF SlotsInv, TypeOK
<1>5. owner[i] = t /\ \A j \in Indexes \ {i} : owner'[j] = owner[j]
  BY Zenon, <1>2, <1>3 DEF SlotsInv, TypeOK, held
<1>6. owner'[i] = None
  BY Zenon, <1>1, <1>2, <1>3 DEF SlotsInv, TypeOK
<1>7. held(t)' \subseteq held(t) /\ \A u \in Threads \ {t} : held(u)' = held(u)
  BY Zenon, <1>5, <1>6, SlotsAssumption DEF held
<1>8. \A k \in Keys : hash(k)' = hash(k)
  BY Zenon, <1>3 DEF hash
<1>9. \A u \in Threads : keys[u] \subseteq Keys
  BY Zenon DEF SlotsInv, TypeOK
<1>10. GuardInv'
  BY <1>3, <1>7, <1>8, <1>9 DEF SlotsInv, GuardInv
<1>11. OrderedWaiting'
  BY Zenon, <1>3, <1>7 DEF SlotsInv, OrderedWaiting
<1> QED BY Zenon, <1>4, <1>10, <1>11 DEF SlotsInv

LEMMA SlotsInvHolds == Spec => []SlotsInv
<1>1. SlotsInv /\ [Next]_vars => SlotsInv'
  <2> SUFFICES ASSUME SlotsInv, [Next]_vars PROVE SlotsInv'
    BY Zenon
  <2>1. CASE UNCHANGED vars
    BY <2>1 DEF vars, SlotsInv, TypeOK, GuardInv, OrderedWaiting, held, hash
  <2>2. CASE Next
    BY <2>2, SlotsMultiGetKeeps, SlotsLockKeeps, SlotsPhaseKeeps, SlotsUnlockKeeps DEF Next
  <2> QED BY <2>1, <2>2
<1> QED BY SlotsInitInv, <1>1, PTL DEF Spec

\* The indexes a guard locks are those of the pool, and a mutex has one owner.
THEOREM SlotsTypesKept == Spec => []TypeOK
BY SlotsInvHolds, PTL DEF SlotsInv

\* A guard locks the mutex of each of its keys before its constructor returns, and keeps it
\* until its destructor: guards of two threads never cover the same key or index.
THEOREM GuardsExclude == Spec => []KeysExclusive
<1>1. SlotsInv => KeysExclusive
  <2> SUFFICES ASSUME SlotsInv, NEW t \in Threads, NEW u \in Threads, t # u,
                      pc[t] = "locked", pc[u] = "locked",
                      NEW k \in keys[t], NEW l \in keys[u], hash(k) = hash(l)
               PROVE  FALSE
    BY Zenon DEF KeysExclusive
  <2>1. hash(k) \in held(t) /\ hash(l) \in held(u)
    BY DEF SlotsInv, GuardInv
  <2> QED BY <2>1 DEF held
<1> QED BY SlotsInvHolds, <1>1, PTL

\* A constructor that waits for a mutex holds only mutexes of greater index.
THEOREM WaitsInOrder == Spec => []OrderedWaiting
BY SlotsInvHolds, PTL DEF SlotsInv

\* The thread whose mutex is waited for, were it to wait in its turn, would wait for a
\* lower one: the thread of a set that waits for the lowest waits for none of the set.
THEOREM NoDeadlock == Spec => []NoWaitCycle
<1>1. SlotsInv => NoWaitCycle
  <2> SUFFICES ASSUME SlotsInv, NEW T \in SUBSET Threads, T # {},
                      \A t \in T : \E u \in T : WaitsFor(t, u)
               PROVE  FALSE
    BY Zenon DEF NoWaitCycle
  <2> DEFINE G(t) == Greatest(wanted[t])
  <2>1. \A t \in T : G(t) \in wanted[t] /\ wanted[t] \subseteq Indexes
    BY Zenon, IndexGreatest DEF SlotsInv, TypeOK, WaitsFor
  <2>2. \A t \in T : \E u \in T : owner[G(t)] = u
    BY Zenon DEF WaitsFor
  <2>3. \A t \in T : G(t) \in Nat
    BY <2>1 DEF Indexes
  <2> HIDE DEF G
  <2> DEFINE M == {G(t) : t \in T}
  <2>4. PICK m \in M : \A x \in M : m <= x
    <3>1. M \subseteq Nat /\ M # {}
      BY Zenon, <2>3
    <3> HIDE DEF M
    <3> QED BY Zenon, <3>1, NatLeast
  <2>5. PICK t \in T : m = G(t)
    BY Zenon
  <2>6. PICK u \in T : owner[G(t)] = u
    BY Zenon, <2>2
  <2>7. G(t) \in held(u)
    BY Zenon, <2>1, <2>6 DEF held
  <2>8. G(u) < G(t)
    BY Zenon, <2>1, <2>7 DEF SlotsInv, OrderedWaiting
  <2>9. G(t) <= G(u)
    BY <2>4, <2>5
  <2> QED BY <2>3, <2>8, <2>9
<1> QED BY SlotsInvHolds, <1>1, PTL
-----------------------------------------------------------------------------
(* DelegateSimpleThreadPool *)

\* The pool of MutexUsers is the one that ThreadPool_proofs is about.
pooled == INSTANCE ThreadPool_proofs WITH Workers <- PoolThreads, owner <- pool_owner

LEMMA PoolUsage == pooled!Usage
BY PoolAssumption DEF pooled!Usage

LEMMA PoolInitIInv == ASSUME pool!Init PROVE pooled!IInv
<1>1. pooled!Init
  BY DEF pool!Init, pool!Ids, pool!Range, pool!nullptr,
         pooled!Init, pooled!Ids, pooled!Range, pooled!nullptr
<1> QED BY SMTT(30), <1>1, PoolUsage, pooled!InitIInv

LEMMA PoolNextIInv == ASSUME pooled!IInv, [pool!Next]_pool!vars PROVE pooled!IInv'
<1>1. pool!vars = pooled!vars /\ pool!vars' = pooled!vars' /\ pool!Ids = pooled!Ids
  BY DEF pool!vars, pooled!vars, pool!Ids, pool!Range, pooled!Ids, pooled!Range
<1>2. pool!Next => pooled!Next
  BY Zenon, <1>1 DEF
    pool!Next, pool!Aborted, pool!OwnerStep, pool!WorkerStep, pool!AddFromOwner, pool!Start, pool!JoinAll,
    pool!Create, pool!Started, pool!Join, pool!ThreadMain, pool!Wait, pool!Take, pool!RunEnds,
    pool!AddFromWorker, pool!AddPieces, pool!AddWork, pool!Goto, pool!nullptr,
    pooled!Next, pooled!Aborted, pooled!OwnerStep, pooled!WorkerStep, pooled!AddFromOwner, pooled!Start,
    pooled!JoinAll, pooled!Create, pooled!Started, pooled!Join, pooled!ThreadMain, pooled!Wait,
    pooled!Take, pooled!RunEnds, pooled!AddFromWorker, pooled!AddPieces, pooled!AddWork,
    pooled!Goto, pooled!nullptr
<1> QED BY SMTT(30), <1>1, <1>2, PoolUsage, pooled!NextIInv

LEMMA PoolDone == ASSUME pooled!IInv PROVE pool!WorkDoneOnce
<1>1. pooled!WorkDoneOnce
  BY PoolUsage, pooled!Done
<1> QED BY <1>1 DEF pool!WorkDoneOnce, pool!Range, pool!nullptr, pool!Aborted, pool!Ids,
                    pooled!WorkDoneOnce, pooled!Range, pooled!nullptr, pooled!Aborted, pooled!Ids

-----------------------------------------------------------------------------
(* Whichever class the threads use *)

UsersIInv ==
  /\ using = "Barrier" => BarrierIInv
  /\ using = "BlockingCounter" => CounterIInv
  /\ using = "Notification" => NotifIInv
  /\ using = "ThreadPool" => pooled!IInv

\* The class in use is used as by itself, and the variables of the others do not matter.
LEMMA UsersStep ==
  ASSUME [UsersNext]_users_vars
  PROVE  /\ using' = using
         /\ using = "Barrier" => [barrier!Next]_barrier!vars
         /\ using = "BlockingCounter" => [counter!Next]_counter!vars
         /\ using = "Notification" => [notification!Next]_notification!vars
         /\ using = "ThreadPool" => [pool!Next]_pool!vars
<1>1. CASE UNCHANGED users_vars
  <2>1. UNCHANGED <<using, pc, lock_, barrier_, counter_, notification_, result, alive, pool_>>
    BY <1>1 DEF users_vars
  <2>2. UNCHANGED barrier!vars
    BY <2>1 DEF barrier!vars, barrier!region, barrier!own, lock_, barrier_
  <2>3. UNCHANGED counter!vars
    BY <2>1 DEF counter!vars, counter!region, lock_, counter_
  <2>4. UNCHANGED notification!vars
    BY <2>1 DEF notification!vars, notification!region, lock_, notification_
  <2>5. UNCHANGED pool!vars
    BY <2>1 DEF pool!vars, pool_
  <2> QED BY SMTT(30), <2>1, <2>2, <2>3, <2>4, <2>5
<1>2. CASE UsersNext
  BY <1>2 DEF UsersNext, UsesSlots, UsesBarrier, UsesCounter, UsesNotification, UsesPool
<1> QED BY SMTT(30), <1>1, <1>2

\* The invariant of the class in use holds always.
THEOREM UsersCorrect == UsersSpec => []UsersIInv
<1>1. UsersInit => UsersIInv
  BY SMTT(30), BarrierInitIInv, CounterInitIInv, NotifInitIInv, PoolInitIInv DEF UsersInit, UsersIInv
<1>2. UsersIInv /\ [UsersNext]_users_vars => UsersIInv'
  BY SMTT(30), UsersStep, BarrierNextIInv, CounterNextIInv, NotifNextIInv, PoolNextIInv DEF UsersIInv
<1> QED BY <1>1, <1>2, PTL DEF UsersSpec

\* A barrier, a counter or a notification is destroyed by the thread that may do so when
\* every other call is out of it, the release of its lock included, for any number of threads.
THEOREM DestructionSafe == UsersSpec => []SafeToDestroy
<1>1. UsersIInv => SafeToDestroy
  BY SMTT(30), BarrierSafe, CounterSafe, NotifSafe DEF UsersIInv, SafeToDestroy
<1> QED BY <1>1, UsersCorrect, PTL

\* No Block(), Wait() or WaitForNotification() of any thread returns before what it waits
\* for has happened, and a wait with a timeout tells the truth.
THEOREM WaitsNotEarly == UsersSpec => []NobodyEarly
<1>1. UsersIInv => NobodyEarly
  BY SMTT(30), BarrierSafe, CounterSafe, NotifHonest DEF UsersIInv, NobodyEarly
<1> QED BY <1>1, UsersCorrect, PTL

\* No piece of work given to a pool of any size is run twice, and what was added before
\* JoinAll() is done when it returns; what running work adds meanwhile is done or still
\* queued.  Without an AddWork() of nothing, a worker that finds dry_ signaled finds work.
THEOREM PoolRunsWorkOnce == UsersSpec => []WorkDoneOnce
<1>1. UsersIInv => WorkDoneOnce
  BY PoolDone DEF UsersIInv, WorkDoneOnce
<1> QED BY <1>1, UsersCorrect, PTL
=============================================================================
