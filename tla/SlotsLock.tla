----------------------------- MODULE SlotsLock -----------------------------
(***************************************************************************)
(* turbo::SlotsLock with UniqueLockGuard and SharedLockGuard               *)
(* (turbo/synchronization/slots_locker.h): keys share a pool of mutexes,   *)
(* and a guard for several keys locks those of their hash values.  Both    *)
(* guards lock exclusively.  A thread has one guard at a time.             *)
(***************************************************************************)
EXTENDS Naturals, FiniteSets

CONSTANTS
  Threads, Keys, None,
  HashPower,              \* hash_power_
  MaxHash                 \* bound: values of the hash function

ASSUME SlotsAssumption ==
  /\ None \notin Threads /\ MaxHash \in Nat
  /\ HashPower \in Nat /\ 2 ^ HashPower \in Nat \ {0}

VARIABLES
  hash_factor,            \* the hash function
  owner,                  \* the thread that has locked each mutex of mutex_pool_, or None
  keys,                   \* per thread: the keys of its guard
  pc,                     \* per thread: "idle", "locking", "locked" or "unlocking"
  wanted                  \* per thread: indexes its constructor has still to lock

vars == <<hash_factor, owner, keys, pc, wanted>>

size == 2 ^ HashPower
Indexes == 0..size - 1
hash(k) == hash_factor[k] % size
held(t) == {i \in Indexes : owner[i] = t}
Greatest(I) == CHOOSE i \in I : \A j \in I : j <= i
Least(I) == CHOOSE i \in I : \A j \in I : i <= j

TypeOK ==
  /\ hash_factor \in [Keys -> 0..MaxHash]
  /\ owner \in [Indexes -> Threads \cup {None}]
  /\ keys \in [Threads -> SUBSET Keys]
  /\ pc \in [Threads -> {"idle", "locking", "locked", "unlocking"}]
  /\ wanted \in [Threads -> SUBSET Indexes]

Init ==
  /\ hash_factor \in [Keys -> 0..MaxHash]
  /\ owner = [i \in Indexes |-> None]
  /\ keys = [t \in Threads |-> {}]
  /\ pc = [t \in Threads |-> "idle"] /\ wanted = [t \in Threads |-> {}]

\* The constructor of a guard: the ordered set of indexes, each of them once.
MultiGet(t, K) ==
  /\ pc[t] = "idle"
  /\ keys' = [keys EXCEPT ![t] = K]
  /\ wanted' = [wanted EXCEPT ![t] = {hash(k) : k \in K}]
  /\ pc' = [pc EXCEPT ![t] = "locking"]
  /\ UNCHANGED <<hash_factor, owner>>

\* (wrong) the mutexes are locked in any order
LockAny(t) ==
  /\ pc[t] = "locking"
  /\ \E i \in wanted[t] :
       /\ owner[i] = None
       /\ owner' = [owner EXCEPT ![i] = t]
       /\ wanted' = [wanted EXCEPT ![t] = @ \ {i}]
  /\ UNCHANGED <<hash_factor, keys, pc>>

\* The mutexes are locked from the greatest index down.
Lock(t) ==
  /\ pc[t] = "locking" /\ wanted[t] # {}
  /\ LET i == Greatest(wanted[t]) IN
     /\ owner[i] = None
     /\ owner' = [owner EXCEPT ![i] = t]
     /\ wanted' = [wanted EXCEPT ![t] = @ \ {i}]
  /\ UNCHANGED <<hash_factor, keys, pc>>

\* (wrong) the constructor returns after the first mutex
ConstructedEarly(t) ==
  /\ pc[t] = "locking" /\ (held(t) # {} \/ wanted[t] = {})
  /\ pc' = [pc EXCEPT ![t] = "locked"] /\ wanted' = [wanted EXCEPT ![t] = {}]
  /\ UNCHANGED <<hash_factor, owner, keys>>

Constructed(t) ==
  /\ pc[t] = "locking" /\ wanted[t] = {}
  /\ pc' = [pc EXCEPT ![t] = "locked"]
  /\ UNCHANGED <<hash_factor, owner, keys, wanted>>

Destroy(t) ==
  /\ pc[t] = "locked"
  /\ pc' = [pc EXCEPT ![t] = "unlocking"]
  /\ UNCHANGED <<hash_factor, owner, keys, wanted>>

\* The destructor unlocks in the opposite order.
Unlock(t) ==
  /\ pc[t] = "unlocking" /\ held(t) # {}
  /\ owner' = [owner EXCEPT ![Least(held(t))] = None]
  /\ UNCHANGED <<hash_factor, keys, pc, wanted>>

Destroyed(t) ==
  /\ pc[t] = "unlocking" /\ held(t) = {}
  /\ pc' = [pc EXCEPT ![t] = "idle"] /\ keys' = [keys EXCEPT ![t] = {}]
  /\ UNCHANGED <<hash_factor, owner, wanted>>

Next ==
  \E t \in Threads :
    \/ \E K \in SUBSET Keys : MultiGet(t, K)
    \/ Lock(t) \/ Constructed(t) \/ Destroy(t) \/ Unlock(t) \/ Destroyed(t)

Spec == Init /\ [][Next]_vars

-----------------------------------------------------------------------------
\* Two threads never have guards for the same key, nor for keys with the same index.
KeysExclusive ==
  \A t, u \in Threads : t # u /\ pc[t] = "locked" /\ pc[u] = "locked" =>
    \A k \in keys[t], l \in keys[u] : hash(k) # hash(l)

\* A thread that waits for a mutex holds only greater ones.
OrderedWaiting ==
  \A t \in Threads : \A i \in wanted[t], j \in held(t) : i < j

\* "different threads may acquire same keys with different order": no threads wait for
\* one another in a circle, whatever keys they lock and however keys share mutexes.
WaitsFor(t, u) ==
  pc[t] = "locking" /\ wanted[t] # {} /\ owner[Greatest(wanted[t])] = u
NoWaitCycle ==
  \A T \in (SUBSET Threads) \ {{}} : \E t \in T : \A u \in T : ~WaitsFor(t, u)
=============================================================================
