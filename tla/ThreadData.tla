----------------------------- MODULE ThreadData -----------------------------
(***************************************************************************)
(* The ways in which this library keeps data per thread, each with ids of  *)
(* its own that are used again: ThreadKey, the local pools of              *)
(* ResourcePool, the wrappers of DoublyBufferedData and                    *)
(* ThreadLocalStorage.  Which of them the threads use is chosen initially; *)
(* the variables of the others keep the values they start with, or have    *)
(* none.                                                                   *)
(***************************************************************************)
EXTENDS ThreadKey, ResourcePool, TLC

CONSTANTS
  Buffers,                                              \* of WrapperTLSGroup
  Slots, Keys, OutOfIndexes, Size, WeakFails            \* of ThreadLocalStorage

ASSUME ThreadDataAssumption ==
  /\ IsFiniteSet(Buffers) /\ Null \notin Buffers
  /\ OutOfIndexes \notin Keys /\ Null \notin Slots
  /\ Size \in Nat /\ Size >= 3 /\ WeakFails \in BOOLEAN

VARIABLES
  using,
  lastWrapper, freeWrappers, lives, wrappers, control, leaving, removing,   \* of WrapperTLSGroup
  native, allocated, tls, lastUsed, destructors, index, at, op, obj,        \* of ThreadLocalStorage
  key                                                                       \* of these two

wrapper == INSTANCE WrapperTLSGroup
  WITH Objects <- Buffers, None <- Null, nextId <- lastWrapper, freeIds <- freeWrappers,
       life <- lives, exiting <- leaving
storage == INSTANCE ThreadLocalStorage WITH slot <- index, pc <- at

wrapper_ == <<lastWrapper, freeWrappers, lives, wrappers, control, leaving, removing>>
storage_ == <<native, allocated, tls, lastUsed, destructors, index, at, op, obj>>
data_vars == <<using, vars, pool_vars, wrapper_, storage_, key>>

NoWrapper ==
  /\ lastWrapper = Null /\ freeWrappers = Null /\ lives = Null /\ wrappers = Null
  /\ control = Null /\ leaving = Null /\ removing = Null
NoStorage ==
  /\ native = Null /\ allocated = Null /\ tls = Null /\ lastUsed = Null
  /\ destructors = Null /\ index = Null /\ at = Null /\ op = Null /\ obj = Null

DataInit ==
  /\ Init /\ PoolInit
  /\ \/ using \in {"ThreadKey", "ResourcePool"} /\ NoWrapper /\ NoStorage /\ key = Null
     \/ using = "WrapperTLSGroup" /\ wrapper!Init /\ NoStorage
     \/ using = "ThreadLocalStorage" /\ storage!Init /\ NoWrapper

DataNext ==
  /\ UNCHANGED using
  /\ \/ using = "ThreadKey" /\ Next /\ UNCHANGED <<pool_vars, wrapper_, storage_, key>>
     \/ using = "ResourcePool" /\ PoolNext /\ UNCHANGED <<vars, wrapper_, storage_, key>>
     \/ using = "WrapperTLSGroup" /\ wrapper!Next /\ UNCHANGED <<vars, pool_vars, storage_>>
     \/ using = "ThreadLocalStorage" /\ storage!Next /\ UNCHANGED <<vars, pool_vars, wrapper_>>

DataSpec == DataInit /\ [][DataNext]_data_vars

-----------------------------------------------------------------------------
\* An id of a ThreadKey, a wrapper's or a key of the operating system is in use by one
\* object or free, never both and, but for a ThreadKey's id whose sequence numbers are
\* used up, never lost, whatever creations, destructions and first calls of threads race.
\* AddWrapper never reaches "Get wrapper from tls but control != this", an object lists
\* the wrappers that name it, and only a wrapper whose _control was reset after its thread
\* had read it removes itself from an object that is gone.  Every thread's vector is under
\* the one published key, and is made once.
EachIdOnce ==
  /\ IdsAccounted
  /\ using = "WrapperTLSGroup" =>
       wrapper!IdsAccounted /\ wrapper!NoForeignControl /\ wrapper!ListsMatch
  /\ using = "ThreadLocalStorage" =>
       storage!KeysAccounted /\ storage!Published /\ storage!VectorMadeOnce

-----------------------------------------------------------------------------
\* Threads, objects and pointers are interchangeable: no definition orders them.
Symmetry == Permutations(Threads) \cup Permutations(Objects) \cup Permutations(Ptrs)
=============================================================================
