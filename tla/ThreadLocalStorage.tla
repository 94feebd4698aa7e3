------------------------ MODULE ThreadLocalStorage ------------------------
(***************************************************************************)
(* turbo::ThreadLocalStorage (turbo/threading/internal/                    *)
(* thread_local_storage.cc): many slots on top of one key of the operating *)
(* system, which the first threads to need it race to make.                *)
(*                                                                         *)
(* A stored value is named by the slot object that stored it.  The system  *)
(* never returns TLS_KEY_OUT_OF_INDEXES as a key.  The caller initializes  *)
(* and frees a slot object while no other thread uses it.                  *)
(***************************************************************************)
EXTENDS Naturals, FiniteSets

CONSTANTS
  Threads, Slots,     \* Slots: objects of type ThreadLocalStorage::Slot
  Keys,               \* bound: keys of the operating system
  OutOfIndexes,       \* TLS_KEY_OUT_OF_INDEXES
  Null, Size,         \* Size: kThreadLocalStorageSize
  WeakFails           \* whether compare_exchange_weak may fail spuriously

Index == 1..Size - 1
Vectors == [Index -> Slots \cup {Null}]

VARIABLES
  native,             \* g_native_tls_key
  allocated,          \* keys the operating system has handed out
  tls,                \* per thread and key, the vector set or Null
  lastUsed,           \* g_last_used_tls_key
  destructors,        \* the indexes with an entry in g_tls_destructors
  slot,               \* slot_ of each slot object, 0 if there is none
  pc, key, op, obj    \* per thread: the step of ConstructTlsVector, its key; the call

calls == <<pc, key, op, obj>>
vars == <<native, allocated, tls, lastUsed, destructors, slot, calls>>

EmptyVector == [i \in Index |-> Null]
Vector(t, k) == IF k = OutOfIndexes THEN Null ELSE tls[t][k]

TypeOK ==
  /\ native \in Keys \cup {OutOfIndexes} /\ allocated \subseteq Keys
  /\ tls \in [Threads -> [Keys -> Vectors \cup {Null}]]
  /\ lastUsed \in 0..Size /\ destructors \subseteq Index
  /\ slot \in [Slots -> 0..Size - 1]
  /\ pc \in [Threads -> {"idle", "construct", "alloc", "cas", "reload", "install", "do"}]
  /\ key \in [Threads -> Keys \cup {OutOfIndexes}]
  /\ op \in [Threads -> {"initialize", "get", "set"}] /\ obj \in [Threads -> Slots]

Init ==
  /\ native = OutOfIndexes /\ allocated = {}
  /\ tls = [t \in Threads |-> [k \in Keys |-> Null]]
  /\ lastUsed = 0 /\ destructors = {} /\ slot = [s \in Slots |-> 0]
  /\ pc = [t \in Threads |-> "idle"] /\ key = [t \in Threads |-> OutOfIndexes]
  /\ op = [t \in Threads |-> "get"] /\ obj \in [Threads -> Slots]

-----------------------------------------------------------------------------
UsedBy(s) == {t \in Threads : pc[t] # "idle" /\ obj[t] = s}

\* Initialize, Get and Set begin alike: with a look for the thread's vector.
Call(t, s, o) ==
  /\ pc[t] = "idle"
  /\ IF o = "initialize" THEN slot[s] = 0 /\ UsedBy(s) = {}
     ELSE slot[s] # 0 /\ \A u \in UsedBy(s) : op[u] # "initialize"
  /\ op' = [op EXCEPT ![t] = o] /\ obj' = [obj EXCEPT ![t] = s]
  /\ key' = [key EXCEPT ![t] = native]
  /\ pc' = [pc EXCEPT ![t] = IF Vector(t, native) = Null THEN "construct" ELSE "do"]
  /\ UNCHANGED <<native, allocated, tls, lastUsed, destructors, slot>>

Construct(t) ==
  /\ pc[t] = "construct"
  /\ key' = [key EXCEPT ![t] = native]
  /\ pc' = [pc EXCEPT ![t] = IF native = OutOfIndexes THEN "alloc" ELSE "install"]
  /\ UNCHANGED <<native, allocated, tls, lastUsed, destructors, slot, op, obj>>

\* AllocTLS: the system hands out a key nobody has; no thread has a value under it.
AllocTLS(t) ==
  /\ pc[t] = "alloc"
  /\ \E k \in Keys \ allocated :
       /\ key' = [key EXCEPT ![t] = k] /\ allocated' = allocated \cup {k}
       /\ tls' = [u \in Threads |-> [tls[u] EXCEPT ![k] = Null]]
  /\ pc' = [pc EXCEPT ![t] = "cas"]
  /\ UNCHANGED <<native, lastUsed, destructors, slot, op, obj>>

\* compare_exchange_weak.  A spurious failure leaves old as it was, which the code takes
\* for success.
Publish(t) ==
  /\ pc[t] = "cas"
  /\ \/ /\ native = OutOfIndexes
        /\ native' \in {key[t]} \cup (IF WeakFails THEN {OutOfIndexes} ELSE {})
        /\ pc' = [pc EXCEPT ![t] = "install"]
        /\ UNCHANGED allocated
     \/ /\ native # OutOfIndexes
        /\ allocated' = allocated \ {key[t]}
        /\ pc' = [pc EXCEPT ![t] = "reload"]
        /\ UNCHANGED native
  /\ UNCHANGED <<tls, lastUsed, destructors, slot, key, op, obj>>

Reload(t) ==
  /\ pc[t] = "reload"
  /\ key' = [key EXCEPT ![t] = native]
  /\ pc' = [pc EXCEPT ![t] = "install"]
  /\ UNCHANGED <<native, allocated, tls, lastUsed, destructors, slot, op, obj>>

\* The new vector, first on the stack and then from the heap.
Install(t) ==
  /\ pc[t] = "install"
  /\ tls' = [tls EXCEPT ![t][key[t]] = EmptyVector]
  /\ pc' = [pc EXCEPT ![t] = "do"]
  /\ UNCHANGED <<native, allocated, lastUsed, destructors, slot, key, op, obj>>

-----------------------------------------------------------------------------
\* Initialize takes an index with fetch_and(1), which keeps the lowest bit of the mark.
Initialize(t, d) ==
  /\ pc[t] = "do" /\ op[t] = "initialize"
  /\ lastUsed' = lastUsed % 2
  /\ slot' = [slot EXCEPT ![obj[t]] = lastUsed + 1]
  /\ destructors' = IF d THEN destructors \cup {lastUsed + 1}
                    ELSE destructors \ {lastUsed + 1}
  /\ pc' = [pc EXCEPT ![t] = "idle"]
  /\ UNCHANGED <<native, allocated, tls, key, op, obj>>

\* Get only reads the vector.
Get(t) ==
  /\ pc[t] = "do" /\ op[t] = "get"
  /\ pc' = [pc EXCEPT ![t] = "idle"]
  /\ UNCHANGED <<native, allocated, tls, lastUsed, destructors, slot, key, op, obj>>

Set(t) ==
  /\ pc[t] = "do" /\ op[t] = "set"
  /\ tls' = [tls EXCEPT ![t][key[t]][slot[obj[t]]] = obj[t]]
  /\ pc' = [pc EXCEPT ![t] = "idle"]
  /\ UNCHANGED <<native, allocated, lastUsed, destructors, slot, key, op, obj>>

Free(s) ==
  /\ slot[s] # 0 /\ UsedBy(s) = {}
  /\ destructors' = destructors \ {slot[s]}
  /\ slot' = [slot EXCEPT ![s] = 0]
  /\ UNCHANGED <<native, allocated, tls, lastUsed, calls>>

\* OnThreadExit, which the system calls for a vector: destructors run and the vector is
\* dropped.
OnThreadExit(t) ==
  /\ pc[t] = "idle"
  /\ \E k \in allocated : tls[t][k] # Null /\ tls' = [tls EXCEPT ![t][k] = Null]
  /\ UNCHANGED <<native, allocated, lastUsed, destructors, slot, calls>>

Next ==
  \/ \E t \in Threads :
       \/ \E s \in Slots, o \in {"initialize", "get", "set"} : Call(t, s, o)
       \/ Construct(t) \/ AllocTLS(t) \/ Publish(t) \/ Reload(t) \/ Install(t)
       \/ Get(t) \/ Set(t) \/ OnThreadExit(t)
       \/ \E d \in BOOLEAN : Initialize(t, d)
  \/ \E s \in Slots : Free(s)

Spec == Init /\ [][Next]_vars

-----------------------------------------------------------------------------
\* Every vector is under the one published key, however the first calls of the threads
\* race: a thread whose vector is elsewhere cannot find its values again.
\* "Atomically test-and-set the tls_key. If the key is TLS_KEY_OUT_OF_INDEXES, go ahead
\* and set it." (thread_local_storage.cc)
Published ==
  \A t \in Threads, k \in allocated : tls[t][k] # Null => k = native

\* Only the published key and the keys of threads still in the race are taken from the
\* system: whoever loses the race gives its key back, once, and never the published one.
KeysAccounted ==
  /\ native # OutOfIndexes => native \in allocated
  /\ \A k \in allocated : k = native \/ \E t \in Threads : pc[t] = "cas" /\ key[t] = k
  /\ \A t \in Threads : pc[t] \in {"install", "do"} => key[t] \in allocated

\* A thread makes its vector once: the KCHECK in ConstructTlsVector holds.
VectorMadeOnce ==
  \A t \in Threads : pc[t] = "install" => key[t] # OutOfIndexes /\ tls[t][key[t]] = Null
=============================================================================
