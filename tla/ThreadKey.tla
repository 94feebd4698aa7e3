----------------------------- MODULE ThreadKey -----------------------------
(***************************************************************************)
(* turbo::ThreadKey and turbo::ThreadLocal (turbo/threading/thread_key.cc, *)
(* thread_key.h): keys with an id that is used again and a sequence number *)
(* that tells its uses apart, and thread-local objects on top of them.     *)
(*                                                                         *)
(* The sequence numbers are taken modulo SeqSpace, in place of 2^64, so that *)
(* their end is reached.  A pointer that was deleted is not allocated      *)
(* again, which makes a second delete visible.  The caller keeps calls on  *)
(* a ThreadLocal apart from its destructor; threads may exit at any time.  *)
(***************************************************************************)
EXTENDS Naturals, Sequences, FiniteSets, Functions

CONSTANTS
  Threads, Objects,        \* Objects: variables of type ThreadLocal
  Ptrs, Null,              \* what new returns, and nullptr
  MaxIds,                  \* bound: ThreadKey::InvalidID
  SeqSpace,                \* 2 to the width of a sequence number
  Deletes                  \* the values of delete_on_thread_exit in use

ASSUME KeyAssumption ==
  /\ MaxIds \in Nat \ {0} /\ SeqSpace \in Nat /\ SeqSpace >= 4 /\ SeqSpace % 2 = 0
  /\ Null \notin Ptrs /\ Deletes \subseteq BOOLEAN

Ids == 0..MaxIds - 1
InvalidID == MaxIds
Seqs == 0..SeqSpace - 1

VARIABLES
  nextId, freeIds,       \* g_id, g_free_ids
  seq, dtor,             \* g_thread_keys: sequence number, whether there is a destructor
  life, id, kseq,        \* per object: whether it lives, and its _key
  del, ptrs,             \* per object: _delete_on_thread_exit, the pointers in ptrs
  tseq, data,            \* thread_key_tls_data of each thread: seq and data per id
  exiting, snap,         \* per thread: ids still to do in DestroyTlsData, dummy_keys
  heap,                  \* how often each pointer was deleted, or "free"
  owner                  \* history: per thread and id, the use of the id that set data

keys == <<nextId, freeIds, seq, dtor, id, kseq>>
vars == <<keys, life, del, ptrs, tseq, data, exiting, snap, heap, owner>>

Unused(s) == s % 2 = 0                     \* KEY_UNUSED

\* (wrong) every id may be used again
UsableAlways(s) == TRUE
Usable(s) == s < (s + 2) % SeqSpace        \* KEY_USABLE
Valid(o) == id[o] # InvalidID /\ ~Unused(kseq[o])
Running(t) == exiting[t] = {}
TypeOK ==
  /\ nextId \in 0..MaxIds /\ freeIds \in Seq(Ids)
  /\ seq \in [Ids -> Seqs] /\ dtor \in [Ids -> BOOLEAN]
  /\ life \in [Objects -> BOOLEAN] /\ id \in [Objects -> Ids \cup {InvalidID}]
  /\ kseq \in [Objects -> Seqs] /\ del \in [Objects -> BOOLEAN]
  /\ ptrs \in [Objects -> SUBSET Ptrs]
  /\ tseq \in [Threads -> [Ids -> Seqs]] /\ data \in [Threads -> [Ids -> Ptrs \cup {Null}]]
  /\ exiting \in [Threads -> SUBSET Ids] /\ snap \in [Threads -> [Ids -> BOOLEAN]]
  /\ heap \in [Ptrs -> {"free", "live", "deleted", "twice"}]
  /\ owner \in [Threads -> [Ids -> 0..SeqSpace]]

Init ==
  /\ nextId = 0 /\ freeIds = <<>>
  /\ seq = [i \in Ids |-> 0] /\ dtor = [i \in Ids |-> FALSE]
  /\ life = [o \in Objects |-> FALSE] /\ id = [o \in Objects |-> InvalidID]
  /\ kseq = [o \in Objects |-> 0] /\ del = [o \in Objects |-> FALSE]
  /\ ptrs = [o \in Objects |-> {}]
  /\ tseq = [t \in Threads |-> [i \in Ids |-> 0]]
  /\ data = [t \in Threads |-> [i \in Ids |-> Null]]
  /\ exiting = [t \in Threads |-> {}] /\ snap = [t \in Threads |-> [i \in Ids |-> FALSE]]
  /\ heap = [p \in Ptrs |-> "free"]
  /\ owner = [t \in Threads |-> [i \in Ids |-> 0]]

\* delete of the pointers in S
Deleted(S) ==
  [p \in Ptrs |-> IF p \notin S THEN heap[p]
                  ELSE IF heap[p] = "live" THEN "deleted" ELSE "twice"]

-----------------------------------------------------------------------------
\* The constructor of ThreadLocal with thread_key_create, which may run out of ids and
\* then leaves the key invalid.
Create(o, d) ==
  /\ ~life[o]
  /\ IF freeIds = <<>> /\ nextId = InvalidID
     THEN UNCHANGED keys
     ELSE LET i == IF freeIds # <<>> THEN freeIds[Len(freeIds)] ELSE nextId
          IN  /\ seq' = [seq EXCEPT ![i] = (@ + 1) % SeqSpace]
              /\ id' = [id EXCEPT ![o] = i] /\ kseq' = [kseq EXCEPT ![o] = seq'[i]]
              /\ dtor' = [dtor EXCEPT ![i] = d]
              /\ freeIds' = IF freeIds # <<>> THEN SubSeq(freeIds, 1, Len(freeIds) - 1) ELSE freeIds
              /\ nextId' = IF freeIds # <<>> THEN nextId ELSE nextId + 1
  /\ life' = [life EXCEPT ![o] = TRUE] /\ del' = [del EXCEPT ![o] = d]
  /\ ptrs' = [ptrs EXCEPT ![o] = {}]
  /\ UNCHANGED <<tseq, data, exiting, snap, heap, owner>>

\* The destructor with thread_key_delete; the pointers are deleted only if threads
\* that exit do not do it.
Destroy(o) ==
  /\ life[o]
  /\ IF Valid(o)
     THEN /\ seq' = [seq EXCEPT ![id[o]] = (@ + 1) % SeqSpace]
          /\ freeIds' = IF Usable(seq'[id[o]]) THEN Append(freeIds, id[o]) ELSE freeIds
     ELSE UNCHANGED <<seq, freeIds>>
  /\ id' = [id EXCEPT ![o] = InvalidID] /\ kseq' = [kseq EXCEPT ![o] = 0]
  /\ life' = [life EXCEPT ![o] = FALSE]
  /\ heap' = IF del[o] THEN heap ELSE Deleted(ptrs[o])
  /\ ptrs' = [ptrs EXCEPT ![o] = {}]
  /\ UNCHANGED <<nextId, dtor, del, tseq, data, exiting, snap, owner>>

-----------------------------------------------------------------------------
\* (wrong) the sequence number is not compared
GetSpecificUnchecked(t, o) == IF Valid(o) THEN data[t][id[o]] ELSE Null

GetSpecific(t, o) ==
  IF Valid(o) /\ tseq[t][id[o]] = kseq[o] THEN data[t][id[o]] ELSE Null

SetSpecific(t, o, p) ==
  /\ tseq' = [tseq EXCEPT ![t][id[o]] = kseq[o]]
  /\ data' = [data EXCEPT ![t][id[o]] = p]
  /\ owner' = [owner EXCEPT ![t][id[o]] = seq[id[o]]]

\* ThreadLocal::get(): the thread's object, made on the first call.  Without a valid
\* key the object just made is deleted again.
Get(t, o) ==
  /\ life[o] /\ Running(t)
  /\ GetSpecific(t, o) = Null
  /\ \E p \in Ptrs :
       /\ heap[p] = "free"
       /\ IF Valid(o)
          THEN /\ SetSpecific(t, o, p)
               /\ heap' = [heap EXCEPT ![p] = "live"]
               /\ ptrs' = [ptrs EXCEPT ![o] = @ \cup {p}]
          ELSE UNCHANGED <<tseq, data, owner, heap, ptrs>>
  /\ UNCHANGED <<keys, life, del, exiting, snap>>

\* ThreadLocal::reset() to a new object or to none.  It begins with a get(), so that the
\* thread has an object; with an invalid key it has none, and reset() changes nothing.
Reset(t, o) ==
  /\ life[o] /\ Running(t)
  /\ GetSpecific(t, o) # Null
  /\ LET old == GetSpecific(t, o) IN
     \E p \in {q \in Ptrs : heap[q] = "free"} \cup {Null} :
       /\ SetSpecific(t, o, p)
       /\ heap' = [q \in Ptrs |-> IF q = p THEN "live" ELSE Deleted({old})[q]]
       /\ ptrs' = [ptrs EXCEPT ![o] = (@ \cup {p}) \ {old, Null}]
  /\ UNCHANGED <<keys, life, del, exiting, snap>>

-----------------------------------------------------------------------------
\* DestroyTlsData when a thread exits: the keys are copied, then each destructor runs.
ThreadExit(t) ==
  /\ Running(t)
  /\ \E i \in Ids : tseq[t][i] # 0
  /\ snap' = [snap EXCEPT ![t] = [i \in Ids |-> i < nextId /\ ~Unused(seq[i]) /\ dtor[i]]]
  /\ exiting' = [exiting EXCEPT ![t] = Ids]
  /\ UNCHANGED <<keys, life, del, ptrs, tseq, data, heap, owner>>

\* The destructor is called with whatever the thread holds under the id.
RunDtor(t, i) ==
  /\ i \in exiting[t] /\ \A j \in exiting[t] : i <= j
  /\ heap' = IF snap[t][i] THEN Deleted({data[t][i]} \ {Null}) ELSE heap
  /\ tseq' = [tseq EXCEPT ![t][i] = 0] /\ data' = [data EXCEPT ![t][i] = Null]
  /\ owner' = [owner EXCEPT ![t][i] = 0]
  /\ exiting' = [exiting EXCEPT ![t] = @ \ {i}]
  /\ UNCHANGED <<keys, life, del, ptrs, snap>>

Next ==
  \/ \E o \in Objects : Destroy(o) \/ \E d \in Deletes : Create(o, d)
  \/ \E t \in Threads, o \in Objects : Get(t, o) \/ Reset(t, o)
  \/ \E t \in Threads : ThreadExit(t) \/ \E i \in Ids : RunDtor(t, i)

Spec == Init /\ [][Next]_vars

-----------------------------------------------------------------------------
\* thread_getspecific() gives a thread only what it set under this very use of the id,
\* however often ids were used before and threads kept old data under them.
NoForeignData ==
  \A t \in Threads, o \in Objects :
    GetSpecific(t, o) # Null => owner[t][id[o]] = seq[id[o]] /\ GetSpecific(t, o) \in ptrs[o]

\* An id in use belongs to one object; a free id is free once and its number is even; an
\* id that is neither has used up its numbers, so that none is lost before; and no number
\* wraps, so that no old data can ever match again.
IdsAccounted ==
  LET used == {o \in Objects : Valid(o)} IN
  /\ \A o, p \in used : id[o] = id[p] => o = p
  /\ \A o \in used : kseq[o] = seq[id[o]]
  /\ IsInjective(freeIds)
  /\ \A i \in Range(freeIds) : Unused(seq[i]) /\ i < nextId /\ i \notin {id[o] : o \in used}
  /\ \A i \in 0..nextId - 1 :
       i \notin Range(freeIds) \cup {id[o] : o \in used} => Unused(seq[i]) /\ ~Usable(seq[i])
  /\ \A t \in Threads, i \in Ids : tseq[t][i] <= seq[i]

\* What get() returns has not been deleted, unless the thread is leaving.
GetAlive ==
  \A t \in Threads, o \in Objects :
    Running(t) /\ GetSpecific(t, o) # Null => heap[GetSpecific(t, o)] = "live"
=============================================================================
