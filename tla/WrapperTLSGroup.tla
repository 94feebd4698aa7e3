-------------------------- MODULE WrapperTLSGroup --------------------------
(***************************************************************************)
(* How DoublyBufferedData finds the wrapper of the calling thread          *)
(* (turbo/container/doubly_buffered_data.h): objects take ids from         *)
(* WrapperTLSGroup and give them back, every thread has one Wrapper per    *)
(* id, which outlives the object that used it, and wrappers are destroyed  *)
(* when their thread exits.  Reads and modifications themselves are in     *)
(* DoublyBufferedData.                                                     *)
(*                                                                         *)
(* The caller keeps Read() and the destructor of an object apart, as the   *)
(* comment in the destructor asks.  Threads that read it exit at any time. *)
(***************************************************************************)
EXTENDS Naturals, Sequences, FiniteSets

CONSTANTS Threads, Objects, None

VARIABLES
  nextId, freeIds,     \* _s_id, _s_free_ids
  life, key,           \* per object: whether it lives, and _wrapper_key
  wrappers,            \* per object: _wrappers, as <<thread, id>>
  control,             \* Wrapper::_control of every thread and id
  exiting, removing    \* per thread: next id of ~ThreadBlock, object in RemoveWrapper

vars == <<nextId, freeIds, life, key, wrappers, control, exiting, removing>>

\* Never more ids than objects that live together.
Ids == 0..Cardinality(Objects) - 1
NotExiting == Cardinality(Objects)

TypeOK ==
  /\ nextId \in 0..Cardinality(Objects) /\ freeIds \in Seq(Ids)
  /\ life \in [Objects -> {"none", "alive", "dying"}] /\ key \in [Objects -> Ids]
  /\ wrappers \in [Objects -> Seq(Threads \X Ids)]
  /\ control \in [Threads -> [Ids -> Objects \cup {None}]]
  /\ exiting \in [Threads -> Ids \cup {NotExiting}]
  /\ removing \in [Threads -> Objects \cup {None}]

Init ==
  /\ nextId = 0 /\ freeIds = <<>>
  /\ life = [o \in Objects |-> "none"] /\ key = [o \in Objects |-> 0]
  /\ wrappers = [o \in Objects |-> <<>>]
  /\ control = [t \in Threads |-> [i \in Ids |-> None]]
  /\ exiting = [t \in Threads |-> NotExiting]
  /\ removing = [t \in Threads |-> None]

Elements(s) == {s[i] : i \in DOMAIN s}

\* The constructor, with key_create.
Create(o) ==
  /\ life[o] = "none"
  /\ \/ /\ freeIds # <<>> /\ key' = [key EXCEPT ![o] = freeIds[Len(freeIds)]]
        /\ freeIds' = SubSeq(freeIds, 1, Len(freeIds) - 1)
        /\ UNCHANGED nextId
     \/ /\ freeIds = <<>> /\ key' = [key EXCEPT ![o] = nextId]
        /\ nextId' = nextId + 1 /\ UNCHANGED freeIds
  /\ life' = [life EXCEPT ![o] = "alive"]
  /\ UNCHANGED <<wrappers, control, exiting, removing>>

\* AddWrapper of the wrapper that get_or_create_tls_data found.
Read(t, o) ==
  /\ life[o] = "alive" /\ exiting[t] = NotExiting
  /\ control[t][key[o]] = None
  /\ control' = [control EXCEPT ![t][key[o]] = o]
  /\ wrappers' = [wrappers EXCEPT ![o] = Append(@, <<t, key[o]>>)]
  /\ UNCHANGED <<nextId, freeIds, life, key, exiting, removing>>

\* (wrong) the wrappers keep their _control
DestroyKeepingControl(o) ==
  /\ life[o] = "alive"
  /\ wrappers' = [wrappers EXCEPT ![o] = <<>>]
  /\ life' = [life EXCEPT ![o] = "dying"]
  /\ UNCHANGED <<nextId, freeIds, key, control, exiting, removing>>

\* The destructor: first the wrappers forget the object, then its id is free.
Destroy(o) ==
  /\ life[o] = "alive"
  /\ control' = [t \in Threads |-> [i \in Ids |->
                   IF <<t, i>> \in Elements(wrappers[o]) THEN None ELSE control[t][i]]]
  /\ wrappers' = [wrappers EXCEPT ![o] = <<>>]
  /\ life' = [life EXCEPT ![o] = "dying"]
  /\ UNCHANGED <<nextId, freeIds, key, exiting, removing>>

DeleteKey(o) ==
  /\ life[o] = "dying"
  /\ freeIds' = IF key[o] < nextId THEN Append(freeIds, key[o]) ELSE freeIds
  /\ life' = [life EXCEPT ![o] = "none"]
  /\ UNCHANGED <<nextId, key, wrappers, control, exiting, removing>>

\* _destroy_tls_blocks: ~Wrapper of one id after the other.
ThreadExit(t) ==
  /\ exiting[t] = NotExiting
  /\ exiting' = [exiting EXCEPT ![t] = 0]
  /\ UNCHANGED <<nextId, freeIds, life, key, wrappers, control, removing>>

NextWrapper(t) == exiting' = [exiting EXCEPT ![t] = @ + 1]

\* ~Wrapper reads _control without a lock and calls RemoveWrapper if it is set.
DestroyWrapper(t) ==
  /\ exiting[t] # NotExiting /\ removing[t] = None
  /\ IF control[t][exiting[t]] = None
     THEN NextWrapper(t) /\ UNCHANGED removing
     ELSE /\ removing' = [removing EXCEPT ![t] = control[t][exiting[t]]]
          /\ UNCHANGED exiting
  /\ UNCHANGED <<nextId, freeIds, life, key, wrappers, control>>

\* RemoveWrapper: the last wrapper takes the place of the one that goes.  Nothing keeps
\* the object alive since ~Wrapper read _control: once its destructor is over, the call is
\* on memory that is gone, and the thread goes no further here.
RemoveWrapper(t) ==
  /\ removing[t] # None /\ life[removing[t]] # "none"
  /\ LET o == removing[t]
         w == <<t, exiting[t]>>
         back == wrappers[o][Len(wrappers[o])]
         moved == [i \in DOMAIN wrappers[o] |-> IF wrappers[o][i] = w THEN back ELSE wrappers[o][i]]
     IN  wrappers' = IF w \in Elements(wrappers[o])
                     THEN [wrappers EXCEPT ![o] = SubSeq(moved, 1, Len(moved) - 1)]
                     ELSE wrappers
  /\ control' = [control EXCEPT ![t][exiting[t]] = None]
  /\ removing' = [removing EXCEPT ![t] = None]
  /\ NextWrapper(t)
  /\ UNCHANGED <<nextId, freeIds, life, key>>

Next ==
  \/ \E o \in Objects : Create(o) \/ Destroy(o) \/ DeleteKey(o)
  \/ \E t \in Threads, o \in Objects : Read(t, o)
  \/ \E t \in Threads : ThreadExit(t) \/ DestroyWrapper(t) \/ RemoveWrapper(t)

Spec == Init /\ [][Next]_vars

-----------------------------------------------------------------------------
\* AddWrapper never reaches "Get wrapper from tls but control != this": whatever
\* objects used the id before, the wrapper of a live object is its own or nobody's.
NoForeignControl ==
  \A o \in Objects, t \in Threads : life[o] = "alive" => control[t][key[o]] \in {None, o}

\* An object lists exactly the wrappers that name it, each once, so that its destructor
\* resets every one of them and none that was destroyed.  A wrapper that its thread is
\* removing belongs to an object that lives, unless the destructor reset _control after
\* ~Wrapper had read it: "hack: disable removal" comes too late for such a wrapper.
ListsMatch ==
  /\ \A o \in Objects :
       /\ Elements(wrappers[o]) = {w \in Threads \X Ids : control[w[1]][w[2]] = o}
       /\ Cardinality(Elements(wrappers[o])) = Len(wrappers[o])
  /\ \A t \in Threads :
       removing[t] # None /\ control[t][exiting[t]] # None =>
         control[t][exiting[t]] = removing[t] /\ life[removing[t]] = "alive"

\* Every id ever made is either free, once, or the key of exactly one object.
IdsAccounted ==
  LET used == {o \in Objects : life[o] # "none"}
  IN  /\ Cardinality(Elements(freeIds)) = Len(freeIds)
      /\ \A o, p \in used : key[o] = key[p] => o = p
      /\ Elements(freeIds) \cap {key[o] : o \in used} = {}
      /\ Elements(freeIds) \cup {key[o] : o \in used} = 0..nextId - 1
=============================================================================
