------------------------ MODULE DoublyBufferedData ------------------------
(***************************************************************************)
(* turbo::DoublyBufferedData (turbo/container/doubly_buffered_data.h): two *)
(* copies of the data, readers on the foreground one, and modifiers that   *)
(* change the background one, flip, wait for the readers, and change the   *)
(* other one.                                                              *)
(*                                                                         *)
(* suspended is the template argument AllowKthreadSuspended.  BeginRead,   *)
(* BeginReadRelease and the EndRead without argument have empty bodies in  *)
(* this code base, and so are no steps here.  Every thread that reads owns *)
(* a Wrapper.  A critical section of Wrapper::_mutex that does not wait is *)
(* one step; the two other mutexes have owners.                            *)
(***************************************************************************)
EXTENDS Naturals, Sequences, FiniteSets

CONSTANTS
  Readers, Modifiers, None,
  MaxReads,        \* bound: calls of Read
  MaxModifies      \* bound: calls of Modify per modifier

VARIABLES
  suspended,               \* AllowKthreadSuspended
  data, index,             \* _data (how often each copy was changed), _index
  wrappers,                \* _wrappers: the registered readers
  modifyMutex, wrappersMutex,   \* owners of the two mutexes
  ref, modify_wait,        \* per wrapper: _ref[2] and _modify_wait
  rpc, idx, reads,         \* per reader: location, ScopedPtr::_index; calls of Read made
  mpc, bg, pos, changes,   \* per modifier: location, bg_index, loop index, calls
  writing,                 \* the copies that some fn is changing now
  fresh, seen              \* history: see Read and LoadIndex

rvars == <<rpc, idx, reads, fresh, seen>>
mvars == <<mpc, bg, pos, changes>>
vars == <<suspended, data, index, wrappers, modifyMutex, wrappersMutex, ref, modify_wait, rvars, mvars, writing>>

Copies == {0, 1}
Other(i) == 1 - i

RPC == {"idle", "register", "load", "addRef", "reading", "gone"}
MPC == {"idle", "fn1", "in1", "flip", "lockAll", "wait", "cond", "fn2", "in2"}

TypeOK ==
  /\ suspended \in BOOLEAN
  /\ data \in [Copies -> Nat] /\ index \in Copies
  /\ wrappers \in Seq(Readers)
  /\ modifyMutex \in Modifiers \cup {None}
  /\ wrappersMutex \in Modifiers \cup {None}
  /\ ref \in [Readers -> [Copies -> 0..1]]
  /\ modify_wait \in [Readers -> BOOLEAN]
  /\ rpc \in [Readers -> RPC] /\ idx \in [Readers -> Copies] /\ reads \in 0..MaxReads
  /\ mpc \in [Modifiers -> MPC] /\ bg \in [Modifiers -> Copies]
  /\ pos \in [Modifiers -> 1..Cardinality(Readers) + 1]
  /\ changes \in [Modifiers -> 0..MaxModifies]
  /\ writing \in SUBSET Copies
  /\ fresh \in [Readers -> Nat] /\ seen \in [Readers -> Nat]

Init ==
  /\ suspended \in BOOLEAN
  /\ data = [c \in Copies |-> 0] /\ index = 0
  /\ wrappers = <<>>
  /\ modifyMutex = None /\ wrappersMutex = None
  /\ ref = [r \in Readers |-> [c \in Copies |-> 0]]
  /\ modify_wait = [r \in Readers |-> FALSE]
  /\ rpc = [r \in Readers |-> "idle"] /\ idx = [r \in Readers |-> 0]
  /\ reads = 0
  /\ mpc = [m \in Modifiers |-> "idle"] /\ bg = [m \in Modifiers |-> 0]
  /\ pos = [m \in Modifiers |-> 1] /\ changes = [m \in Modifiers |-> 0]
  /\ writing = {}
  /\ fresh = [r \in Readers |-> 0] /\ seen = [r \in Readers |-> 0]

Rgoto(r, where) == rpc' = [rpc EXCEPT ![r] = where]
Mgoto(m, where) == mpc' = [mpc EXCEPT ![m] = where]

Registered(r) == \E i \in DOMAIN wrappers : wrappers[i] = r

-----------------------------------------------------------------------------
(* Readers *)

\* Read().  fresh records what a reader could already see when the call was made.
Read(r) ==
  /\ rpc[r] = "idle" /\ reads < MaxReads
  /\ reads' = reads + 1
  /\ fresh' = [fresh EXCEPT ![r] = data[index]]
  /\ Rgoto(r, IF Registered(r) THEN "load" ELSE "register")
  /\ UNCHANGED <<suspended, data, index, wrappers, modifyMutex, wrappersMutex, ref, modify_wait, idx, seen, mvars, writing>>

\* The first Read() of a thread registers its wrapper under _wrappers_mutex.
AddWrapper(r) ==
  /\ rpc[r] = "register"
  /\ wrappersMutex = None
  /\ wrappers' = Append(wrappers, r)
  /\ Rgoto(r, "load")
  /\ UNCHANGED <<suspended, data, index, modifyMutex, wrappersMutex, ref, modify_wait, idx, reads, fresh, seen, mvars, writing>>

\* (wrong) the background copy is read
LoadBackground(r) ==
  /\ rpc[r] = "load"
  /\ idx' = [idx EXCEPT ![r] = Other(index)]
  /\ seen' = [seen EXCEPT ![r] = data[Other(index)]]
  /\ Rgoto(r, IF suspended THEN "addRef" ELSE "reading")
  /\ UNCHANGED <<suspended, data, index, wrappers, modifyMutex, wrappersMutex, ref, modify_wait, reads, fresh, mvars, writing>>

\* UnsafeRead().  seen records how often the copy had been changed.
LoadIndex(r) ==
  /\ rpc[r] = "load"
  /\ idx' = [idx EXCEPT ![r] = index]
  /\ seen' = [seen EXCEPT ![r] = data[index]]
  /\ Rgoto(r, IF suspended THEN "addRef" ELSE "reading")
  /\ UNCHANGED <<suspended, data, index, wrappers, modifyMutex, wrappersMutex, ref, modify_wait, reads, fresh, mvars, writing>>

AddRef(r) ==
  /\ rpc[r] = "addRef"
  /\ ref' = [ref EXCEPT ![r][idx[r]] = @ + 1]
  /\ Rgoto(r, "reading")
  /\ UNCHANGED <<suspended, data, index, wrappers, modifyMutex, wrappersMutex, modify_wait, idx, reads, fresh, seen, mvars, writing>>

Waiting(m, r, c) == mpc[m] = "cond" /\ wrappers[pos[m]] = r /\ bg[m] = c

\* (wrong) the modifier is told before the reference is given back
EndReadEarly(r) ==
  /\ rpc[r] = "reading"
  /\ Rgoto(r, "idle")
  /\ ref' = IF suspended THEN [ref EXCEPT ![r][idx[r]] = @ - 1] ELSE ref
  /\ mpc' = [m \in Modifiers |->
               IF suspended /\ Waiting(m, r, idx[r]) /\ ref[r][idx[r]] = 0 /\ modify_wait[r]
               THEN "wait" ELSE mpc[m]]
  /\ UNCHANGED <<suspended, data, index, wrappers, modifyMutex, wrappersMutex, modify_wait, idx, reads, fresh, seen, bg, pos, changes, writing>>

\* ~ScopedPtr: nothing, or EndRead(index) with SubRef and SignalReadCond.
EndRead(r) ==
  /\ rpc[r] = "reading"
  /\ Rgoto(r, "idle")
  /\ ref' = IF suspended THEN [ref EXCEPT ![r][idx[r]] = @ - 1] ELSE ref
  /\ mpc' = [m \in Modifiers |->
               IF suspended /\ Waiting(m, r, idx[r]) /\ ref'[r][idx[r]] = 0 /\ modify_wait[r]
               THEN "wait" ELSE mpc[m]]
  /\ UNCHANGED <<suspended, data, index, wrappers, modifyMutex, wrappersMutex, modify_wait, idx, reads, fresh, seen, bg, pos, changes, writing>>

\* (wrong) RemoveWrapper does not take _wrappers_mutex
ExitUnlocked(r) ==
  /\ rpc[r] = "idle"
  /\ wrappers' = SelectSeq(wrappers, LAMBDA x : x # r)
  /\ Rgoto(r, "gone")
  /\ UNCHANGED <<suspended, data, index, modifyMutex, wrappersMutex, ref, modify_wait, idx, reads, fresh, seen, mvars, writing>>

\* ~Wrapper when the thread exits: RemoveWrapper moves the last one into the hole.
\* The two calls of WaitReadDone find the counts zero, for the thread reads nothing.
ThreadExit(r) ==
  /\ rpc[r] = "idle"
  /\ \/ ~Registered(r) /\ UNCHANGED wrappers
     \/ /\ Registered(r) /\ wrappersMutex = None
        /\ \E i \in DOMAIN wrappers :
             /\ wrappers[i] = r
             /\ wrappers' = SubSeq([wrappers EXCEPT ![i] = wrappers[Len(wrappers)]],
                                   1, Len(wrappers) - 1)
  /\ modify_wait' = [modify_wait EXCEPT ![r] = IF suspended THEN FALSE ELSE @]
  /\ Rgoto(r, "gone")
  /\ UNCHANGED <<suspended, data, index, modifyMutex, wrappersMutex, ref, idx, reads, fresh, seen, mvars, writing>>

-----------------------------------------------------------------------------
(* Modify() *)

Modify(m) ==
  /\ mpc[m] = "idle" /\ changes[m] < MaxModifies
  /\ modifyMutex = None /\ modifyMutex' = m
  /\ bg' = [bg EXCEPT ![m] = Other(index)]
  /\ changes' = [changes EXCEPT ![m] = @ + 1]
  /\ Mgoto(m, "fn1")
  /\ UNCHANGED <<suspended, data, index, wrappers, wrappersMutex, ref, modify_wait, rvars, pos, writing>>

\* The calls of fn take time.
BeginFn(m) ==
  /\ mpc[m] \in {"fn1", "fn2"}
  /\ writing' = writing \cup {bg[m]}
  /\ Mgoto(m, IF mpc[m] = "fn1" THEN "in1" ELSE "in2")
  /\ UNCHANGED <<suspended, data, index, wrappers, modifyMutex, wrappersMutex, ref, modify_wait, rvars, bg, pos, changes>>

\* fn returns zero: nothing was changed.
FnRefuses(m) ==
  /\ mpc[m] = "in1"
  /\ writing' = writing \ {bg[m]}
  /\ modifyMutex' = None
  /\ Mgoto(m, "idle")
  /\ UNCHANGED <<suspended, data, index, wrappers, wrappersMutex, ref, modify_wait, rvars, bg, pos, changes>>

FnChanges(m) ==
  /\ mpc[m] = "in1"
  /\ data' = [data EXCEPT ![bg[m]] = @ + 1]
  /\ writing' = writing \ {bg[m]}
  /\ Mgoto(m, "flip")
  /\ UNCHANGED <<suspended, index, wrappers, modifyMutex, wrappersMutex, ref, modify_wait, rvars, bg, pos, changes>>

Flip(m) ==
  /\ mpc[m] = "flip"
  /\ index' = bg[m]
  /\ bg' = [bg EXCEPT ![m] = Other(bg[m])]
  /\ Mgoto(m, "lockAll")
  /\ UNCHANGED <<suspended, data, wrappers, modifyMutex, wrappersMutex, ref, modify_wait, rvars, pos, changes, writing>>

LockWrappers(m) ==
  /\ mpc[m] = "lockAll"
  /\ wrappersMutex = None /\ wrappersMutex' = m
  /\ pos' = [pos EXCEPT ![m] = 1]
  /\ Mgoto(m, "wait")
  /\ UNCHANGED <<suspended, data, index, wrappers, modifyMutex, ref, modify_wait, rvars, bg, changes, writing>>

\* WaitReadDone of one wrapper after the other: without suspended the mutex is
\* locked and unlocked, else the modifier waits until the count is zero.
WaitReadDone(m) ==
  /\ mpc[m] = "wait" /\ pos[m] <= Len(wrappers)
  /\ LET w == wrappers[pos[m]]
         busy == suspended /\ ref[w][bg[m]] # 0
     IN  /\ modify_wait' = [modify_wait EXCEPT ![w] = IF suspended THEN busy ELSE @]
         /\ IF busy THEN Mgoto(m, "cond") /\ UNCHANGED pos
                    ELSE pos' = [pos EXCEPT ![m] = @ + 1] /\ UNCHANGED mpc
  /\ UNCHANGED <<suspended, data, index, wrappers, modifyMutex, wrappersMutex, ref, rvars, bg, changes, writing>>

\* condition_variable::wait may return without a notification.
SpuriousWakeup(m) ==
  /\ mpc[m] = "cond"
  /\ Mgoto(m, "wait")
  /\ UNCHANGED <<suspended, data, index, wrappers, modifyMutex, wrappersMutex, ref, modify_wait, rvars, bg, pos, changes, writing>>

UnlockWrappers(m) ==
  /\ mpc[m] = "wait" /\ pos[m] > Len(wrappers)
  /\ wrappersMutex' = None
  /\ Mgoto(m, "fn2")
  /\ UNCHANGED <<suspended, data, index, wrappers, modifyMutex, ref, modify_wait, rvars, bg, pos, changes, writing>>

\* The second call of fn, which returns what the first one did, and the return.
EndModify(m) ==
  /\ mpc[m] = "in2"
  /\ data' = [data EXCEPT ![bg[m]] = @ + 1]
  /\ writing' = writing \ {bg[m]}
  /\ modifyMutex' = None
  /\ Mgoto(m, "idle")
  /\ UNCHANGED <<suspended, index, wrappers, wrappersMutex, ref, modify_wait, rvars, bg, pos, changes>>

-----------------------------------------------------------------------------
ReadStep(r) == AddWrapper(r) \/ LoadIndex(r) \/ AddRef(r) \/ EndRead(r)
ModifyStep(m) ==
  \/ BeginFn(m) \/ FnRefuses(m) \/ FnChanges(m) \/ Flip(m) \/ LockWrappers(m)
  \/ WaitReadDone(m) \/ UnlockWrappers(m) \/ EndModify(m)

Next ==
  \/ \E r \in Readers : Read(r) \/ ThreadExit(r) \/ ReadStep(r)
  \/ \E m \in Modifiers : Modify(m) \/ SpuriousWakeup(m) \/ ModifyStep(m)

Spec == Init /\ [][Next]_vars

\* Threads are scheduled, and a reader ends its reads; nobody has to call anything.
FairSpec ==
  /\ Spec
  /\ \A r \in Readers : WF_vars(ReadStep(r))
  /\ \A m \in Modifiers : WF_vars(ModifyStep(m))

-----------------------------------------------------------------------------
\* Whenever no Modify() is under way both copies have had the same changes, and the
\* background never gets ahead of the foreground by more than the change under way.
Converged ==
  /\ modifyMutex = None => data[0] = data[1]
  /\ data[0] <= data[1] + 1 /\ data[1] <= data[0] + 1

\* A Read() never sees less than a reader could see when it was called: reads do not
\* go back in time, whichever thread makes them.
FreshRead == \A r \in Readers : rpc[r] \in {"addRef", "reading"} => seen[r] >= fresh[r]

\* Modify() walks over wrappers of living threads only, each once, and the one it
\* waits for stays where it is.
WrappersAlive ==
  /\ \A i, j \in DOMAIN wrappers : wrappers[i] = wrappers[j] => i = j
  /\ \A i \in DOMAIN wrappers : rpc[wrappers[i]] # "gone"
  /\ \A r \in Readers : rpc[r] \in {"load", "addRef", "reading"} => Registered(r)
  /\ \A m \in Modifiers : mpc[m] = "cond" => pos[m] <= Len(wrappers)
=============================================================================
