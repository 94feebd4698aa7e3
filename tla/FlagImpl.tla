------------------------------ MODULE FlagImpl ------------------------------
(***************************************************************************)
(* turbo::flags_internal::FlagImpl (turbo/flags/internal/flag.cc, flag.h): *)
(* a flag that threads get, set, parse, save and restore.  It adds to the  *)
(* sequence lock (module SequenceLock), whose Readers are the threads, the *)
(* data guard with the contract of turbo::Mutex (module CriticalRegion),   *)
(* and the guards under which the update callback and the validator run.   *)
(* The callback reads the flag, and so does the validator of some flags.   *)
(*                                                                         *)
(* Parsing is a choice of its result, Bad if it fails.  user_validate()    *)
(* looks at validator_ without the guard: it may meet a FlagValidator that *)
(* set_validator() has allocated and not yet given its function, and call  *)
(* whatever is there.  A thread that does so is "wild" and stays there.    *)
(***************************************************************************)
EXTENDS SequenceLock

CONSTANTS
  Default, Bad,
  Uses,                    \* kind: value_storage_kind(); ops: the calls that threads make;
                           \* validator: "set" if registered with one; gets: it gets the flag
  MaxCalls                 \* bound: calls

ASSUME FlagAssumption ==
  /\ Default \in Values /\ Bad \notin Values /\ None \notin Values \cup Readers
  /\ Words # {}
  /\ \A u \in Uses : u.kind \in {"SequenceLock", "kSequenceLocked", "kOneWordAtomic", "kAlignedBuffer"}
  /\ \A u \in Uses : u.validator \in {"null", "set"}
  /\ MaxCalls \in Nat /\ MaxCalls <= MaxWrites   \* a call counts once at most

VARIABLES
  use,                     \* the member of Uses that was chosen
  once,                    \* init_control_: "no", "running" or "done"
  view,                    \* how each thread holds *DataGuard()
  cbguard, vguard,         \* the threads that hold callback_->guard and validator_->guard, or None
  modified, on_command_line, default, callback,
  validator,               \* "null", "unset" without a function, or "set"
  at, op, arg,             \* where each thread is, its call and the argument
  ret,                     \* where a get returns to: the caller, the callback, the validator
  saved,                   \* what each thread's last SaveState returned
  cb,                      \* the copy of validator_->func in user_validate: "unset" or "set"
  calls,
  seen                     \* history: what the last callback read

sequence == <<shared, readers>>
state == <<modified, on_command_line, default, callback, validator>>
thread == <<at, op, arg, ret, saved, cb, calls>>
flag_vars == <<use, sequence, once, view, cbguard, vguard, state, thread, seen>>

guard == INSTANCE CriticalRegion WITH
  Threads <- Readers, Conds <- {}, want <- [t \in Readers |-> None], truth <- {}

Saved == [value : Values, modified : BOOLEAN, on_command_line : BOOLEAN, counter : Nat]

FlagTypeOK ==
  /\ use \in Uses
  /\ TypeOK /\ once \in {"no", "running", "done"}
  /\ view \in [Readers -> guard!Modes] /\ {cbguard, vguard} \subseteq Readers \cup {None}
  /\ modified \in BOOLEAN /\ on_command_line \in BOOLEAN /\ default \in Values
  /\ callback \in BOOLEAN /\ validator \in {"null", "unset", "set"}
  /\ arg \in [Readers -> Values \cup {Bad}]
  /\ ret \in [Readers -> {"idle", "callback_done", "validator_done"}]
  /\ saved \in [Readers -> Saved \cup {None}] /\ calls \in 0..MaxCalls
  /\ cb \in [Readers -> {"unset", "set"}] /\ seen \in Values \cup {None}

FlagInit ==
  /\ use \in Uses
  /\ Init /\ once = "no"
  /\ view = [t \in Readers |-> "none"] /\ cbguard = None /\ vguard = None
  /\ modified = FALSE /\ on_command_line = FALSE /\ default = Default
  /\ callback = FALSE /\ validator = use.validator
  /\ at = [t \in Readers |-> "idle"] /\ op = [t \in Readers |-> "get"]
  /\ arg = [t \in Readers |-> Default] /\ ret = [t \in Readers |-> "idle"]
  /\ saved = [t \in Readers |-> None] /\ calls = 0
  /\ cb = [t \in Readers |-> "set"] /\ seen = None

Goto(t, where) == at' = [at EXCEPT ![t] = where]
\* The value that the words hold.
Current == CHOOSE v \in Values : \A w \in Words : words[w] = v

-----------------------------------------------------------------------------
(* DataGuard(): call_once of Init, which stores the default value.         *)

StartInit ==
  /\ once = "no" /\ \E t \in Readers : at[t] \in {"enter", "enter_get"}
  /\ once' = "running" /\ Prepare(default)
  /\ UNCHANGED <<use, view, cbguard, vguard, state, thread, seen>>

InitWord ==
  /\ once = "running" /\ \E w \in Words : RelaxedCopyToAtomic(w)
  /\ UNCHANGED <<use, once, view, cbguard, vguard, state, thread, seen>>

FinishInit ==
  /\ once = "running" /\ MarkInitialized /\ once' = "done"
  /\ UNCHANGED <<use, view, cbguard, vguard, state, thread, seen>>

-----------------------------------------------------------------------------
(* Flag::Get and FlagImpl::Read.                                           *)

\* A get has the value v and returns it, perhaps to the callback.
Returned(t, v) ==
  /\ Goto(t, ret[t])
  /\ seen' = IF ret[t] = "callback_done" THEN v ELSE seen

\* What a successful TryRead copied.
Copied(t) == CHOOSE v \in Values : \A w \in Words : buf[t][w] = v

\* The fast path of FlagValue::Get, at the call or inside a callback.
GetFast(t) ==
  /\ at[t] = "get"
  /\ CASE use.kind = "kSequenceLocked" -> TryRead(t) /\ Goto(t, "fast") /\ UNCHANGED seen
       [] use.kind = "kOneWordAtomic" /\ (\A w \in Words : words[w] # None) ->
            Returned(t, Current) /\ UNCHANGED sequence
       [] OTHER -> Goto(t, "enter_get") /\ UNCHANGED <<sequence, seen>>
  /\ UNCHANGED <<use, once, view, cbguard, vguard, state, op, arg, ret, saved, cb, calls>>

ReadWord(t) ==
  /\ at[t] \in {"fast", "second", "slow"}
  /\ Validate(t) \/ \E w \in Words : RelaxedCopyFromAtomic(t, w)
  /\ UNCHANGED <<use, once, view, cbguard, vguard, state, thread, seen>>

\* TryRead has returned: on to the value, or to the next, slower attempt.
ReadDone(t) ==
  /\ at[t] \in {"fast", "second"} /\ pc[t] # "copy"
  /\ IF pc[t] = "true" THEN Returned(t, Copied(t))
     ELSE Goto(t, IF at[t] = "fast" THEN "enter_get" ELSE "slow_lock") /\ UNCHANGED seen
  /\ UNCHANGED <<use, sequence, once, view, cbguard, vguard, state, op, arg, ret, saved, cb, calls>>

\* Read() after DataGuard().
Read(t) ==
  /\ at[t] = "enter_get" /\ once = "done"
  /\ CASE use.kind = "kSequenceLocked" -> TryRead(t) /\ Goto(t, "second") /\ UNCHANGED seen
       [] use.kind = "kOneWordAtomic" -> Returned(t, Current) /\ UNCHANGED sequence
       [] use.kind = "kAlignedBuffer" -> Goto(t, "slow_lock") /\ UNCHANGED <<sequence, seen>>
  /\ UNCHANGED <<use, once, view, cbguard, vguard, state, op, arg, ret, saved, cb, calls>>

\* The slow path: under a reader lock the sequence lock is read once more, under an
\* exclusive one the aligned buffer is copied.
SlowRead(t) ==
  /\ at[t] = "slow_lock" /\ guard!Take(t)
  /\ view'[t] = IF use.kind = "kSequenceLocked" THEN "Shared" ELSE "Exclusive"
  /\ Goto(t, "slow")
  /\ IF use.kind = "kSequenceLocked" THEN TryRead(t) ELSE UNCHANGED sequence
  /\ UNCHANGED <<use, once, cbguard, vguard, state, op, arg, ret, saved, cb, calls, seen>>

SlowReadDone(t) ==
  /\ at[t] = "slow" /\ pc[t] # "copy" /\ guard!Leave(t)
  /\ Returned(t, IF use.kind = "kSequenceLocked" THEN Copied(t) ELSE Current)
  /\ UNCHANGED <<use, sequence, once, cbguard, vguard, state, op, arg, ret, saved, cb, calls>>

-----------------------------------------------------------------------------
(* The calls.                                                              *)

Parses == {"SET_FLAGS_VALUE", "SET_FLAG_IF_DEFAULT", "SET_FLAGS_DEFAULT"}

\* A call; user_validate() without a validator returns at once, else copies its function.
Call(t, o, v) ==
  /\ at[t] = "idle" /\ calls < MaxCalls
  /\ v = Bad => o \in Parses
  /\ o = "RestoreState" => saved[t] # None
  /\ o = "user_validate" => validator # "null"
  /\ op' = [op EXCEPT ![t] = o] /\ arg' = [arg EXCEPT ![t] = v]
  /\ ret' = [ret EXCEPT ![t] = "idle"] /\ calls' = calls + 1
  /\ cb' = IF o = "user_validate" THEN [cb EXCEPT ![t] = validator] ELSE cb
  /\ Goto(t, IF o = "get" THEN "get" ELSE "enter")
  /\ UNCHANGED <<use, sequence, once, view, cbguard, vguard, state, saved, seen>>

\* MutexLock l(DataGuard()); user_validate takes it shared.
Enter(t) ==
  /\ at[t] = "enter" /\ once = "done" /\ guard!Take(t)
  /\ view'[t] = IF op[t] = "user_validate" THEN "Shared" ELSE "Exclusive"
  /\ Goto(t, "inside")
  /\ UNCHANGED <<use, sequence, once, cbguard, vguard, state, op, arg, ret, saved, cb, calls, seen>>

\* The value that the call stores, or None if it stores nothing: a value that does not
\* parse, a flag already set, or one not modified since it was saved.
Stored(t) ==
  CASE op[t] = "RestoreState" ->
         IF saved[t].counter = modification_count THEN None ELSE saved[t].value
    [] op[t] \in {"SET_FLAG_IF_DEFAULT", "SET_FLAGS_DEFAULT"} /\ modified -> None
    [] op[t] \in {"Write"} \cup Parses -> IF arg[t] = Bad THEN None ELSE arg[t]
    [] OTHER -> None

\* The part of each call before StoreValue, all under the exclusive guard.
Perform(t) ==
  /\ at[t] = "inside" /\ op[t] # "user_validate"
  /\ saved' = IF op[t] # "SaveState" THEN saved
              ELSE [saved EXCEPT ![t] = [value |-> Current, modified |-> modified,
                                         on_command_line |-> on_command_line,
                                         counter |-> modification_count]]
  /\ default' = IF op[t] = "SET_FLAGS_DEFAULT" /\ arg[t] # Bad THEN arg[t] ELSE default
  /\ callback' = (callback \/ op[t] = "set_flag_callback")
  /\ validator' = IF op[t] = "set_validator" /\ validator = "null" THEN "unset" ELSE validator
  /\ Goto(t, CASE Stored(t) # None -> "store"
               [] op[t] = "set_flag_callback" -> "invoke"
               [] op[t] = "set_validator" -> "set_func"
               [] OTHER -> "unlock")
  /\ UNCHANGED <<use, sequence, once, view, cbguard, vguard, modified, on_command_line, op, arg, ret,
                 cb, calls, seen>>

\* The end of set_validator: validator_->func.
SetFunc(t) ==
  /\ at[t] = "set_func"
  /\ validator' = "set"
  /\ Goto(t, "unlock")
  /\ UNCHANGED <<use, sequence, once, view, cbguard, vguard, modified, on_command_line, default,
                 callback, op, arg, ret, saved, cb, calls, seen>>

\* (wrong) the modification is not counted
EndStoreUncounted(t) ==
  /\ at[t] = "storing"
  /\ IF use.kind = "kSequenceLocked" THEN WriteDone ELSE UNCHANGED sequence
  /\ modified' = TRUE
  /\ Goto(t, "invoke")
  /\ UNCHANGED <<use, once, view, cbguard, vguard, on_command_line, default, callback, validator,
                 op, arg, ret, saved, cb, calls, seen>>

\* StoreValue, up to the modification count.
BeginStore(t) ==
  /\ at[t] = "store"
  /\ IF use.kind = "kSequenceLocked" THEN Write(Stored(t))
     ELSE /\ words' = [w \in Words |-> Stored(t)] /\ value' = Stored(t)
          /\ UNCHANGED <<lock, writing, left, counted, pc, seq_before, buf, todo, actual>>
  /\ Goto(t, "storing")
  /\ UNCHANGED <<use, once, view, cbguard, vguard, state, op, arg, ret, saved, cb, calls, seen>>

StoreWord(t) ==
  /\ at[t] = "storing" /\ \E w \in Words : RelaxedCopyToAtomic(w)
  /\ UNCHANGED <<use, once, view, cbguard, vguard, state, thread, seen>>

\* The end of StoreValue, up to invoke_callback.
EndStore(t) ==
  /\ at[t] = "storing"
  /\ IF use.kind = "kSequenceLocked" THEN WriteDone ELSE IncrementModificationCount
  /\ modified' = TRUE
  /\ Goto(t, "invoke")
  /\ UNCHANGED <<use, once, view, cbguard, vguard, on_command_line, default, callback, validator,
                 op, arg, ret, saved, cb, calls, seen>>

-----------------------------------------------------------------------------
(* invoke_callback: the guard is released, the callback runs under its own *)
(* guard, and the guard is taken again.                                    *)

\* (wrong) a callback that is running is taken to cover this store
InvokeUnlessRunning(t) ==
  /\ at[t] = "invoke"
  /\ IF callback /\ cbguard = None THEN guard!Leave(t) /\ Goto(t, "callback_lock")
                                   ELSE UNCHANGED view /\ Goto(t, "after")
  /\ UNCHANGED <<use, sequence, once, cbguard, vguard, state, op, arg, ret, saved, cb, calls, seen>>

Invoke(t) ==
  /\ at[t] = "invoke"
  /\ IF callback THEN guard!Leave(t) /\ Goto(t, "callback_lock")
                 ELSE UNCHANGED view /\ Goto(t, "after")
  /\ UNCHANGED <<use, sequence, once, cbguard, vguard, state, op, arg, ret, saved, cb, calls, seen>>

\* The callback reads the flag.
StartCallback(t) ==
  /\ at[t] = "callback_lock" /\ cbguard = None
  /\ cbguard' = t /\ ret' = [ret EXCEPT ![t] = "callback_done"] /\ Goto(t, "get")
  /\ UNCHANGED <<use, sequence, once, view, vguard, state, op, arg, saved, cb, calls, seen>>

\* (wrong) the callback's guard is not released
CallbackKeepsGuard(t) ==
  /\ at[t] = "callback_done" /\ Goto(t, "relock")
  /\ UNCHANGED <<use, sequence, once, view, cbguard, vguard, state, op, arg, ret, saved, cb, calls,
                 seen>>

CallbackDone(t) ==
  /\ at[t] = "callback_done" /\ Goto(t, "relock")
  /\ cbguard' = None
  /\ UNCHANGED <<use, sequence, once, view, vguard, state, op, arg, ret, saved, cb, calls, seen>>

\* (wrong) the guard is not taken again after the callback
RelockNot(t) ==
  /\ at[t] = "relock"
  /\ Goto(t, "after")
  /\ UNCHANGED <<use, sequence, once, view, cbguard, vguard, state, op, arg, ret, saved, cb, calls,
                 seen>>

Relock(t) ==
  /\ at[t] = "relock" /\ guard!Take(t) /\ view'[t] = "Exclusive"
  /\ Goto(t, "after")
  /\ UNCHANGED <<use, sequence, once, cbguard, vguard, state, op, arg, ret, saved, cb, calls, seen>>

\* The part of each call after StoreValue.
AfterStore(t) ==
  /\ at[t] = "after"
  /\ modified' = CASE op[t] = "SET_FLAGS_DEFAULT" -> FALSE
                   [] op[t] = "RestoreState" -> saved[t].modified
                   [] OTHER -> modified
  /\ on_command_line' \in
       CASE op[t] = "RestoreState" -> {saved[t].on_command_line}
         [] op[t] = "SET_FLAGS_VALUE" -> {on_command_line, TRUE}   \* as source is kCommandLine or not
         [] OTHER -> {on_command_line}
  /\ Goto(t, "unlock")
  /\ UNCHANGED <<use, sequence, once, view, cbguard, vguard, default, callback, validator, op, arg, ret,
                 saved, cb, calls, seen>>

Exit(t) ==
  /\ at[t] = "unlock"
  /\ view' = [view EXCEPT ![t] = "none"] /\ Goto(t, "idle")
  /\ UNCHANGED <<use, sequence, once, cbguard, vguard, state, op, arg, ret, saved, cb, calls, seen>>

\* user_validate under the shared guard: validator_->guard is taken and the function that
\* was copied is called, which may get the flag.
user_validate(t) ==
  /\ at[t] = "inside" /\ op[t] = "user_validate" /\ vguard = None
  /\ vguard' = t /\ ret' = [ret EXCEPT ![t] = "validator_done"]
  /\ Goto(t, IF cb[t] = "unset" THEN "wild" ELSE IF use.gets THEN "get" ELSE "validator_done")
  /\ UNCHANGED <<use, sequence, once, view, cbguard, state, op, arg, saved, cb, calls, seen>>

ValidateDone(t) ==
  /\ at[t] = "validator_done" /\ Goto(t, "unlock")
  /\ vguard' = None
  /\ UNCHANGED <<use, sequence, once, view, cbguard, state, op, arg, ret, saved, cb, calls, seen>>

-----------------------------------------------------------------------------
Step(t) ==
  \/ GetFast(t) \/ ReadWord(t) \/ ReadDone(t) \/ Read(t) \/ SlowRead(t) \/ SlowReadDone(t)
  \/ Enter(t) \/ Perform(t) \/ SetFunc(t) \/ BeginStore(t) \/ StoreWord(t) \/ EndStore(t)
  \/ Invoke(t) \/ StartCallback(t) \/ CallbackDone(t) \/ Relock(t) \/ AfterStore(t) \/ Exit(t)
  \/ user_validate(t) \/ ValidateDone(t)

Initialize == StartInit \/ InitWord \/ FinishInit

FlagNext ==
  \/ Initialize
  \/ \E t \in Readers : Step(t) \/ \E o \in use.ops, v \in Values \cup {Bad} : Call(t, o, v)

-----------------------------------------------------------------------------
\* SequenceLock requires that calls of Write and IncrementModificationCount are kept
\* apart: whoever stores is alone, although callbacks release and retake the guard.  No
\* validator runs meanwhile, which holds the guard too.
StoresApart ==
  /\ \A t \in Readers : at[t] = "store" => writing = None /\ once = "done"
  /\ \A t, u \in Readers :
       at[t] \in {"store", "storing", "after"} /\ u # t =>
         at[u] \notin {"inside", "set_func", "store", "storing", "after"} /\ vguard # u

\* RestoreState does nothing when the counter is the saved one: then the value is, too.  So
\* are modified_ and on_command_line_, unless there is a callback: while it runs, between a
\* store and what the call does after it, others save what the call then changes.
CounterMeansUnchanged ==
  \A t \in Readers : saved[t] # None /\ saved[t].counter = modification_count =>
    /\ (\A u \in Readers : at[u] # "storing") => value = saved[t].value
    /\ ~callback => /\ modified = saved[t].modified
                    /\ on_command_line = saved[t].on_command_line

\* When all calls have returned, the callback has seen the value the flag now has, in
\* whatever order stores and callbacks of several threads took place.
CallbackSeesLast ==
  callback /\ (\A t \in Readers : at[t] = "idle") => seen = value

\* Every call returns, callbacks, validators and the slow path of reads included.
CallsReturn == \A t \in Readers : at[t] # "idle" ~> at[t] = "idle"

\* "Callback can get a value of the flag if necessary" (flag.cc:544, of the validator): then
\* user_validate() returns.
ValidatorsReturn ==
  \A t \in Readers : (at[t] # "idle" /\ op[t] = "user_validate") ~> at[t] = "idle"
=============================================================================
