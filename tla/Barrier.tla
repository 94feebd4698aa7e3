------------------------------ MODULE Barrier ------------------------------
(***************************************************************************)
(* turbo::Barrier (turbo/synchronization/barrier.h, barrier.cc) over the   *)
(* contract of its Mutex, module CriticalRegion, which module Mutex is     *)
(* shown to implement.  num_threads callers call Block() once each, and    *)
(* the one that gets true deletes the barrier, as the class comment says.  *)
(***************************************************************************)
EXTENDS Integers, FiniteSets

CONSTANTS Threads, None

VARIABLES
  view, want, truth,            \* lock_, as its callers see it
  num_to_block, num_to_exit,
  pc, result,                   \* per thread: location, what Block() returned
  alive                         \* has the barrier not been deleted?

region == <<view, want, truth>>
own == <<num_to_block, num_to_exit, pc, result, alive>>
vars == <<region, own>>

lock == INSTANCE CriticalRegion WITH Conds <- {"IsZero"}

Locations == {"idle", "entering", "counting", "await", "blocked", "exiting", "unlock", "out"}

Wish(cond) == [how |-> "Exclusive", cond |-> cond, timed |-> FALSE, cv |-> FALSE]

TypeOK ==
  /\ view \in [Threads -> lock!Modes]
  /\ want \in [Threads -> lock!Wishes \cup {None}]
  /\ truth \in SUBSET {"IsZero"}
  /\ num_to_block \in 0..Cardinality(Threads)
  /\ num_to_exit \in 0..Cardinality(Threads)
  /\ pc \in [Threads -> Locations]
  /\ result \in [Threads -> BOOLEAN]
  /\ alive \in BOOLEAN

\* The constructor, for as many threads as call Block().
Init ==
  /\ lock!Init
  /\ num_to_block = Cardinality(Threads)
  /\ num_to_exit = Cardinality(Threads)
  /\ pc = [t \in Threads |-> "idle"]
  /\ result = [t \in Threads |-> FALSE]
  /\ alive = TRUE

Goto(t, where) == pc' = [pc EXCEPT ![t] = where]

-----------------------------------------------------------------------------
(* Block(), from MutexLock to the end of its scope. *)

Block(t) ==
  /\ pc[t] = "idle"
  /\ lock!Ask(t) /\ want'[t] = Wish(None)
  /\ Goto(t, "entering")
  /\ UNCHANGED <<num_to_block, num_to_exit, result, alive>>

Enter(t) ==
  /\ pc[t] = "entering"
  /\ lock!Get(t)
  /\ Goto(t, "counting")
  /\ UNCHANGED <<num_to_block, num_to_exit, result, alive>>

\* (wrong) the condition is tested before the decrement
CountInQuiet(t) ==
  /\ pc[t] = "counting"
  /\ num_to_block' = num_to_block - 1
  /\ lock!Write(t) /\ truth' = IF num_to_block = 0 THEN {"IsZero"} ELSE {}
  /\ Goto(t, "await")
  /\ UNCHANGED <<num_to_exit, result, alive>>

\* The decrement of num_to_block_, which may make the condition true.
CountIn(t) ==
  /\ pc[t] = "counting"
  /\ num_to_block' = num_to_block - 1
  /\ lock!Write(t) /\ truth' = IF num_to_block' = 0 THEN {"IsZero"} ELSE {}
  /\ Goto(t, "await")
  /\ UNCHANGED <<num_to_exit, result, alive>>

\* (wrong) the caller goes on without evaluating the condition
AwaitNothing(t) ==
  /\ pc[t] = "await"
  /\ Goto(t, "exiting")
  /\ UNCHANGED <<region, num_to_block, num_to_exit, result, alive>>

\* lock_.Await(Condition(IsZero, &num_to_block_))
Await(t) ==
  /\ pc[t] = "await"
  /\ IF "IsZero" \in truth
     THEN Goto(t, "exiting") /\ UNCHANGED region
     ELSE lock!Suspend(t) /\ want'[t] = Wish("IsZero") /\ Goto(t, "blocked")
  /\ UNCHANGED <<num_to_block, num_to_exit, result, alive>>

Resume(t) ==
  /\ pc[t] = "blocked"
  /\ lock!Get(t)
  /\ Goto(t, "exiting")
  /\ UNCHANGED <<num_to_block, num_to_exit, result, alive>>

\* The decrement of num_to_exit_ and the value to return.
CountOut(t) ==
  /\ pc[t] = "exiting"
  /\ num_to_exit' = num_to_exit - 1
  /\ result' = [result EXCEPT ![t] = (num_to_exit' = 0)]
  /\ Goto(t, "unlock")
  /\ UNCHANGED <<region, num_to_block, alive>>

Return(t) ==
  /\ pc[t] = "unlock"
  /\ lock!Leave(t)
  /\ Goto(t, "out")
  /\ UNCHANGED <<num_to_block, num_to_exit, result, alive>>

\* "if (barrier->Block()) delete barrier;"
Delete(t) ==
  /\ pc[t] = "out" /\ result[t] /\ alive
  /\ alive' = FALSE
  /\ UNCHANGED <<region, num_to_block, num_to_exit, pc, result>>

Step(t) ==
  \/ Block(t) \/ Enter(t) \/ CountIn(t) \/ Await(t) \/ Resume(t) \/ CountOut(t)
  \/ Return(t) \/ Delete(t)

Next == \E t \in Threads : Step(t)

Spec == Init /\ [][Next]_vars

-----------------------------------------------------------------------------
\* "no call to Block() will return until num_threads threads have called it".
Together ==
  \A t, u \in Threads :
    pc[t] \in {"exiting", "unlock", "out"} => pc[u] \notin {"idle", "entering", "counting"}

\* "Exactly one call to Block() will return true": never two, and one when all have
\* returned.
OneDeleter ==
  /\ \A t, u \in Threads : result[t] /\ result[u] => t = u
  /\ (\A t \in Threads : pc[t] = "out") => Threads = {} \/ \E t \in Threads : result[t]

\* "all other threads in the barrier have exited the Wait() and have released the
\* Mutex so this thread is free to delete the barrier" (barrier.cc:46-48).
SafeToDelete == ~alive => \A t \in Threads : pc[t] = "out"

\* Every participant is through and the barrier is deleted.
AllThrough == ~alive /\ \A t \in Threads : pc[t] = "out"
=============================================================================
