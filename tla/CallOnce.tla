------------------------------ MODULE CallOnce ------------------------------
(***************************************************************************)
(* turbo::call_once (turbo/base/call_once.h) and the SpinLockWait loop it  *)
(* waits in (turbo/base/internal/spinlock_wait.cc), on the Linux futex.    *)
(* The DisableRescheduling of LowLevelCallOnce does nothing in this code   *)
(* base, so call_once and LowLevelCallOnce are the same machine.           *)
(***************************************************************************)
EXTENDS Naturals

CONSTANTS
  Threads,
  MaxCalls,     \* bound: calls per thread on the one flag
  MaxThrows     \* bound: how many runs of the function end with an exception

VARIABLES
  control,      \* once_flag::control_
  pc, v,        \* per thread: location and the word SpinLockWait loaded
  calls,        \* per thread: calls made
  throws, runs  \* history: runs that threw, runs that completed

vars == <<control, pc, v, calls, throws, runs>>

Control == {"kOnceInit", "kOnceRunning", "kOnceWaiter", "kOnceDone"}

\* The transitions CallOnceImpl hands to SpinLockWait.
trans == {[from |-> "kOnceInit", to |-> "kOnceRunning", done |-> TRUE],
          [from |-> "kOnceRunning", to |-> "kOnceWaiter", done |-> FALSE],
          [from |-> "kOnceDone", to |-> "kOnceDone", done |-> TRUE]}

Locations == {"idle", "cas", "load", "swap", "delay", "sleeping", "run", "finish", "wake"}

TypeOK ==
  /\ control \in Control
  /\ pc \in [Threads -> Locations]
  /\ v \in [Threads -> Control]
  /\ calls \in [Threads -> 0..MaxCalls]
  /\ throws \in 0..MaxThrows
  /\ runs \in 0..1

Init ==
  /\ control = "kOnceInit"
  /\ pc = [t \in Threads |-> "idle"]
  /\ v = [t \in Threads |-> "kOnceInit"]
  /\ calls = [t \in Threads |-> 0]
  /\ throws = 0 /\ runs = 0

Goto(t, where) == pc' = [pc EXCEPT ![t] = where]

\* call_once and LowLevelCallOnce: nothing to do once the word is kOnceDone.
Call(t) ==
  /\ pc[t] = "idle" /\ calls[t] < MaxCalls
  /\ calls' = [calls EXCEPT ![t] = @ + 1]
  /\ Goto(t, IF control # "kOnceDone" THEN "cas" ELSE "idle")
  /\ UNCHANGED <<control, v, throws, runs>>

\* The short cut of CallOnceImpl.
TryFirst(t) ==
  /\ pc[t] = "cas"
  /\ IF control = "kOnceInit"
     THEN control' = "kOnceRunning" /\ Goto(t, "run")
     ELSE Goto(t, "load") /\ UNCHANGED control
  /\ UNCHANGED <<v, calls, throws, runs>>

\* SpinLockWait: load the word and look it up among the transitions.
WaitLoad(t) ==
  /\ pc[t] = "load"
  /\ v' = [v EXCEPT ![t] = control]
  /\ Goto(t, IF \A tr \in trans : tr.from # control THEN "delay"
             ELSE IF [from |-> control, to |-> control, done |-> TRUE] \in trans THEN "idle"
             ELSE "swap")
  /\ UNCHANGED <<control, calls, throws, runs>>

\* SpinLockWait: the compare-exchange.  The call ends in kOnceInit, which makes this
\* thread run the function, or goes round again.
WaitSwap(t) ==
  /\ pc[t] = "swap"
  /\ \E tr \in trans :
       /\ tr.from = v[t]
       /\ control' = IF control = v[t] THEN tr.to ELSE control
       /\ Goto(t, IF control = v[t] /\ tr.done THEN "run" ELSE "load")
  /\ UNCHANGED <<v, calls, throws, runs>>

\* SpinLockDelay: FUTEX_WAIT sleeps if the word is still the one seen.
Delay(t) ==
  /\ pc[t] = "delay"
  /\ Goto(t, IF control = v[t] THEN "sleeping" ELSE "load")
  /\ UNCHANGED <<control, v, calls, throws, runs>>

\* FUTEX_WAIT may return without a wakeup (a signal was handled).
Interrupted(t) ==
  /\ pc[t] = "sleeping"
  /\ Goto(t, "load")
  /\ UNCHANGED <<control, v, calls, throws, runs>>

\* The function returns.
Invoke(t) ==
  /\ pc[t] = "run"
  /\ runs' = runs + 1
  /\ Goto(t, "finish")
  /\ UNCHANGED <<control, v, calls, throws>>

\* The function throws: the exception leaves CallOnceImpl, nothing else is done.
Throw(t) ==
  /\ pc[t] = "run" /\ throws < MaxThrows
  /\ throws' = throws + 1
  /\ Goto(t, "idle")
  /\ UNCHANGED <<control, v, calls, runs>>

\* (wrong) the sleepers are woken when nobody announced itself, and not otherwise
FinishForgetting(t) ==
  /\ pc[t] = "finish"
  /\ control' = "kOnceDone"
  /\ Goto(t, IF control = "kOnceRunning" THEN "wake" ELSE "idle")
  /\ UNCHANGED <<v, calls, throws, runs>>

\* The exchange with kOnceDone tells whether somebody announced that it waits.
Finish(t) ==
  /\ pc[t] = "finish"
  /\ control' = "kOnceDone"
  /\ Goto(t, IF control = "kOnceWaiter" THEN "wake" ELSE "idle")
  /\ UNCHANGED <<v, calls, throws, runs>>

\* SpinLockWake of all sleepers.
Wake(t) ==
  /\ pc[t] = "wake"
  /\ pc' = [u \in Threads |-> CASE u = t -> "idle"
                                [] u # t /\ pc[u] = "sleeping" -> "load"
                                [] OTHER -> pc[u]]
  /\ UNCHANGED <<control, v, calls, throws, runs>>

Step(t) ==
  \/ TryFirst(t) \/ WaitLoad(t) \/ WaitSwap(t) \/ Delay(t)
  \/ Invoke(t) \/ Finish(t) \/ Wake(t)

Next == \E t \in Threads : Call(t) \/ Interrupted(t) \/ Throw(t) \/ Step(t)

Spec == Init /\ [][Next]_vars

-----------------------------------------------------------------------------
\* Is the function running, or about to, in t's call?
Inside(t) == pc[t] \in {"run", "finish"}

\* "invokes a given fn exactly once across all threads" (call_once.h:55): no second
\* run begins, also not while the first one is on its way to kOnceDone.
OnlyOnce ==
  /\ runs <= 1
  /\ runs = 1 => \A t \in Threads : pc[t] # "run"
  /\ \A t, u \in Threads : Inside(t) /\ Inside(u) => t = u

\* "other calls ... will wait for the provided function to finish running": unless
\* runs throw, a call that was made and is over returned after a completed run.
NobodyEarly ==
  throws = 0 =>
    \A t \in Threads : calls[t] > 0 /\ pc[t] = "idle" => runs = 1

\* Every call of call_once ends, unless a run of the function throws.
ReturnUnlessThrown ==
  <>[](\A t \in Threads : pc[t] = "idle") \/ <>(throws > 0)
=============================================================================
