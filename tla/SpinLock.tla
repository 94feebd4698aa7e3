------------------------------ MODULE SpinLock ------------------------------
(***************************************************************************)
(* turbo::base_internal::SpinLock (turbo/base/internal/spinlock.h and .cc) *)
(* on the Linux futex of spinlock_linux.inc, whose FUTEX_WAIT has no       *)
(* timeout: a wakeup that is lost is lost for good.                        *)
(*                                                                         *)
(* The lock word holds the held bit and, in its upper bits, a wait field:  *)
(* 0, or Sleeper ("wake somebody when you unlock"), or the time its holder *)
(* waited, which also makes Unlock wake somebody.  The cooperative bit     *)
(* never changes and DisableRescheduling() returns false in this code      *)
(* base, so neither bit is part of the word here.  Every load and          *)
(* compare-exchange of the word is a step of its own.                      *)
(***************************************************************************)
EXTENDS Integers, FiniteSets

CONSTANTS
  Threads,
  MaxWaitTime,   \* kMaxWaitTime: the largest value of the wait field, 2^29 - 1
  Elapsed,       \* differences of the cycle clock, in units of 2^7 cycles
  MaxCalls       \* bound: calls of Lock and TryLock per thread

ASSUME SpinLockAssumption ==
  /\ MaxWaitTime \in Nat /\ MaxWaitTime >= 2
  /\ Elapsed \subseteq Int
  /\ MaxCalls \in Nat

VARIABLES
  word,     \* lockword_
  pc, val, cycles,   \* per thread: location, lock_value and wait_cycles
  calls     \* calls made by each thread

vars == <<word, pc, val, cycles, calls>>

Sleeper == 1    \* kSpinLockSleeper, as a value of the wait field
Word == [held : BOOLEAN, wait : 0..MaxWaitTime]
Free == [held |-> FALSE, wait |-> 0]

Locations == {"idle", "try", "tryOnly", "spin", "trySpun", "loop", "retry", "delay",
              "asleep", "respin", "tryRespun", "holding", "wake"}

TypeOK ==
  /\ word \in Word
  /\ pc \in [Threads -> Locations]
  /\ val \in [Threads -> Word]
  /\ cycles \in [Threads -> 0..MaxWaitTime]
  /\ calls \in [Threads -> 0..MaxCalls]

Init ==
  /\ word = Free
  /\ pc = [t \in Threads |-> "idle"]
  /\ val = [t \in Threads |-> Free]
  /\ cycles = [t \in Threads |-> 0]
  /\ calls = [t \in Threads |-> 0]

-----------------------------------------------------------------------------
(* EncodeWaitCycles: the shift left by three bits leaves the low 29 bits of *)
(* the scaled time, also of a negative one, and 0 and Sleeper are avoided.  *)

\* (wrong) a wait of less than 2^7 cycles is stored as it is
EncodeZero(scaled) ==
  (IF scaled < MaxWaitTime THEN scaled ELSE MaxWaitTime) % (MaxWaitTime + 1)

Encode(scaled) ==
  LET least == IF scaled < MaxWaitTime THEN scaled ELSE MaxWaitTime
      clamped == least % (MaxWaitTime + 1)
  IN  CASE clamped = 0       -> Sleeper
        [] clamped = Sleeper -> Sleeper + 1
        [] OTHER             -> clamped

Goto(t, where) == pc' = [pc EXCEPT ![t] = where]

\* What TryLockInternal returns, and what its compare-exchange leaves in the
\* word: the or of fields of which one is zero.
Result(t) == IF val[t].held \/ word = val[t] THEN val[t] ELSE word

Swapped(t) ==
  IF ~val[t].held /\ word = val[t]
  THEN [held |-> TRUE, wait |-> IF cycles[t] = 0 THEN val[t].wait ELSE cycles[t]]
  ELSE word

\* TryLockInternal, called at location at.  Its callers take the lock for theirs
\* when the value returned does not have the held bit, even if that value came
\* from a compare-exchange that failed.
TryLockInternal(t, at, lost) ==
  /\ pc[t] = at
  /\ word' = Swapped(t)
  /\ val' = [val EXCEPT ![t] = Result(t)]
  /\ Goto(t, IF Result(t).held THEN lost ELSE "holding")
  /\ UNCHANGED <<cycles, calls>>

-----------------------------------------------------------------------------
\* Lock and TryLock begin by loading the word.
Call(t, where) ==
  /\ pc[t] = "idle" /\ calls[t] < MaxCalls
  /\ val' = [val EXCEPT ![t] = word]
  /\ cycles' = [cycles EXCEPT ![t] = 0]
  /\ calls' = [calls EXCEPT ![t] = @ + 1]
  /\ Goto(t, where)
  /\ UNCHANGED word

Lock(t) == Call(t, "try")
TryLock(t) == Call(t, "tryOnly")

LockFast(t) == TryLockInternal(t, "try", "spin")
TryLockOnce(t) == TryLockInternal(t, "tryOnly", "idle")

\* SpinLoop, first of SlowLock: the last of its loads.
SpinLoop(t) ==
  /\ pc[t] = "spin"
  /\ val' = [val EXCEPT ![t] = word]
  /\ Goto(t, "trySpun")
  /\ UNCHANGED <<word, cycles, calls>>

LockSpun(t) == TryLockInternal(t, "trySpun", "loop")

\* The body of SlowLock's loop up to the delay: mark the held word as having a
\* sleeper unless it is marked, and try again when it is free meanwhile.
Mark(t) ==
  /\ pc[t] = "loop"
  /\ IF val[t].wait # 0
     THEN Goto(t, "delay") /\ UNCHANGED <<word, val>>
     ELSE IF word = val[t]
     THEN /\ word' = [word EXCEPT !.wait = Sleeper]
          /\ val' = [val EXCEPT ![t].wait = Sleeper]
          /\ Goto(t, "delay")
     ELSE /\ val' = [val EXCEPT ![t] = word]
          /\ Goto(t, IF ~word.held THEN "retry" ELSE IF word.wait = 0 THEN "loop" ELSE "delay")
          /\ UNCHANGED word
  /\ UNCHANGED <<cycles, calls>>

LockRetry(t) == TryLockInternal(t, "retry", "loop")

\* SpinLockDelay: FUTEX_WAIT sleeps if the word still has the value seen.
Delay(t) ==
  /\ pc[t] = "delay"
  /\ Goto(t, IF word = val[t] THEN "asleep" ELSE "respin")
  /\ UNCHANGED <<word, val, cycles, calls>>

\* FUTEX_WAIT may return without a wakeup (a signal was handled).
Interrupted(t) ==
  /\ pc[t] = "asleep"
  /\ Goto(t, "respin")
  /\ UNCHANGED <<word, val, cycles, calls>>

\* The SpinLoop after the delay, and the time waited so far.
SpinAgain(t) ==
  /\ pc[t] = "respin"
  /\ val' = [val EXCEPT ![t] = word]
  /\ \E e \in Elapsed : cycles' = [cycles EXCEPT ![t] = Encode(e)]
  /\ Goto(t, "tryRespun")
  /\ UNCHANGED <<word, calls>>

LockRespun(t) == TryLockInternal(t, "tryRespun", "loop")

\* (wrong) the exchange clears only the held bit
UnlockKeepingWait(t) ==
  /\ pc[t] = "holding"
  /\ val' = [val EXCEPT ![t] = word]
  /\ word' = [word EXCEPT !.held = FALSE]
  /\ Goto(t, IF word.wait # 0 THEN "wake" ELSE "idle")
  /\ UNCHANGED <<cycles, calls>>

\* Unlock: the exchange, which returns the wait field.
Unlock(t) ==
  /\ pc[t] = "holding"
  /\ val' = [val EXCEPT ![t] = word]
  /\ word' = Free
  /\ Goto(t, IF word.wait # 0 THEN "wake" ELSE "idle")
  /\ UNCHANGED <<cycles, calls>>

\* SlowUnlock: FUTEX_WAKE of one sleeper, if there is one.
SlowUnlock(t) ==
  /\ pc[t] = "wake"
  /\ \/ /\ \A u \in Threads : pc[u] # "asleep"
        /\ Goto(t, "idle")
     \/ \E u \in Threads :
          pc[u] = "asleep" /\ pc' = [pc EXCEPT ![t] = "idle", ![u] = "respin"]
  /\ UNCHANGED <<word, val, cycles, calls>>

-----------------------------------------------------------------------------
Step(t) ==
  \/ LockFast(t) \/ TryLockOnce(t) \/ SpinLoop(t) \/ LockSpun(t) \/ Mark(t) \/ LockRetry(t)
  \/ Delay(t) \/ SpinAgain(t) \/ LockRespun(t) \/ Unlock(t) \/ SlowUnlock(t)

Next ==
  \E t \in Threads : Lock(t) \/ TryLock(t) \/ Interrupted(t) \/ Step(t)

Spec == Init /\ [][Next]_vars

-----------------------------------------------------------------------------
\* Lock() admits one thread at a time, although TryLockInternal's callers only
\* look at the held bit of a value that may come from a failed compare-exchange.
Exclusion ==
  \A t, u \in Threads : pc[t] = "holding" /\ pc[u] = "holding" => t = u

\* The invariant stated at SpinLock::lockword_ ("if the lock is not held, the
\* value is either 0 or kSpinLockCooperative"), and its converse: the held bit is
\* set exactly while a thread is between a successful TryLockInternal and Unlock.
HeldByHolder ==
  /\ ~word.held => word = Free
  /\ word.held <=> \E t \in Threads : pc[t] = "holding"

\* A thread that was woken, or is about to wake or to be refused by the futex:
\* whatever it does next, it marks the word or hands a wakeup on.
Caretaker(t) ==
  \/ pc[t] \in {"wake", "respin"}
  \/ pc[t] \in {"tryRespun", "loop", "retry", "delay"} /\ cycles[t] # 0

\* A thread sleeps in FUTEX_WAIT only while the holder's word makes Unlock wake
\* one, or somebody else is bound to: EncodeWaitCycles must never store a zero.
NoLostWakeup ==
  (\E t \in Threads : pc[t] = "asleep")
    => word.wait # 0 \/ \E t \in Threads : Caretaker(t)

\* SlowUnlock reports contention only for a holder that waited, and reports that
\* holder's own time: a sleeper's mark never overwrites or imitates it.
ProfileHonest ==
  \A t \in Threads :
    pc[t] = "wake" /\ val[t].wait # Sleeper => val[t].wait = cycles[t]

\* What every thread's copy of the word can be: it is never a free word with a wait
\* field, so a failed compare-exchange cannot pass for an acquisition; the loop is
\* entered only with the held bit seen, and the futex only with a mark seen.
CopiesSound ==
  \A t \in Threads :
    /\ ~val[t].held => val[t] = Free
    /\ pc[t] \in {"loop", "delay", "asleep"} => val[t].held
    /\ pc[t] \in {"delay", "asleep"} => val[t].wait # 0
    /\ pc[t] = "holding" /\ word.wait \notin {0, Sleeper} => word.wait = cycles[t]

\* The conjunction is inductive: exclusion rests on the shape of a free word, and
\* the wakeups on what a thread has seen before it sleeps.
SpinLockInv ==
  /\ TypeOK /\ Exclusion /\ HeldByHolder /\ CopiesSound /\ NoLostWakeup /\ ProfileHonest
=============================================================================
