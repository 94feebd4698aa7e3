---------------------------- MODULE PerThreadSem ----------------------------
(***************************************************************************)
(* The semaphore every thread sleeps on in Mutex and CondVar               *)
(* (turbo/synchronization/internal/per_thread_sem.cc) and the waiters that *)
(* implement it: FutexWaiter, SemWaiter, and the waiters built on a lock   *)
(* and a condition variable (PthreadWaiter, StdcppWaiter, Win32Waiter),    *)
(* which are the same machine.  One thread waits, its identity is posted   *)
(* to by others and ticked by one that looks for idle threads.  What a     *)
(* waiter does under its lock is one step: the lock is released only where *)
(* the thread sleeps.                                                      *)
(***************************************************************************)
EXTENDS Integers

CONSTANTS
  Posters,       \* threads that wake the one that waits
  MaxPosts,      \* bound: posts they make together
  MaxWaits,      \* bound: waits
  MaxTicks,      \* bound: ticks
  kIdlePeriods   \* ticks a thread waits before it counts as idle

VARIABLES
  kind,          \* "futex", "sem" or "condvar": the waiter of this platform
  wakeups,       \* futex_, wakeups_ or wakeup_count_: posts not yet consumed
  sem,           \* the value of sem_
  waiter_count,  \* of the waiters with a condition variable
  ticker, wait_start, is_idle, blocked,   \* of the ThreadIdentity
  wpc, timed, x, first_pass,     \* of the thread that waits: x is the word it loaded
  waits, ok,                     \* history: waits begun, those that returned true
  ppc,           \* of a poster: location
  posts,         \* history: posts made
  tick           \* location of the ticking thread

vars == <<kind, wakeups, sem, waiter_count, ticker, wait_start, is_idle, blocked,
          wpc, timed, x, first_pass, waits, ok, ppc, posts, tick>>

shared == <<kind, wakeups, sem, waiter_count>>
identity == <<ticker, wait_start, is_idle, blocked>>
waiter == <<wpc, timed, x, first_pass, waits, ok>>
others == <<ppc, posts, tick>>

Kinds == {"futex", "sem", "condvar"}

Init ==
  /\ kind \in Kinds
  /\ wakeups = 0 /\ sem = 0 /\ waiter_count = 0
  /\ ticker = 0 /\ wait_start = 0 /\ is_idle = FALSE /\ blocked = 0
  /\ wpc = "out" /\ timed = FALSE /\ x = 0 /\ first_pass = TRUE
  /\ waits = 0 /\ ok = 0
  /\ ppc = [p \in Posters |-> "out"] /\ posts = 0
  /\ tick = "out"

-----------------------------------------------------------------------------
(* The thread that waits *)

\* TurboInternalPerThreadSemWait up to the call of the waiter.
WaitBegin ==
  /\ wpc = "out" /\ waits < MaxWaits
  /\ waits' = waits + 1
  /\ timed' \in BOOLEAN
  /\ wait_start' = IF ticker # 0 THEN ticker ELSE 1
  /\ is_idle' = FALSE /\ blocked' = blocked + 1
  /\ wpc' = IF kind = "condvar" THEN "lock" ELSE "load"
  /\ first_pass' = TRUE
  /\ UNCHANGED <<shared, ticker, x, ok, others>>

\* ... and what it does after it.
WaitEnd ==
  /\ wpc \in {"consumed", "timedout"}
  /\ ok' = ok + (IF wpc = "consumed" THEN 1 ELSE 0)
  /\ blocked' = blocked - 1
  /\ is_idle' = FALSE /\ wait_start' = 0
  /\ wpc' = "out"
  /\ UNCHANGED <<shared, ticker, timed, x, first_pass, waits, others>>

\* MaybeBecomeIdle, on every pass but the first.
MaybeBecomeIdle ==
  is_idle' = (is_idle \/ (~first_pass /\ ticker - wait_start > kIdlePeriods))

\* FutexWaiter::Wait and SemWaiter::Wait: load the word, take one from it.
Load ==
  /\ wpc = "load"
  /\ x' = wakeups
  /\ IF wakeups # 0 THEN wpc' = "cas" /\ UNCHANGED is_idle
     ELSE wpc' = "block" /\ MaybeBecomeIdle
  /\ UNCHANGED <<shared, ticker, wait_start, blocked, timed, first_pass, waits, ok, others>>

\* The compare-exchange; when it fails it loads the word anew.
Cas ==
  /\ wpc = "cas"
  /\ IF wakeups = x
     THEN wakeups' = x - 1 /\ wpc' = "consumed" /\ UNCHANGED <<x, is_idle>>
     ELSE /\ x' = wakeups /\ UNCHANGED wakeups
          /\ IF wakeups # 0 THEN UNCHANGED <<wpc, is_idle>>
             ELSE wpc' = "block" /\ MaybeBecomeIdle
  /\ UNCHANGED <<kind, sem, waiter_count, ticker, wait_start, blocked, timed, first_pass,
                 waits, ok, others>>

\* (wrong) the kernel is not told which value of the word to sleep on
BlockAnyway ==
  /\ wpc = "block"
  /\ wpc' = IF kind = "sem" /\ sem > 0 THEN "load" ELSE "asleep"
  /\ sem' = IF kind = "sem" /\ sem > 0 THEN sem - 1 ELSE sem
  /\ first_pass' = FALSE
  /\ UNCHANGED <<kind, wakeups, waiter_count, identity, timed, x, waits, ok, others>>

\* FUTEX_WAIT sleeps if the word is 0; sem_wait sleeps if the semaphore is.
Block ==
  /\ wpc = "block"
  /\ \/ kind = "futex" /\ wpc' = (IF wakeups = 0 THEN "asleep" ELSE "load") /\ UNCHANGED sem
     \/ kind = "sem" /\ sem > 0 /\ wpc' = "load" /\ sem' = sem - 1
     \/ kind = "sem" /\ sem = 0 /\ wpc' = "asleep" /\ UNCHANGED sem
  /\ first_pass' = FALSE
  /\ UNCHANGED <<kind, wakeups, waiter_count, identity, timed, x, waits, ok, others>>

\* The waiters with a lock, from taking it to releasing it: at the return, or in the
\* wait on the condition variable.
LockedWait ==
  /\ wpc \in {"lock", "relock"}
  /\ IF wakeups > 0
     THEN /\ wakeups' = wakeups - 1 /\ wpc' = "consumed"
          /\ waiter_count' = IF wpc = "lock" THEN waiter_count ELSE waiter_count - 1
          /\ UNCHANGED <<is_idle, first_pass>>
     ELSE /\ wpc' = "asleep" /\ first_pass' = FALSE
          /\ waiter_count' = IF wpc = "lock" THEN waiter_count + 1 ELSE waiter_count
          /\ MaybeBecomeIdle
          /\ UNCHANGED wakeups
  /\ UNCHANGED <<kind, sem, ticker, wait_start, blocked, timed, x, waits, ok, others>>

\* Awake(sleeper) of a wake-up call, a signal handler or a spurious return.
AfterSleep == IF kind = "condvar" THEN "relock" ELSE "load"

\* FUTEX_WAIT interrupted, or a condition variable that returns for no reason;
\* sem_wait is called again.
Spurious ==
  /\ wpc = "asleep" /\ kind # "sem"
  /\ wpc' = AfterSleep
  /\ UNCHANGED <<shared, identity, timed, x, first_pass, waits, ok, others>>

TimedOut ==
  /\ wpc = "asleep" /\ timed
  /\ wpc' = "timedout"
  /\ waiter_count' = IF kind = "condvar" THEN waiter_count - 1 ELSE waiter_count
  /\ UNCHANGED <<kind, wakeups, sem, identity, timed, x, first_pass, waits, ok, others>>

-----------------------------------------------------------------------------
(* The others *)

\* Poke: FUTEX_WAKE, sem_post or, when somebody waits, a signal to the condition
\* variable.  A sem_post hands the unit to a thread that sleeps on the semaphore.
Wake ==
  /\ wpc' = IF wpc = "asleep" /\ (kind = "condvar" => waiter_count # 0) THEN AfterSleep ELSE wpc
  /\ sem' = IF kind = "sem" /\ wpc # "asleep" THEN sem + 1 ELSE sem

\* Post of a waiter with a lock; the first half of the other two.
Post(p) ==
  /\ ppc[p] = "out" /\ posts < MaxPosts
  /\ posts' = posts + 1
  /\ wakeups' = wakeups + 1
  /\ IF kind = "condvar" THEN Wake /\ UNCHANGED ppc
     ELSE /\ ppc' = [ppc EXCEPT ![p] = IF wakeups = 0 THEN "poke" ELSE "out"]
          /\ UNCHANGED <<wpc, sem>>
  /\ UNCHANGED <<kind, waiter_count, identity, timed, x, first_pass, waits, ok, tick>>

\* ... the second: the word was 0, somebody may sleep.
PostPoke(p) ==
  /\ ppc[p] = "poke"
  /\ ppc' = [ppc EXCEPT ![p] = "out"]
  /\ Wake
  /\ UNCHANGED <<kind, wakeups, waiter_count, identity, timed, x, first_pass, waits, ok, posts, tick>>

\* Tick: count, and decide whether the thread that waits should look again.
Tick ==
  /\ tick = "out" /\ ticker < MaxTicks
  /\ ticker' = ticker + 1
  /\ tick' = IF wait_start # 0 /\ ticker' - wait_start > kIdlePeriods /\ ~is_idle
             THEN "poke" ELSE "out"
  /\ UNCHANGED <<shared, wait_start, is_idle, blocked, waiter, ppc, posts>>

TickPoke ==
  /\ tick = "poke"
  /\ tick' = "out"
  /\ Wake
  /\ UNCHANGED <<kind, wakeups, waiter_count, identity, timed, x, first_pass, waits, ok, ppc, posts>>

WaiterStep == WaitEnd \/ Load \/ Cas \/ Block \/ LockedWait
PosterStep(p) == PostPoke(p)

Next ==
  \/ WaitBegin \/ WaiterStep \/ Spurious \/ TimedOut
  \/ \E p \in Posters : Post(p) \/ PostPoke(p)
  \/ Tick \/ TickPoke

Spec == Init /\ [][Next]_vars /\ WF_vars(WaiterStep) /\ \A p \in Posters : WF_vars(PosterStep(p))

-----------------------------------------------------------------------------
\* What Mutex assumes of its semaphore: a post is consumed by exactly one wait that
\* returns true, none is lost when a wait times out, and a thread does not sleep while
\* there is a post for it unless the call that will wake it is still to come.
NoPostLost ==
  /\ posts = wakeups + ok + (IF wpc = "consumed" THEN 1 ELSE 0)
  /\ wpc = "asleep" /\ wakeups > 0 => \E p \in Posters : ppc[p] = "poke"
  /\ wpc = "asleep" => sem = 0
  /\ waiter_count = (IF kind = "condvar" /\ wpc \in {"asleep", "relock"} THEN 1 ELSE 0)
  /\ is_idle => wpc # "out" /\ wait_start # 0
  /\ blocked = IF wpc = "out" THEN 0 ELSE 1

\* A thread that waits while there is a post for it returns.
WaitReturns == (wpc # "out" /\ wakeups > 0) ~> (wpc = "out")
=============================================================================
