------------------------------ MODULE LowLevel ------------------------------
(***************************************************************************)
(* What the other primitives are built on: a SpinLock and a once_flag,     *)
(* whose threads sleep in a futex through SpinLockDelay, the semaphore a   *)
(* thread sleeps on in Mutex, and objects made on first use.  Which one    *)
(* the threads use is chosen initially; they have nothing in common but    *)
(* the threads, so that one at a time shows all there is to see.           *)
(***************************************************************************)
EXTENDS SpinLock

CONSTANTS
  MaxThrows,     \* bound: how many runs of the function of call_once throw
  Posters, MaxPosts, MaxWaits, MaxTicks, kIdlePeriods,     \* of PerThreadSem
  SingletonKinds, WeakMayFail, MaxGets, MaxExits,          \* of Singletons
  None

ASSUME LowLevelAssumption ==
  /\ MaxThrows \in Nat /\ MaxPosts \in Nat /\ MaxWaits \in Nat /\ MaxTicks \in Nat
  /\ kIdlePeriods \in Nat /\ WeakMayFail \in BOOLEAN

VARIABLES
  using,
  kind,                        \* of the semaphore or of the object
  control, v, throws, runs,    \* of CallOnce; pc and calls belong to both
  wakeups, sem, waiter_count, ticker, wait_start, is_idle, blocked, wpc, timed, x,
  first_pass, waits, ok, ppc, posts, tick,                 \* of PerThreadSem
  instance, once_flag, dead, stack, alive, made, mine, gets, got, exits,
  spurious                                                 \* of Singletons

once == INSTANCE CallOnce
semaphore == INSTANCE PerThreadSem
object == INSTANCE Singletons WITH Kinds <- SingletonKinds, flag <- once_flag

spin_ == <<word, val, cycles>>
once_ == <<control, v, throws, runs>>
semaphore_ ==
  <<wakeups, sem, waiter_count, ticker, wait_start, is_idle, blocked, wpc, timed, x,
    first_pass, waits, ok, ppc, posts, tick>>
object_ == <<instance, once_flag, dead, stack, alive, made, mine, gets, got, exits, spurious>>
low_vars == <<using, kind, pc, calls, spin_, once_, semaphore_, object_>>

NoSpin == word = None /\ val = None /\ cycles = None
NoOnce == control = None /\ v = None /\ throws = None /\ runs = None
NoSemaphore ==
  /\ wakeups = None /\ sem = None /\ waiter_count = None /\ ticker = None /\ wait_start = None
  /\ is_idle = None /\ blocked = None /\ wpc = None /\ timed = None /\ x = None
  /\ first_pass = None /\ waits = None /\ ok = None /\ ppc = None /\ posts = None
  /\ tick = None
NoObject ==
  /\ instance = None /\ once_flag = None /\ dead = None /\ stack = None /\ alive = None
  /\ made = None /\ mine = None /\ gets = None /\ got = None /\ exits = None
  /\ spurious = None

LowLevelInit ==
  \/ using = "SpinLock" /\ Init /\ NoOnce /\ NoSemaphore /\ NoObject /\ kind = None
  \/ using = "call_once" /\ once!Init /\ NoSpin /\ NoSemaphore /\ NoObject /\ kind = None
  \/ /\ using = "PerThreadSem" /\ semaphore!Init
     /\ Init /\ NoOnce /\ NoObject
  \/ using = "Singleton" /\ object!Init /\ NoSpin /\ NoOnce /\ NoSemaphore /\ calls = None

UsesSpinLock == using = "SpinLock" /\ UNCHANGED <<using, kind, once_, semaphore_, object_>>
UsesCallOnce == using = "call_once" /\ UNCHANGED <<using, kind, spin_, semaphore_, object_>>
UsesSemaphore ==
  using = "PerThreadSem" /\ UNCHANGED <<using, pc, calls, spin_, once_, object_>>
UsesObject == using = "Singleton" /\ UNCHANGED <<using, calls, spin_, once_, semaphore_>>

LowLevelNext ==
  \/ UsesSpinLock /\ Next
  \/ UsesCallOnce /\ once!Next
  \/ UsesSemaphore /\ semaphore!Next
  \/ UsesObject /\ object!Next

\* As in the modules: threads are scheduled, holders unlock, functions end.
LowLevelFairness ==
  /\ \A t \in Threads :
       /\ WF_low_vars(UsesSpinLock /\ Step(t))
       /\ WF_low_vars(UsesCallOnce /\ once!Step(t))
       /\ WF_low_vars(UsesObject /\ object!Step(t))
  /\ WF_low_vars(UsesSemaphore /\ semaphore!WaiterStep)
  /\ \A p \in Posters : WF_low_vars(UsesSemaphore /\ semaphore!PosterStep(p))

LowLevelSpec == LowLevelInit /\ [][LowLevelNext]_low_vars /\ LowLevelFairness

-----------------------------------------------------------------------------
\* call_once runs its function once, and no call of it returns before that run is over.
\* There is one object of a singleton: whoever asks for it gets that one, constructed and
\* not yet destroyed, and at exit it is destroyed once; a compare_exchange_weak that fails
\* for no reason lets Singleton::get make a second one, or leaves a caller with none, but
\* never makes two objects of another kind, nor hands out one that was destroyed.
OnceOnly ==
  /\ using = "call_once" => once!OnlyOnce /\ once!NobodyEarly
  /\ using = "Singleton" => object!OneTrueInstance

\* A post is consumed by exactly one wait that returns true, whatever times out, ticks or
\* wakes up without reason, and nobody sleeps on a post unless its wake-up call is to come.
NoPostLost == using = "PerThreadSem" => semaphore!NoPostLost

\* Every Lock, every wait for which there is a post, every request for a singleton, and
\* every call_once unless a run of its function throws, returns: the futex wakes the
\* sleepers of a spinlock one after the other, those of a flag at once.
AllReturn ==
  \/ <>[](IF using = "PerThreadSem" THEN wpc = "out" \/ wakeups = 0
          ELSE \A t \in Threads : pc[t] = "idle")
  \/ <>(using = "call_once" /\ throws > 0)

\* Differences of the cycle clock: it runs backwards (threads move between processors),
\* or stands still at the resolution of the wait field.
ClockSteps == {-4, 1}
=============================================================================
