----------------------------- MODULE MutexUsers -----------------------------
(***************************************************************************)
(* Classes built on Mutex: a Barrier, a BlockingCounter, a Notification,   *)
(* the guards of a SlotsLock or a DelegateSimpleThreadPool.  Which of them *)
(* the threads use is chosen initially; the variables of the others have   *)
(* no value.                                                               *)
(***************************************************************************)
EXTENDS Rendezvous, Sequences

CONSTANTS
  PoolThreads,       \* the workers of the pool, in the order they are started
  MaxWork, MaxRounds

ASSUME PoolAssumption ==
  /\ PoolThreads # <<>> /\ PoolThreads \in Seq({PoolThreads[i] : i \in DOMAIN PoolThreads})
  /\ \A i, j \in DOMAIN PoolThreads : PoolThreads[i] = PoolThreads[j] => i = j
  /\ MaxWork \in Nat /\ MaxRounds \in Nat

VARIABLES
  using,
  delegates, dry, pool_owner, threads, at, work, event, added, outstanding, zero,
  runs, rounds                                  \* of the pool

ThreeWorkers == <<1, 2, 3>>

pool == INSTANCE ThreadPool WITH Workers <- PoolThreads, owner <- pool_owner

lock_ == <<view, want, truth>>
slots_ == <<hash_factor, owner, keys, wanted>>
barrier_ == <<num_to_block, num_to_exit>>
counter_ == <<count, num_waiting, initial_count>>
notification_ == <<prenotify, timed>>
pool_ ==
  <<delegates, dry, pool_owner, threads, at, work, event, added, outstanding, zero, runs, rounds>>
users_vars ==
  <<using, pc, lock_, slots_, barrier_, counter_, notification_, result, alive, pool_>>

NoSlots == hash_factor = None /\ owner = None /\ keys = None /\ wanted = None
NoBarrier == num_to_block = None /\ num_to_exit = None
NoCounter == count = None /\ num_waiting = None /\ initial_count = None
NoNotification == prenotify = None /\ timed = None
NoPool ==
  /\ delegates = None /\ dry = None /\ pool_owner = None /\ threads = None /\ at = None
  /\ work = None /\ event = None /\ added = None /\ outstanding = None
  /\ zero = None /\ runs = None /\ rounds = None
NoLock == view = None /\ want = None /\ truth = None

UsersInit ==
  \/ /\ using = "SlotsLock" /\ Init
     /\ NoBarrier /\ NoCounter /\ NoNotification /\ NoPool
     /\ NoLock /\ result = None /\ alive = None
  \/ /\ using = "Barrier" /\ barrier!Init
     /\ NoSlots /\ NoCounter /\ NoNotification /\ NoPool
  \/ /\ using = "BlockingCounter" /\ counter!Init
     /\ NoSlots /\ NoBarrier /\ NoNotification /\ NoPool /\ result = None
  \/ /\ using = "Notification" /\ notification!Init
     /\ NoSlots /\ NoBarrier /\ NoCounter /\ NoPool /\ alive = None
  \/ /\ using = "ThreadPool" /\ pool!Init /\ pc = [t \in Threads |-> "idle"]
     /\ NoSlots /\ NoBarrier /\ NoCounter /\ NoNotification
     /\ NoLock /\ result = None /\ alive = None

UsesSlots ==
  /\ using = "SlotsLock"
  /\ UNCHANGED <<using, lock_, barrier_, counter_, notification_, result, alive, pool_>>
UsesBarrier ==
  using = "Barrier" /\ UNCHANGED <<using, slots_, counter_, notification_, pool_>>
UsesCounter ==
  using = "BlockingCounter" /\ UNCHANGED <<using, slots_, barrier_, notification_, result, pool_>>
UsesNotification ==
  using = "Notification" /\ UNCHANGED <<using, slots_, barrier_, counter_, alive, pool_>>
UsesPool ==
  /\ using = "ThreadPool"
  /\ UNCHANGED <<using, pc, lock_, slots_, barrier_, counter_, notification_, result, alive>>

UsersNext ==
  \/ UsesSlots /\ Next
  \/ UsesBarrier /\ barrier!Next
  \/ UsesCounter /\ counter!Next
  \/ UsesNotification /\ notification!Next
  \/ UsesPool /\ pool!Next

\* Participants arrive, workers finish, the notifier notifies, and the Mutex serves its
\* callers; the workers of a pool are scheduled and their work ends.  Nobody has to guard a
\* key, or to start or join a pool.
UsersFairness ==
  /\ \A t \in Threads : WF_users_vars(UsesBarrier /\ barrier!Step(t))
  /\ WF_users_vars(UsesCounter /\ counter!WaiterStep)
  /\ \A t \in Threads \ {Caller} : WF_users_vars(UsesCounter /\ counter!WorkerStep(t))
  /\ \A t \in Threads : WF_users_vars(UsesNotification /\ notification!Step(t))
  /\ WF_users_vars(UsesPool /\ ~pool!Aborted /\ pool!OwnerStep)
  /\ \A w \in pool!Ids : WF_users_vars(UsesPool /\ ~pool!Aborted /\ pool!WorkerStep(w))

UsersSpec == UsersInit /\ [][UsersNext]_users_vars /\ UsersFairness

-----------------------------------------------------------------------------
\* Whoever may destroy the object after its own call does so only when every other call
\* is out of it, the release of the lock included: the caller of Block() that got true
\* (barrier.cc:46-48), of Wait() (blocking_counter.cc:61-64), and of the destructor of a
\* notification that another thread is still notifying (notification.cc:43-44).  One caller
\* of Block() is told to delete the barrier.
SafeToDestroy ==
  /\ using = "Barrier" => barrier!SafeToDelete /\ barrier!OneDeleter
  /\ using = "BlockingCounter" => counter!SafeToDestroy
  /\ using = "Notification" => notification!SafeToDestroy

\* No wait returns before what it waits for: all threads have called Block(); the count
\* was decremented to zero; there was a notification, unless the timeout has passed.
NobodyEarly ==
  /\ using = "Barrier" => barrier!Together
  /\ using = "BlockingCounter" => counter!ExactCount
  /\ using = "Notification" => notification!NoFalseAlarm /\ notification!HonestTimeout

\* Work given to a pool is run at most once.  What was added before JoinAll() has been run
\* when it returns; what running work adds meanwhile has been run or is left for the next
\* Start() (simple_thread.cc:118-131).  A worker that finds dry_ signaled finds work (:152),
\* unless AddWork() was called with a repeat_count of 0.
WorkDoneOnce == using = "ThreadPool" => pool!WorkDoneOnce

\* Every wait returns, Start() and JoinAll() of a pool too unless the assertion at
\* simple_thread.cc:152 ends the program, and the object is destroyed unless its owner's wait
\* timed out.
WaitsReturn ==
  <>[](/\ using = "Barrier" => barrier!AllThrough
       /\ using = "BlockingCounter" => counter!WaitReturned
       /\ using = "Notification" => notification!AllReturned
       /\ using = "ThreadPool" => pool_owner \in {"idle", "started"} \/ pool!Aborted)
=============================================================================
