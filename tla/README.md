# Verification of turbo

turbo is a C++ base library: synchronization, threading, containers, memory,
flags, strings, time, random numbers, logging and more.  Most of it is
sequential code over strings, numbers and containers that unit tests reach
well.  What they hardly reach is the part whose correctness depends on the
order in which threads take their steps.  This project models that part in
TLA+, checks small instances with TLC, and proves the results that matter most
for every size with TLAPS.

Paths below are relative to `src/turbo/`.  `PROJECT.json` names, for every
definition that models code, the lines it models; lists every part of the
library, modelled or not; and lists the hazards the properties are aimed at.

## 1. The system

### 1.1 Parts and how they interact

```
 flags, log     FlagImpl ----> SequenceLock          VLogConfig (VKLOG sites)
                   |  \------> call_once                |
                   v                                    v
 classes on     Mutex/CondVar <---- Barrier  BlockingCounter  Notification
 a Mutex           |   |   \                    cord sampling, sample recorder
                   |   |    \--> deadlock detector --> GraphCycles
                   |   \-------> PerThreadSem --> futex, semaphore, pthreads
                   v
 base           SpinLock    call_once  ------> SpinLockDelay / futex
                singletons, lazy instances --> AtExitManager

 containers     MPSCQueue        DoublyBufferedData --> WrapperTLSGroup, pthreads
                Swiss tables     B-trees   FlatMap   ring queues    (one thread)
                caches                                              (std::mutex)
 memory         ResourcePool, ObjectPool                              (pthreads)
 threading      thread pool --> WaitableEvent
                ThreadKey/ThreadLocal    ThreadLocalStorage
 std::mutex     SlotsLock and its guards
```

| Part | State | Operations | What is hard about it |
|---|---|---|---|
| `base/internal/spinlock.*` SpinLock | one word: held, sleepers, wait time | Lock, TryLock, Unlock, SlowLock, SlowUnlock | the word tells an unlocker whether anyone sleeps; waits have no timeout |
| `base/call_once.h`, `spinlock_wait.cc` | control word | call_once, SpinLockWait | losers look, announce themselves and sleep while the winner finishes; functions that throw |
| `synchronization/mutex.*` Mutex, CondVar | words `mu_`, `cv_`; waiter lists; one record and semaphore per thread | Lock, TryLock, Unlock in two modes, LockWhen, Await, timeouts, Wait, Signal, SignalAll, EnableDebugLog | lists walked without the lock that adds to them; conditions evaluated by other threads; timeouts racing with wakeups; waiters moved between lists |
| `synchronization/{barrier,blocking_counter,notification}.*` | counters and flags under a Mutex, partly read without it | Block; DecrementCount, Wait; Notify, WaitFor..., destructors | the object may be destroyed as soon as a call returns |
| `synchronization/slots_locker.h` SlotsLock | a pool of mutexes, a hash function | lock guards for sets of keys | lock order; keys that share a mutex |
| `container/mpsc_queue.h` MPSCQueue | exchange-based list, two consumer lists | Enqueue, Dequeue | unconnected nodes; addresses used again |
| `container/doubly_buffered_data.h` | two copies, an index, a wrapper per thread, ids | Read, Modify, thread exit, construction and destruction | flips while readers read; ids used again; waits under two mutexes |
| `memory/resource_pool_inl.h` (and object_pool) | groups of blocks, free chunks, local pools | get, return, address, clear, thread exit | lock-free growth; limits; chunks moving between threads |
| `threading/waitable_event_posix.cc` | flag and waiters per event, waiter objects on stacks | Signal, Reset, Wait, TimedWait, WaitMany | two kinds of locks; timeouts racing with signals |
| `threading/thread_key.*` | ids, sequence numbers, data per thread | key create, delete, set, get; ThreadLocal | ids used again while threads keep data |
| `threading/internal/thread_local_storage*.cc` | one native key, a vector per thread, a mark | Initialize, Free, Get, Set, thread exit | several threads make the native key |
| `synchronization/internal/per_thread_sem.*`, waiters | a count and sleepers, in four implementations | Post, Wait, Poke, Tick | a post between look and sleep; timeouts; interrupted sleeps |
| `synchronization/internal/graphcycles.cc`, DeadlockCheck in `mutex.cc` | graph of lock orders with ranks | GetId, RemoveNode, InsertEdge; LockEnter, LockLeave | ranks are repaired locally; nodes are used again |
| `memory/{singleton,lazy_instance,leaky_singleton}.*`, `base/at_exit.cc` | a word: null, being made, pointer | get, destruction at exit | losers spin; spurious failures; destruction and new use |
| `strings/internal/cordz_{handle,info}.*` | list of sampled cords, delete queue | track, untrack, snapshots, iteration | readers keep deleted records alive |
| `profiling/internal/sample_recorder.h` | stack of samples, graveyard, counts | Register, Unregister, Iterate, SetMaxSamples | push without a lock; samples used again while iterated |
| `log/internal/vlog_config.*` | list of sites, levels, patterns | first use of a site, changes of levels | list and levels are atomics without a lock |
| `threading/simple_thread.cc` pool | queue of work, an event | Start, AddWork, JoinAll, Run | workers woken for work that others took |
| `container/internal/raw_hash_set.*` | control bytes and slots | insert, find, erase, clear, rehash, reserve, copy | deleted marks, wraparound, rehash in place |
| `container/internal/btree.h` | nodes | insert with and without hint, erase, ranges, erase_if, copy | splits and merges; iterators that survive them |
| `container/flat_map*.h`, `internal/bit_array.h` | chained buckets, a bit array | insert, erase, clear, resize, assignment, iteration in passes | insertions that resize; hints that outlive their element |
| `container/cache/*` | a map and a policy's order | put, get, remove, prune | the two must agree about every key |
| `container/{bounded,circular}_queue.h` | a ring of slots | push and pop at both ends, overrun, clear, swap, move | wrapping round; full and empty |
| `flags/internal/{flag,sequence_lock}.*` | value, default, counter, guards | get, Write, parse, Save/RestoreState, callbacks, validators | reads without lock; the guard released in the middle of a store |

The remaining parts are in `PROJECT.json` with the reason why they are not
modelled (section 7).

### 1.2 Modules

One module per component, named after it.  Three kinds of composition:

* **A component over the contract of another.**  `CriticalRegion` is the
  abstract specification of Mutex and CondVar: a reader-writer lock with
  conditions, timeouts and signals.  `Mutex` is shown to implement it
  (`ImplementsRegion`), and `Barrier`, `BlockingCounter`, `Notification` and
  `FlagImpl` use its actions in place of their mutex.
* **A component over another in full.**  `FlagImpl` extends `SequenceLock` and
  drives its variables word by word; `DeadlockDetector` uses `GraphCycles`.
* **Alternatives side by side.**  `Containers`, `LowLevel`, `MutexUsers`,
  `ThreadData`, `LockedObjects` and `Flags` contain several components that share
  nothing but the threads.  Each extends one or two of them and takes the others
  with INSTANCE (`MutexUsers` through `Rendezvous`, which holds the three classes
  whose proofs share a module).  A variable `using` (or `use`) chosen initially says
  which one runs; the others stay still.  A behaviour is a behaviour of one
  component.

| Module | Models | Run |
|---|---|---|
| `MPSCQueue`, `DoublyBufferedData`, `RawHashSet`, `BTree`, `FlatMap`, `Cache`, `RingQueues`, `Containers` | MPSCQueue; Read and Modify; Swiss tables; B-trees; FlatMap; caches; BoundedQueue and circular_queue; all | containers, flat_map_sparse |
| `Mutex`, `MCMutex` | Mutex, CondVar; sets of client programs | mutex |
| `CriticalRegion` | what they promise (abstract) | mutex, mutex_users, flags |
| `SpinLock`, `CallOnce`, `PerThreadSem`, `Singletons`, `LowLevel` | the parts of that name, all | low_level |
| `Barrier`, `BlockingCounter`, `Notification`, `SlotsLock`, `Rendezvous`, `ThreadPool`, `MutexUsers` | the classes of that name; the first four; all | mutex_users, pool_join |
| `WrapperTLSGroup`, `ThreadKey`, `ThreadLocalStorage`, `ResourcePool`, `ThreadData` | per-thread data with ids that are used again; ResourcePool and, by analogy, ObjectPool | thread_data |
| `WaitableEvent`, `SampleRecorder`, `Cordz`, `GraphCycles`, `DeadlockDetector`, `VLogConfig`, `LockedObjects` | events (POSIX), samples, sampled cords, the graph of lock orders and its use by Mutex, VKLOG sites, all | locked_objects, event_order, vlog_list |
| `SequenceLock`, `FlagImpl`, `Flags` | a flag and its storage | flags, flag_validator |
| `MPSCQueue_proofs` | theorems about MPSCQueue | (TLAPS) |
| `LowLevel_proofs` | about SpinLock, CallOnce, PerThreadSem and Singletons, alone and in LowLevel | (TLAPS) |
| `Rendezvous_proofs`, `ThreadPool_proofs`, `MutexUsers_proofs` | about Barrier, BlockingCounter and Notification; the pool; SlotsLock, and all in MutexUsers | (TLAPS) |
| `Flags_proofs`, `WaitableEvent_proofs`, `ResourcePool_proofs` | about SequenceLock and Flags; events; pools | (TLAPS) |

Operators commented `(wrong)` are mistakes a programmer could have made in the
operator that follows them.  No specification uses them; substituting one for
the right operator makes TLC report the property named in `PROJECT.json`, which
shows that the property depends on that line of the code.

## 2. How the code is modelled

Threads have a location (`pc` and the like) and one action per access to shared
memory or per critical section.  In general:

* Atomic operations are sequentially consistent.  Where the code relies on
  less, section 6 says so.
* A section that holds a lock for its whole length, touches only what the lock
  protects and does not wait is one step.  A lock that is held across steps is
  a variable with an owner.
* A failed compare-exchange that only makes its loop start again is no step.
  Where a failure has effects (SpinLock's TryLockInternal, call_once, the
  growth of ResourcePool) it is one.
* The futex is a wait that begins only if the word has the expected value and
  ends with a wake, or spuriously where the code allows for that.
* Numbers that may overflow or saturate keep a limit: the wait field of
  SpinLock (`MaxWaitTime`), the sequence numbers of ThreadKey (`SeqSpace`), the
  hash of SlotsLock (`MaxHash`, `HashPower`), the counters of BoundedQueue (`Width`),
  the version of a node of GraphCycles (`MaxVersion`).
* History variables (what was enqueued, what a reader could already see, how a
  thread holds the lock) record the past for the properties.  No action of the
  code reads them.

**MPSCQueue.**  `Enqueue`, `Exchange`, `LinkNode`, `Publish` are the steps of a
producer; the consumer follows Dequeue, DequeueImpl and ReverseList pointer by
pointer.  Freed addresses return to the heap and may be allocated again at
once, which is what makes comparisons of addresses dangerous.

**Mutex and CondVar.**  `mu` is the set of low bits of `mu_`, `count` the reader
count, `queue` the waiter list.  Steps are successful compare-exchanges.  The
slow paths are those of the code: `QueueUp`, `BlockDone`, `TimedOut` and
`TryRemove` for the waiter; `QuickRelease`, `LookAlone`, `QueueSelf`, `NotLast`,
`WalkList`, `WakeNone`, `WakeSome` for the unlocker, whose walk over the list
reads only the part that was there when it began; `Wakeup...` for the hand-over
through availability and token; `CvWait`, `Signal`, `SignalAll`, `FerWake` and
`FerQueue` for condition variables.  Clients are programs of calls
(`Programs`), conditions are members of `truth`, changed under the lock.

**CriticalRegion.**  Its state is what callers notice: who is inside and how,
what each thread asks for, which conditions hold, who was signalled.  It has no
queue and promises no order.

**SpinLock, CallOnce.**  One action per access to the word.  The clock is any
sequence of differences in `Elapsed`; the run uses one that runs backwards,
stands still at the resolution of the field, or exceeds its limit.

**Barrier, BlockingCounter, Notification.**  The calls step by step over
`CriticalRegion`; the atomic reads and decrements outside the lock are steps of
their own.  The thread that is allowed to destroy the object does so.

**SlotsLock.**  `multi_get` maps keys to indexes; the constructor locks them
from the greatest down, the destructor unlocks.  The hash function is chosen
initially among all functions, so that collisions of every kind occur.

**DoublyBufferedData.**  Readers register a wrapper, load the index, read, give
back; modifiers take their mutexes, apply the function to the background copy,
flip, walk over the wrappers (and sleep until references are given back when
AllowKthreadSuspended), and apply it again.  A copy is the number of
modifications applied to it.  Readers exit at any time between reads.

**WrapperTLSGroup, ThreadKey, ThreadLocalStorage.**  Objects come and go, ids
are given back and used again, threads keep what they had under an id, and
exit.  In ThreadKey a deleted pointer is never allocated again, and `ptrs` is the
set of those that exist, so that a second delete would be visible.  When an
exiting thread reaches a DoublyBufferedData that has been destroyed since it
tested `_control`, the model stops that thread there (section 6).

**ResourcePool.**  Blocks are added by an atomic increment that may overshoot,
groups under a mutex after a second look.  Allocations may fail.  What a thread
does with its own pool is one step.

**WaitableEvent.**  Locks of events and of waiters have owners.  Events are
numbered by address because WaitMany sorts them.  A SyncWaiter lives on a stack
and is named by its thread.

**PerThreadSem.**  The waiters with a lock and a condition variable (pthread,
std::mutex, Windows) are one machine; the futex and the semaphore have their own
steps.  Deadlines are a choice of when a timed wait gives up.  The relaxed stores
to fields of the identity that only statistics read go with the step next to
them.

**Singletons.**  The word of Singleton, LazyInstance or a once_flag, with losers
that spin, registration with the AtExitManager, and its callbacks, after which
the object may be made again.  Weak exchanges may fail for no reason
(`WeakMayFail`); the history `spurious` records that one did.

**GraphCycles, DeadlockDetector.**  `GraphCycles` is a pure module: nodes, edges,
ranks and versions as a record, InsertEdge with the two searches and the
reordering.  `DeadlockDetector` has threads that lock, try and unlock mutexes and
forget them.  Deadlock really happens in it: a thread may wait for ever, and the
property is that the detector spoke before.

**Cordz, SampleRecorder, VLogConfig.**  Pointers and lists as in the code, one step
per access outside a lock.  The limit of the samples may change between the count
and the comparison.  In VLogConfig all sites are of one file, and a pattern
is that file or `*`.

**ThreadPool.**  The owner starts, adds work and joins, workers wait for the event
`dry_` and look again under the lock.  Work may add work.  AddWork may be called
with a repeat_count of 0 (history `zero`); a worker that then finds the queue empty
fails the assertion at line 152, and nothing happens after that (`Aborted`).

**RawHashSet.**  A group is the set of positions it matches.  `kWidth` is 4 in place
of 8 or 16, and the load factor 7/8 is `LoadUnit`: sizes are scaled, the
arithmetic is the code's.  The keys of the instance are pairs of the two hashes,
chosen so that keys share a first group, wrap around the end, or collide in the
second hash.

**BTree.**  Nodes are records in a heap, iterators pairs of node and position.
`kNodeSlots` is 4 in place of 16 to 62.  `contents` is the sequence that the tree
should represent and `rank` where the returned iterator should be in it; both
follow the documented meaning of each operation, not its code.

**FlatMap.**  A bucket is the sequence of the elements of its chain, the bit array
of a sparse map the set of its 1-bits; `WordBits` is the length of a word.  An
insertion that finds the map crowded resizes it, which inserts all elements again,
as in the code.  Assignment is that of the map to an empty one with any number of
buckets.  The iteration in several passes is the loop in the comment of
`save_iterator` with one element per pass; between passes anything may happen.

**Cache.**  The storage of a policy is one sequence: the list of FIFO and LRU, the
multimap of LFU with its frequencies, the set of NoCachePolicy, whose order can be
any.  What each policy promises is stated by histories: which keys were used since
a key was, and how often a key was used.

**RingQueues.**  A slot of BoundedQueue is empty memory or an item; sums of its
counters are taken modulo 2^`Width`.  swap is the use shown in the header.

**SequenceLock, FlagImpl.**  Words are stored and loaded one at a time in any
order.  FlagImpl covers all three ways of storing a value, `modified_` and
`on_command_line_`, the release of the data guard while the callback runs, which
reads the flag, and validators, which run under the shared guard and a guard of
their own and may read the flag.  user_validate copies the validator's function
without the guard; set_validator allocates the record first and sets its function
later.  Parsing is the choice of a result.

## 3. What the runs check

Seven runs pass, five show that the code does something else than its comments
say.  Sizes are distinct states; each run takes up to three minutes on two cores.

| Run | Instance | States | Checks |
|---|---|---|---|
| containers | 2 producers with 2 calls each, 3 addresses; 2 readers with 2 reads in all, 2 modifiers; a table of up to 7 slots; trees of up to 3 levels; maps of 4 keys in 8 or 16 buckets; caches of 1 to 3 of 4 keys; rings of 0 to 4 items | 298,348 | `DequeuedInOrder`, `MemorySafe`, `EmptyAnswerJustified`, `ReadsConverge`, `WrappersAlive`, `ActsAsItsContents`, `AllDelivered` |
| mutex | 3 threads, 2 priorities, all programs of `MCMutex` | 592,309 | `WordTruthful`, `OneList`, `NoLostWakeup`, `ImplementsRegion`, `AllReturn` |
| low_level | 3 threads with 2 calls, at most one throw; 2 posters with 4 posts in all, 3 waits; every kind of singleton, one exit, exchanges that fail for no reason | 651,256 | `Exclusion`, `NoLostWakeup`, `OnceOnly`, `NoPostLost`, `AllReturn` |
| mutex_users | 3 threads; counts 0 to 2; 2 keys, 2 mutexes, every hash function; 3 workers, 4 pieces of work, 2 rounds | 105,893 | `KeysExclusive`, `NoWaitCycle`, `SafeToDestroy`, `NobodyEarly`, `WorkDoneOnce`, `WaitsReturn` |
| thread_data | 2 threads, 2 to 3 objects, 2 ids; a pool of 2 groups of 2 blocks of 1 object, chunks of 1, failing allocations | 844,756 | `NoForeignData`, `EachIdOnce`, `GetAlive`, `ExactlyOnce`, `FailsOnlyWhenFull` |
| locked_objects | 3 threads with 4 calls in all on an auto-reset and a manual-reset event; 3 samples; 2 cords, 2 snapshots; 2 threads, 3 mutexes, 4 locks, 2 forgotten, 2 versions of a node; 2 threads, 2 sites, 2 updates | 1,195,350 | `NoDanglingWaiter`, `SignalsAccounted`, `NoLockCycle`, `SamplesAccounted`, `SnapshotKeepsAlive`, `DeadlockReported`, `FreshUnlessCrowded` |
| flags | 2 threads, 3 calls in all, 2 words, 2 values, 7 kinds of use | 578,192 | `ReadsWhole`, `StoresApart`, `CounterMeansUnchanged`, `CallbackSeesLast`, `CallsReturn` |
| event_order | 2 threads, 1 event | (violation) | `LockingOrder` |
| flat_map_sparse | 4 keys, 8 buckets, words of 64 bits | (violation) | `FirstOneInRange` |
| vlog_list | 2 threads, 2 sites | (violation) | `InstalledOnce` |
| pool_join | 2 workers, 2 pieces of work | (violation) | `JoinLeavesNothing` |
| flag_validator | 2 threads, a flag in an aligned buffer | (violation) | `ValidatorsReturn` |

What they show:

* **containers.**  Queue: values come out in the order of the exchanges, none lost
  or twice.  No step touches a freed node, although addresses are used again
  while stale copies are around.  Dequeue answers "empty" while values are queued
  only as long as the producer that found the queue empty has not stored
  `_cur_enqueue_node`; values of others whose Enqueue has returned may then be
  queued behind its node.  A consumer that keeps polling gets everything.  Buffers:
  without a modification in progress both copies have had equally many
  modifications, and they are never more than one apart (in what order they had
  them is not recorded); a read does not go back behind what was visible when it
  began.  Modify never visits a destroyed
  wrapper, and never sleeps for ever.  Table and tree: after every sequence of
  operations exactly the contents are found, the iterators returned stand where
  they should, and the structure is sound (control bytes and their clones,
  growth; order, depth, minimum counts, parents and positions).  A FlatMap finds
  and walks over its contents, and an iteration in passes visits every key that
  stays, with two exceptions (section 6).  A cache and its policy hold the same
  keys, and the key to be replaced is the one that came first, was not used for
  longest or was used least.  The ring queues are the sequences they stand for,
  and no slot is constructed or destroyed twice.
* **mutex.**  The word tells the truth about holders and lists.
  A thread is on at most one list or in the hands of one waker, also when it
  times out.  A runnable waiter always has somebody who will look at the list,
  also when an unlocker relies on the designated waker.  All steps seen by callers
  are steps of `CriticalRegion`: a condition is true when LockWhen or Await return
  without timeout, and waits for a condition variable give up and retake the lock
  in the mode it was held.  Every call that can return does.
* **low_level.** At most one thread holds the spinlock; nobody sleeps without
  somebody bound to wake them, for every clock.  call_once runs its function
  once and no caller returns before that run is over.  There is at most one
  object of a singleton, unless an exchange of Singleton::get has failed for no
  reason; even then nobody gets an object that was destroyed, and a
  LazyInstance, an object in static memory and get_leaky_singleton have one
  object.  A post is used by one wait or kept, by each implementation of the
  semaphore.
* **mutex_users.**  No wait ends before what it waits for.  The thread that
  destroys a barrier, counter or notification does it when all others are out,
  the release of the lock included.  Guards of overlapping key sets exclude one
  another and never wait in a circle.  No work is run twice; when JoinAll returns,
  what was added before it was called has been run, and what running work added
  meanwhile has been run or is still queued (`pool_join` shows that it may be).
  Unless AddWork was called with a repeat_count of 0, a worker that finds `dry_`
  signaled finds work.  Start and JoinAll return.
* **thread_data.** Under an id a thread finds only what belongs to the present
  owner of the id.  Ids are in use by one object or free, never both and never
  lost, but for an id of ThreadKey that was retired at the end of its sequence
  numbers.  An exiting thread removes a wrapper that still has its `_control`
  from the object it is registered with, which is alive.  The race for the
  native key of ThreadLocalStorage leaves one winner, whose key all threads use.
  Every object of a pool is with its user or in one free list, a block belongs
  to one thread, and a get that needs a new group gives up only when there is no
  room for one or the allocation fails; it tries again only when another thread
  has added a group, so it returns.
* **locked_objects.**  Every signal of an auto-reset event is used by one wait
  or kept.  No waiter is fired after its call has returned.  The locks of events
  alone are never waited for in a circle, by WaitMany calls with overlapping sets.
  No sample is lost from the list or with two users, and between calls the count
  is that of the registered samples.  What an iterator of a
  snapshot stands on is not deleted, and nothing waits for deletion without a
  snapshot.  When threads wait in a circle, one of them has reported it, unless one held
  more locks than there are slots for or waits for a mutex whose orders the detector
  forgot.  A VKLOG site
  that one thread registers is never left with an old level.
* **flags.**  A lock-free read returns one whole value, the current one at the
  moment it returned.  Stores never overlap although the guard is released for
  callbacks, and no validator runs during one.  RestoreState is right to trust the
  counter: as long as it has not moved, the value has not, and without a callback
  `modified_` and `on_command_line_` have not.  (With one they may: another thread
  saves the state while the callback runs, before SET_FLAGS_DEFAULT or a parse from
  the command line sets them.)  After all calls have returned the callback has seen
  the final value.  Calls return, with validators that read the flag, too, where
  reading does not take the exclusive guard.

**Bounds.**  Two threads suffice for a race of two parties; where a third
matters (a waiter, a waker and somebody who comes in between) there are three.
Two calls per thread let state left over by the first call meet the second.
Address, id and group counts are chosen so that they run out and are used
again: three nodes for four values, two ids for two or three objects, four
objects for two threads that keep asking.  `SeqSpace` is 6 in place of 2^64 so
that the end of the sequence numbers, where an id must be retired, is reached.
`MaxReads` of the buffers and `MaxCalls` of the events bound the calls of all
threads together: with four calls a signaler, two waits and a reset or a second
signal meet.  The table is explored without a bound on operations: all tables of up to
seven slots that any sequence reaches.  The tree starts empty, with four
operations, or with 12 or 24 values inserted in ascending or descending order,
followed by two operations or one (`MCStarts`): two and three levels, whose nodes
are about to split or merge.  `LoadFactor` of FlatMap is 30 percent, so that three
keys can share one of 8 buckets and the fourth makes the map grow; words have 8 bits,
so that buckets fill whole words, as 64 and more do in the code.  `Width` is 3 in
place of 32 with rings of up to 4 slots, which stand for 2^31.  `MaxUses` and
`MaxOverrun` only end the counting.  `MaxVersion` is 2 and `MaxForgets` 2, so that
a node of the graph of lock orders is used again and then retired.  `MaxPosts` is
the number of posts of all posters.  What section 5 proves holds for all sizes, so
that there the bounds matter for liveness only.

**Mutants.**  `ActsAsItsContents` is the conjunction of what the single-threaded
containers promise; the mutant listed for it is one of RawHashSet.

**Deadlock.**  Client programs end, so the runs allow the final state; that
nobody is stuck before the end is stated by the liveness properties.

**Symmetry.**  `thread_data` permutes threads, objects and pointers, `locked_objects`
threads and lockers; these runs check invariants and an action property only.

## 4. Fairness

Fairness is weak, per thread, on the steps that follow the start of a call: a
thread that can go on does, as any preemptive scheduler provides.  No client is
obliged to make a call, except for the consumer of `MPSCQueue`, for which
`AllDelivered` says what polling achieves, and the threads of `Mutex`, `Barrier`,
`BlockingCounter` and `Notification`, whose programs are fixed: nobody can leave
a barrier to which others never come.  No strong fairness is assumed, in
particular not for getting a lock: the calls are bounded, so a lock cannot be
taken away from a waiter for ever, and starvation by endless traffic is outside
what the properties say.  A timeout is a step of the waiting thread, so it
expires some time.  Spurious returns of the futex may happen and need not.

## 5. What is proved

TLAPS checks all proofs.  They hold for every value of the constants that
satisfies the named assumptions, hence for any number of threads, addresses,
words, keys or calls.

* **MPSCQueue_proofs** (`MPSCAssumption`: the two markers are distinct and no
  addresses).  `QueueInv` is inductive (`QueueCorrect`).  `DequeuedInOrder` and
  `MemorySafe` say nothing of the pointers of half-made lists, so they are not
  inductive.  The strengthening gives every node a ticket, its place in the
  order of the exchanges, and states the shape of the two lists by tickets: the
  forward list ends at `fwd`, the backward list behind it is connected except
  where a producer stands between its exchange and its store, the consumer's
  local pointers are between the two, and a free address has no ticket
  (`TicketsOrdered`, `ListShape`, `HeadIsLast`, `ProducersOK`, `ConsumerOK`).
  There is one lemma per action.  From it follow `InOrder` (delivery order),
  `Safe` (no freed node is touched) and `NoAbort` (the KCHECK of ReverseList
  never fires).
  `EmptyMeansEmpty` needs one thing more (`Announced`): while values are queued that
  the consumer cannot see, the producer that found the queue empty is on its way.

**LowLevel_proofs**, for any number of threads, posters and calls:

* *SpinLock* (`SpinLockAssumption`: the wait field has room for two marks; the
  clock is arbitrary).  `SpinLockInv` adds to exclusion and wakeups what each
  thread's copy of the word can be (`CopiesSound`): callers of TryLockInternal
  take any value without the held bit for success, which is right only because
  a free word has an empty wait field.  `EncodeNonzero` shows that an encoded
  waiting time is neither zero nor the sleeper's mark for any clock.  From it
  follow `MutualExclusion` and `WakeupsKept`.
* *CallOnce* (no assumption).  That the function runs once is not inductive: it says
  nothing of a caller on its way into the function.  `OnceIInv` adds that whoever is
  inside finds the word taken (`OnceInside`), that the word and the place of the
  thread inside tell whether a run has completed (`OnceRuns`), and that SpinLockWait
  exchanges only for the transitions that change the word (`OnceSwaps`).
  `CallOnceCorrect` follows, with any number of exceptions; without one, a call that
  is over returned after the completed run.
* *PerThreadSem*.  `SemPosts` says where each post is: in the counter, with the wait
  that took it, or accounted for; `SemWoken` that between the look at the counter and
  the sleep, and in the sleep, somebody has still to wake the thread.  `PostsKept`
  follows, for each implementation of the waiter.
* *Singletons*.  `SureIInv` is for exchanges that tell who makes the object: one
  thread makes it, and the word says so (`OneMaker`); the published object is the one
  alive (`AliveKnown`), registered once, by its maker (`MineKnown`, `StackKnown`);
  whoever waits finds it (`WaitersServed`).  `NeverDangling` holds whatever the
  exchanges do.  `OnlyOneEver` follows from both, without an assumption on weak
  exchanges.

**Rendezvous_proofs**, **ThreadPool_proofs** and **MutexUsers_proofs**.  The first two
use the contract of Mutex only.

* *Barrier*, *BlockingCounter*, *Notification* (`RendezvousAssumption`: finitely many
  threads, more than one; counts that the workers can bring down).  In each the
  invariant ties the places in the code to the lock (`BarrierLocked`,
  `CounterLocked`, `NotifLocked`) and the counters to the sets of callers that have
  them still to decrement (`BarrierCounted`, `CounterCounted`).  What makes
  destruction safe is that the one who is told so held the lock after the last other
  user released it (`BarrierElected`, `CounterPassed`, `NotifTold`).
  `BarrierCorrect`, `CounterCorrect` and `NotificationCorrect` follow.
* *ThreadPool* (`Usage`: at least one worker, all different).  `Phase` says which
  threads there are at each place of the owner and that, while JoinAll joins, there
  are as many nullptrs as workers that have still to take one; `Once` that a piece of
  work is queued, or run by one worker, or was run once; `Served` that what JoinAll
  found stands in front of its nullptrs.  `WorkRunsOnce` follows.
* *SlotsLock* (`SlotsAssumption`: the pool is not empty).  `GuardInv` says that what a
  constructor holds and what it wants are together the indexes of its keys,
  `OrderedWaiting` that it holds only indexes above those it wants.  The greatest
  index in a set exists because indexes are bounded numbers.  From these follow
  `GuardsExclude` and, by taking the thread of an assumed circle that waits for the
  greatest index, `NoDeadlock`, for circles of any size.
* *MutexUsers* puts the five side by side (`UsersCorrect`); `DestructionSafe`,
  `WaitsNotEarly` and `PoolRunsWorkOnce` state what the run `mutex_users` checks.

**Flags_proofs** (`SequenceAssumption`; `FlagAssumption`: values are told from the
markers, there are words, and a call counts one modification at most).  For the
sequence lock alone `WriteInv` ties the counter to the progress of a write and
`ReadInv` what a reader has copied to the words while the counter stands;
`ReadsAreWhole`, `CountsAreRight` and `CopiesAreCurrent` follow.  For flags, `GuardHeld`
says who holds the guard at which place, `Initialized` that a write of the sequence
lock is a store under way, `ReadsKnown` that a read under the guard finds the lock
still, `SavedKnown` and `Restorable` what the counter of a saved state tells,
`CallbackInv` that the callback has still to read the flag or has seen its value, and
`ValidatorRuns` that a validator holds the guard shared and does not get it again.
From `FlagsCorrect` follow `FlagReadsWhole`, `StoresKeptApart`, `CounterTells` and
`CallbackSawLast`.

**WaitableEvent_proofs** (`EventAssumption`: finitely many threads; events are
numbers).  `Locking` says who holds the locks of events, and that a WaitMany holds
smaller ones than it wants; `Fired` which event fired a waiter; `Listed` on which lists
it is; `Accounts` that the signals an event owes are those of the threads it fired, plus
one if it is signaled or being signaled.  From `EventsConsistent` follow
`NoWaiterDangles`, `SignalsUsedOnce` and, as for SlotsLock, `NoCircleOfLocks`.

**ResourcePool_proofs** (`PoolAssumption`: finitely many threads, sizes that are not
zero, chunks no larger than a block).  A counter of a group exceeds its size by exactly
the threads that have still to take back their increment (`Count`, `Overshot`); what a
thread has seen of the groups and reserved in one is its own (`Seen`, `Storing`); a
block is where it was reserved (`Placed`) and belongs to one thread (`BlockOwned`);
every id is in use, lost to a failed allocation, or once on one list (`InOnePlace`).
From `PoolConsistent` follow `ObjectsInOnePlace` and `RaceSettled`.

The named assumptions are evaluated by TLC in the runs; `Usage` of the pool is a
hypothesis of its theorem, which the assumption of `MutexUsers` satisfies.

**Only model-checked.**  All liveness, which is out of the prover's reach, and with it
fairness.  `GraphCycles` (and `DeadlockReported` with it), `RawHashSet`, `BTree` and
`FlatMap` (`ActsAsItsContents`) are recursive computations over data, which would need
an induction that the prover cannot instantiate; the same holds of the walk along a list
in `SamplesAccounted`.  `Mutex` and its refinement of `CriticalRegion`, for the size of
the invariant.  `ThreadKey`, `WrapperTLSGroup`, `ThreadLocalStorage`,
`DoublyBufferedData`, `Cordz`, `VLogConfig`, `Cache` and `RingQueues` have no proofs.

## 6. Where code and comments disagree

Five disagreements are kept as runs that end with a violation:

* `event_order`: `TimedWait` locks the event's lock while it still holds the
  waiter's (`threading/waitable_event_posix.cc:205`), against its own comment at
  line 199 ("We can't acquire @lock_ before releasing the SyncWaiter lock
  (because of locking order)").  `Signal` takes the two in the other order.  A
  timeout that races with a signal blocks both threads for ever.  This is also
  why `locked_objects` checks no liveness.
* `flat_map_sparse`: `bit_array_first1` (`container/internal/bit_array.h:92`), when
  begin and end lie in one word and no bit from begin on is set, looks at that
  word again without the mask and returns a bit in front of begin; lines 70-71 say
  "Find index of first 1-bit from bit |begin| to |end| in |array|. Returns |end| if
  all bits are 0."  A SparseFlatMap of less than 64 buckets has a single word: an
  iteration that should end goes back to the first element, and so does `resize`.
  (Bits that malloc() left set behind the end hide it.)  With whole words, as in
  the run `containers`, the function is right.
* `vlog_list`: a VKLOG site that is first on the list has `next_` equal to nullptr,
  which is also how RegisterAndInitialize recognizes a site that is not on the list
  (`log/internal/vlog_config.cc:227`).  A second thread that registers it at the same
  time passes the test too, finds the site at the head and links it to itself;
  the next update of the levels never ends.  The comment at lines 230-231 says
  "By successfully setting `v->next` this thread commits to being *the* thread that
  installs `v` in the list."

* `pool_join`: work that is being run while JoinAll waits may add work, which then
  stands behind the nullptrs that end the workers (`threading/simple_thread.cc:122`).
  It waits for the next Start, and the assertion at line 130 that the queue is empty
  fails in builds that have it.  `simple_thread.h:168` says "JoinAll() will make sure
  that all outstanding work is processed, and wait", and line 188 "It is safe to
  AddWork() any time, before or after Start()."
* `flag_validator`: the validator is called with the data guard held shared
  (`flags/internal/flag.cc:549`).  A validator that gets its own flag returns if the
  value is read without the guard, but a value in an aligned buffer is read under the
  exclusive guard (line 478), for which the thread waits for ever.  The comment at
  lines 538-548 says that "the primary flag's mutex is unlocked" meanwhile and that
  the "Callback can get a value of the flag if necessary".  `flags` therefore has
  validators that read the flag for the other two kinds of storage.

A second thread that registers a VKLOG site does harm in another way as well: it
may set the level of a site that the first has linked but not yet installed, and
an update in between, which does not find the site, leaves the level old for
ever, contrary to `vlog_config.cc:241-242` ("`v` itself will always arrive at
the freshest value").  `FreshestValue` of `VLogConfig` states that promise and
does not hold; `FreshUnlessCrowded` is what holds, for sites that one thread
registers; the other case is not kept as a run.

The following were met while modelling.  The models follow the code; the
properties above hold in spite of them.

* `container/mpsc_queue.h:122` publishes the first node with a relaxed store.
  The model keeps program order, as x86 hardware does; on weakly ordered
  hardware the consumer could see the pointer before the field `next`.
* `base/call_once.h:181`: when the function throws nothing resets the control
  word, and later calls wait for ever.  `AllReturn` is about behaviours without
  a throw.
* `base/internal/spinlock.cc:51` says that bit 3 alone means "acquired without
  contention"; line 211 stores the same mark for a holder that did wait, for a
  time too short for the field.  Only the profile differs; a zero there would
  lose a wakeup, as `NoLostWakeup` shows.
* `container/doubly_buffered_data.h:416` and `:575`: BeginRead and EndRead have
  empty bodies, so without AllowKthreadSuspended Modify does not wait for
  readers, and with it a flip may fall between a reader's load of the index and
  its increment of the reference count.  A reader can hold an instance that a
  modifier changes, contrary to line 128.  `:503`: the first read of a thread
  waits for a Modify in progress, contrary to line 130.  `:402`: the destructor
  of a wrapper tests `_control` without the lock that line 553 writes it under, so
  that the object may be destroyed between the test and the call of its
  RemoveWrapper.
* `memory/singleton.h:246` marks the instance with a compare_exchange_weak.  Where
  that fails spuriously (not on x86), `old` stays 0 and the caller goes on as if it had
  marked it, so that two threads can make an instance each; the comment at line 248
  says "Only one thread will ever get here."  `memory/lazy_instance.cc:32` goes by
  whether the exchange succeeded, so that there is one object; a caller whose exchange
  fails spuriously returns without it, with a null pointer or the marker of an object
  that is being created.
* `container/flat_map.h:236-241` lists what an iteration in several passes may miss:
  elements that are added.  It can miss others in two cases, which the history
  `staying` leaves out: the map is resized and resized back between two passes, or
  the key of the hint is erased and inserted again, and is then behind elements that
  were not visited yet (`flat_map_inl.h:710`).
* `container/flat_map_inl.h:263` says that assignment does not change `_load_factor`
  of an initialized map; line 269 does.
* `container/bounded_queue.h:257` gives 2^32 - 1 as the greatest capacity; from
  2^31 + 1 on the sum of `_start` and `_count` at line 84 overflows and slots are
  confused.  With `Width` 3, `ActsAsSequence` fails for 5 slots.  `elim_push` of a
  queue without capacity writes to a slot that is not there.
* `memory/resource_pool_inl.h:460`: the last thread to exit frees nothing,
  because the reclamation is compiled for unit tests only, contrary to
  `resource_pool.h:125`.
* `threading/thread_key.cc:67`: at thread exit the destructor of the key that
  has an id now is called with data set under an earlier key, which may delete a
  pointer twice.  `thread_key.h:129`: `for_each` may visit objects that exiting
  threads have deleted.
* `threading/internal/thread_local_storage.cc:87` uses a compare-exchange that
  may fail spuriously and takes such a failure for success, so that the thread
  goes on with a key that was never published.  The constant `WeakFails` allows
  it; the runs exclude it, as x86 hardware does.  `:216`: the
  index of a slot is taken with `fetch_and(1)`, which leaves the mark at 0: every slot
  gets index 1, so that slots share their values, whereas lines 33 and 34 describe a
  high-water mark.  `:149`: for the same reason the destructors of slots are not called.
* `flags/internal/flag.cc:617`: SET_FLAGS_DEFAULT decides on a state of
  `modified_` that another thread may have changed while the guard was released.
  `:533-536`: user_validate tests `validator_` and reads its function without the guard.
  If set_validator runs for the first time meanwhile, the function may be read before
  it is set; the model has such a thread end at "wild".  Validators are registered
  during static initialization (`flag.h:860`), and the runs let set_validator race with
  user_validate only on flags that have a validator already.
* `threading/simple_thread.cc:138`: AddWork with a repeat_count of 0 signals `dry_` over
  an empty queue; the next worker fails the assertion at line 152 or, in builds without
  it, takes from an empty queue.
* `flags/reflection.cc`: FindFlag looks at the finalized table before it takes the
  lock of the registry; a finalization in between makes it search the map that was
  just emptied.  The registry is not modelled.

## 7. What is not modelled

* Weak memory, except as said above.
* In Mutex: skip pointers, event tracing and contention profiling.  `Mutex` takes
  the semaphore of a thread as a count of tokens, which is what `PerThreadSem`
  shows of it.
* Other platforms' delay functions (SpinLock), the reference count of a
  WaitableEvent's kernel, failing allocations in DoublyBufferedData, statistics,
  the callbacks of VKLOG updates, of erased cache elements and of disposed samples, the
  destructor of SampleRecorder, move and node handles of
  the containers, failing allocations and swap of FlatMap.
* Whole parts, listed in `PROJECT.json` with reasons.  Strings, numbers, hashing,
  random numbers, small containers, calendars, command lines and debugging are
  sequential computations whose difficulty is in data rather than in the order of
  steps, and which the unit tests compare with reference results.  Files,
  processes and symbols are calls of the operating system.  Parts that threads
  share but that do one critical section per call (thread identities, log sinks,
  the flag registry, thread names) would be models of a single lock.
