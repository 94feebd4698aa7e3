------------------------------- MODULE Mutex -------------------------------
(***************************************************************************)
(* turbo::Mutex and turbo::CondVar (turbo/synchronization/mutex.cc).       *)
(*                                                                         *)
(* The mutex word mu_ is modelled by the set mu of its low bits, by count  *)
(* (the reader count its high bits hold while kMuWait is clear) and by     *)
(* queue (the circular waiter list its high bits point at while kMuWait is *)
(* set).  queue[1] is the first waiter and Last(queue) the list "head" the *)
(* word points at, whose readers field holds the reader count.             *)
(*                                                                         *)
(* Every step is one successful compare-exchange (or one plain access to   *)
(* shared state) of the code.  A load followed by a compare-exchange that  *)
(* succeeds is one step, because all the code decides in between depends   *)
(* on the value the exchange compares; one that fails only retries.  The   *)
(* sections that run under kMuSpin with kMuWait set are one step too: no   *)
(* other thread changes the word or the list until the bit is cleared.     *)
(*                                                                         *)
(* The skip pointers only shorten walks over equivalent waiters, whose     *)
(* conditions are all false, and are left out.  So is the Enqueue of a     *)
(* waiter whose following compare-exchange fails: it touches only fields   *)
(* of that waiter that its next Enqueue sets again.                        *)
(***************************************************************************)
EXTENDS Naturals, FiniteSets, SequencesExt

CONSTANTS
  Threads,    \* the threads that use the mutex
  Conds,      \* the Conditions on the data the mutex protects
  Prio,       \* PerThreadSynch::priority of each thread
  Programs,   \* the calls the threads may make: a set of functions to sequences
  None        \* nullptr

Hows == {"Shared", "Exclusive"}

Ops == {"Lock", "TryLock", "Unlock", "Await", "CvWait", "Set", "Clear",
        "Signal", "SignalAll", "EnableDebugLog"}

Calls == [op : Ops, how : Hows, cond : Conds \cup {None}, timed : BOOLEAN]

ASSUME MutexAssumption ==
  /\ None \notin Threads
  /\ None \notin Conds
  /\ Prio \in [Threads -> Nat]
  /\ Programs \subseteq [Threads -> Seq(Calls)]

VARIABLES
  mu,         \* low bits of mu_
  count,      \* reader count in the high bits of mu_ (while kMuWait is clear)
  queue,      \* the waiter list of the mutex, first to last
  cvq,        \* the waiter list of the condition variable, first to last
  truth,      \* the Conditions that the protected data makes true
  synch,      \* PerThreadSynch (with its SynchWaitParams) of each thread
  sem,        \* value of each thread's semaphore
  loc,        \* local variables of LockSlowLoop, UnlockSlow and the signallers
  pc,         \* where each thread is
  prog,       \* the calls each thread has still to make
  mode        \* how each thread really holds the lock (history)

vars == <<mu, count, queue, cvq, truth, synch, sem, loc, pc, prog, mode>>

Bits == {"Reader", "Desig", "Wait", "Writer", "Event", "WrWait", "Spin"}

\* The control points: "slow" is LockSlowLoop, "unlock" the loop of UnlockSlow,
\* "alone" its section that queues the caller on an empty list, "wake".."post"
\* Wakeup, "block".."removing" Block and TryRemove, "cvwait".."cvremove"
\* CondVar::WaitCommon and Remove, "fer".."ferpost" Signal, SignalAll and Fer.
PCs == {"idle", "slow", "held", "unlock", "alone", "wake", "avail", "post",
        "block", "sleep", "remove", "removing", "removed",
        "cvwait", "cvsleep", "cvremove", "fer", "ferpost"}

Holds(c) == c = None \/ c \in truth

\* MuHowS: the bits that must be clear to acquire without queueing, the bit an
\* acquisition sets, and what it adds to the reader count.
SlowNeedZero(how) ==
  IF how = "Shared" THEN {"Writer", "Wait"} ELSE {"Writer", "Reader"}
FastOr(how) == IF how = "Shared" THEN "Reader" ELSE "Writer"

FastAdd(how) == IF how = "Shared" THEN 1 ELSE 0

\* What a thread that has blocked does to the word whenever it acquires or
\* queues: it clears the designated-waker bit.
ClearDesignatedWaker(bits, t) ==
  IF loc[t].blocked THEN bits \ {"Desig"} ELSE bits

-----------------------------------------------------------------------------
(* The waiter list.                                                        *)

\* The number of waiters that stay in front of t when it enters the non-empty
\* list q: priority order if nobody may be scanning the list, else the front
\* for a writer without condition, or for a thread that was woken and lost the
\* race; else the back.
Place(q, sy, t, blocked) ==
  LET h == Last(q)
      plainWriter == sy[t].how = "Exclusive" /\ sy[t].cond = None
  IN CASE Prio[t] > Prio[h] /\ ~sy[h].maybe_unlocking ->
            CHOOSE k \in 0 .. Len(q) - 1 :
              /\ \A i \in 1 .. k : Prio[q[i]] >= Prio[t]
              /\ Prio[q[k + 1]] < Prio[t]
       [] Prio[t] > Prio[h] /\ sy[h].maybe_unlocking /\ plainWriter -> 0
       [] /\ Prio[t] <= Prio[h] \/ (sy[h].maybe_unlocking /\ ~plainWriter)
          /\ blocked
          /\ Prio[t] >= Prio[q[1]]
          /\ ~sy[h].maybe_unlocking \/ plainWriter -> 0
       [] OTHER -> Len(q)

\* (wrong) The new head does not take the reader count over.
EnqueueForgets(q, sy, t, blocked, readers) ==
  [queue |-> InsertAt(q, (IF q = <<>> THEN 0 ELSE Place(q, sy, t, blocked)) + 1, t),
   synch |-> [sy EXCEPT ![t].state = "queued", ![t].next = TRUE, ![t].wake = FALSE,
                        ![t].maybe_unlocking = FALSE,
                        ![t].readers = IF q = <<>> THEN readers ELSE 0]]

\* Enqueue on the mutex list: the new list and the new synch.  readers is the
\* count the word held, which an only waiter takes over; a waiter at the back
\* becomes the head and takes it over from the previous one.
Enqueue(q, sy, t, blocked, readers) ==
  LET place == IF q = <<>> THEN 0 ELSE Place(q, sy, t, blocked)
      fromHead == q # <<>> /\ place = Len(q)
  IN [queue |-> InsertAt(q, place + 1, t),
      synch |-> [sy EXCEPT ![t] =
        [@ EXCEPT !.state = "queued", !.next = TRUE, !.wake = FALSE,
                  !.readers = IF q = <<>> THEN readers
                              ELSE IF fromHead THEN sy[Last(q)].readers ELSE @,
                  !.maybe_unlocking = IF q = <<>> THEN FALSE
                              ELSE IF fromHead THEN sy[Last(q)].maybe_unlocking
                              ELSE @]]]

\* CondVarEnqueue: the caller goes to the back of the condition variable's list.
CondVarEnqueue(sy, t) == [sy EXCEPT ![t].state = "queued", ![t].next = TRUE]

\* The Enqueue call of UnlockSlow: nothing without waitp, the mutex list, or
\* (cv_word set) the list of the condition variable.
Requeue(q, sy, t, readers) ==
  CASE loc[t].waitp = "none"  -> [queue |-> q, synch |-> sy, cvq |-> cvq]
    [] loc[t].waitp = "mutex" ->
         LET e == Enqueue(q, sy, t, FALSE, readers)
         IN [queue |-> e.queue, synch |-> e.synch, cvq |-> cvq]
    [] loc[t].waitp = "cv"    ->
         [queue |-> q, synch |-> CondVarEnqueue(sy, t), cvq |-> Append(cvq, t)]

Pos(q, x) == CHOOSE i \in 1 .. Len(q) : q[i] = x

\* DequeueAllWakeable from position i of q on: the waiters marked wake, up to
\* and including the first writer among them, in order.
Wakeable(q, sy, i) ==
  LET marked == SelectSeq(SubSeq(q, i, Len(q)), LAMBDA x : sy[x].wake)
      writers == {k \in 1 .. Len(marked) : sy[marked[k]].how = "Exclusive"}
  IN IF writers = {} THEN marked
     ELSE SubSeq(marked, 1, CHOOSE k \in writers : \A j \in writers : k <= j)

\* The walk of UnlockSlow over the waiters behind position i: which to mark
\* (mark) and which marks to clear (seen), the first one to wake with its
\* predecessor, and whether a writer must be let through (wrwait).
Walk(q, sy, t) ==
  LET l == loc[t]
      n == Len(q)
      i == IF l.old_h = None THEN 1 ELSE Pos(q, l.old_h) + 1
      able == {k \in i .. n : Holds(sy[q[k]].cond)}
      shared == {k \in able : sy[q[k]].how = "Shared"}
      first == CHOOSE k \in able : \A j \in able : k <= j
  IN CASE l.w = None /\ able = {} ->
            [seen |-> i .. n, mark |-> {}, w |-> None, pw |-> l.pw, wrwait |-> l.wrwait]
       [] l.w = None /\ able # {} /\ first \notin shared ->
            [seen |-> i .. first, mark |-> {first}, w |-> q[first],
             pw |-> IF first = 1 THEN None ELSE q[first - 1], wrwait |-> TRUE]
       [] l.w = None /\ able # {} /\ first \in shared ->
            [seen |-> i .. n, mark |-> shared, w |-> q[first],
             pw |-> IF first = 1 THEN None ELSE q[first - 1],
             wrwait |-> l.wrwait \/ able # shared]
       [] l.w # None ->
            [seen |-> i .. n, mark |-> shared, w |-> l.w, pw |-> l.pw,
             wrwait |-> l.wrwait \/ able # shared]

-----------------------------------------------------------------------------
(* Acquiring: LockSlowLoop, entered after the fast paths of Lock,          *)
(* ReaderLock, LockWhenCommon, AwaitCommon and Trans, whose single         *)
(* compare-exchange is the same step as Acquire.                           *)

\* What a thread does with the lock it got: return to the caller, or release it
\* and wait because the condition is false.
Got(t) ==
  IF Holds(synch[t].cond)
  THEN pc' = [pc EXCEPT ![t] = "held"] /\ UNCHANGED loc
  ELSE /\ pc' = [pc EXCEPT ![t] = "unlock"]
       /\ loc' = [loc EXCEPT ![t].waitp = "mutex"]

\* Nobody stands in the way: take the lock.
Acquire(t) ==
  LET how == synch[t].how
  IN /\ pc[t] = "slow"
     /\ mu \cap SlowNeedZero(how) = {}
     /\ mu' = ClearDesignatedWaker(mu, t) \cup {FastOr(how)}
     /\ count' = count + FastAdd(how)
     /\ mode' = [mode EXCEPT ![t] = how]
     /\ Got(t)
     /\ UNCHANGED <<queue, cvq, truth, synch, sem, prog>>

\* slow_inc_need_zero, where a thread that has blocked ignores waiting writers.
MayJoin(t) ==
  /\ synch[t].how = "Shared"
  /\ mu \cap {"Spin", "Writer"} = {}
  /\ "WrWait" \in mu => loc[t].blocked

\* A reader that shares the lock while there are waiters: the count is in the
\* last of them.
Join(t) ==
  /\ pc[t] = "slow"
  /\ "Wait" \in mu
  /\ MayJoin(t)
  /\ mu' = ClearDesignatedWaker(mu, t) \cup {"Reader"}
  /\ synch' = [synch EXCEPT ![Last(queue)].readers = @ + 1]
  /\ mode' = [mode EXCEPT ![t] = "Shared"]
  /\ Got(t)
  /\ UNCHANGED <<count, queue, cvq, truth, sem, prog>>

\* The thread cannot have the lock: it queues, as the only waiter or (under
\* kMuSpin) among others, and a writer held up by readers says so.
QueueUp(t) ==
  LET how == synch[t].how
      e == Enqueue(queue, synch, t, loc[t].blocked, count)
      held_up == how = "Exclusive" /\ "Reader" \in mu
  IN /\ pc[t] = "slow"
     /\ mu \cap SlowNeedZero(how) # {}
     /\ "Spin" \notin mu
     /\ ~("Wait" \in mu /\ MayJoin(t))
     /\ mu' = ClearDesignatedWaker(mu, t) \cup {"Wait"}
                \cup (IF held_up THEN {"WrWait"} ELSE {})
     /\ queue' = e.queue
     /\ synch' = e.synch
     /\ count' = 0
     /\ pc' = [pc EXCEPT ![t] = "block"]
     /\ UNCHANGED <<cvq, truth, sem, loc, prog, mode>>

-----------------------------------------------------------------------------
(* Waiting: Block and TryRemove.                                           *)

\* The waiter was taken off the list and made available: back to LockSlowLoop.
BlockDone(t) ==
  /\ pc[t] = "block"
  /\ synch[t].state = "available"
  /\ pc' = [pc EXCEPT ![t] = "slow"]
  /\ loc' = [loc EXCEPT ![t].blocked = TRUE, ![t].waitp = "none"]
  /\ UNCHANGED <<mu, count, queue, cvq, truth, synch, sem, prog, mode>>

\* DecrementSynchSem by a queued waiter: it takes a token (one may be left over
\* from an earlier wait), or sleeps while there is none; a sleeper takes the
\* token that wakes it, or gives up when its timeout expires.
Asleep(t) == pc[t] \in {"sleep", "cvsleep"}
Awake(t) == [pc EXCEPT ![t] = IF @ = "sleep" THEN "block" ELSE "cvwait"]

SemTake(t) ==
  /\ pc[t] \in {"block", "cvwait"} /\ synch[t].state = "queued"
  /\ sem[t] > 0
  /\ sem' = [sem EXCEPT ![t] = @ - 1]
  /\ UNCHANGED <<mu, count, queue, cvq, truth, synch, loc, pc, prog, mode>>

SemSleep(t) ==
  /\ pc[t] \in {"block", "cvwait"} /\ synch[t].state = "queued"
  /\ sem[t] = 0
  /\ pc' = [pc EXCEPT ![t] = IF @ = "block" THEN "sleep" ELSE "cvsleep"]
  /\ UNCHANGED <<mu, count, queue, cvq, truth, synch, sem, loc, prog, mode>>

SemWoken(t) ==
  /\ Asleep(t)
  /\ sem[t] > 0
  /\ sem' = [sem EXCEPT ![t] = @ - 1]
  /\ pc' = Awake(t)
  /\ UNCHANGED <<mu, count, queue, cvq, truth, synch, loc, prog, mode>>

SemTimeout(t) ==
  /\ Asleep(t)
  /\ loc[t].timed
  /\ pc' = [pc EXCEPT ![t] = IF @ = "sleep" THEN "remove" ELSE "cvremove"]
  /\ UNCHANGED <<mu, count, queue, cvq, truth, synch, sem, loc, prog, mode>>

\* TryRemove takes the spinlock and the lock itself, if both are free and there
\* are waiters (if not, it is called again) ...
TryRemove(t) ==
  /\ pc[t] = "remove"
  /\ mu \cap {"Wait", "Spin", "Writer", "Reader"} = {"Wait"}
  /\ mu' = mu \cup {"Spin", "Writer"}
  /\ pc' = [pc EXCEPT ![t] = "removing"]
  /\ UNCHANGED <<count, queue, cvq, truth, synch, sem, loc, prog, mode>>

\* ... takes the thread off the list if it is still there, and releases both.  It
\* is called again while a waker has the thread.
Removed(t) ==
  LET found == t \in Range(queue)
      q == Remove(queue, t)
      sy == IF found
            THEN [synch EXCEPT ![t].next = FALSE, ![t].state = "available"]
            ELSE synch
  IN /\ pc[t] = "removing"
     /\ queue' = q
     /\ synch' = IF q = <<>> THEN sy
                 ELSE [sy EXCEPT ![Last(q)].readers = 0,
                                 ![Last(q)].maybe_unlocking = FALSE]
     /\ mu' = (mu \cap {"Desig", "Event"}) \cup (IF q = <<>> THEN {} ELSE {"Wait"})
     /\ pc' = [pc EXCEPT ![t] = IF sy[t].next THEN "remove" ELSE "removed"]
     /\ UNCHANGED <<count, cvq, truth, sem, loc, prog, mode>>

\* (wrong) One attempt to get off the list is enough.
TimedOutOnList(t) ==
  /\ pc[t] \in {"remove", "removed"}
  /\ synch' = [synch EXCEPT ![t].cond = None, ![t].state = "available"]
  /\ loc' = [loc EXCEPT ![t].timed = FALSE]
  /\ pc' = [pc EXCEPT ![t] = "block"]
  /\ UNCHANGED <<mu, count, queue, cvq, truth, sem, prog, mode>>

\* The thread is off every list (its own doing, or a waker's): the timeout is
\* satisfied and the condition no longer matters.
TimedOut(t) ==
  /\ pc[t] \in {"remove", "removed"}
  /\ ~synch[t].next
  /\ synch' = [synch EXCEPT ![t].cond = None]
  /\ loc' = [loc EXCEPT ![t].timed = FALSE]
  /\ pc' = [pc EXCEPT ![t] = "block"]
  /\ UNCHANGED <<mu, count, queue, cvq, truth, sem, prog, mode>>

-----------------------------------------------------------------------------
(* Releasing: UnlockSlow, entered after the fast paths of Unlock and       *)
(* ReaderUnlock, whose compare-exchange is the same step as QuickRelease.  *)

\* Where the caller of UnlockSlow goes on.
Returns(t, list) ==
  IF list # <<>> THEN "wake"
  ELSE CASE loc[t].waitp = "none" -> "idle"
         [] loc[t].waitp = "mutex" -> "block"
         [] loc[t].waitp = "cv" -> "cvwait"

\* What leaving UnlockSlow does to its locals.
LeaveUnlock(t, list) ==
  loc' = [loc EXCEPT ![t].w = None, ![t].pw = None, ![t].old_h = None,
                     ![t].wrwait = FALSE, ![t].list = list]

\* (wrong) A writer need not look at the waiters.
QuickWriterAlways == "Writer" \in mu

\* Can this writer release without looking at the waiters?
QuickWriter ==
  /\ "Writer" \in mu
  /\ mu \cap {"Wait", "Desig"} # {"Wait"}

\* Can this reader?
QuickReader == mu \cap {"Reader", "Wait"} = {"Reader"}

QuickRelease(t) ==
  /\ pc[t] = "unlock" /\ loc[t].waitp = "none"
  /\ \/ /\ QuickWriter
        /\ mu' = mu \ {"WrWait", "Writer"}
        /\ UNCHANGED count
     \/ /\ ~QuickWriter /\ QuickReader
        /\ mu' = IF count = 1 THEN mu \ {"Reader"} ELSE mu
        /\ count' = count - 1
  /\ mode' = [mode EXCEPT ![t] = "none"]
  /\ LeaveUnlock(t, <<>>)
  /\ pc' = [pc EXCEPT ![t] = Returns(t, <<>>)]
  /\ UNCHANGED <<queue, cvq, truth, synch, sem, prog>>

\* The spinlock is free and the release is not quick.
MustLook(t) ==
  /\ pc[t] = "unlock"
  /\ "Spin" \notin mu
  /\ loc[t].waitp = "none" => ~QuickWriter /\ ~QuickReader

\* No waiters, and the caller wants to wait: take the spinlock ...
LookAlone(t) ==
  /\ MustLook(t)
  /\ "Wait" \notin mu
  /\ mu' = mu \cup {"Spin"}
  /\ pc' = [pc EXCEPT ![t] = "alone"]
  /\ UNCHANGED <<count, queue, cvq, truth, synch, sem, loc, prog, mode>>

\* ... queue the caller, and release spinlock and lock in one exchange, which
\* sees the reader count as it is by then (readers come and go meanwhile).
QueueSelf(t) ==
  LET readers == IF count >= 1 THEN count - 1 ELSE count
      clear == IF "Writer" \notin mu /\ count = 1 THEN {"WrWait", "Reader"}
               ELSE {"WrWait", "Writer"}
      r == Requeue(queue, synch, t, readers)
  IN /\ pc[t] = "alone"
     /\ queue' = r.queue
     /\ synch' = r.synch
     /\ cvq' = r.cvq
     /\ mu' = (mu \ (clear \cup {"Spin"})) \cup (IF r.queue # <<>> THEN {"Wait"} ELSE {})
     /\ count' = IF r.queue # <<>> THEN 0 ELSE readers
     /\ mode' = [mode EXCEPT ![t] = "none"]
     /\ LeaveUnlock(t, <<>>)
     /\ pc' = [pc EXCEPT ![t] = Returns(t, <<>>)]
     /\ UNCHANGED <<truth, sem, prog>>

\* There are waiters, and other readers keep the lock.
NotLast(t) ==
  LET h == Last(queue)
      r == Requeue(queue, [synch EXCEPT ![h].readers = @ - 1], t, 0)
  IN /\ MustLook(t)
     /\ "Wait" \in mu
     /\ "Reader" \in mu /\ synch[h].readers > 1
     /\ queue' = r.queue
     /\ synch' = r.synch
     /\ cvq' = r.cvq
     /\ mode' = [mode EXCEPT ![t] = "none"]
     /\ LeaveUnlock(t, <<>>)
     /\ pc' = [pc EXCEPT ![t] = Returns(t, <<>>)]
     /\ UNCHANGED <<mu, count, truth, sem, prog>>

\* There are waiters and the lock becomes free.
BecomesFree(t) ==
  /\ MustLook(t)
  /\ "Wait" \in mu
  /\ ~("Reader" \in mu /\ synch[Last(queue)].readers > 1)

\* The first waiter is a writer without condition.
EasyWriter ==
  LET f == Head(queue) IN synch[f].how = "Exclusive" /\ synch[f].cond = None

\* An earlier walk found whom to wake, and there is nobody left to consider.
Found(t) ==
  /\ loc[t].w # None
  /\ synch[loc[t].w].how = "Exclusive" \/ Last(queue) = loc[t].old_h

\* Walk the part of the list not walked yet, without the spinlock, and come back.
WalkList(t) ==
  LET h == Last(queue)
      k == Walk(queue, synch, t)
      at == [x \in Range(queue) |-> Pos(queue, x)]
  IN /\ BecomesFree(t)
     /\ ~EasyWriter /\ ~Found(t)
     /\ loc[t].old_h # h
     /\ synch' = [x \in Threads |->
                    [synch[x] EXCEPT
                       !.wake = IF x \in Range(queue) /\ at[x] \in k.seen
                                THEN at[x] \in k.mark ELSE @,
                       !.maybe_unlocking = (x = h) \/ @]]
     /\ loc' = [loc EXCEPT ![t].old_h = h, ![t].w = k.w, ![t].pw = k.pw,
                           ![t].wrwait = k.wrwait]
     /\ UNCHANGED <<mu, count, queue, cvq, truth, sem, pc, prog, mode>>

\* Every waiter was considered and none can run: release the lock.
WakeNone(t) ==
  LET h == Last(queue)
      r == Requeue(queue, [synch EXCEPT ![h].readers = 0, ![h].maybe_unlocking = FALSE],
                   t, 0)
  IN /\ BecomesFree(t)
     /\ ~EasyWriter /\ ~Found(t)
     /\ loc[t].old_h = h
     /\ mu' = mu \ {"Reader", "Writer", "WrWait"}
     /\ queue' = r.queue
     /\ synch' = r.synch
     /\ cvq' = r.cvq
     /\ mode' = [mode EXCEPT ![t] = "none"]
     /\ LeaveUnlock(t, <<>>)
     /\ pc' = [pc EXCEPT ![t] = Returns(t, <<>>)]
     /\ UNCHANGED <<count, truth, sem, prog>>

\* Whom WakeSome starts with, where its predecessor says it is on the list, and
\* the threads it wakes.
First(t) == IF EasyWriter THEN Head(queue) ELSE loc[t].w
FirstPos(t) ==
  IF EasyWriter \/ loc[t].pw \in {None, Last(queue)} THEN 1 ELSE Pos(queue, loc[t].pw) + 1
MarkFirst(t) == [synch EXCEPT ![First(t)].wake = @ \/ EasyWriter]
WakeList(t) == Wakeable(queue, MarkFirst(t), FirstPos(t))

\* Take the waiters to wake off the list, queue the caller if it must wait, set
\* the designated-waker bit and release the lock.
WakeSome(t) ==
  LET list == WakeList(t)
      r == Requeue(SelectSeq(queue, LAMBDA x : x \notin Range(list)), MarkFirst(t), t, 0)
      h == Last(r.queue)
  IN /\ BecomesFree(t)
     /\ EasyWriter \/ Found(t)
     /\ queue' = r.queue
     /\ cvq' = r.cvq
     /\ synch' = IF r.queue = <<>> THEN r.synch
                 ELSE [r.synch EXCEPT ![h].readers = 0, ![h].maybe_unlocking = FALSE]
     /\ mu' = (mu \cap {"Event"}) \cup {"Desig"}
                \cup (IF r.queue = <<>> THEN {} ELSE {"Wait"})
                \cup (IF r.queue # <<>> /\ (EasyWriter \/ loc[t].wrwait) THEN {"WrWait"} ELSE {})
     /\ mode' = [mode EXCEPT ![t] = "none"]
     /\ LeaveUnlock(t, list)
     /\ pc' = [pc EXCEPT ![t] = "wake"]
     /\ UNCHANGED <<count, truth, sem, prog>>

\* (wrong) The woken thread is made available without a token.
WakeupNoPost(t) ==
  /\ pc[t] = "post"
  /\ loc' = [loc EXCEPT ![t].list = Tail(@)]
  /\ pc' = [pc EXCEPT ![t] = Returns(t, Tail(loc[t].list))]
  /\ UNCHANGED <<mu, count, queue, cvq, truth, synch, sem, prog, mode>>

\* Wakeup, for each thread of the wake list: off the list, available, token.
Wakeup(t) ==
  /\ pc[t] = "wake"
  /\ synch' = [synch EXCEPT ![Head(loc[t].list)].next = FALSE]
  /\ pc' = [pc EXCEPT ![t] = "avail"]
  /\ UNCHANGED <<mu, count, queue, cvq, truth, sem, loc, prog, mode>>

WakeupState(t) ==
  /\ pc[t] = "avail"
  /\ synch' = [synch EXCEPT ![Head(loc[t].list)].state = "available"]
  /\ pc' = [pc EXCEPT ![t] = "post"]
  /\ UNCHANGED <<mu, count, queue, cvq, truth, sem, loc, prog, mode>>

WakeupPost(t) ==
  /\ pc[t] = "post"
  /\ sem' = [sem EXCEPT ![Head(loc[t].list)] = @ + 1]
  /\ loc' = [loc EXCEPT ![t].list = Tail(@)]
  /\ pc' = [pc EXCEPT ![t] = Returns(t, Tail(loc[t].list))]
  /\ UNCHANGED <<mu, count, queue, cvq, truth, synch, prog, mode>>

-----------------------------------------------------------------------------
(* The condition variable: WaitCommon, Remove, Signal, SignalAll, Fer.     *)

\* Signalled (or removed after a timeout): reacquire through Trans, as a thread
\* that has blocked.
CvWaitDone(t) ==
  /\ pc[t] = "cvwait"
  /\ synch[t].state = "available"
  /\ pc' = [pc EXCEPT ![t] = "slow"]
  /\ loc' = [loc EXCEPT ![t].blocked = TRUE, ![t].waitp = "none", ![t].timed = FALSE]
  /\ UNCHANGED <<mu, count, queue, cvq, truth, synch, sem, prog, mode>>

\* Timed out: take the thread off the condition variable's list, unless a
\* signaller already has it, and wait without timeout from now on.
CvRemove(t) ==
  /\ pc[t] = "cvremove"
  /\ cvq' = Remove(cvq, t)
  /\ synch' = IF t \in Range(cvq)
              THEN [synch EXCEPT ![t].next = FALSE, ![t].state = "available"]
              ELSE synch
  /\ loc' = [loc EXCEPT ![t].timed = FALSE]
  /\ pc' = [pc EXCEPT ![t] = "cvwait"]
  /\ UNCHANGED <<mu, count, queue, truth, sem, prog, mode>>

\* Where a signaller goes on when it has transferred its whole list.
Signalled(t, list) ==
  IF list # <<>> THEN "fer" ELSE IF mode[t] = "none" THEN "idle" ELSE "held"

\* The bits that keep w from taking the mutex now.
Conflicting(w) == {"Writer"} \cup (IF synch[w].how = "Shared" THEN {} ELSE {"Reader"})

\* Fer: w could take the mutex, so it is woken ...
FerWake(t) ==
  LET w == Head(loc[t].list)
  IN /\ pc[t] = "fer"
     /\ mu \cap Conflicting(w) = {}
     /\ synch' = [synch EXCEPT ![w].next = FALSE, ![w].state = "available"]
     /\ pc' = [pc EXCEPT ![t] = "ferpost"]
     /\ UNCHANGED <<mu, count, queue, cvq, truth, sem, loc, prog, mode>>

FerPost(t) ==
  LET l == loc[t].list
  IN /\ pc[t] = "ferpost"
     /\ sem' = [sem EXCEPT ![Head(l)] = @ + 1]
     /\ loc' = [loc EXCEPT ![t].list = Tail(@)]
     /\ pc' = [pc EXCEPT ![t] = Signalled(t, Tail(l))]
     /\ UNCHANGED <<mu, count, queue, cvq, truth, synch, prog, mode>>

\* ... or somebody holds the mutex, and w moves to its list without waking.
FerQueue(t) ==
  LET w == Head(loc[t].list)
      e == Enqueue(queue, synch, w, FALSE, count)
  IN /\ pc[t] = "fer"
     /\ mu \cap Conflicting(w) # {}
     /\ "Spin" \notin mu
     /\ mu' = mu \cup {"Wait"}
     /\ queue' = e.queue
     /\ synch' = e.synch
     /\ count' = 0
     /\ loc' = [loc EXCEPT ![t].list = Tail(@)]
     /\ pc' = [pc EXCEPT ![t] = Signalled(t, Tail(loc[t].list))]
     /\ UNCHANGED <<cvq, truth, sem, prog, mode>>

-----------------------------------------------------------------------------
(* The calls of the threads.                                               *)

Calling(t, at, op) ==
  /\ pc[t] \in at
  /\ prog[t] # <<>>
  /\ Head(prog[t]).op = op

Consume(t) == prog' = [prog EXCEPT ![t] = Tail(@)]

\* Lock, ReaderLock, LockWhen, ReaderLockWhen and their variants with a timeout.
Lock(t) ==
  LET c == Head(prog[t])
  IN /\ Calling(t, {"idle"}, "Lock")
     /\ Consume(t)
     /\ synch' = [synch EXCEPT ![t].how = c.how, ![t].cond = c.cond]
     /\ loc' = [loc EXCEPT ![t].blocked = FALSE, ![t].timed = c.timed]
     /\ pc' = [pc EXCEPT ![t] = "slow"]
     /\ UNCHANGED <<mu, count, queue, cvq, truth, sem, mode>>

\* TryLock and ReaderTryLock: one compare-exchange, or false.  A thread that did
\* not get the lock ends its program.
TryLock(t) ==
  LET how == Head(prog[t]).how
  IN /\ Calling(t, {"idle"}, "TryLock")
     /\ \/ /\ mu \cap SlowNeedZero(how) = {}
           /\ mu' = mu \cup {FastOr(how)}
           /\ count' = count + FastAdd(how)
           /\ mode' = [mode EXCEPT ![t] = how]
           /\ pc' = [pc EXCEPT ![t] = "held"]
           /\ Consume(t)
        \/ /\ prog' = [prog EXCEPT ![t] = <<>>]
           /\ UNCHANGED <<mu, count, mode, pc>>
     /\ UNCHANGED <<queue, cvq, truth, synch, sem, loc>>

\* Unlock and ReaderUnlock.
Unlock(t) ==
  /\ Calling(t, {"held"}, "Unlock")
  /\ Consume(t)
  /\ loc' = [loc EXCEPT ![t].waitp = "none"]
  /\ pc' = [pc EXCEPT ![t] = "unlock"]
  /\ UNCHANGED <<mu, count, queue, cvq, truth, synch, sem, mode>>

\* AwaitCommon.
Await(t) ==
  LET c == Head(prog[t])
  IN /\ Calling(t, {"held"}, "Await")
     /\ Consume(t)
     /\ IF Holds(c.cond)
        THEN UNCHANGED <<synch, loc, pc>>
        ELSE /\ synch' = [synch EXCEPT ![t].how = mode[t], ![t].cond = c.cond]
             /\ loc' = [loc EXCEPT ![t].waitp = "mutex", ![t].timed = c.timed]
             /\ pc' = [pc EXCEPT ![t] = "unlock"]
     /\ UNCHANGED <<mu, count, queue, cvq, truth, sem, mode>>

\* (wrong) Waiting on the condition variable always ends with the writer lock.
CvWaitAsWriter(t) ==
  /\ Calling(t, {"held"}, "CvWait")
  /\ Consume(t)
  /\ synch' = [synch EXCEPT ![t].how = "Exclusive", ![t].cond = None]
  /\ loc' = [loc EXCEPT ![t].waitp = "cv", ![t].timed = Head(prog[t]).timed]
  /\ pc' = [pc EXCEPT ![t] = "unlock"]
  /\ UNCHANGED <<mu, count, queue, cvq, truth, sem, mode>>

\* CondVar::Wait and its variants with a timeout.
CvWait(t) ==
  /\ Calling(t, {"held"}, "CvWait")
  /\ Consume(t)
  /\ synch' = [synch EXCEPT ![t].how = mode[t], ![t].cond = None]
  /\ loc' = [loc EXCEPT ![t].waitp = "cv", ![t].timed = Head(prog[t]).timed]
  /\ pc' = [pc EXCEPT ![t] = "unlock"]
  /\ UNCHANGED <<mu, count, queue, cvq, truth, sem, mode>>

\* CondVar::Signal takes the first waiter, SignalAll the whole list.
Signal(t) ==
  /\ Calling(t, {"idle", "held"}, "Signal")
  /\ Consume(t)
  /\ LET n == IF cvq = <<>> THEN 0 ELSE 1
     IN /\ cvq' = SubSeq(cvq, n + 1, Len(cvq))
        /\ loc' = [loc EXCEPT ![t].list = SubSeq(cvq, 1, n)]
        /\ pc' = [pc EXCEPT ![t] = IF n = 0 THEN @ ELSE "fer"]
  /\ UNCHANGED <<mu, count, queue, truth, synch, sem, mode>>

SignalAll(t) ==
  /\ Calling(t, {"idle", "held"}, "SignalAll")
  /\ Consume(t)
  /\ cvq' = <<>>
  /\ loc' = [loc EXCEPT ![t].list = cvq]
  /\ pc' = [pc EXCEPT ![t] = IF cvq = <<>> THEN @ ELSE "fer"]
  /\ UNCHANGED <<mu, count, queue, truth, synch, sem, mode>>

\* A writer changes the protected data, and with it what a Condition returns.
SetCond(t) ==
  /\ Calling(t, {"held"}, "Set")
  /\ Consume(t)
  /\ truth' = truth \cup {Head(prog[t]).cond}
  /\ UNCHANGED <<mu, count, queue, cvq, synch, sem, loc, pc, mode>>

ClearCond(t) ==
  /\ Calling(t, {"held"}, "Clear")
  /\ Consume(t)
  /\ truth' = truth \ {Head(prog[t]).cond}
  /\ UNCHANGED <<mu, count, queue, cvq, synch, sem, loc, pc, mode>>

\* EnableDebugLog: AtomicSetBits sets the event bit while the spinlock is free.
EnableDebugLog(t) ==
  /\ Calling(t, {"idle", "held"}, "EnableDebugLog")
  /\ Consume(t)
  /\ "Spin" \notin mu
  /\ mu' = mu \cup {"Event"}
  /\ UNCHANGED <<count, queue, cvq, truth, synch, sem, loc, pc, mode>>

-----------------------------------------------------------------------------
Init ==
  /\ mu = {}
  /\ count = 0
  /\ queue = <<>>
  /\ cvq = <<>>
  /\ truth = {}
  /\ synch = [t \in Threads |->
                [state |-> "available", next |-> FALSE, wake |-> FALSE, readers |-> 0,
                 maybe_unlocking |-> FALSE, how |-> "Exclusive", cond |-> None]]
  /\ sem = [t \in Threads |-> 0]
  /\ loc = [t \in Threads |->
              [blocked |-> FALSE, waitp |-> "none", timed |-> FALSE, w |-> None,
               pw |-> None, old_h |-> None, wrwait |-> FALSE, list |-> <<>>]]
  /\ pc = [t \in Threads |-> "idle"]
  /\ prog \in Programs
  /\ mode = [t \in Threads |-> "none"]

Step(t) ==
  \/ Lock(t) \/ TryLock(t) \/ Unlock(t) \/ Await(t) \/ CvWait(t)
  \/ Signal(t) \/ SignalAll(t) \/ SetCond(t) \/ ClearCond(t) \/ EnableDebugLog(t)
  \/ Acquire(t) \/ Join(t) \/ QueueUp(t)
  \/ BlockDone(t) \/ SemTake(t) \/ SemSleep(t) \/ SemWoken(t) \/ SemTimeout(t)
  \/ TryRemove(t) \/ Removed(t) \/ TimedOut(t)
  \/ QuickRelease(t) \/ LookAlone(t) \/ QueueSelf(t) \/ NotLast(t)
  \/ WalkList(t) \/ WakeNone(t) \/ WakeSome(t)
  \/ Wakeup(t) \/ WakeupState(t) \/ WakeupPost(t)
  \/ CvWaitDone(t) \/ CvRemove(t) \/ FerWake(t) \/ FerPost(t) \/ FerQueue(t)

\* Nothing is left to do: each thread has made its calls, or sleeps without
\* timeout until a condition that is false becomes true or a signal comes.
Settled ==
  \A t \in Threads :
    \/ pc[t] = "idle" /\ prog[t] = <<>>
    \/ pc[t] = "sleep" /\ sem[t] = 0 /\ ~loc[t].timed /\ ~Holds(synch[t].cond)
    \/ pc[t] = "cvsleep" /\ sem[t] = 0 /\ ~loc[t].timed /\ t \in Range(cvq)

Next == \E t \in Threads : Step(t)

\* Every thread is scheduled again and again.
Fairness == \A t \in Threads : WF_vars(Step(t))

Spec == Init /\ [][Next]_vars /\ Fairness

-----------------------------------------------------------------------------
(* Properties.                                                             *)

TypeOK ==
  /\ mu \subseteq Bits
  /\ count \in Nat
  /\ queue \in Seq(Threads) /\ cvq \in Seq(Threads)
  /\ truth \subseteq Conds
  /\ synch \in [Threads -> [state : {"available", "queued"}, next : BOOLEAN,
                            wake : BOOLEAN, readers : Nat, maybe_unlocking : BOOLEAN,
                            how : Hows, cond : Conds \cup {None}]]
  /\ sem \in [Threads -> Nat]
  /\ loc \in [Threads -> [blocked : BOOLEAN, waitp : {"none", "mutex", "cv"},
                          timed : BOOLEAN, w : Threads \cup {None},
                          pw : Threads \cup {None}, old_h : Threads \cup {None},
                          wrwait : BOOLEAN, list : Seq(Threads)]]
  /\ pc \in [Threads -> PCs]
  /\ prog \in [Threads -> Seq(Calls)]
  /\ mode \in [Threads -> Hows \cup {"none"}]

Readers == {t \in Threads : mode[t] = "Shared"}
Writers == {t \in Threads : mode[t] = "Exclusive"}

\* The thread is inside a wait, whether or not it has been taken off the list.
InWait(t) ==
  \/ pc[t] \in {"block", "sleep", "remove", "removing", "removed",
              "cvwait", "cvsleep", "cvremove"}
  \/ pc[t] \in {"wake", "avail", "post"} /\ loc[t].waitp # "none"

\* The word tells the truth about the lock (the comment above kMuOne): the two
\* holder bits, the reader count wherever it is kept, kMuWait, kMuWrWait only with
\* kMuWait, and kMuDesig, which is INVARIANT1 of mutex.cc: if there is a designated
\* waker, there is a thread that was blocked, is no longer, and has not acquired the
\* mutex yet.
WordTruthful ==
  /\ "Writer" \in mu <=> Writers # {} \/ \E t \in Threads : pc[t] = "removing"
  /\ "Reader" \in mu <=> Readers # {}
  /\ "Wait" \in mu <=> queue # <<>>
  /\ "WrWait" \in mu => "Wait" \in mu
  /\ Cardinality(Readers) = IF "Wait" \notin mu THEN count
                            ELSE IF "Reader" \in mu THEN synch[Last(queue)].readers
                            ELSE 0
  /\ "Desig" \in mu =>
       \E t \in Threads : \/ pc[t] = "slow" /\ loc[t].blocked
                          \/ InWait(t) /\ t \notin Range(queue) \cup Range(cvq)

\* The threads that have t on their private list, to be woken or transferred.
HandedTo(t) ==
  {u \in Threads :
     t \in Range(IF pc[u] \in {"post", "ferpost"} THEN Tail(loc[u].list) ELSE loc[u].list)}

\* A queued waiter is on exactly one list (the mutex's, the condition variable's
\* or that of one thread about to wake it), so whoever must wake it will find
\* it; and who is on a list is a queued waiter.
OneList ==
  /\ \A t \in Threads :
       LET places == (IF t \in Range(queue) THEN {"mutex"} ELSE {})
                       \cup (IF t \in Range(cvq) THEN {"cv"} ELSE {})
                       \cup {<<u>> : u \in HandedTo(t)}
       IN IF InWait(t) /\ synch[t].state = "queued"
          THEN Cardinality(places) = 1 ELSE places = {}
  /\ IsInjective(queue) /\ IsInjective(cvq)

\* No wakeup is lost: when the mutex is free and no thread is on its way to take
\* it (kMuDesig), every waiter on the list waits for a condition that is false.
NoLostWakeup ==
  mu \cap {"Reader", "Writer", "Spin", "Desig"} = {} =>
    \A t \in Range(queue) : ~Holds(synch[t].cond)

\* Every call returns unless it waits, without timeout, for a condition that stays
\* false or a signal that never comes: no wakeup is lost, nobody spins for ever,
\* and a thread that timed out gets off the list and gets the lock.
AllReturn == <>[]Settled

-----------------------------------------------------------------------------
(* What the callers see.                                                   *)

\* The caller is outside of any acquiring or waiting call.
AtCaller(t) ==
  \/ pc[t] \in {"idle", "held", "fer", "ferpost"}
  \/ pc[t] \in {"unlock", "alone"} /\ loc[t].waitp # "mutex"
  \/ pc[t] \in {"wake", "avail", "post"} /\ loc[t].waitp = "none"

Wish(t) ==
  LET cv == t \in Range(cvq)
  IN [how |-> synch[t].how, cond |-> synch[t].cond, cv |-> cv,
      timed |-> loc[t].timed /\ (cv \/ synch[t].cond # None)]

Region == INSTANCE CriticalRegion WITH
  view <- [t \in Threads |-> IF AtCaller(t) THEN mode[t] ELSE "none"],
  want <- [t \in Threads |-> IF AtCaller(t) THEN None ELSE Wish(t)]

\* Mutex and CondVar implement the critical region their header describes: callers
\* hold the lock compatibly, LockWhen and Await return with their condition true
\* unless their timeout expired, CondVar::Wait returns after a signal or the
\* timeout, and a signal is not lost while somebody waits.
ImplementsRegion == Region!Spec
=============================================================================
