----------------------------- MODULE ThreadPool -----------------------------
(***************************************************************************)
(* DelegateSimpleThreadPool and the SimpleThreads it runs                  *)
(* (turbo/threading/simple_thread.cc).  Its owner starts it, adds work and *)
(* joins it, time and again; work may add work.  A critical section of     *)
(* lock_ is one step.  dry_ is a manual-reset event: a wait ends if it is  *)
(* signaled (WaitableEvent), and it may have been reset when the waiter    *)
(* gets to run.                                                            *)
(*                                                                         *)
(* AddWork() signals dry_ also if it is asked to add nothing.  A worker    *)
(* that then finds the queue empty fails the assertion at line 152, or,    *)
(* where assertions are compiled out, takes the front of an empty queue,   *)
(* which has no meaning: the program ends there in the model.              *)
(***************************************************************************)
EXTENDS Naturals, Sequences, Functions

CONSTANTS
  Workers,        \* num_threads_ threads, in the order they are started
  MaxWork,        \* bound: delegates added by AddWork
  MaxRounds       \* bound: times Start() is called

VARIABLES
  delegates,      \* delegates_: numbers of pieces of work, or nullptr
  dry,            \* dry_ is signaled
  owner,          \* place of the owner: "idle", "start", "started" or "join"
  threads,        \* threads_.size(), or threads joined so far
  at,             \* per worker: place in ThreadMain and in Run
  work,           \* per worker: the local variable
  event,          \* per worker: event_ of its SimpleThread is signaled
  added,          \* pieces of work added
  outstanding,    \* history: pieces added when JoinAll was last called
  zero,           \* history: AddWork was called with a repeat_count of 0
  runs,           \* runs[w]: times work w was run to its end
  rounds

vars == <<delegates, dry, owner, threads, at, work, event, added, outstanding, zero, runs, rounds>>

nullptr == 0
Ids == Range(Workers)

Init ==
  /\ delegates = <<>> /\ dry = FALSE
  /\ owner = "idle" /\ threads = 0 /\ rounds = 0
  /\ at = [w \in Ids |-> "none"] /\ work = [w \in Ids |-> nullptr]
  /\ event = [w \in Ids |-> FALSE]
  /\ added = 0 /\ outstanding = 0 /\ zero = FALSE /\ runs = [n \in 1..MaxWork |-> 0]

Goto(w, where) == at' = [at EXCEPT ![w] = where]

\* AddWork: what is pushed under lock_, then dry_ is signaled.
AddWork(pushed) == delegates' = delegates \o pushed /\ dry' = TRUE

\* A delegate added repeat_count times is that many pieces of work.
AddPieces(repeat_count) ==
  /\ added + repeat_count <= MaxWork
  /\ added' = added + repeat_count
  /\ zero' = (zero \/ repeat_count = 0)
  /\ AddWork([i \in 1..repeat_count |-> added + i])

-----------------------------------------------------------------------------
(* The owner *)

AddFromOwner ==
  /\ owner \in {"idle", "started"}
  /\ \E n \in 0..2 : AddPieces(n)
  /\ UNCHANGED <<owner, threads, at, work, event, outstanding, runs, rounds>>

Start ==
  /\ owner = "idle" /\ rounds < MaxRounds
  /\ owner' = "start" /\ rounds' = rounds + 1
  /\ UNCHANGED <<delegates, dry, threads, at, work, event, added, outstanding, zero, runs>>

\* SimpleThread::Start: the thread is created, and awaited until it has a name.
Create ==
  LET w == Workers[threads + 1]
  IN  /\ owner = "start" /\ at[w] = "none"
      /\ Goto(w, "main")
      /\ event' = [event EXCEPT ![w] = FALSE]
      /\ UNCHANGED <<delegates, dry, owner, threads, work, added, outstanding, zero, runs, rounds>>

Started ==
  /\ owner = "start" /\ event[Workers[threads + 1]] /\ at[Workers[threads + 1]] # "none"
  /\ threads' = threads + 1
  /\ owner' = IF threads' = Len(Workers) THEN "started" ELSE "start"
  /\ UNCHANGED <<delegates, dry, at, work, event, added, outstanding, zero, runs, rounds>>

\* JoinAll: a nullptr for each thread, then each thread is joined and deleted.
JoinAll ==
  /\ owner = "started"
  /\ AddWork([i \in 1..Len(Workers) |-> nullptr])
  /\ owner' = "join" /\ threads' = 0 /\ outstanding' = added
  /\ UNCHANGED <<at, work, event, added, zero, runs, rounds>>

Join ==
  LET w == Workers[threads + 1]
  IN  /\ owner = "join" /\ at[w] = "exited"
      /\ Goto(w, "none")
      /\ event' = [event EXCEPT ![w] = FALSE]
      /\ threads' = IF threads + 1 = Len(Workers) THEN 0 ELSE threads + 1
      /\ owner' = IF threads + 1 = Len(Workers) THEN "idle" ELSE "join"
      /\ UNCHANGED <<delegates, dry, work, added, outstanding, zero, runs, rounds>>

-----------------------------------------------------------------------------
(* The workers *)

\* SimpleThread::ThreadMain up to event_.Signal().
ThreadMain(w) ==
  /\ at[w] = "main"
  /\ event' = [event EXCEPT ![w] = TRUE]
  /\ Goto(w, "wait")
  /\ UNCHANGED <<delegates, dry, owner, threads, work, added, outstanding, zero, runs, rounds>>

Wait(w) ==
  /\ at[w] = "wait" /\ dry
  /\ Goto(w, "take")
  /\ UNCHANGED <<delegates, dry, owner, threads, work, event, added, outstanding, zero, runs, rounds>>

\* (wrong) dry_ stays signaled when the last delegate is taken
TakeStaysDry(w) ==
  /\ at[w] = "take"
  /\ work' = [work EXCEPT ![w] = delegates[1]]
  /\ delegates' = Tail(delegates)
  /\ Goto(w, IF work'[w] = nullptr THEN "exited" ELSE "run")
  /\ UNCHANGED <<dry, owner, threads, event, added, outstanding, zero, runs, rounds>>

\* Under lock_: the first delegate, unless others have taken all; nullptr means quit.
Take(w) ==
  /\ at[w] = "take"
  /\ IF ~dry THEN Goto(w, "wait") /\ UNCHANGED <<delegates, dry, work>>
     ELSE IF delegates = <<>> THEN Goto(w, "abort") /\ UNCHANGED <<delegates, dry, work>>
     ELSE /\ work' = [work EXCEPT ![w] = delegates[1]]
          /\ delegates' = Tail(delegates)
          /\ dry' = (delegates' # <<>>)
          /\ Goto(w, IF work'[w] = nullptr THEN "exited" ELSE "run")
  /\ UNCHANGED <<owner, threads, event, added, outstanding, zero, runs, rounds>>

\* work->Run() may add work, while the pool is being joined too.
AddFromWorker(w) ==
  /\ at[w] = "run"
  /\ \E n \in 0..1 : AddPieces(n)
  /\ UNCHANGED <<owner, threads, at, work, event, outstanding, runs, rounds>>

RunEnds(w) ==
  /\ at[w] = "run"
  /\ runs' = [runs EXCEPT ![work[w]] = @ + 1]
  /\ Goto(w, "wait")
  /\ UNCHANGED <<delegates, dry, owner, threads, work, event, added, outstanding, zero, rounds>>

-----------------------------------------------------------------------------
OwnerStep == Create \/ Started \/ Join
WorkerStep(w) == ThreadMain(w) \/ Wait(w) \/ Take(w) \/ RunEnds(w)

Aborted == \E w \in Ids : at[w] = "abort"

Next ==
  /\ ~Aborted
  /\ \/ AddFromOwner \/ Start \/ JoinAll \/ OwnerStep
     \/ \E w \in Ids : WorkerStep(w) \/ AddFromWorker(w)

\* Threads are scheduled and work ends; nobody has to add work, start or join.
Fairness ==
  /\ WF_vars(~Aborted /\ OwnerStep)
  /\ \A w \in Ids : WF_vars(~Aborted /\ WorkerStep(w))

Spec == Init /\ [][Next]_vars /\ Fairness

-----------------------------------------------------------------------------
\* No work is run twice.  When JoinAll() returns, every piece that was added before it was
\* called has been run; a piece that running work has added since was run or is still in
\* delegates_, for the workers of the next Start(), and none of those will be told to quit
\* by this JoinAll().  dry_ is signaled exactly when there is work, so that the assertion at
\* simple_thread.cc:152 holds, unless AddWork() was called with a repeat_count of 0.
WorkDoneOnce ==
  /\ \A n \in 1..MaxWork : runs[n] <= 1
  /\ owner = "idle" =>
       /\ \A n \in 1..added : runs[n] = 1 \/ (n > outstanding /\ n \in Range(delegates))
       /\ nullptr \notin Range(delegates)
  /\ delegates # <<>> => dry
  /\ ~zero => ~Aborted /\ dry = (delegates # <<>>)

\* JoinAll() "will make sure that all outstanding work is processed" (simple_thread.h:168)
\* and asserts that it leaves nothing behind (simple_thread.cc:130).  What work adds while
\* it is being run, behind the nullptrs that end the workers, is left behind.
JoinLeavesNothing ==
  [][owner = "join" /\ owner' = "idle" => delegates' = <<>>]_vars

TwoWorkers == <<1, 2>>
=============================================================================
