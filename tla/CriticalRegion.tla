--------------------------- MODULE CriticalRegion ---------------------------
(***************************************************************************)
(* What turbo::Mutex and turbo::CondVar promise their callers              *)
(* (turbo/synchronization/mutex.h): a reader-writer lock that can be       *)
(* acquired when a Condition on the data it protects is true, given up     *)
(* while waiting for one, and released while waiting for a signal.  A step *)
(* is what one caller notices; how waiters are queued and woken is hidden. *)
(***************************************************************************)
CONSTANTS Threads, Conds, None

VARIABLES
  view,    \* how each caller holds the lock
  want,    \* what each blocked caller waits for, or None
  truth    \* the Conditions that the protected data makes true

Modes == {"none", "Shared", "Exclusive"}
Wishes == [how : {"Shared", "Exclusive"}, cond : Conds \cup {None},
           timed : BOOLEAN, cv : BOOLEAN]

\* Could t hold the lock this way together with the present holders?
Compatible(t, how) ==
  \A u \in Threads \ {t} :
    view[u] = "none" \/ (how = "Shared" /\ view[u] = "Shared")

Init ==
  /\ view = [t \in Threads |-> "none"]
  /\ want = [t \in Threads |-> None]
  /\ truth = {}

\* A caller that does not hold the lock asks for it, perhaps under a condition.
Ask(t) ==
  /\ view[t] = "none" /\ want[t] = None
  /\ \E w \in Wishes : ~w.cv /\ want' = [want EXCEPT ![t] = w]
  /\ UNCHANGED <<view, truth>>

\* TryLock and ReaderTryLock that succeed.
Take(t) ==
  /\ view[t] = "none" /\ want[t] = None
  /\ \E how \in Modes \ {"none"} :
       Compatible(t, how) /\ view' = [view EXCEPT ![t] = how]
  /\ UNCHANGED <<want, truth>>

\* The lock and the condition become available together.
Get(t) ==
  /\ want[t] # None
  /\ ~want[t].cv
  /\ want[t].cond = None \/ want[t].cond \in truth
  /\ Compatible(t, want[t].how)
  /\ view' = [view EXCEPT ![t] = want[t].how]
  /\ want' = [want EXCEPT ![t] = None]
  /\ UNCHANGED truth

\* The timeout expires: from now on the caller only wants the lock.
Expire(t) ==
  /\ want[t] # None
  /\ want[t].timed
  /\ want' = [want EXCEPT ![t].cond = None, ![t].timed = FALSE, ![t].cv = FALSE]
  /\ UNCHANGED <<view, truth>>

Leave(t) ==
  /\ view[t] # "none"
  /\ view' = [view EXCEPT ![t] = "none"]
  /\ UNCHANGED <<want, truth>>

\* Await under a false condition, or CondVar::Wait: the caller gives the lock up
\* and wants it back, in the same mode, later.
Suspend(t) ==
  /\ view[t] # "none"
  /\ view' = [view EXCEPT ![t] = "none"]
  /\ \E w \in Wishes :
       /\ w.how = view[t]
       /\ w.cv <=> w.cond = None
       /\ w.cond \notin truth
       /\ want' = [want EXCEPT ![t] = w]
  /\ UNCHANGED truth

\* Signal or SignalAll while there are waiters wakes at least one.
Signal ==
  \E S \in SUBSET {t \in Threads : want[t] # None /\ want[t].cv} :
    /\ S # {}
    /\ want' = [t \in Threads |->
                  IF t \in S THEN [want[t] EXCEPT !.cv = FALSE, !.timed = FALSE] ELSE want[t]]
    /\ UNCHANGED <<view, truth>>

\* Only a caller that holds the lock exclusively changes the data.
Write(t) ==
  /\ view[t] = "Exclusive"
  /\ truth' \in SUBSET Conds
  /\ UNCHANGED <<view, want>>

\* What Mutex does without any caller noticing.
Unnoticed == UNCHANGED <<view, want, truth>>

Next ==
  \/ Unnoticed
  \/ Signal
  \/ \E t \in Threads :
       Ask(t) \/ Take(t) \/ Get(t) \/ Expire(t) \/ Leave(t) \/ Suspend(t) \/ Write(t)

Spec == Init /\ [][Next]_<<view, want, truth>>
=============================================================================
