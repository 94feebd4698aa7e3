---------------------------- MODULE Notification ----------------------------
(***************************************************************************)
(* turbo::Notification (turbo/synchronization/notification.h, .cc) over    *)
(* the contract of its Mutex, module CriticalRegion: one thread notifies,  *)
(* others wait, with and without a timeout, and the owner destroys the     *)
(* object after its own wait.  notified_yet_ is written under the lock and *)
(* read without it.                                                        *)
(***************************************************************************)
CONSTANTS Notifier, Owner, Waiters, None

VARIABLES
  view, want, truth,    \* mutex_; truth is {"notified"} when notified_yet_
  prenotify,            \* the constructor's argument
  pc, timed, result     \* per thread: location, kind of wait, its answer

region == <<view, want, truth>>
vars == <<region, prenotify, pc, timed, result>>

Callers == Waiters \cup {Notifier, Owner}
Waiting == Waiters \cup {Owner}

lock == INSTANCE CriticalRegion WITH Threads <- Callers, Conds <- {"notified"}

Locations == {"idle", "blocked", "store", "unlock", "out", "destroying", "destroyed", "gone"}

Wish(cond, tmo) == [how |-> "Exclusive", cond |-> cond, timed |-> tmo, cv |-> FALSE]

TypeOK ==
  /\ view \in [Callers -> lock!Modes]
  /\ want \in [Callers -> {Wish("notified", tmo) : tmo \in BOOLEAN} \cup {Wish(None, FALSE), None}]
  /\ truth \in SUBSET {"notified"}
  /\ prenotify \in BOOLEAN
  /\ pc \in [Callers -> Locations]
  /\ timed \in [Callers -> BOOLEAN]
  /\ result \in [Callers -> BOOLEAN]

Init ==
  /\ view = [t \in Callers |-> "none"]
  /\ want = [t \in Callers |-> None]
  /\ prenotify \in BOOLEAN
  /\ truth = IF prenotify THEN {"notified"} ELSE {}
  /\ pc = [t \in Callers |-> "idle"]
  /\ timed = [t \in Callers |-> FALSE]
  /\ result = [t \in Callers |-> FALSE]

HasBeenNotified == "notified" \in truth
Goto(t, where) == pc' = [pc EXCEPT ![t] = where]

-----------------------------------------------------------------------------
\* Notify(), which may be called once and not on a notification born notified.
Notify ==
  /\ pc[Notifier] = "idle" /\ ~prenotify
  /\ lock!Ask(Notifier) /\ want'[Notifier] = Wish(None, FALSE)
  /\ Goto(Notifier, "blocked")
  /\ UNCHANGED <<prenotify, timed, result>>

NotifyLocked ==
  /\ pc[Notifier] = "blocked"
  /\ lock!Get(Notifier)
  /\ Goto(Notifier, "store")
  /\ UNCHANGED <<prenotify, timed, result>>

NotifyStore ==
  /\ pc[Notifier] = "store"
  /\ lock!Write(Notifier) /\ truth' = {"notified"}
  /\ Goto(Notifier, "unlock")
  /\ UNCHANGED <<prenotify, timed, result>>

\* WaitForNotification (tmo = FALSE) and its variants with a timeout or deadline: at
\* once if the flag is set, else LockWhen.
Wait(t, tmo) ==
  /\ t \in Waiting /\ pc[t] = "idle"
  /\ timed' = [timed EXCEPT ![t] = tmo]
  /\ IF HasBeenNotified
     THEN /\ Goto(t, "out")
          /\ result' = [result EXCEPT ![t] = TRUE]
          /\ UNCHANGED region
     ELSE /\ lock!Ask(t) /\ want'[t] = Wish("notified", tmo)
          /\ Goto(t, "blocked")
          /\ UNCHANGED result
  /\ UNCHANGED prenotify

TimeoutExpires(t) ==
  /\ t \in Waiting /\ pc[t] = "blocked"
  /\ lock!Expire(t)
  /\ UNCHANGED <<prenotify, pc, timed, result>>

\* LockWhen returns, with the value of the condition.
WaitLocked(t) ==
  /\ t \in Waiting /\ pc[t] = "blocked"
  /\ lock!Get(t)
  /\ result' = [result EXCEPT ![t] = HasBeenNotified]
  /\ Goto(t, "unlock")
  /\ UNCHANGED <<prenotify, timed>>

Unlock(t) ==
  /\ pc[t] = "unlock"
  /\ lock!Leave(t)
  /\ Goto(t, "out")
  /\ UNCHANGED <<prenotify, timed, result>>

MayDestroy == pc[Owner] = "out" /\ result[Owner] /\ \A w \in Waiters : pc[w] = "out"

\* ~Notification: the owner knows that it has been notified and that nobody else
\* waits, but not that Notify() has returned.
Destroy ==
  /\ MayDestroy
  /\ lock!Ask(Owner) /\ want'[Owner] = Wish(None, FALSE)
  /\ Goto(Owner, "destroying")
  /\ UNCHANGED <<prenotify, timed, result>>

DestroyLocked ==
  /\ pc[Owner] = "destroying"
  /\ lock!Get(Owner)
  /\ Goto(Owner, "destroyed")
  /\ UNCHANGED <<prenotify, timed, result>>

Destroyed ==
  /\ pc[Owner] = "destroyed"
  /\ lock!Leave(Owner)
  /\ Goto(Owner, "gone")
  /\ UNCHANGED <<prenotify, timed, result>>

Step(t) ==
  \/ t = Notifier /\ (Notify \/ NotifyLocked \/ NotifyStore)
  \/ (\E tmo \in BOOLEAN : Wait(t, tmo)) \/ TimeoutExpires(t) \/ WaitLocked(t) \/ Unlock(t)
  \/ t = Owner /\ (Destroy \/ DestroyLocked \/ Destroyed)

Next == \E t \in Callers : Step(t)

Spec == Init /\ [][Next]_vars

-----------------------------------------------------------------------------
\* "Make sure that the thread running Notify() exits before the object is
\* destructed" (notification.cc:43-44), although the owner may have seen the flag
\* through the unlocked read in the middle of Notify().
SafeToDestroy == pc[Owner] = "gone" => pc[Notifier] \in {"idle", "out"}

\* A wait reports a notification only after one.
NoFalseAlarm == \A t \in Waiting : result[t] => HasBeenNotified

\* "returning the value of its notified state in either case": a wait gives up only
\* while the state is false, also when its timeout expires together with Notify().
HonestTimeout ==
  \A t \in Waiting : pc[t] = "unlock" /\ ~result[t] => timed[t] /\ ~HasBeenNotified

\* Every waiter has returned, and the owner has destroyed the notification unless its
\* own wait timed out.
AllReturned ==
  /\ \A t \in Waiters : pc[t] = "out"
  /\ pc[Owner] = "gone" \/ (pc[Owner] = "out" /\ timed[Owner] /\ ~result[Owner])
=============================================================================
