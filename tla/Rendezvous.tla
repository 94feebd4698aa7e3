----------------------------- MODULE Rendezvous -----------------------------
(***************************************************************************)
(* Barrier, BlockingCounter and Notification, whose callers and lock are   *)
(* the same variables, beside a SlotsLock.  Module MutexUsers chooses one. *)
(***************************************************************************)
EXTENDS SlotsLock

CONSTANTS
  Caller,            \* waits for the counter; destroys the notification
  InitialCounts      \* of the counter

ASSUME RendezvousAssumption ==
  /\ IsFiniteSet(Threads) /\ Caller \in Threads /\ Threads # {Caller}
  /\ InitialCounts \subseteq 0..Cardinality(Threads \ {Caller})
  /\ None \notin {"IsZero", "IsDone", "notified"}     \* None is not a Condition

VARIABLES
  view, want, truth,                      \* the lock
  num_to_block, num_to_exit, result,      \* of Barrier; result of Notification also
  count, num_waiting, initial_count,      \* of BlockingCounter
  prenotify, timed,                       \* of Notification
  alive                                   \* of Barrier and BlockingCounter

Notifier == CHOOSE t \in Threads \ {Caller} : TRUE

barrier == INSTANCE Barrier
counter == INSTANCE BlockingCounter WITH Waiter <- Caller, Workers <- Threads \ {Caller}
notification ==
  INSTANCE Notification WITH Owner <- Caller, Waiters <- Threads \ {Caller, Notifier}
=============================================================================
