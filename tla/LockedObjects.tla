--------------------------- MODULE LockedObjects ---------------------------
(***************************************************************************)
(* Objects of the library that threads share under locks: WaitableEvents,  *)
(* the registry of samples, the records and snapshots of sampled cords,    *)
(* the deadlock detector of Mutex, or the levels of VKLOG sites.  Which of *)
(* them is used is chosen initially; the variables of the others have no   *)
(* value, those of the events their initial one.                           *)
(***************************************************************************)
EXTENDS WaitableEvent, TLC

CONSTANTS
  Reader, Samples, MaxSamples, MaxRegisters,          \* of SampleRecorder
  Infos, Snapshots, MaxTracked, MaxTaken,             \* of Cordz
  Lockers, Mutexes, HeldSlots, MaxForgets, MaxLocks, MaxVersion,   \* of DeadlockDetector
  Sites, Levels, MaxUpdates                           \* of VLogConfig, with the Lockers

VARIABLES
  using,
  all, graveyard, dead, size, limit, dropped, found, holds, yard, fields, heap, sample,
  registers, it, seen, due,
  next,                                               \* of SampleRecorder, Cordz, VLogConfig
  head, prev, dq, info, rep, refs, snap, cur, doomed, tracked, taken, touched_freed,
  deadlock_graph, held, overflow, owner, want, want_id, reported, released_unheld, locks,
  forgets, blind,
  global_v, vmodule_info, mutex, update_sites, site_list_head, v, at, site, h, level,
  snapshot, updates, crowded

recorder == INSTANCE SampleRecorder WITH Null <- None
cordz == INSTANCE Cordz
detector == INSTANCE DeadlockDetector WITH Threads <- Lockers
vlog == INSTANCE VLogConfig WITH
  Loggers <- Lockers, Files <- {"file"}, FileOf <- [s \in Sites |-> "file"]

events_ == <<events, waits, on, todo, finite, late, result, calls>>
recorder_ ==
  <<all, graveyard, dead, size, limit, dropped, found, holds, yard, fields, heap, sample,
    registers, it, seen, due>>
cordz_ ==
  <<head, prev, dq, info, rep, refs, snap, cur, doomed, tracked, taken, touched_freed>>
detector_ ==
  <<deadlock_graph, held, overflow, owner, want, want_id, reported, released_unheld, locks,
    forgets, blind>>
vlog_ ==
  <<global_v, vmodule_info, mutex, update_sites, site_list_head, v, at, site, h, level,
    snapshot, updates, crowded>>
objects_vars == <<using, events_, pc, recorder_, next, cordz_, detector_, vlog_>>

NoEvents == Init /\ \A e \in Events : ~signaled[e]
NoRecorder ==
  /\ all = None /\ graveyard = None /\ dead = None /\ size = None /\ holds = None
  /\ limit = None /\ dropped = None /\ found = None
  /\ yard = None /\ fields = None /\ heap = None /\ sample = None /\ registers = None
  /\ it = None /\ seen = None /\ due = None
NoCordz ==
  /\ head = None /\ prev = None /\ dq = None /\ info = None /\ rep = None /\ refs = None
  /\ snap = None /\ cur = None /\ doomed = None /\ tracked = None /\ taken = None
  /\ touched_freed = None
NoDetector ==
  /\ deadlock_graph = None /\ held = None /\ overflow = None /\ owner = None /\ want = None
  /\ want_id = None /\ reported = None /\ released_unheld = None /\ locks = None
  /\ forgets = None /\ blind = None
NoVLog ==
  /\ global_v = None /\ vmodule_info = None /\ mutex = None /\ update_sites = None
  /\ site_list_head = None /\ v = None /\ at = None /\ site = None /\ h = None
  /\ level = None /\ snapshot = None /\ updates = None /\ crowded = None

ObjectsInit ==
  \/ /\ using = "WaitableEvent" /\ Init
     /\ next = None /\ NoRecorder /\ NoCordz /\ NoDetector /\ NoVLog
  \/ /\ using = "SampleRecorder" /\ recorder!Init
     /\ NoEvents /\ NoCordz /\ NoDetector /\ NoVLog
  \/ /\ using = "Cordz" /\ cordz!Init
     /\ NoEvents /\ NoRecorder /\ NoDetector /\ NoVLog
  \/ /\ using = "DeadlockDetector" /\ detector!Init
     /\ NoEvents /\ next = None /\ NoRecorder /\ NoCordz /\ NoVLog
  \/ /\ using = "VLogConfig" /\ vlog!Init
     /\ NoEvents /\ NoRecorder /\ NoCordz /\ NoDetector

ObjectsNext ==
  /\ UNCHANGED using
  /\ \/ /\ using = "WaitableEvent" /\ Next
        /\ UNCHANGED <<recorder_, next, cordz_, detector_, vlog_>>
     \/ /\ using = "SampleRecorder" /\ recorder!Next
        /\ UNCHANGED <<events_, cordz_, detector_, vlog_>>
     \/ /\ using = "Cordz" /\ cordz!Next
        /\ UNCHANGED <<events_, pc, recorder_, detector_, vlog_>>
     \/ /\ using = "DeadlockDetector" /\ detector!Next
        /\ UNCHANGED <<events_, pc, recorder_, next, cordz_, vlog_>>
     \/ /\ using = "VLogConfig" /\ vlog!Next
        /\ UNCHANGED <<events_, pc, recorder_, cordz_, detector_>>

ObjectsSpec == ObjectsInit /\ [][ObjectsNext]_objects_vars

-----------------------------------------------------------------------------
\* A sample has one holder, no sample is ever lost from all_, an iteration sees each
\* sample that is registered all the while, and size_estimate_ does not drift
\* (sample_recorder.h).
SamplesAccounted == using = "SampleRecorder" => recorder!SamplesAccounted

\* What an iterator of a snapshot stands on is not deleted under it, and nothing waits to be
\* deleted when there is no snapshot (cordz_handle.cc).
SnapshotKeepsAlive == using = "Cordz" => cordz!SnapshotKeepsAlive

\* No circle of threads that wait for one another goes unreported, and no unlock of what is
\* held is reported (DeadlockCheck and LockLeave of mutex.cc, graphcycles.cc), unless a
\* thread of the circle has once held too many mutexes to note them, or a mutex of the
\* circle was forgotten while in use.
DeadlockReported == using = "DeadlockDetector" => detector!DeadlockReported

\* A VKLOG site that one thread registered has the level of the configuration whenever no
\* update is under way, however its registration raced with updates (vlog_config.cc:242).
FreshUnlessCrowded == using = "VLogConfig" => vlog!FreshUnlessCrowded

-----------------------------------------------------------------------------
\* Threads are interchangeable: no definition orders them.
Symmetry == Permutations(Threads) \cup Permutations(Lockers)
=============================================================================
