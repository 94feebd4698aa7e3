--------------------------- MODULE SampleRecorder ---------------------------
(***************************************************************************)
(* The registry of samples behind the hash table profiler                  *)
(* (turbo/profiling/internal/sample_recorder.h).  Samples are never freed: *)
(* all_ is a lock-free stack of all of them, the graveyard a list, under   *)
(* its own lock, of those that may be used again.  Left out are the        *)
(* destructor, which no other call may overlap, and the dispose callback,  *)
(* code of the user that Unregister calls before it takes the locks.       *)
(***************************************************************************)
EXTENDS Naturals, FiniteSets

CONSTANTS
  Threads,        \* register and unregister samples
  Reader,         \* the thread that iterates
  Samples,        \* addresses new T() may return
  MaxSamples,     \* bound: the largest value of max_samples_, which it has at first
  MaxRegisters,   \* bound: calls of Register by a thread
  Null

VARIABLES
  all, next,      \* all_, and next of each sample
  graveyard,      \* graveyard_.dead; the graveyard itself stands for an empty list
  dead,           \* per sample: dead, Null when it is in use
  size, limit,    \* size_estimate_, max_samples_
  dropped,        \* dropped_samples_
  holds,          \* per sample: who holds its init_mu
  yard,           \* who holds graveyard_.init_mu
  fields,         \* per sample: for which thread it was last prepared
  heap,           \* samples not allocated yet
  pc, sample,     \* per thread: place in Register and Unregister, the sample it has
  found,          \* per thread: what Register found in size_estimate_
  registers,
  it, seen,       \* of Iterate: where it is, samples it passed to f
  due             \* samples registered since before the iteration began

vars == <<all, next, graveyard, dead, size, limit, dropped, found, holds, yard, fields,
          heap, pc, sample, registers, it, seen, due>>

Graveyard == "graveyard"

Init ==
  /\ all = Null /\ next = [s \in Samples |-> Null]
  /\ graveyard = Graveyard /\ dead = [s \in Samples |-> Null]
  /\ size = 0 /\ limit = MaxSamples /\ dropped = 0 /\ found = [t \in Threads |-> 0]
  /\ holds = [s \in Samples |-> Null] /\ yard = Null
  /\ fields = [s \in Samples |-> Null] /\ heap = Samples
  /\ pc = [t \in Threads |-> "idle"] /\ sample = [t \in Threads |-> Null]
  /\ registers = [t \in Threads |-> 0]
  /\ it = Null /\ seen = {} /\ due = {}

locks == <<holds, yard>>
counts == <<limit, dropped, found>>
shared == <<all, next, graveyard, dead, counts>>
iteration == <<it, seen, due>>

Goto(t, where) == pc' = [pc EXCEPT ![t] = where]
Held(t) == sample' = [sample EXCEPT ![t] = Null]

-----------------------------------------------------------------------------
(* Register *)

CountUp(t) ==
  /\ pc[t] = "idle" /\ registers[t] < MaxRegisters
  /\ registers' = [registers EXCEPT ![t] = @ + 1]
  /\ size' = size + 1
  /\ found' = [found EXCEPT ![t] = size]
  /\ Goto(t, "compare")
  /\ UNCHANGED <<all, next, graveyard, dead, limit, dropped, locks, fields, heap, sample,
                 iteration>>

Compare(t) ==
  /\ pc[t] = "compare"
  /\ Goto(t, IF found[t] > limit THEN "drop" ELSE "pop")
  /\ found' = [found EXCEPT ![t] = 0]
  /\ UNCHANGED <<all, next, graveyard, dead, size, limit, dropped, locks, fields, heap, sample,
                 registers, iteration>>

\* Both counters, which nobody compares, in one step.
Drop(t) ==
  /\ pc[t] = "drop"
  /\ size' = size - 1 /\ dropped' = dropped + 1
  /\ Goto(t, "idle")
  /\ UNCHANGED <<all, next, graveyard, dead, limit, found, locks, fields, heap, sample,
                 registers, iteration>>

SetMaxSamples(max) ==
  /\ limit' = max
  /\ UNCHANGED <<all, next, graveyard, dead, size, dropped, found, locks, fields, heap, pc, sample,
                 registers, iteration>>

\* PopDead: the lock of the graveyard, and the sample at its head.
PopDead(t) ==
  /\ pc[t] = "pop" /\ yard = Null
  /\ IF graveyard = Graveyard
     THEN Goto(t, "new") /\ UNCHANGED <<yard, sample>>
     ELSE /\ yard' = t /\ sample' = [sample EXCEPT ![t] = graveyard]
          /\ Goto(t, "revive")
  /\ UNCHANGED <<shared, holds, size, fields, heap, registers, iteration>>

\* The lock of the sample: it leaves the graveyard, is prepared, and both are released.
Revive(t) ==
  LET s == sample[t]
  IN  /\ pc[t] = "revive" /\ holds[s] = Null
      /\ graveyard' = dead[s] /\ dead' = [dead EXCEPT ![s] = Null]
      /\ fields' = [fields EXCEPT ![s] = t]
      /\ yard' = Null
      /\ Goto(t, "registered")
      /\ UNCHANGED <<all, next, counts, holds, size, heap, sample, registers, iteration>>

\* A new sample is prepared; PushNew reads the top of the stack.
NewSample(t) ==
  /\ pc[t] = "new" /\ heap # {}
  /\ LET s == CHOOSE s \in heap : TRUE
     IN  /\ heap' = heap \ {s}
         /\ sample' = [sample EXCEPT ![t] = s]
         /\ fields' = [fields EXCEPT ![s] = t]
         /\ next' = [next EXCEPT ![s] = all]
  /\ Goto(t, "push")
  /\ UNCHANGED <<all, graveyard, dead, counts, locks, size, registers, iteration>>

\* (wrong) a store where the top was to be compared
PushStore(t) ==
  LET s == sample[t]
  IN  /\ pc[t] = "push"
      /\ all' = s /\ Goto(t, "registered") /\ UNCHANGED next
      /\ UNCHANGED <<graveyard, dead, counts, locks, size, fields, heap, sample, registers,
                     iteration>>

\* The exchange of PushNew: on failure next is the top it found.
PushNew(t) ==
  LET s == sample[t]
  IN  /\ pc[t] = "push"
      /\ IF all = next[s] THEN all' = s /\ Goto(t, "registered") /\ UNCHANGED next
         ELSE next' = [next EXCEPT ![s] = all] /\ UNCHANGED <<all, pc>>
      /\ UNCHANGED <<graveyard, dead, counts, locks, size, fields, heap, sample, registers,
                     iteration>>

-----------------------------------------------------------------------------
(* Unregister *)

LockGraveyard(t) ==
  /\ pc[t] = "registered" /\ yard = Null
  /\ yard' = t
  /\ due' = due \ {sample[t]}
  /\ Goto(t, "bury")
  /\ UNCHANGED <<shared, holds, size, fields, heap, sample, registers, it, seen>>

PushDead(t) ==
  LET s == sample[t]
  IN  /\ pc[t] = "bury" /\ holds[s] = Null
      /\ dead' = [dead EXCEPT ![s] = graveyard]
      /\ graveyard' = s
      /\ yard' = Null
      /\ Held(t)
      /\ Goto(t, "countdown")
      /\ UNCHANGED <<all, next, counts, holds, size, fields, heap, registers, iteration>>

CountDown(t) ==
  /\ pc[t] = "countdown"
  /\ size' = size - 1
  /\ Goto(t, "idle")
  /\ UNCHANGED <<shared, locks, fields, heap, sample, registers, iteration>>

-----------------------------------------------------------------------------
(* Iterate *)

\* Samples somebody holds, their Register() having returned.
Registered == {sample[t] : t \in {t \in Threads : pc[t] = "registered"}}

Begin ==
  /\ it = Null /\ all # Null
  /\ it' = all /\ seen' = {} /\ due' = Registered
  /\ UNCHANGED <<shared, locks, size, fields, heap, pc, sample, registers>>

\* The lock of the sample, held while f looks at it.
Visit ==
  /\ it # Null /\ holds[it] = Null
  /\ holds' = [holds EXCEPT ![it] = Reader]
  /\ seen' = IF dead[it] = Null THEN seen \cup {it} ELSE seen
  /\ UNCHANGED <<shared, yard, size, fields, heap, pc, sample, registers, it, due>>

Advance ==
  /\ it # Null /\ holds[it] = Reader
  /\ holds' = [holds EXCEPT ![it] = Null]
  /\ it' = next[it]
  /\ UNCHANGED <<shared, yard, size, fields, heap, pc, sample, registers, seen, due>>

-----------------------------------------------------------------------------
Step(t) ==
  \/ Compare(t) \/ Drop(t) \/ PopDead(t) \/ Revive(t) \/ NewSample(t) \/ PushNew(t)
  \/ PushDead(t) \/ CountDown(t)

Next ==
  \/ \E t \in Threads : CountUp(t) \/ Step(t) \/ LockGraveyard(t)
  \/ \E max \in 0..MaxSamples : SetMaxSamples(max)
  \/ Begin \/ Visit \/ Advance

Spec == Init /\ [][Next]_vars

-----------------------------------------------------------------------------
\* A sample has one holder; all of them are on all_, and an iteration that is over has seen
\* each sample that was registered all the while.  While f looks at a sample nobody buries
\* or revives it.  Between calls size_estimate_ is the number of registered samples, however
\* many calls were dropped: the soft limit neither tightens nor loosens with time.
RECURSIVE Reach(_)
Reach(s) == IF s = Null THEN {} ELSE {s} \cup Reach(next[s])

RECURSIVE Buried(_)
Buried(s) == IF s = Graveyard THEN {} ELSE {s} \cup Buried(dead[s])

SamplesAccounted ==
  /\ \A t, u \in Threads : t # u /\ sample[t] # Null /\ pc[t] # "revive" => sample[t] # sample[u]
  /\ \A t \in Threads : pc[t] = "registered" => fields[sample[t]] = t /\ sample[t] \in Reach(all)
  /\ Registered \cap Buried(graveyard) = {}
  /\ Buried(graveyard) \subseteq Reach(all)
  /\ Cardinality(Registered) <= MaxSamples + 1
  /\ (\A t \in Threads : pc[t] \in {"idle", "registered"}) => size = Cardinality(Registered)
  /\ (it = Null) => due \subseteq seen
  /\ \A s \in Samples : holds[s] = Reader /\ s \in seen => dead[s] = Null
=============================================================================
