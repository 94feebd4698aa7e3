---------------------------- MODULE SequenceLock ----------------------------
(***************************************************************************)
(* turbo::flags_internal::SequenceLock (turbo/flags/internal/              *)
(* sequence_lock.h): reads without a lock that fail when a write came in   *)
(* between.                                                                *)
(*                                                                         *)
(* A value is one of Values and each of its words carries its name, so     *)
(* that a mixture shows.  The words are copied with relaxed operations,    *)
(* here in any order; the fences keep them between the two accesses to     *)
(* lock_, as here.  Writers are kept apart by the caller.                  *)
(***************************************************************************)
EXTENDS Integers

CONSTANTS
  Readers, Words, Values,
  None,                    \* no value: before initialization, or no write under way
  MaxWrites                \* bound: writes and increments

ASSUME SequenceAssumption ==
  /\ None \notin Values /\ MaxWrites \in Nat

VARIABLES
  lock,                    \* lock_
  words,                   \* the protected words
  writing, left,           \* the value being written and the words still to be stored
  pc, seq_before, buf, todo,   \* of each TryRead: where it is, dst, words still to be loaded
  value, counted,          \* history: the value last written, calls that count
  actual                   \* history: the value at the moment TryRead returned true

kUninitialized == -1

shared == <<lock, words, writing, left, value, counted>>
readers == <<pc, seq_before, buf, todo, actual>>
vars == <<shared, readers>>

TypeOK ==
  /\ lock \in Nat \cup {kUninitialized} /\ words \in [Words -> Values \cup {None}]
  /\ writing \in Values \cup {None} /\ left \in SUBSET Words
  /\ pc \in [Readers -> {"idle", "copy", "true", "false"}]
  /\ seq_before \in [Readers -> Nat]
  /\ buf \in [Readers -> [Words -> Values \cup {None}]]
  /\ todo \in [Readers -> SUBSET Words]
  /\ value \in Values \cup {None} /\ counted \in Nat
  /\ actual \in [Readers -> Values \cup {None}]

Init ==
  /\ lock = kUninitialized /\ words = [w \in Words |-> None]
  /\ writing = None /\ left = {}
  /\ pc = [r \in Readers |-> "idle"] /\ seq_before = [r \in Readers |-> 0]
  /\ buf = [r \in Readers |-> [w \in Words |-> None]] /\ todo = [r \in Readers |-> {}]
  /\ value = None /\ counted = 0 /\ actual = [r \in Readers |-> None]

-----------------------------------------------------------------------------
\* The owner stores the first value into the words, one by one, ...
Prepare(v) ==
  /\ lock = kUninitialized /\ writing = None
  /\ writing' = v /\ left' = Words
  /\ UNCHANGED <<lock, words, value, counted, readers>>

\* ... and then marks the lock initialized.
MarkInitialized ==
  /\ lock = kUninitialized /\ writing # None /\ left = {}
  /\ lock' = 0 /\ value' = writing /\ writing' = None
  /\ UNCHANGED <<words, left, counted, readers>>

\* (wrong) the counter is not made odd before the words are stored
WriteUnmarked(v) ==
  /\ lock >= 0 /\ writing = None /\ counted < MaxWrites
  /\ writing' = v /\ left' = Words
  /\ UNCHANGED <<lock, words, value, counted, readers>>

Write(v) ==
  /\ lock >= 0 /\ writing = None /\ counted < MaxWrites
  /\ lock' = lock + 1
  /\ writing' = v /\ left' = Words
  /\ UNCHANGED <<words, value, counted, readers>>

RelaxedCopyToAtomic(w) ==
  /\ w \in left
  /\ words' = [words EXCEPT ![w] = writing] /\ left' = left \ {w}
  /\ UNCHANGED <<lock, writing, value, counted, readers>>

\* The end of Write: orig_seq + 2.
WriteDone ==
  /\ lock >= 0 /\ writing # None /\ left = {}
  /\ lock' = lock + 1
  /\ value' = writing /\ writing' = None /\ counted' = counted + 1
  /\ UNCHANGED <<words, left, readers>>

IncrementModificationCount ==
  /\ lock >= 0 /\ writing = None /\ counted < MaxWrites
  /\ lock' = lock + 2 /\ counted' = counted + 1
  /\ UNCHANGED <<words, writing, left, value, readers>>

modification_count == lock \div 2

-----------------------------------------------------------------------------
\* TryRead loads the counter and gives up if it is odd, as kUninitialized is.
TryRead(r) ==
  /\ pc[r] # "copy"
  /\ IF lock % 2 = 1
     THEN /\ pc' = [pc EXCEPT ![r] = "false"]
          /\ UNCHANGED <<seq_before, todo>>
     ELSE /\ pc' = [pc EXCEPT ![r] = "copy"]
          /\ seq_before' = [seq_before EXCEPT ![r] = lock]
          /\ todo' = [todo EXCEPT ![r] = Words]
  /\ UNCHANGED <<shared, buf, actual>>

RelaxedCopyFromAtomic(r, w) ==
  /\ pc[r] = "copy" /\ w \in todo[r]
  /\ buf' = [buf EXCEPT ![r][w] = words[w]]
  /\ todo' = [todo EXCEPT ![r] = @ \ {w}]
  /\ UNCHANGED <<shared, pc, seq_before, actual>>

\* The second load of the counter decides.
Validate(r) ==
  /\ pc[r] = "copy" /\ todo[r] = {}
  /\ pc' = [pc EXCEPT ![r] = IF seq_before[r] = lock THEN "true" ELSE "false"]
  /\ actual' = [actual EXCEPT ![r] = value]
  /\ UNCHANGED <<shared, seq_before, buf, todo>>

WriterStep ==
  \/ MarkInitialized \/ WriteDone \/ IncrementModificationCount
  \/ \E v \in Values : Prepare(v) \/ Write(v)
  \/ \E w \in Words : RelaxedCopyToAtomic(w)

ReaderStep(r) ==
  TryRead(r) \/ Validate(r) \/ \E w \in Words : RelaxedCopyFromAtomic(r, w)

Next == WriterStep \/ \E r \in Readers : ReaderStep(r)

Spec == Init /\ [][Next]_vars

-----------------------------------------------------------------------------
\* A TryRead that returned true copied the one value that was current when it returned:
\* never words of two writes, nor words from before the initialization.
ReadsWhole ==
  \A r \in Readers : pc[r] = "true" =>
    actual[r] # None /\ \A w \in Words : buf[r][w] = actual[r]

\* A reader whose counter is still current has copied only current words, and when no
\* write is under way every word is of the last value: why the second load suffices.
CopiesCurrent ==
  /\ lock >= 0 /\ writing = None => \A w \in Words : words[w] = value
  /\ lock >= 0 => value # None /\ (writing # None <=> lock % 2 = 1)
  /\ \A r \in Readers : pc[r] = "copy" =>
       /\ seq_before[r] % 2 = 0 /\ seq_before[r] <= lock
       /\ seq_before[r] = lock => \A w \in Words \ todo[r] : buf[r][w] = words[w]

\* "Return the number of times that Write() has been called.": modification_count(),
\* asked between writes, counts them and the increments.
CountsWrites == lock >= 0 /\ writing = None => modification_count = counted
=============================================================================
