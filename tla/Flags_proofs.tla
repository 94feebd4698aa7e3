---------------------------- MODULE Flags_proofs ----------------------------
(***************************************************************************)
(* The sequence lock and the flag that uses it, for any number of threads, *)
(* words, values and calls.  First the lock by itself: a TryRead that      *)
(* returns true copied one whole value.  Then the flag: it keeps its       *)
(* writers apart, as the lock asks, its modification count tells whether   *)
(* the value is still the saved one, and the callback sees the last value. *)
(***************************************************************************)
EXTENDS Flags, TLAPS

-----------------------------------------------------------------------------
(* The sequence lock.                                                      *)

\* The counter is twice the number of counted calls, and one more during a write; the
\* words that a write has passed hold its value.
WriteInv ==
  /\ lock >= 0 => lock = IF writing = None THEN 2 * counted ELSE 2 * counted + 1
  /\ lock = kUninitialized => counted = 0
  /\ lock >= 0 => value \in Values
  /\ writing = None => left = {}
  /\ writing # None => \A w \in Words \ left : words[w] = writing
  /\ lock >= 0 /\ writing = None => \A w \in Words : words[w] = value

\* A reader that copies began with an even counter, and while the counter has not moved
\* since, what it has copied is what the words hold.
ReadInv ==
  \A r \in Readers : pc[r] = "copy" =>
    /\ \E k \in Nat : seq_before[r] = 2 * k
    /\ seq_before[r] <= lock
    /\ seq_before[r] = lock => \A w \in Words \ todo[r] : buf[r][w] = words[w]

Inv == TypeOK /\ WriteInv /\ ReadInv /\ ReadsWhole

LEMMA EvenOdd ==
  ASSUME NEW j \in Nat, NEW k \in Nat
  PROVE  /\ (2 * k) % 2 = 0
         /\ (2 * k + 1) % 2 = 1
         /\ (2 * k) \div 2 = k
         /\ 2 * j # 2 * k + 1
<1>1. (2 * k) % 2 = 0
  OBVIOUS
<1>2. (2 * k + 1) % 2 = 1
  OBVIOUS
<1>3. (2 * k) \div 2 = k
  OBVIOUS
<1>4. 2 * j # 2 * k + 1
  OBVIOUS
<1> QED BY Zenon, <1>1, <1>2, <1>3, <1>4

LEMMA MinusOneOdd == ASSUME NEW n \in Int, n + 1 = 0 PROVE n % 2 = 1
  OBVIOUS

LEMMA InitInv == Init => Inv
  BY SequenceAssumption DEF Init, Inv, TypeOK, WriteInv, ReadInv, ReadsWhole, kUninitialized

\* Nothing a writer does disturbs what a reader has copied under the current counter:
\* it moves the counter on, or stores words only while the counter is not even.
LEMMA WriterStepInv == Inv /\ WriterStep => Inv'
<1> SUFFICES ASSUME Inv, WriterStep PROVE Inv'
  BY Zenon
<1> USE DEF Inv
<1>0. lock \in Nat \cup {-1} /\ counted \in Nat /\ writing \in Values \cup {None}
  BY Zenon DEF TypeOK, kUninitialized
<1>1. UNCHANGED readers
  BY Zenon DEF WriterStep, MarkInitialized, WriteDone, IncrementModificationCount, Prepare, Write,
         RelaxedCopyToAtomic
<1>2. ReadsWhole'
  BY Zenon, <1>1 DEF ReadsWhole, readers
<1>3. TypeOK'
  BY <1>1 DEF TypeOK, kUninitialized, readers, WriterStep, MarkInitialized, WriteDone,
              IncrementModificationCount, Prepare, Write, RelaxedCopyToAtomic
<1>4. ASSUME WriteInv', lock' >= lock, UNCHANGED words \/ lock' # lock
                PROVE Inv'
  <2> SUFFICES ASSUME NEW r \in Readers, pc[r] = "copy"
               PROVE  /\ \E k \in Nat : seq_before[r] = 2 * k
                      /\ seq_before[r] <= lock'
                      /\ seq_before[r] = lock' =>
                           \A w \in Words \ todo[r] : buf[r][w] = words'[w]
    BY Zenon, <1>1, <1>2, <1>3, <1>4 DEF ReadInv, readers
  <2>1. seq_before[r] \in Nat /\ lock' \in Nat \cup {-1}
    BY Zenon, <1>3 DEF TypeOK, kUninitialized
  <2>2. /\ \E k \in Nat : seq_before[r] = 2 * k
        /\ seq_before[r] <= lock
        /\ seq_before[r] = lock => \A w \in Words \ todo[r] : buf[r][w] = words[w]
    BY Zenon DEF ReadInv
  <2> QED BY <1>0, <1>4, <2>1, <2>2
<1>5. CASE \E v \in Values : Prepare(v)
  <2>1. WriteInv'
    BY <1>0, <1>5, SequenceAssumption DEF Prepare, WriteInv, kUninitialized
  <2> QED BY <1>0, <1>4, <1>5, <2>1 DEF Prepare
<1>6. CASE MarkInitialized
  <2>1. WriteInv'
    BY <1>0, <1>6, SequenceAssumption DEF MarkInitialized, WriteInv, kUninitialized
  <2> QED BY <1>0, <1>4, <1>6, <2>1 DEF MarkInitialized, kUninitialized
<1>7. CASE \E v \in Values : Write(v)
  <2>1. WriteInv'
    BY <1>0, <1>7, SequenceAssumption DEF Write, WriteInv, kUninitialized
  <2> QED BY <1>0, <1>4, <1>7, <2>1 DEF Write
<1>8. CASE \E w \in Words : RelaxedCopyToAtomic(w)
  <2> PICK w \in Words : RelaxedCopyToAtomic(w)
    BY Zenon, <1>8
  <2>1. writing # None /\ writing' = writing /\ left' = left \ {w} /\ lock' = lock
    BY Zenon DEF RelaxedCopyToAtomic, WriteInv
  <2>2. words' = [words EXCEPT ![w] = writing] /\ words \in [Words -> Values \cup {None}]
    BY Zenon DEF RelaxedCopyToAtomic, TypeOK
  <2>3. \A u \in Words \ left' : words'[u] = writing'
    BY Zenon, <2>1, <2>2 DEF WriteInv
  <2>4. WriteInv'
    BY Zenon, <2>1, <2>3 DEF WriteInv, RelaxedCopyToAtomic
  <2>5. ASSUME NEW r \in Readers, pc[r] = "copy"
        PROVE  seq_before[r] # lock
    <3>1. PICK k \in Nat : seq_before[r] = 2 * k
      BY Zenon, <2>5 DEF ReadInv
    <3>2. lock = -1 \/ lock = 2 * counted + 1
      BY <1>0, <2>1 DEF WriteInv
    <3> QED BY <1>0, <3>1, <3>2, EvenOdd
  <2>6. ReadInv'
    BY Zenon, <1>1, <2>1, <2>5 DEF ReadInv, readers
  <2> QED BY Zenon, <1>2, <1>3, <2>4, <2>6
<1>9. CASE WriteDone
  <2>1. WriteInv'
    BY <1>0, <1>9, SequenceAssumption DEF WriteDone, WriteInv, kUninitialized
  <2> QED BY <1>0, <1>4, <1>9, <2>1 DEF WriteDone
<1>10. CASE IncrementModificationCount
  <2>1. WriteInv'
    BY <1>0, <1>10 DEF IncrementModificationCount, WriteInv, kUninitialized
  <2> QED BY <1>0, <1>4, <1>10, <2>1 DEF IncrementModificationCount
<1> QED BY Zenon, <1>5, <1>6, <1>7, <1>8, <1>9, <1>10 DEF WriterStep

\* A reader that starts takes an even counter; one that ends with the counter unmoved has
\* copied every word of the present value.
LEMMA ReaderStepInv ==
  ASSUME Inv, NEW r \in Readers, ReaderStep(r)
  PROVE  Inv'
<1> USE DEF Inv
<1>0. /\ lock \in Nat \cup {-1} /\ counted \in Nat /\ writing \in Values \cup {None}
      /\ pc \in [Readers -> {"idle", "copy", "true", "false"}]
      /\ seq_before \in [Readers -> Nat] /\ todo \in [Readers -> SUBSET Words]
      /\ buf \in [Readers -> [Words -> Values \cup {None}]]
      /\ actual \in [Readers -> Values \cup {None}]
      /\ words \in [Words -> Values \cup {None}] /\ value \in Values \cup {None}
  BY Zenon DEF TypeOK, kUninitialized
<1>1. UNCHANGED shared
  BY Zenon DEF ReaderStep, TryRead, Validate, RelaxedCopyFromAtomic
<1>2. WriteInv'
  BY Zenon, <1>1 DEF WriteInv, shared
<1>3. CASE TryRead(r)
  <2>1. CASE lock % 2 = 1
    <3>1. pc' = [pc EXCEPT ![r] = "false"] /\ UNCHANGED <<shared, seq_before, todo, buf, actual>>
      BY Zenon, <1>3, <2>1 DEF TryRead
    <3>2. TypeOK'
      BY Zenon, <1>0, <3>1 DEF TypeOK, shared, kUninitialized
    <3>3. ReadInv' /\ ReadsWhole'
      BY Zenon, <1>0, <3>1 DEF ReadInv, ReadsWhole, shared
    <3> QED BY Zenon, <1>2, <3>2, <3>3
  <2>2. CASE lock % 2 # 1
    <3>1. /\ pc' = [pc EXCEPT ![r] = "copy"] /\ seq_before' = [seq_before EXCEPT ![r] = lock]
          /\ todo' = [todo EXCEPT ![r] = Words]
          /\ UNCHANGED <<shared, buf, actual>>
      BY Zenon, <1>3, <2>2 DEF TryRead
    <3>2. lock \in Nat
      BY <1>0, <2>2, MinusOneOdd
    <3>3. \E k \in Nat : lock = 2 * k
      BY <1>0, <2>2, <3>2, EvenOdd DEF WriteInv
    <3>4. TypeOK'
      BY Zenon, <1>0, <3>1, <3>2 DEF TypeOK, shared, kUninitialized
    <3>5. ReadInv'
      BY <1>0, <3>1, <3>2, <3>3 DEF ReadInv, shared
    <3>6. ReadsWhole'
      BY Zenon, <1>0, <3>1 DEF ReadsWhole
    <3> QED BY Zenon, <1>2, <3>4, <3>5, <3>6
  <2> QED BY Zenon, <2>1, <2>2
<1>4. CASE \E w \in Words : RelaxedCopyFromAtomic(r, w)
  <2> PICK w \in Words : RelaxedCopyFromAtomic(r, w)
    BY Zenon, <1>4
  <2>1. /\ pc[r] = "copy" /\ buf' = [buf EXCEPT ![r][w] = words[w]]
        /\ todo' = [todo EXCEPT ![r] = todo[r] \ {w}]
        /\ UNCHANGED <<shared, pc, seq_before, actual>>
    BY Zenon DEF RelaxedCopyFromAtomic
  <2>2. TypeOK'
    BY Zenon, <1>0, <2>1 DEF TypeOK, shared, kUninitialized
  <2>3. buf'[r] = [buf[r] EXCEPT ![w] = words[w]] /\ todo'[r] = todo[r] \ {w}
    BY Zenon, <1>0, <2>1
  <2>4. \A u \in Readers \ {r} : buf'[u] = buf[u] /\ todo'[u] = todo[u]
    BY Zenon, <1>0, <2>1
  <2>5. ReadInv'
    BY <1>0, <2>1, <2>3, <2>4 DEF ReadInv, shared
  <2>6. ReadsWhole'
    BY Zenon, <1>0, <2>1, <2>4 DEF ReadsWhole
  <2> QED BY Zenon, <1>2, <2>2, <2>5, <2>6
<1>5. CASE Validate(r)
  <2>1. /\ pc[r] = "copy" /\ todo[r] = {}
        /\ pc' = [pc EXCEPT ![r] = IF seq_before[r] = lock THEN "true" ELSE "false"]
        /\ actual' = [actual EXCEPT ![r] = value]
        /\ UNCHANGED <<shared, seq_before, buf, todo>>
    BY Zenon, <1>5 DEF Validate
  <2>2. TypeOK'
    BY Zenon, <1>0, <2>1 DEF TypeOK, shared, kUninitialized
  <2>3. ReadInv'
    BY Zenon, <1>0, <2>1 DEF ReadInv, shared
  <2>4. ASSUME seq_before[r] = lock
        PROVE  value # None /\ \A w \in Words : buf[r][w] = value
    <3>1. PICK k \in Nat : lock = 2 * k
      BY Zenon, <2>1, <2>4 DEF ReadInv
    <3>2. writing = None
      BY <1>0, <3>1, EvenOdd DEF WriteInv
    <3>3. \A w \in Words : words[w] = value
      BY <3>1, <3>2 DEF WriteInv
    <3>4. value \in Values
      BY <3>1 DEF WriteInv
    <3> QED BY Zenon, <2>1, <2>4, <3>3, <3>4, SequenceAssumption DEF ReadInv
  <2>5. ReadsWhole'
    BY Zenon, <1>0, <2>1, <2>4 DEF ReadsWhole
  <2> QED BY Zenon, <1>2, <2>2, <2>3, <2>5
<1> QED BY Zenon, <1>3, <1>4, <1>5 DEF ReaderStep

\* Inv is inductive.
LEMMA InvHolds == Spec => []Inv
<1>1. Inv /\ [Next]_vars => Inv'
  <2> SUFFICES ASSUME Inv, [Next]_vars PROVE Inv'
    BY Zenon
  <2>1. CASE WriterStep
    BY Zenon, <2>1, WriterStepInv
  <2>2. CASE \E r \in Readers : ReaderStep(r)
    BY Zenon, <2>2, ReaderStepInv
  <2>3. CASE UNCHANGED vars
    BY <2>3 DEF Inv, TypeOK, WriteInv, ReadInv, ReadsWhole, vars, shared, readers
  <2> QED BY <2>1, <2>2, <2>3 DEF Next
<1> QED BY InitInv, <1>1, PTL DEF Spec

\* Every variable keeps its type; in particular no read starts from an odd counter.
THEOREM TypesKept == Spec => []TypeOK
<1>1. Inv => TypeOK
  BY DEF Inv
<1> QED BY InvHolds, <1>1, PTL

\* A successful TryRead never mixes two writes and never sees uninitialized words.
THEOREM ReadsAreWhole == Spec => []ReadsWhole
<1>1. Inv => ReadsWhole
  BY DEF Inv
<1> QED BY InvHolds, <1>1, PTL

\* modification_count(), asked between writes, is the number of writes and increments.
THEOREM CountsAreRight == Spec => []CountsWrites
<1>1. Inv => CountsWrites
  <2> SUFFICES ASSUME Inv, lock >= 0, writing = None
               PROVE  lock \div 2 = counted
    BY Zenon DEF CountsWrites, modification_count
  <2>1. counted \in Nat /\ lock = 2 * counted
    BY DEF Inv, TypeOK, WriteInv
  <2> QED BY <2>1, EvenOdd
<1> QED BY InvHolds, <1>1, PTL

\* The words a reader has copied are current as long as the counter has not moved.
THEOREM CopiesAreCurrent == Spec => []CopiesCurrent
<1>1. Inv => CopiesCurrent
  <2> SUFFICES ASSUME Inv PROVE CopiesCurrent
    BY Zenon
  <2>1. lock \in Nat \cup {-1} /\ counted \in Nat /\ writing \in Values \cup {None}
    BY Zenon DEF Inv, TypeOK, kUninitialized
  <2>2. lock >= 0 /\ writing = None => \A w \in Words : words[w] = value
    BY Zenon DEF Inv, WriteInv
  <2>3. lock >= 0 => value # None /\ (writing # None <=> lock % 2 = 1)
    BY <2>1, EvenOdd, SequenceAssumption DEF Inv, WriteInv
  <2>4. ASSUME NEW r \in Readers, pc[r] = "copy"
        PROVE  /\ seq_before[r] % 2 = 0 /\ seq_before[r] <= lock
               /\ seq_before[r] = lock => \A w \in Words \ todo[r] : buf[r][w] = words[w]
    <3>1. \E k \in Nat : seq_before[r] = 2 * k
      BY Zenon, <2>4 DEF Inv, ReadInv
    <3>2. seq_before[r] % 2 = 0
      BY Zenon, <3>1, EvenOdd
    <3> QED BY <2>4, <3>2 DEF Inv, ReadInv
  <2> QED BY <2>2, <2>3, <2>4 DEF CopiesCurrent
<1> QED BY InvHolds, <1>1, PTL

-----------------------------------------------------------------------------
(* The flag: its invariant.                                                *)

SeqKind == use.kind = "kSequenceLocked"

Reading(t) == at[t] \in {"get", "fast", "enter_get", "second", "slow_lock", "slow"}
InCallback(t) == at[t] = "callback_done" \/ (ret[t] = "callback_done" /\ Reading(t))

\* Domains, and what calls bring along.
FlagTypes ==
  /\ use.kind \in {"kSequenceLocked", "kOneWordAtomic", "kAlignedBuffer"}
  /\ DOMAIN at = Readers /\ DOMAIN op = Readers
  /\ arg \in [Readers -> Values \cup {Bad}] /\ default \in Values
  /\ ret \in [Readers -> {"idle", "callback_done", "validator_done"}]
  /\ DOMAIN saved = Readers
  /\ \A t \in Readers : saved[t] # None => saved[t].value \in Values /\ saved[t].counter \in Nat
  /\ \A t \in Readers : at[t] # "idle" /\ op[t] = "RestoreState" => saved[t] # None

\* Who holds *DataGuard(), and how.
GuardHeld ==
  /\ view \in [Readers -> {"none", "Shared", "Exclusive"}]
  /\ \A t, u \in Readers : t # u /\ view[t] = "Exclusive" => view[u] = "none"
  /\ \A t \in Readers :
       /\ at[t] \in {"set_func", "store", "storing", "invoke", "after"} => view[t] = "Exclusive"
       /\ at[t] = "inside" => view[t] = IF op[t] = "user_validate" THEN "Shared" ELSE "Exclusive"
       /\ at[t] = "slow" => view[t] = IF SeqKind THEN "Shared" ELSE "Exclusive"

\* How far Init is, and that a write of the sequence lock is a store under way.
Initialized ==
  /\ once \in {"no", "running", "done"}
  /\ once = "no" => lock = kUninitialized /\ writing = None
  /\ once = "running" => lock = kUninitialized /\ writing # None
  /\ once = "done" => lock >= 0
  /\ callback => once = "done"
  /\ \A t \in Readers :
       \/ once = "done"
       \/ at[t] \in {"idle", "enter"}
       \/ at[t] \in {"get", "fast", "enter_get"} /\ ret[t] = "idle"
  /\ once = "done" /\ writing # None => SeqKind /\ \E t \in Readers : at[t] = "storing"
  /\ \A t \in Readers : at[t] = "storing" /\ SeqKind => writing # None
  /\ \A t \in Readers : saved[t] # None => once = "done"

\* Only a flag with a sequence lock uses it, and a read under the guard finds it still.
ReadsKnown ==
  /\ ~SeqKind => \A t \in Readers : pc[t] = "idle"
  /\ SeqKind => \A t \in Readers : at[t] = "slow" =>
       /\ pc[t] \in {"copy", "true"} /\ seq_before[t] = lock
       /\ pc[t] = "true" => actual[t] = value

\* A saved state is of the past, and of the present value if nothing was counted since.
SavedKnown ==
  \A t \in Readers : saved[t] # None =>
    /\ saved[t].counter <= counted
    /\ saved[t].counter = counted /\ (\A u \in Readers : at[u] # "storing") => value = saved[t].value

\* A callback has still to read the flag, or has read the present value ...
Owes(t) ==
  \/ at[t] \in {"storing", "invoke", "callback_lock"}
  \/ ret[t] = "callback_done" /\ at[t] \in {"get", "enter_get", "slow_lock"}
  \/ ret[t] = "callback_done" /\ at[t] \in {"fast", "second", "slow"}
       /\ (pc[t] # "true" \/ actual[t] = value)
\* ... or read one that is not present any more.
Stale(t) ==
  /\ ret[t] = "callback_done" /\ at[t] \in {"fast", "second", "slow"}
  /\ pc[t] = "true" /\ actual[t] # value

CallbackInv ==
  /\ \A t \in Readers : InCallback(t) <=> cbguard = t
  /\ callback => (\E t \in Readers : Owes(t)) \/ (seen = value /\ \A t \in Readers : ~Stale(t))

\* There is a callback where one is run.  Without one nobody saves between a store and the end
\* of the call, and a saved state with the present counter has the present flags.
Restorable ==
  /\ \A t \in Readers :
       at[t] \in {"callback_lock", "callback_done", "relock"} \/ ret[t] = "callback_done" => callback
  /\ ~callback => \A t \in Readers : saved[t] # None =>
       /\ (\E u \in Readers : at[u] \in {"invoke", "after"}) => saved[t].counter < counted
       /\ saved[t].counter = counted => /\ modified = saved[t].modified
                                        /\ on_command_line = saved[t].on_command_line

\* A validator runs under the shared guard, and does not get it again.
ValidatorRuns ==
  \A t \in Readers : vguard = t =>
    /\ view[t] = "Shared" /\ ret[t] = "validator_done"
    /\ at[t] \in {"get", "fast", "enter_get", "second", "slow_lock", "validator_done", "wild"}

\* Who is about to store has something to store.
StoreKnown == \A t \in Readers : at[t] = "store" => Stored(t) \in Values

FlagInv ==
  /\ FlagTypes /\ GuardHeld /\ Initialized
  /\ ReadsKnown /\ SavedKnown /\ StoreKnown /\ CallbackInv /\ Restorable /\ ValidatorRuns

FlagsInv ==
  /\ Inv
  /\ Bare => /\ at = [t \in Readers |-> "idle"] /\ saved = [t \in Readers |-> None]
             /\ callback = FALSE
  /\ ~Bare => FlagInv

-----------------------------------------------------------------------------
(* What the parts of a step do.                                            *)

\* MutexLock and ReaderMutexLock of *DataGuard(), and their ends.
LEMMA GuardTake ==
  ASSUME NEW t \in Readers, NEW how \in {"Shared", "Exclusive"}, guard!Take(t), view'[t] = how,
         view \in [Readers -> {"none", "Shared", "Exclusive"}]
  PROVE  /\ view[t] = "none" /\ view' = [view EXCEPT ![t] = how]
         /\ \A u \in Readers \ {t} : view[u] = "none" \/ (how = "Shared" /\ view[u] = "Shared")
  BY Zenon DEF guard!Take, guard!Compatible, guard!Modes

LEMMA GuardLeave ==
  ASSUME NEW t \in Readers, guard!Leave(t)
  PROVE  view[t] # "none" /\ view' = [view EXCEPT ![t] = "none"]
  BY Zenon DEF guard!Leave

\* modification_count() also during a write: the counter is then odd.
LEMMA CountIs == ASSUME Inv, lock >= 0 PROVE modification_count = counted
<1>1. counted \in Nat /\ (lock = 2 * counted \/ lock = 2 * counted + 1)
  BY Zenon DEF Inv, TypeOK, WriteInv
<1>2. (2 * counted) \div 2 = counted /\ (2 * counted + 1) \div 2 = counted
  BY <1>1
<1> QED BY Zenon, <1>1, <1>2 DEF modification_count

\* What the words hold when nobody writes them, and what a TryRead copied.
LEMMA CurrentIs ==
  ASSUME Inv, lock >= 0, writing = None PROVE Current = value /\ value \in Values
<1>1. value \in Values /\ \A w \in Words : words[w] = value
  BY Zenon DEF Inv, WriteInv
<1>2. \A v \in Values : (\A w \in Words : words[w] = v) => v = value
  BY <1>1, FlagAssumption
<1> QED BY Zenon, <1>1, <1>2 DEF Current

LEMMA CopiedIs ==
  ASSUME Inv, NEW t \in Readers, pc[t] = "true" PROVE Copied(t) = actual[t]
<1>1. actual[t] \in Values /\ \A w \in Words : buf[t][w] = actual[t]
  BY Zenon DEF Inv, TypeOK, ReadsWhole
<1>2. \A v \in Values : (\A w \in Words : buf[t][w] = v) => v = actual[t]
  BY Zenon, <1>1, FlagAssumption
<1> QED BY Zenon, <1>1, <1>2 DEF Copied

\* A thread goes on with its get and does not return.
LEMMA GetGoesOn ==
  ASSUME FlagTypes, CallbackInv, TypeOK, NEW t \in Readers, Reading(t),
         NEW x \in {"get", "fast", "enter_get", "second", "slow_lock", "slow"},
         at'[t] = x, \A u \in Readers \ {t} : at'[u] = at[u],
         UNCHANGED <<value, ret, cbguard, callback, seen>>,
         \A u \in Readers \ {t} : pc'[u] = pc[u] /\ actual'[u] = actual[u],
         x \in {"fast", "second", "slow"} => pc'[t] # "true" \/ actual'[t] = value
                                          \/ (pc'[t] = pc[t] /\ actual'[t] = actual[t] /\ at[t] = x)
  PROVE  CallbackInv'
<1>1. \A u \in Readers : InCallback(u)' <=> InCallback(u)
  BY Zenon DEF InCallback, Reading
<1>2. \A u \in Readers \ {t} : (Owes(u)' <=> Owes(u)) /\ (Stale(u)' <=> Stale(u))
  BY Zenon DEF Owes, Stale
<1>3. Stale(t)' => Stale(t)
  BY Zenon DEF Stale
<1>4. Owes(t) => Owes(t)'
  BY Zenon DEF Owes, Reading
<1> QED BY Zenon, <1>1, <1>2, <1>3, <1>4 DEF CallbackInv

\* A get returns; if the callback made it, with the present value or with one that
\* somebody has changed who now waits for the callback's guard.
LEMMA GetReturns ==
  ASSUME FlagTypes, CallbackInv, NEW t \in Readers, Reading(t), NEW v, Returned(t, v),
         UNCHANGED <<value, ret, cbguard, callback, pc, actual>>,
         ret[t] = "callback_done" => Stale(t) \/ v = value
  PROVE  CallbackInv'
<1> USE DEF FlagTypes, Goto, Returned
<1>0. at'[t] = ret[t] /\ \A u \in Readers \ {t} : at'[u] = at[u]
  BY Zenon
<1>1. \A u \in Readers : InCallback(u)' <=> InCallback(u)
  BY Zenon, <1>0 DEF InCallback, Reading
<1>2. \A u \in Readers \ {t} : (Owes(u)' <=> Owes(u)) /\ (Stale(u)' <=> Stale(u))
  BY Zenon, <1>0 DEF Owes, Stale
<1>3. ~Stale(t)'
  BY Zenon, <1>0 DEF Stale
<1>4. CASE ret[t] # "callback_done"
  <2>1. seen' = seen /\ ~Owes(t) /\ ~Stale(t)
    BY Zenon, <1>4 DEF Owes, Stale, Reading
  <2> QED BY Zenon, <1>1, <1>2, <1>3, <2>1 DEF CallbackInv
<1>5. CASE ret[t] = "callback_done" /\ Stale(t)
  <2>1. ~Owes(t)
    BY Zenon, <1>5 DEF Owes, Stale
  <2> QED BY Zenon, <1>1, <1>2, <1>3, <1>5, <2>1 DEF CallbackInv
<1>6. CASE ret[t] = "callback_done" /\ v = value
  <2>1. seen' = value
    BY Zenon, <1>6
  <2>2. \A u \in Readers \ {t} : ~Stale(u)
    BY Zenon, <1>6 DEF CallbackInv, InCallback, Stale, Reading
  <2> QED BY Zenon, <1>1, <1>2, <1>3, <2>1, <2>2 DEF CallbackInv
<1> QED BY Zenon, <1>4, <1>5, <1>6

-----------------------------------------------------------------------------
(* Every step keeps the invariant.                                         *)

LEMMA GetFastInv ==
  ASSUME Inv, FlagInv, NEW t \in Readers, GetFast(t)
  PROVE  FlagInv'
<1> USE DEF FlagInv, Inv, Goto, SeqKind, sequence, shared, readers, state, thread
<1>1. FlagTypes'
  BY Zenon DEF FlagTypes, GetFast, Returned, TryRead
<1>2. GuardHeld'
  BY DEF GuardHeld, FlagTypes, GetFast, Returned, TryRead
<1>3. Initialized'
  BY DEF Initialized, FlagTypes, GuardHeld, GetFast, Returned, TryRead
<1>4. ReadsKnown'
  BY DEF ReadsKnown, FlagTypes, TypeOK, GetFast, Returned, TryRead
<1>5. SavedKnown'
  BY DEF SavedKnown, FlagTypes, GetFast, Returned, TryRead
<1>6. StoreKnown'
  BY DEF StoreKnown, Stored, FlagTypes, GuardHeld, modification_count, GetFast, Returned,
         TryRead
<1>7. CallbackInv'

  <2>0. Reading(t)
    BY Zenon DEF GetFast, Reading
  <2>1. CASE use.kind = "kSequenceLocked"
    <3>1. /\ at'[t] = "fast"
          /\ (\A u \in Readers \ {t} : at'[u] = at[u]) /\ TryRead(t)
          /\ UNCHANGED <<value, ret, cbguard, callback, seen>>
      BY Zenon, <2>1 DEF GetFast, TryRead, FlagTypes
    <3>2. pc'[t] # "true" /\ \A u \in Readers \ {t} : pc'[u] = pc[u] /\ actual'[u] = actual[u]
      BY Zenon, <3>1 DEF TryRead, TypeOK
    <3> QED BY Zenon, <2>0, <3>1, <3>2, GetGoesOn
  <2>2. CASE use.kind = "kOneWordAtomic" /\ \A w \in Words : words[w] # None
    <3>1. Returned(t, Current) /\ UNCHANGED <<value, ret, cbguard, callback, pc, actual>>
      BY Zenon, <2>2 DEF GetFast
    <3>2. ret[t] = "callback_done" => lock >= 0 /\ writing = None
      BY Zenon, <2>2 DEF GetFast, Initialized
    <3> QED BY Zenon, <2>0, <3>1, <3>2, GetReturns, CurrentIs
  <2>3. CASE ~SeqKind /\ ~(use.kind = "kOneWordAtomic" /\ \A w \in Words : words[w] # None)
    <3>1. /\ at'[t] = "enter_get"
          /\ (\A u \in Readers \ {t} : at'[u] = at[u])
          /\ UNCHANGED <<value, ret, cbguard, callback, seen, pc, actual>>
      BY Zenon, <2>3 DEF GetFast, FlagTypes
    <3> QED BY Zenon, <2>0, <3>1, GetGoesOn
  <2> QED BY Zenon, <2>1, <2>2, <2>3
<1>8. Restorable'
  BY ZenonT(30) DEF Restorable, FlagTypes, GetFast, Returned, TryRead
<1>9. ValidatorRuns'
  <2>1. /\ at'[t] \in {"fast", "enter_get", ret[t]} /\ UNCHANGED <<vguard, view, ret>>
        /\ \A u \in Readers \ {t} : at'[u] = at[u]
    BY Zenon DEF GetFast, Returned, FlagTypes
  <2> QED BY Zenon, <2>1 DEF ValidatorRuns
<1> QED BY Zenon, <1>1, <1>2, <1>3, <1>4, <1>5, <1>6, <1>7, <1>8, <1>9

LEMMA ReadWordInv ==
  ASSUME Inv, FlagInv, NEW t \in Readers, ReadWord(t)
  PROVE  FlagInv'
<1> USE DEF FlagInv, Inv, Goto, SeqKind, sequence, shared, readers, state, thread
<1>1. FlagTypes'
  BY Zenon DEF FlagTypes, ReadWord, Validate, RelaxedCopyFromAtomic
<1>2. GuardHeld'
  BY Zenon DEF GuardHeld, FlagTypes, ReadWord, Validate, RelaxedCopyFromAtomic
<1>3. Initialized'
  BY Zenon DEF Initialized, FlagTypes, GuardHeld, ReadWord, Validate, RelaxedCopyFromAtomic
<1>4. ReadsKnown'
  BY DEF ReadsKnown, FlagTypes, GuardHeld, TypeOK, ReadWord, Validate, RelaxedCopyFromAtomic
<1>5. SavedKnown'
  BY Zenon DEF SavedKnown, FlagTypes, ReadWord, Validate, RelaxedCopyFromAtomic
<1>6. StoreKnown'
  BY DEF StoreKnown, Stored, FlagTypes, GuardHeld, modification_count, ReadWord, Validate,
         RelaxedCopyFromAtomic
<1>7. CallbackInv'

  <2>1. Reading(t) /\ at[t] \in {"fast", "second", "slow"} /\ UNCHANGED at
    BY Zenon DEF ReadWord, Reading
  <2>2. UNCHANGED <<value, ret, cbguard, callback, seen>>
    BY Zenon DEF ReadWord, Validate, RelaxedCopyFromAtomic
  <2>3. /\ \A u \in Readers \ {t} : pc'[u] = pc[u] /\ actual'[u] = actual[u]
        /\ pc'[t] # "true" \/ actual'[t] = value
    BY Zenon DEF ReadWord, Validate, RelaxedCopyFromAtomic, TypeOK
  <2> QED BY Zenon, <2>1, <2>2, <2>3, GetGoesOn
<1>8. Restorable'
  BY ZenonT(30) DEF Restorable, FlagTypes, ReadWord, Validate, RelaxedCopyFromAtomic
<1>9. ValidatorRuns'
  BY Zenon DEF ValidatorRuns, FlagTypes, GuardHeld, ReadWord, Validate, RelaxedCopyFromAtomic
<1> QED BY Zenon, <1>1, <1>2, <1>3, <1>4, <1>5, <1>6, <1>7, <1>8, <1>9

LEMMA ReadDoneInv ==
  ASSUME Inv, FlagInv, NEW t \in Readers, ReadDone(t)
  PROVE  FlagInv'
<1> USE DEF FlagInv, Inv, Goto, SeqKind, sequence, shared, readers, state, thread
<1>1. FlagTypes'
  BY Zenon DEF FlagTypes, ReadDone, Returned
<1>2. GuardHeld'
  BY DEF GuardHeld, FlagTypes, ReadDone, Returned
<1>3. Initialized'
  BY DEF Initialized, FlagTypes, GuardHeld, ReadDone, Returned
<1>4. ReadsKnown'
  BY Zenon DEF ReadsKnown, FlagTypes, ReadDone, Returned
<1>5. SavedKnown'

  <2>1. /\ UNCHANGED <<saved, counted, value>> /\ at[t] # "storing"
        /\ \A u \in Readers : at'[u] # "storing" <=> at[u] # "storing"
    BY Zenon DEF ReadDone, Returned, FlagTypes
  <2> QED BY Zenon, <2>1 DEF SavedKnown
<1>6. StoreKnown'
  BY DEF StoreKnown, Stored, FlagTypes, GuardHeld, modification_count, ReadDone, Returned
<1>7. CallbackInv'

  <2>0. Reading(t) /\ UNCHANGED <<value, ret, cbguard, callback, pc, actual>>
    BY Zenon DEF ReadDone, Reading
  <2>1. CASE pc[t] = "true"
    <3>1. Returned(t, actual[t])
      BY Zenon, <2>1, CopiedIs DEF ReadDone
    <3>2. ret[t] = "callback_done" => Stale(t) \/ actual[t] = value
      BY Zenon, <2>1 DEF Stale, ReadDone
    <3> QED BY Zenon, <2>0, <3>1, <3>2, GetReturns
  <2>2. CASE pc[t] # "true"
    <3>1. /\ UNCHANGED seen /\ at'[t] \in {"enter_get", "slow_lock"}
          /\ (\A u \in Readers \ {t} : at'[u] = at[u])
      BY Zenon, <2>2 DEF ReadDone, FlagTypes
    <3> QED BY Zenon, <2>0, <3>1, GetGoesOn
  <2> QED BY Zenon, <2>1, <2>2
<1>8. Restorable'
  BY Zenon DEF Restorable, FlagTypes, ReadDone, Returned
<1>9. ValidatorRuns'
  <2>1. /\ at'[t] \in {"enter_get", "slow_lock", ret[t]} /\ UNCHANGED <<vguard, view, ret>>
        /\ \A u \in Readers \ {t} : at'[u] = at[u]
    BY Zenon DEF ReadDone, Returned, FlagTypes
  <2> QED BY Zenon, <2>1 DEF ValidatorRuns
<1> QED BY Zenon, <1>1, <1>2, <1>3, <1>4, <1>5, <1>6, <1>7, <1>8, <1>9

LEMMA ReadStepInv ==
  ASSUME Inv, FlagInv, NEW t \in Readers, Read(t)
  PROVE  FlagInv'
<1> USE DEF FlagInv, Inv, Goto, SeqKind, sequence, shared, readers, state, thread
<1>0. /\ at[t] = "enter_get" /\ once = "done"
      /\ at'[t] \in {"second", "slow_lock", ret[t]} /\ DOMAIN at' = Readers
      /\ \A u \in Readers \ {t} : at'[u] = at[u]
      /\ ~SeqKind => pc' = pc
      /\ \A u \in Readers \ {t} : pc'[u] = pc[u] /\ seq_before'[u] = seq_before[u]
      /\ UNCHANGED <<shared, use, once, view, cbguard, state, op, arg, ret, saved, cb, calls, actual, vguard>>
  <2>1. CASE use.kind = "kSequenceLocked"
    BY Zenon, <2>1 DEF Read, TryRead, FlagTypes, TypeOK
  <2>2. CASE use.kind = "kOneWordAtomic"
    BY Zenon, <2>2 DEF Read, Returned, FlagTypes
  <2>3. CASE use.kind = "kAlignedBuffer"
    BY Zenon, <2>3 DEF Read, FlagTypes
  <2> QED BY Zenon, <2>1, <2>2, <2>3 DEF FlagTypes
<1>1. FlagTypes'
  BY Zenon, <1>0 DEF FlagTypes
<1>2. GuardHeld'
  BY <1>0 DEF GuardHeld, FlagTypes
<1>3. Initialized'
  BY Zenon, <1>0 DEF Initialized, FlagTypes
<1>4. ReadsKnown'
  BY <1>0 DEF ReadsKnown, FlagTypes
<1>5. SavedKnown'
  BY Zenon, <1>0 DEF SavedKnown, FlagTypes
<1>6. StoreKnown'
  BY <1>0 DEF StoreKnown, Stored, FlagTypes, modification_count
<1>7. CallbackInv'

  <2>0. Reading(t) /\ lock >= 0
    BY Zenon DEF Read, Reading, Initialized
  <2>1. CASE use.kind = "kSequenceLocked"
    <3>1. /\ at'[t] = "second"
          /\ (\A u \in Readers \ {t} : at'[u] = at[u]) /\ TryRead(t)
          /\ UNCHANGED <<value, ret, cbguard, callback, seen>>
      BY Zenon, <2>1 DEF Read, TryRead, FlagTypes
    <3>2. pc'[t] # "true" /\ \A u \in Readers \ {t} : pc'[u] = pc[u] /\ actual'[u] = actual[u]
      BY Zenon, <3>1 DEF TryRead, TypeOK
    <3> QED BY Zenon, <2>0, <3>1, <3>2, GetGoesOn
  <2>2. CASE use.kind = "kOneWordAtomic"
    <3>1. Returned(t, Current) /\ UNCHANGED <<value, ret, cbguard, callback, pc, actual>>
      BY Zenon, <2>2 DEF Read
    <3>2. writing = None
      BY Zenon, <2>2 DEF Read, Initialized
    <3> QED BY Zenon, <2>0, <3>1, <3>2, GetReturns, CurrentIs
  <2>3. CASE use.kind = "kAlignedBuffer"
    <3>1. /\ at'[t] = "slow_lock"
          /\ (\A u \in Readers \ {t} : at'[u] = at[u])
          /\ UNCHANGED <<value, ret, cbguard, callback, seen, pc, actual>>
      BY Zenon, <2>3 DEF Read, FlagTypes
    <3> QED BY Zenon, <2>0, <3>1, GetGoesOn
  <2> QED BY Zenon, <2>1, <2>2, <2>3 DEF FlagTypes
<1>8. Restorable'
  <2>1. at'[t] = "callback_done" => ret[t] = "callback_done"
    BY Zenon, <1>0
  <2>2. at'[t] \notin {"callback_lock", "relock", "invoke", "after"}
    BY <1>0 DEF FlagTypes
  <2> QED BY Zenon, <1>0, <2>1, <2>2 DEF Restorable
<1>9. ValidatorRuns'
  BY Zenon, <1>0 DEF ValidatorRuns, FlagTypes
<1> QED BY Zenon, <1>1, <1>2, <1>3, <1>4, <1>5, <1>6, <1>7, <1>8, <1>9

LEMMA SlowReadInv ==
  ASSUME Inv, FlagInv, NEW t \in Readers, SlowRead(t)
  PROVE  FlagInv'
<1> USE DEF FlagInv, Inv, Goto, SeqKind, sequence, shared, readers, state, thread
<1>1. FlagTypes'
  BY Zenon DEF FlagTypes, SlowRead, TryRead
<1>2. GuardHeld'
  BY GuardTake DEF GuardHeld, FlagTypes, SlowRead, TryRead
<1>3. Initialized'
  BY Zenon DEF Initialized, FlagTypes, GuardHeld, SlowRead, TryRead
<1>4. ReadsKnown'
  <2>0. view[t] = "none" /\ lock >= 0 /\ \A u \in Readers : at[u] # "storing"
    BY Zenon, GuardTake DEF SlowRead, GuardHeld, Initialized
  <2>1. CASE SeqKind
    <3>1. lock = 2 * counted /\ counted \in Nat
      BY Zenon, <2>0 DEF Initialized, WriteInv, TypeOK, SlowRead
    <3>2. lock % 2 # 1
      BY <3>1, EvenOdd
    <3>3. /\ pc' = [pc EXCEPT ![t] = "copy"] /\ seq_before' = [seq_before EXCEPT ![t] = lock]
          /\ UNCHANGED <<use, lock, value, actual>> /\ \A u \in Readers \ {t} : at'[u] = at[u]
      BY Zenon, <2>1, <3>2 DEF SlowRead, TryRead, FlagTypes
    <3> QED BY Zenon, <2>1, <3>3 DEF ReadsKnown, TypeOK
  <2>2. CASE ~SeqKind
    BY Zenon, <2>2 DEF SlowRead, ReadsKnown
  <2> QED BY Zenon, <2>1, <2>2
<1>5. SavedKnown'
  BY Zenon DEF SavedKnown, FlagTypes, SlowRead, TryRead
<1>6. StoreKnown'
  BY DEF StoreKnown, Stored, FlagTypes, GuardHeld, modification_count, SlowRead, TryRead
<1>7. CallbackInv'
  <2>1. Reading(t) /\ at'[t] = "slow" /\ \A u \in Readers \ {t} : at'[u] = at[u]
    BY Zenon DEF SlowRead, FlagTypes, Reading
  <2>2. UNCHANGED <<value, ret, cbguard, callback, seen>>
    BY Zenon DEF SlowRead, TryRead
  <2>3. pc'[t] # "true" /\ \A u \in Readers \ {t} : pc'[u] = pc[u] /\ actual'[u] = actual[u]
    BY Zenon DEF SlowRead, TryRead, TypeOK, ReadsKnown
  <2> QED BY Zenon, <2>1, <2>2, <2>3, GetGoesOn
<1>8. Restorable'
  BY Zenon DEF Restorable, FlagTypes, SlowRead, TryRead
<1>9. ValidatorRuns'
  <2>1. view[t] = "none"
    BY Zenon, GuardTake DEF SlowRead, GuardHeld
  <2>2. vguard # t
    BY Zenon, <2>1 DEF ValidatorRuns
  <2>3. UNCHANGED <<vguard, ret>> /\ \A u \in Readers \ {t} : at'[u] = at[u] /\ view'[u] = view[u]
    BY Zenon DEF SlowRead, guard!Take, FlagTypes, GuardHeld
  <2> QED BY Zenon, <2>2, <2>3 DEF ValidatorRuns
<1> QED BY Zenon, <1>1, <1>2, <1>3, <1>4, <1>5, <1>6, <1>7, <1>8, <1>9

LEMMA SlowReadDoneInv ==
  ASSUME Inv, FlagInv, NEW t \in Readers, SlowReadDone(t)
  PROVE  FlagInv'
<1> USE DEF FlagInv, Inv, Goto, SeqKind, sequence, shared, readers, state, thread
<1>1. FlagTypes'
  BY Zenon DEF FlagTypes, SlowReadDone, Returned
<1>2. GuardHeld'
  BY GuardLeave DEF GuardHeld, FlagTypes, SlowReadDone, Returned
<1>3. Initialized'
  BY Zenon DEF Initialized, FlagTypes, GuardHeld, SlowReadDone, Returned
<1>4. ReadsKnown'
  BY Zenon DEF ReadsKnown, FlagTypes, SlowReadDone, Returned
<1>5. SavedKnown'
  BY Zenon DEF SavedKnown, FlagTypes, SlowReadDone, Returned
<1>6. StoreKnown'
  BY Zenon DEF StoreKnown, Stored, FlagTypes, GuardHeld, modification_count, SlowReadDone,
         Returned
<1>7. CallbackInv'
  <2>1. Reading(t) /\ UNCHANGED <<value, ret, cbguard, callback, pc, actual>>
    BY Zenon DEF SlowReadDone, Reading
  <2>2. CASE SeqKind
    <3>1. Returned(t, value)
      BY Zenon, <2>2, CopiedIs DEF SlowReadDone, ReadsKnown
    <3> QED BY Zenon, <2>1, <3>1, GetReturns
  <2>3. CASE ~SeqKind
    <3>1. Returned(t, value)
      BY Zenon, <2>3, CurrentIs DEF SlowReadDone, Initialized
    <3> QED BY Zenon, <2>1, <3>1, GetReturns
  <2> QED BY Zenon, <2>2, <2>3
<1>8. Restorable'
  BY Zenon DEF Restorable, FlagTypes, SlowReadDone, Returned
<1>9. ValidatorRuns'
  <2>1. at[t] = "slow"
    BY Zenon DEF SlowReadDone
  <2>2. vguard # t
    BY Zenon, <2>1 DEF ValidatorRuns
  <2>3. UNCHANGED <<vguard, ret>> /\ \A u \in Readers \ {t} : at'[u] = at[u] /\ view'[u] = view[u]
    BY ZenonT(30), GuardLeave DEF SlowReadDone, Returned, FlagTypes, GuardHeld
  <2> QED BY Zenon, <2>2, <2>3 DEF ValidatorRuns
<1> QED BY Zenon, <1>1, <1>2, <1>3, <1>4, <1>5, <1>6, <1>7, <1>8, <1>9

LEMMA EnterInv ==
  ASSUME Inv, FlagInv, NEW t \in Readers, Enter(t)
  PROVE  FlagInv'
<1> USE DEF FlagInv, Inv, Goto, SeqKind, sequence, shared, readers, state, thread
<1>1. FlagTypes'
  BY Zenon DEF FlagTypes, Enter
<1>2. GuardHeld'
  BY GuardTake DEF GuardHeld, FlagTypes, Enter
<1>3. Initialized'
  BY Zenon DEF Initialized, FlagTypes, GuardHeld, Enter
<1>4. ReadsKnown'
  BY Zenon DEF ReadsKnown, FlagTypes, Enter
<1>5. SavedKnown'
  BY Zenon DEF SavedKnown, FlagTypes, Enter
<1>6. StoreKnown'
  BY Zenon DEF StoreKnown, Stored, FlagTypes, GuardHeld, modification_count, Enter
<1>7. CallbackInv'
  BY Zenon DEF CallbackInv, InCallback, Reading, Owes, Stale, FlagTypes, Enter
<1>8. Restorable'
  BY Zenon DEF Restorable, FlagTypes, Enter
<1>9. ValidatorRuns'
  <2>1. at[t] = "enter"
    BY Zenon DEF Enter
  <2>2. vguard # t
    BY Zenon, <2>1 DEF ValidatorRuns
  <2>3. UNCHANGED <<vguard, ret>> /\ \A u \in Readers \ {t} : at'[u] = at[u] /\ view'[u] = view[u]
    BY Zenon DEF Enter, guard!Take, FlagTypes, GuardHeld
  <2> QED BY Zenon, <2>2, <2>3 DEF ValidatorRuns
<1> QED BY Zenon, <1>1, <1>2, <1>3, <1>4, <1>5, <1>6, <1>7, <1>8, <1>9

LEMMA PerformInv ==
  ASSUME Inv, FlagInv, NEW t \in Readers, Perform(t)
  PROVE  FlagInv'
<1> USE DEF FlagInv, Inv, Goto, SeqKind, sequence, shared, readers, state, thread
<1>0. /\ lock >= 0 /\ writing = None /\ (\A u \in Readers : at[u] # "storing")
      /\ modification_count = counted /\ Current = value /\ value \in Values
  <2>1. once = "done" /\ lock >= 0 /\ \A u \in Readers : at[u] # "storing"
    BY Zenon DEF Perform, GuardHeld, Initialized
  <2>2. writing = None
    BY Zenon, <2>1 DEF Initialized
  <2> QED BY Zenon, <2>1, <2>2, CurrentIs, CountIs
<1>1. FlagTypes'
  <2>1. CASE op[t] = "SaveState"
    BY Zenon, <1>0, <2>1 DEF FlagTypes, Perform, TypeOK
  <2>2. CASE op[t] # "SaveState"
    BY Zenon, <2>2 DEF FlagTypes, Perform
  <2> QED BY Zenon, <2>1, <2>2
<1>2. GuardHeld'
  BY Zenon DEF GuardHeld, FlagTypes, Perform
<1>3. Initialized'
  BY Zenon DEF Initialized, FlagTypes, GuardHeld, Perform
<1>4. ReadsKnown'
  BY Zenon DEF ReadsKnown, FlagTypes, Perform
<1>5. SavedKnown'
  <2>1. /\ counted' = counted /\ value' = value /\ counted \in Nat
        /\ \A u \in Readers : at'[u] # "storing"
    BY Zenon, <1>0 DEF Perform, FlagTypes, TypeOK
  <2>2. CASE op[t] = "SaveState"
    BY <1>0, <2>1, <2>2 DEF SavedKnown, FlagTypes, Perform
  <2>3. CASE op[t] # "SaveState"
    BY Zenon, <1>0, <2>1, <2>3 DEF SavedKnown, Perform
  <2> QED BY Zenon, <2>2, <2>3
<1>6. StoreKnown'
  BY DEF StoreKnown, Stored, FlagTypes, GuardHeld, modification_count, Perform
<1>7. CallbackInv'
  <2>1. /\ at[t] = "inside" /\ at'[t] \in {"store", "invoke", "set_func", "unlock"}
        /\ \A u \in Readers \ {t} : at'[u] = at[u]
        /\ UNCHANGED <<value, pc, actual, ret, seen, cbguard>>
    BY Zenon DEF Perform, FlagTypes
  <2>2. \A u \in Readers : InCallback(u)' <=> InCallback(u)
    BY Zenon, <2>1 DEF InCallback, Reading
  <2>3. \A u \in Readers \ {t} : (Owes(u)' <=> Owes(u)) /\ (Stale(u)' <=> Stale(u))
    BY Zenon, <2>1 DEF Owes, Stale
  <2>4. ~Owes(t) /\ ~Stale(t)'
    BY Zenon, <2>1 DEF Owes, Stale
  <2>5. CASE op[t] = "set_flag_callback"
    <3>1. at'[t] = "invoke"
      BY Zenon, <2>5 DEF Perform, Stored, FlagTypes, Parses
    <3> QED BY Zenon, <2>1, <2>2, <3>1 DEF CallbackInv, Owes
  <2>6. CASE op[t] # "set_flag_callback"
    <3>1. callback' <=> callback
      BY Zenon, <2>6 DEF Perform
    <3> QED BY Zenon, <2>1, <2>2, <2>3, <2>4, <3>1 DEF CallbackInv
  <2> QED BY Zenon, <2>5, <2>6
<1>8. Restorable'
  <2>1. /\ at[t] = "inside" /\ op[t] # "user_validate" /\ view[t] = "Exclusive"
        /\ UNCHANGED <<ret, modified, on_command_line, counted>> /\ counted \in Nat
        /\ \A u \in Readers \ {t} : at'[u] = at[u] /\ saved'[u] = saved[u]
        /\ at'[t] \in {"store", "invoke", "set_func", "unlock"}
        /\ at'[t] = "invoke" => callback'
        /\ callback => callback'
    BY Zenon DEF Perform, FlagTypes, GuardHeld, TypeOK
  <2>2. \A u \in Readers : at[u] \notin {"invoke", "after"}
    BY Zenon, <2>1 DEF GuardHeld
  <2>3. CASE op[t] = "SaveState"
    <3>1. /\ saved'[t].counter = counted /\ saved'[t].modified = modified
          /\ saved'[t].on_command_line = on_command_line
      BY Zenon, <1>0, <2>3 DEF Perform, FlagTypes
    <3> QED BY Zenon, <2>1, <2>2, <3>1 DEF Restorable
  <2>4. CASE op[t] # "SaveState"
    <3>1. saved' = saved
      BY Zenon, <2>4 DEF Perform
    <3> QED BY Zenon, <2>1, <2>2, <3>1 DEF Restorable
  <2> QED BY Zenon, <2>3, <2>4
<1>9. ValidatorRuns'
  BY Zenon DEF ValidatorRuns, FlagTypes, GuardHeld, Perform
<1> QED BY Zenon, <1>1, <1>2, <1>3, <1>4, <1>5, <1>6, <1>7, <1>8, <1>9

LEMMA BeginStoreInv ==
  ASSUME Inv, FlagInv, NEW t \in Readers, BeginStore(t)
  PROVE  FlagInv'
<1> USE DEF FlagInv, Inv, Goto, SeqKind, sequence, shared, readers, state, thread
<1>1. FlagTypes'
  BY Zenon DEF FlagTypes, BeginStore, Write
<1>2. GuardHeld'
  BY Zenon DEF GuardHeld, FlagTypes, BeginStore, Write
<1>3. Initialized'
  <2>1. /\ at[t] = "store" /\ at'[t] = "storing" /\ once = "done" /\ lock >= 0
        /\ (\A u \in Readers \ {t} : at'[u] = at[u] /\ at[u] # "storing")
        /\ UNCHANGED <<use, once, callback, ret, saved>>
    BY Zenon DEF BeginStore, FlagTypes, GuardHeld, Initialized
  <2>2. writing = None /\ Stored(t) # None
    BY Zenon, <2>1, SequenceAssumption DEF Initialized, StoreKnown
  <2>3. CASE SeqKind
    <3>1. lock' = lock + 1 /\ writing' # None
      BY Zenon, <2>2, <2>3 DEF BeginStore, Write
    <3> QED BY <2>1, <2>3, <3>1 DEF Initialized, TypeOK, kUninitialized
  <2>4. CASE ~SeqKind
    <3>1. UNCHANGED <<lock, writing>>
      BY Zenon, <2>4 DEF BeginStore
    <3> QED BY Zenon, <2>1, <2>2, <2>4, <3>1 DEF Initialized
  <2> QED BY Zenon, <2>3, <2>4
<1>4. ReadsKnown'
  BY DEF ReadsKnown, FlagTypes, GuardHeld, TypeOK, BeginStore, Write
<1>5. SavedKnown'
  BY Zenon DEF SavedKnown, FlagTypes, BeginStore, Write
<1>6. StoreKnown'
  BY Zenon DEF StoreKnown, Stored, FlagTypes, GuardHeld, modification_count, BeginStore, Write
<1>7. CallbackInv'
  BY Zenon DEF CallbackInv, InCallback, Reading, Owes, Stale, FlagTypes, BeginStore, Write
<1>8. Restorable'
  BY Zenon DEF Restorable, FlagTypes, BeginStore, Write
<1>9. ValidatorRuns'
  BY Zenon DEF ValidatorRuns, FlagTypes, GuardHeld, BeginStore, Write
<1> QED BY Zenon, <1>1, <1>2, <1>3, <1>4, <1>5, <1>6, <1>7, <1>8, <1>9

LEMMA StoreWordInv ==
  ASSUME Inv, FlagInv, NEW t \in Readers, StoreWord(t)
  PROVE  FlagInv'
<1> USE DEF FlagInv, Inv, Goto, SeqKind, sequence, shared, readers, state, thread
<1>1. FlagTypes'
  BY Zenon DEF FlagTypes, StoreWord, RelaxedCopyToAtomic
<1>2. GuardHeld'
  BY Zenon DEF GuardHeld, FlagTypes, StoreWord, RelaxedCopyToAtomic
<1>3. Initialized'
  BY Zenon DEF Initialized, FlagTypes, GuardHeld, StoreWord, RelaxedCopyToAtomic
<1>4. ReadsKnown'
  BY DEF ReadsKnown, FlagTypes, GuardHeld, TypeOK, StoreWord, RelaxedCopyToAtomic
<1>5. SavedKnown'
  BY Zenon DEF SavedKnown, FlagTypes, StoreWord, RelaxedCopyToAtomic
<1>6. StoreKnown'
  BY Zenon DEF StoreKnown, Stored, FlagTypes, GuardHeld, modification_count, StoreWord,
         RelaxedCopyToAtomic
<1>7. CallbackInv'
  BY Zenon DEF CallbackInv, InCallback, Reading, Owes, Stale, FlagTypes, StoreWord,
         RelaxedCopyToAtomic
<1>8. Restorable'
  BY Zenon DEF Restorable, FlagTypes, StoreWord, RelaxedCopyToAtomic
<1>9. ValidatorRuns'
  BY Zenon DEF ValidatorRuns, FlagTypes, GuardHeld, StoreWord, RelaxedCopyToAtomic
<1> QED BY Zenon, <1>1, <1>2, <1>3, <1>4, <1>5, <1>6, <1>7, <1>8, <1>9

LEMMA EndStoreInv ==
  ASSUME Inv, FlagInv, NEW t \in Readers, EndStore(t)
  PROVE  FlagInv'
<1> USE DEF FlagInv, Inv, Goto, SeqKind, sequence, shared, readers, state, thread
<1>0. /\ at[t] = "storing" /\ at'[t] = "invoke" /\ once = "done" /\ lock \in Nat /\ counted \in Nat
      /\ (\A u \in Readers \ {t} : at'[u] = at[u] /\ at[u] # "storing")
      /\ UNCHANGED <<use, once, callback, ret, saved>>
  <2>1. /\ at[t] = "storing" /\ at' = [at EXCEPT ![t] = "invoke"]
        /\ UNCHANGED <<use, once, callback, ret, saved>>
    BY Zenon DEF EndStore
  <2>2. \A u \in Readers \ {t} : at[u] # "storing"
    BY Zenon, <2>1 DEF GuardHeld
  <2>3. once = "done" /\ lock >= 0
    BY Zenon, <2>1 DEF Initialized
  <2>4. lock \in Nat /\ counted \in Nat
    BY <2>3 DEF TypeOK, kUninitialized
  <2> QED BY Zenon, <2>1, <2>2, <2>3, <2>4 DEF FlagTypes
<1>00. counted' = counted + 1 /\ lock' >= 0 /\ writing' = None
  <2>1. CASE SeqKind
    <3>1. WriteDone
      BY Zenon, <2>1 DEF EndStore
    <3> QED BY <1>0, <3>1 DEF WriteDone
  <2>2. CASE ~SeqKind
    <3>1. IncrementModificationCount
      BY Zenon, <2>2 DEF EndStore
    <3> QED BY <1>0, <3>1 DEF IncrementModificationCount
  <2> QED BY Zenon, <2>1, <2>2
<1>1. FlagTypes'
  BY Zenon DEF FlagTypes, EndStore, WriteDone, IncrementModificationCount
<1>2. GuardHeld'
  BY Zenon DEF GuardHeld, FlagTypes, EndStore, WriteDone, IncrementModificationCount
<1>3. Initialized'
  BY Zenon, <1>0, <1>00 DEF Initialized
<1>4. ReadsKnown'
  BY DEF ReadsKnown, FlagTypes, GuardHeld, TypeOK, EndStore, WriteDone,
         IncrementModificationCount
<1>5. SavedKnown'
  BY <1>0, <1>00 DEF SavedKnown, FlagTypes
<1>6. StoreKnown'
  BY Zenon DEF StoreKnown, Stored, FlagTypes, GuardHeld, modification_count, EndStore, WriteDone,
         IncrementModificationCount
<1>7. CallbackInv'
  BY Zenon DEF CallbackInv, InCallback, Reading, Owes, Stale, FlagTypes, EndStore, WriteDone,
         IncrementModificationCount
<1>8. Restorable'
  <2>1. \A u \in Readers : saved[u] # None => saved[u].counter < counted'
    BY <1>0, <1>00 DEF SavedKnown, FlagTypes
  <2>2. \A u \in Readers : saved[u] # None => saved[u].counter # counted'
    BY <1>0, <1>00, <2>1 DEF FlagTypes
  <2> QED BY Zenon, <1>0, <2>1, <2>2 DEF Restorable
<1>9. ValidatorRuns'
  BY Zenon DEF ValidatorRuns, FlagTypes, GuardHeld, EndStore, WriteDone, IncrementModificationCount
<1> QED BY Zenon, <1>1, <1>2, <1>3, <1>4, <1>5, <1>6, <1>7, <1>8, <1>9

LEMMA InvokeInv ==
  ASSUME Inv, FlagInv, NEW t \in Readers, Invoke(t)
  PROVE  FlagInv'
<1> USE DEF FlagInv, Inv, Goto, SeqKind, sequence, shared, readers, state, thread
<1>1. FlagTypes'
  BY Zenon DEF FlagTypes, Invoke
<1>2. GuardHeld'
  BY GuardLeave DEF GuardHeld, FlagTypes, Invoke
<1>3. Initialized'
  BY DEF Initialized, FlagTypes, GuardHeld, Invoke
<1>4. ReadsKnown'
  BY Zenon DEF ReadsKnown, FlagTypes, Invoke
<1>5. SavedKnown'
  BY DEF SavedKnown, FlagTypes, Invoke
<1>6. StoreKnown'
  BY DEF StoreKnown, Stored, FlagTypes, GuardHeld, modification_count, Invoke
<1>7. CallbackInv'
  BY DEF CallbackInv, InCallback, Reading, Owes, Stale, FlagTypes, Invoke
<1>8. Restorable'
  BY Zenon DEF Restorable, FlagTypes, Invoke
<1>9. ValidatorRuns'
  BY Zenon, GuardLeave DEF ValidatorRuns, FlagTypes, GuardHeld, Invoke
<1> QED BY Zenon, <1>1, <1>2, <1>3, <1>4, <1>5, <1>6, <1>7, <1>8, <1>9

LEMMA StartCallbackInv ==
  ASSUME Inv, FlagInv, NEW t \in Readers, StartCallback(t)
  PROVE  FlagInv'
<1> USE DEF FlagInv, Inv, Goto, SeqKind, sequence, shared, readers, state, thread
<1>1. FlagTypes'
  BY Zenon DEF FlagTypes, StartCallback
<1>2. GuardHeld'
  BY Zenon DEF GuardHeld, FlagTypes, StartCallback
<1>3. Initialized'
  BY Zenon DEF Initialized, FlagTypes, GuardHeld, StartCallback
<1>4. ReadsKnown'
  BY Zenon DEF ReadsKnown, FlagTypes, StartCallback
<1>5. SavedKnown'
  BY Zenon DEF SavedKnown, FlagTypes, StartCallback
<1>6. StoreKnown'
  BY Zenon DEF StoreKnown, Stored, FlagTypes, GuardHeld, modification_count, StartCallback
<1>7. CallbackInv'
  BY Zenon, FlagAssumption DEF CallbackInv, InCallback, Reading, Owes, Stale, FlagTypes,
                        StartCallback
<1>8. Restorable'
  BY Zenon DEF Restorable, FlagTypes, StartCallback
<1>9. ValidatorRuns'
  BY Zenon DEF ValidatorRuns, FlagTypes, GuardHeld, StartCallback
<1> QED BY Zenon, <1>1, <1>2, <1>3, <1>4, <1>5, <1>6, <1>7, <1>8, <1>9

LEMMA CallbackDoneInv ==
  ASSUME Inv, FlagInv, NEW t \in Readers, CallbackDone(t)
  PROVE  FlagInv'
<1> USE DEF FlagInv, Inv, Goto, SeqKind, sequence, shared, readers, state, thread
<1>1. FlagTypes'
  BY Zenon DEF FlagTypes, CallbackDone
<1>2. GuardHeld'
  BY Zenon DEF GuardHeld, FlagTypes, CallbackDone
<1>3. Initialized'
  BY Zenon DEF Initialized, FlagTypes, GuardHeld, CallbackDone
<1>4. ReadsKnown'
  BY Zenon DEF ReadsKnown, FlagTypes, CallbackDone
<1>5. SavedKnown'
  BY Zenon DEF SavedKnown, FlagTypes, CallbackDone
<1>6. StoreKnown'
  BY Zenon DEF StoreKnown, Stored, FlagTypes, GuardHeld, modification_count, CallbackDone
<1>7. CallbackInv'
  BY FlagAssumption DEF CallbackInv, InCallback, Reading, Owes, Stale, FlagTypes,
                        CallbackDone
<1>8. Restorable'
  BY Zenon DEF Restorable, FlagTypes, CallbackDone
<1>9. ValidatorRuns'
  BY Zenon DEF ValidatorRuns, FlagTypes, GuardHeld, CallbackDone
<1> QED BY Zenon, <1>1, <1>2, <1>3, <1>4, <1>5, <1>6, <1>7, <1>8, <1>9

LEMMA RelockInv ==
  ASSUME Inv, FlagInv, NEW t \in Readers, Relock(t)
  PROVE  FlagInv'
<1> USE DEF FlagInv, Inv, Goto, SeqKind, sequence, shared, readers, state, thread
<1>1. FlagTypes'
  BY Zenon DEF FlagTypes, Relock
<1>2. GuardHeld'
  BY GuardTake DEF GuardHeld, FlagTypes, Relock
<1>3. Initialized'
  BY Zenon DEF Initialized, FlagTypes, GuardHeld, Relock
<1>4. ReadsKnown'
  BY Zenon DEF ReadsKnown, FlagTypes, Relock
<1>5. SavedKnown'
  BY Zenon DEF SavedKnown, FlagTypes, Relock
<1>6. StoreKnown'
  BY Zenon DEF StoreKnown, Stored, FlagTypes, GuardHeld, modification_count, Relock
<1>7. CallbackInv'
  BY DEF CallbackInv, InCallback, Reading, Owes, Stale, FlagTypes, Relock
<1>8. Restorable'
  BY Zenon DEF Restorable, FlagTypes, Relock
<1>9. ValidatorRuns'
  BY Zenon, GuardTake DEF ValidatorRuns, FlagTypes, GuardHeld, Relock
<1> QED BY Zenon, <1>1, <1>2, <1>3, <1>4, <1>5, <1>6, <1>7, <1>8, <1>9

LEMMA AfterStoreInv ==
  ASSUME Inv, FlagInv, NEW t \in Readers, AfterStore(t)
  PROVE  FlagInv'
<1> USE DEF FlagInv, Inv, Goto, SeqKind, sequence, shared, readers, state, thread
<1>1. FlagTypes'
  BY Zenon DEF FlagTypes, AfterStore
<1>2. GuardHeld'
  BY Zenon DEF GuardHeld, FlagTypes, AfterStore
<1>3. Initialized'
  BY Zenon DEF Initialized, FlagTypes, GuardHeld, AfterStore
<1>4. ReadsKnown'
  BY Zenon DEF ReadsKnown, FlagTypes, AfterStore
<1>5. SavedKnown'
  BY Zenon DEF SavedKnown, FlagTypes, AfterStore
<1>6. StoreKnown'
  BY Zenon DEF StoreKnown, Stored, FlagTypes, GuardHeld, modification_count, AfterStore
<1>7. CallbackInv'
  BY DEF CallbackInv, InCallback, Reading, Owes, Stale, FlagTypes, AfterStore
<1>8. Restorable'
  <2>1. /\ at[t] = "after" /\ at'[t] = "unlock" /\ UNCHANGED <<callback, ret, saved, counted>>
        /\ \A u \in Readers \ {t} : at'[u] = at[u]
    BY Zenon DEF AfterStore, FlagTypes
  <2>2. ~callback => \A u \in Readers : saved[u] # None => saved[u].counter < counted
    BY Zenon, <2>1 DEF Restorable
  <2>3. ~callback => \A u \in Readers : saved[u] # None => saved[u].counter # counted
    BY <2>2 DEF FlagTypes, TypeOK
  <2> QED BY Zenon, <2>1, <2>2, <2>3 DEF Restorable
<1>9. ValidatorRuns'
  BY Zenon DEF ValidatorRuns, FlagTypes, GuardHeld, AfterStore
<1> QED BY Zenon, <1>1, <1>2, <1>3, <1>4, <1>5, <1>6, <1>7, <1>8, <1>9

LEMMA ExitInv ==
  ASSUME Inv, FlagInv, NEW t \in Readers, Exit(t)
  PROVE  FlagInv'
<1> USE DEF FlagInv, Inv, Goto, SeqKind, sequence, shared, readers, state, thread
<1>1. FlagTypes'
  BY Zenon DEF FlagTypes, Exit
<1>2. GuardHeld'
  BY Zenon DEF GuardHeld, FlagTypes, Exit
<1>3. Initialized'
  BY Zenon DEF Initialized, FlagTypes, GuardHeld, Exit
<1>4. ReadsKnown'
  BY Zenon DEF ReadsKnown, FlagTypes, Exit
<1>5. SavedKnown'
  BY Zenon DEF SavedKnown, FlagTypes, Exit
<1>6. StoreKnown'
  BY Zenon DEF StoreKnown, Stored, FlagTypes, GuardHeld, modification_count, Exit
<1>7. CallbackInv'
  BY Zenon DEF CallbackInv, InCallback, Reading, Owes, Stale, FlagTypes, Exit
<1>8. Restorable'
  BY Zenon DEF Restorable, FlagTypes, Exit
<1>9. ValidatorRuns'
  BY Zenon DEF ValidatorRuns, FlagTypes, GuardHeld, Exit
<1> QED BY Zenon, <1>1, <1>2, <1>3, <1>4, <1>5, <1>6, <1>7, <1>8, <1>9

LEMMA SetFuncInv ==
  ASSUME Inv, FlagInv, NEW t \in Readers, SetFunc(t)
  PROVE  FlagInv'
<1> USE DEF FlagInv, Inv, Goto, SeqKind, sequence, shared, readers, state, thread
<1>1. FlagTypes'
  BY Zenon DEF FlagTypes, SetFunc
<1>2. GuardHeld'
  BY Zenon DEF GuardHeld, FlagTypes, SetFunc
<1>3. Initialized'
  BY Zenon DEF Initialized, FlagTypes, GuardHeld, SetFunc
<1>4. ReadsKnown'
  BY Zenon DEF ReadsKnown, FlagTypes, SetFunc
<1>5. SavedKnown'
  BY Zenon DEF SavedKnown, FlagTypes, SetFunc
<1>6. StoreKnown'
  BY Zenon DEF StoreKnown, Stored, FlagTypes, GuardHeld, modification_count, SetFunc
<1>7. CallbackInv'
  BY Zenon DEF CallbackInv, InCallback, Reading, Owes, Stale, FlagTypes, SetFunc
<1>8. Restorable'
  BY Zenon DEF Restorable, FlagTypes, SetFunc
<1>9. ValidatorRuns'
  BY Zenon DEF ValidatorRuns, FlagTypes, GuardHeld, SetFunc
<1> QED BY Zenon, <1>1, <1>2, <1>3, <1>4, <1>5, <1>6, <1>7, <1>8, <1>9

LEMMA user_validateInv ==
  ASSUME Inv, FlagInv, NEW t \in Readers, user_validate(t)
  PROVE  FlagInv'
<1> USE DEF FlagInv, Inv, Goto, SeqKind, sequence, shared, readers, state, thread
<1>1. FlagTypes'
  BY Zenon DEF FlagTypes, user_validate
<1>2. GuardHeld'
  BY Zenon DEF GuardHeld, FlagTypes, user_validate
<1>3. Initialized'
  BY Zenon DEF Initialized, FlagTypes, GuardHeld, user_validate
<1>4. ReadsKnown'
  BY Zenon DEF ReadsKnown, FlagTypes, user_validate
<1>5. SavedKnown'
  BY Zenon DEF SavedKnown, FlagTypes, user_validate
<1>6. StoreKnown'
  BY Zenon DEF StoreKnown, Stored, FlagTypes, GuardHeld, modification_count, user_validate
<1>7. CallbackInv'
  BY DEF CallbackInv, InCallback, Reading, Owes, Stale, FlagTypes, user_validate
<1>8. Restorable'
  BY Zenon DEF Restorable, FlagTypes, user_validate
<1>9. ValidatorRuns'
  BY Zenon, FlagAssumption DEF ValidatorRuns, FlagTypes, GuardHeld, user_validate
<1> QED BY Zenon, <1>1, <1>2, <1>3, <1>4, <1>5, <1>6, <1>7, <1>8, <1>9

LEMMA ValidateDoneInv ==
  ASSUME Inv, FlagInv, NEW t \in Readers, ValidateDone(t)
  PROVE  FlagInv'
<1> USE DEF FlagInv, Inv, Goto, SeqKind, sequence, shared, readers, state, thread
<1>1. FlagTypes'
  BY Zenon DEF FlagTypes, ValidateDone
<1>2. GuardHeld'
  BY Zenon DEF GuardHeld, FlagTypes, ValidateDone
<1>3. Initialized'
  BY Zenon DEF Initialized, FlagTypes, GuardHeld, ValidateDone
<1>4. ReadsKnown'
  BY Zenon DEF ReadsKnown, FlagTypes, ValidateDone
<1>5. SavedKnown'
  BY Zenon DEF SavedKnown, FlagTypes, ValidateDone
<1>6. StoreKnown'
  BY Zenon DEF StoreKnown, Stored, FlagTypes, GuardHeld, modification_count, ValidateDone
<1>7. CallbackInv'
  BY Zenon DEF CallbackInv, InCallback, Reading, Owes, Stale, FlagTypes, ValidateDone
<1>8. Restorable'
  BY Zenon DEF Restorable, FlagTypes, ValidateDone
<1>9. ValidatorRuns'
  BY Zenon, FlagAssumption DEF ValidatorRuns, FlagTypes, GuardHeld, ValidateDone
<1> QED BY Zenon, <1>1, <1>2, <1>3, <1>4, <1>5, <1>6, <1>7, <1>8, <1>9

LEMMA CallInv ==
  ASSUME Inv, FlagInv, NEW t \in Readers, NEW o, NEW v \in Values \cup {Bad}, Call(t, o, v)
  PROVE  FlagInv'
<1> USE DEF FlagInv, Inv, Goto, SeqKind, sequence, shared, readers, state, thread
<1>1. FlagTypes'
  BY Zenon DEF FlagTypes, Call
<1>2. GuardHeld'
  BY Zenon DEF GuardHeld, FlagTypes, Call
<1>3. Initialized'
  BY Zenon DEF Initialized, FlagTypes, Call
<1>4. ReadsKnown'
  BY Zenon DEF ReadsKnown, FlagTypes, Call
<1>5. SavedKnown'
  BY Zenon DEF SavedKnown, FlagTypes, Call
<1>6. StoreKnown'
  BY Zenon DEF StoreKnown, Stored, FlagTypes, Call, modification_count
<1>7. CallbackInv'
  BY DEF CallbackInv, InCallback, Reading, Owes, Stale, FlagTypes, Call
<1>8. Restorable'
  BY Zenon DEF Restorable, FlagTypes, Call
<1>9. ValidatorRuns'
  BY Zenon DEF ValidatorRuns, FlagTypes, GuardHeld, Call
<1> QED BY Zenon, <1>1, <1>2, <1>3, <1>4, <1>5, <1>6, <1>7, <1>8, <1>9

\* Init runs before anybody is past DataGuard().
LEMMA InitializeInv == ASSUME Inv, FlagInv, Initialize PROVE FlagInv'
<1> USE DEF FlagInv, Inv, sequence, shared, readers, state, thread
<1>0. /\ /\ once # "done" /\ ~callback
      /\ UNCHANGED <<use, view, cbguard, vguard, state, thread, seen, readers, counted>>
      /\ writing # None => value' \in {value, writing}
  BY Zenon DEF Initialize, StartInit, InitWord, FinishInit, Prepare, RelaxedCopyToAtomic, MarkInitialized, Initialized
<1>1. FlagTypes'
  BY Zenon, <1>0 DEF FlagTypes
<1>2. GuardHeld'
  BY Zenon, <1>0 DEF GuardHeld, SeqKind
<1>3. Initialized'
  <2>1. CASE StartInit
    BY <1>0, <2>1, SequenceAssumption DEF Initialized, FlagTypes, StartInit, Prepare, SeqKind, kUninitialized
  <2>2. CASE InitWord
    BY <1>0, <2>2 DEF Initialized, FlagTypes, InitWord, RelaxedCopyToAtomic, SeqKind, kUninitialized
  <2>3. CASE FinishInit
    BY <1>0, <2>3 DEF Initialized, FlagTypes, FinishInit, MarkInitialized, SeqKind, kUninitialized
  <2> QED BY Zenon, <2>1, <2>2, <2>3 DEF Initialize
<1>4. ReadsKnown'
  BY Zenon, <1>0 DEF ReadsKnown, Initialized, SeqKind
<1>5. SavedKnown'
  BY Zenon, <1>0 DEF SavedKnown, Initialized
<1>6. StoreKnown'
  BY Zenon, <1>0 DEF StoreKnown, Initialized
<1>7. CallbackInv'
  BY Zenon, <1>0 DEF CallbackInv, InCallback, Reading
<1>8. Restorable'
  BY Zenon, <1>0 DEF Restorable, FlagTypes
<1>9. ValidatorRuns'
  BY Zenon, <1>0 DEF ValidatorRuns, FlagTypes
<1> QED BY Zenon, <1>1, <1>2, <1>3, <1>4, <1>5, <1>6, <1>7, <1>8, <1>9

-----------------------------------------------------------------------------
(* The flag uses the sequence lock as it asks to be used.                  *)

LEMMA SequenceStill == ASSUME Inv, UNCHANGED sequence PROVE Inv'
BY DEF Inv, TypeOK, WriteInv, ReadInv, ReadsWhole, sequence, shared, readers

\* A store into words without a sequence lock: nobody reads them with TryRead.
LEMMA StoreAtOnce ==
  ASSUME Inv, FlagInv, NEW t \in Readers, BeginStore(t), ~SeqKind PROVE Inv'
<1> USE DEF Inv, FlagInv
<1>1. /\ words' = [w \in Words |-> Stored(t)] /\ value' = Stored(t)
      /\ UNCHANGED <<lock, writing, left, counted, pc, seq_before, buf, todo, actual>>
  BY Zenon DEF BeginStore, SeqKind
<1>2. Stored(t) \in Values /\ writing = None
  BY Zenon DEF BeginStore, StoreKnown, Initialized, SeqKind
<1>3. \A r \in Readers : pc[r] = "idle"
  BY Zenon DEF ReadsKnown
<1>4. TypeOK'
  BY Zenon, <1>1, <1>2 DEF TypeOK
<1>5. WriteInv'
  BY Zenon, <1>1, <1>2 DEF WriteInv
<1>6. ReadInv' /\ ReadsWhole'
  BY Zenon, <1>1, <1>3 DEF ReadInv, ReadsWhole
<1> QED BY Zenon, <1>4, <1>5, <1>6

LEMMA SequenceUsed == ASSUME Inv, FlagInv, FlagNext PROVE Inv'
<1>1. CASE Initialize
  <2>1. default \in Values
    BY Zenon DEF FlagInv, FlagTypes
  <2>2. WriterStep
    BY Zenon, <1>1, <2>1 DEF Initialize, StartInit, InitWord, FinishInit, WriterStep
  <2> QED BY Zenon, <2>2, WriterStepInv
<1>2. ASSUME NEW t \in Readers, NEW o \in use.ops, NEW v \in Values \cup {Bad}, Call(t, o, v) PROVE Inv'
  BY Zenon, <1>2, SequenceStill DEF Call
<1>3. ASSUME NEW t \in Readers, Step(t) PROVE Inv'
  <2>1. CASE GetFast(t) \/ Read(t) \/ SlowRead(t)
    <3>1. TryRead(t) \/ UNCHANGED sequence
      BY Zenon, <2>1 DEF GetFast, Read, SlowRead, FlagInv, FlagTypes
    <3> QED BY Zenon, <3>1, SequenceStill, ReaderStepInv DEF ReaderStep
  <2>2. CASE ReadWord(t)
    BY Zenon, <2>2, ReaderStepInv DEF ReadWord, ReaderStep
  <2>3. CASE BeginStore(t)
    <3>1. CASE SeqKind
      <4>1. Write(Stored(t)) /\ Stored(t) \in Values
        BY Zenon, <2>3, <3>1 DEF BeginStore, SeqKind, FlagInv, StoreKnown
      <4> QED BY Zenon, <4>1, WriterStepInv DEF WriterStep
    <3>2. CASE ~SeqKind
      BY Zenon, <2>3, <3>2, StoreAtOnce
    <3> QED BY Zenon, <3>1, <3>2
  <2>4. CASE StoreWord(t)
    BY Zenon, <2>4, WriterStepInv DEF StoreWord, WriterStep
  <2>5. CASE EndStore(t)
    BY Zenon, <2>5, WriterStepInv DEF EndStore, WriterStep
  <2>6. CASE \/ ReadDone(t) \/ SlowReadDone(t) \/ Enter(t) \/ Perform(t) \/ SetFunc(t) \/ Invoke(t) \/ StartCallback(t)
             \/ CallbackDone(t) \/ Relock(t) \/ AfterStore(t) \/ Exit(t) \/ user_validate(t) \/ ValidateDone(t)
    <3>1. UNCHANGED sequence
      BY Zenon, <2>6 DEF ReadDone, SlowReadDone, Enter, Perform, SetFunc, Invoke, StartCallback, CallbackDone,
                  Relock, AfterStore, Exit, user_validate, ValidateDone
    <3> QED BY Zenon, <3>1, SequenceStill
  <2> QED BY Zenon, <1>3, <2>1, <2>2, <2>3, <2>4, <2>5, <2>6 DEF Step
<1> QED BY Zenon, <1>1, <1>2, <1>3 DEF FlagNext

LEMMA FlagNextInv == ASSUME Inv, FlagInv, FlagNext PROVE FlagInv'
<1>1. ASSUME NEW t \in Readers, Step(t) PROVE FlagInv'
  BY Zenon, <1>1, GetFastInv, ReadWordInv, ReadDoneInv, ReadStepInv, SlowReadInv, SlowReadDoneInv, EnterInv,
     PerformInv, SetFuncInv, BeginStoreInv, StoreWordInv, EndStoreInv, InvokeInv, StartCallbackInv, CallbackDoneInv,
     RelockInv, AfterStoreInv, ExitInv, user_validateInv, ValidateDoneInv DEF Step
<1> QED BY Zenon, <1>1, CallInv, InitializeInv DEF FlagNext

LEMMA FlagsInitInv == FlagInit => FlagsInv
<1> SUFFICES ASSUME FlagInit PROVE FlagsInv
  BY Zenon
<1> USE FlagAssumption, SequenceAssumption
<1>1. Inv
  BY Zenon, InitInv DEF FlagInit
<1>2. ASSUME ~Bare PROVE FlagInv
  <2>1. FlagTypes /\ GuardHeld
    BY Zenon, <1>2 DEF FlagInit, FlagTypes, GuardHeld, Bare
  <2>2. Initialized /\ ReadsKnown
    BY Zenon DEF FlagInit, Init, Initialized, ReadsKnown
  <2>3. SavedKnown /\ StoreKnown
    BY Zenon DEF FlagInit, SavedKnown, StoreKnown
  <2>4. CallbackInv
    BY Zenon DEF FlagInit, CallbackInv, InCallback, Reading
  <2>5. Restorable /\ ValidatorRuns
    BY Zenon DEF FlagInit, Restorable, ValidatorRuns
  <2> QED BY Zenon, <2>1, <2>2, <2>3, <2>4, <2>5 DEF FlagInv
<1> QED BY Zenon, <1>1, <1>2 DEF FlagsInv, FlagInit

LEMMA FlagsNextInv == FlagsInv /\ [FlagsNext]_flag_vars => FlagsInv'
<1> SUFFICES ASSUME FlagsInv, [FlagsNext]_flag_vars PROVE FlagsInv'
  BY Zenon
<1>1. CASE BareNext
  <2>1. Inv'
    BY Zenon, <1>1, WriterStepInv, ReaderStepInv DEF FlagsInv, BareNext, Next
  <2> QED BY Zenon, <1>1, <2>1 DEF FlagsInv, BareNext, Bare, rest, thread, state
<1>2. CASE ~Bare /\ FlagNext
  <2>1. Inv' /\ FlagInv'
    BY Zenon, <1>2, SequenceUsed, FlagNextInv DEF FlagsInv
  <2>2. ~Bare'
    BY Zenon, <2>1 DEF FlagInv, FlagTypes, Bare
  <2> QED BY Zenon, <2>1, <2>2 DEF FlagsInv
<1>3. CASE UNCHANGED flag_vars
  <2>1. Inv'
    BY Zenon, <1>3, SequenceStill DEF FlagsInv, flag_vars
  <2>2. FlagInv => FlagInv'
    <3> USE DEF flag_vars, sequence, shared, readers, state, thread
    <3>1. FlagTypes /\ GuardHeld => FlagTypes' /\ GuardHeld'
      BY Zenon, <1>3 DEF FlagTypes, GuardHeld, SeqKind
    <3>2. Initialized /\ ReadsKnown => Initialized' /\ ReadsKnown'
      BY Zenon, <1>3 DEF Initialized, ReadsKnown, SeqKind
    <3>3. SavedKnown /\ StoreKnown => SavedKnown' /\ StoreKnown'
      BY Zenon, <1>3 DEF SavedKnown, StoreKnown, Stored, modification_count
    <3>4. CallbackInv => CallbackInv'
      BY Zenon, <1>3 DEF CallbackInv, InCallback, Reading, Owes, Stale
    <3>5. Restorable /\ ValidatorRuns => Restorable' /\ ValidatorRuns'
      BY Zenon, <1>3 DEF Restorable, ValidatorRuns
    <3> QED BY Zenon, <3>1, <3>2, <3>3, <3>4, <3>5 DEF FlagInv
  <2> QED BY Zenon, <1>3, <2>1, <2>2 DEF FlagsInv, Bare, flag_vars, thread, state
<1> QED BY Zenon, <1>1, <1>2, <1>3 DEF FlagsNext

\* The invariant of the flag and of its sequence lock, and of a sequence lock used bare,
\* for any threads, words, values and calls.
THEOREM FlagsCorrect == FlagsSpec => []FlagsInv
BY FlagsInitInv, FlagsNextInv, PTL DEF FlagsSpec

\* A TryRead that returns true copied one whole value also as the flag uses it, where
\* get() tries three times and callbacks and validators read while others store.
THEOREM FlagReadsWhole == FlagsSpec => []ReadsWhole
<1>1. FlagsInv => ReadsWhole
  BY DEF FlagsInv, Inv
<1> QED BY <1>1, FlagsCorrect, PTL

\* Who stores a value is alone, although callbacks release the guard and take it again, and
\* no validator runs meanwhile, since user_validate() keeps the guard, shared.
THEOREM StoresKeptApart == FlagsSpec => []StoresApart
<1>1. ASSUME FlagInv PROVE StoresApart
  <2> USE <1>1 DEF FlagInv
  <2>1. \A t, u \in Readers :
          at[t] \in {"store", "storing", "after"} /\ u # t =>
            at[u] \notin {"inside", "set_func", "store", "storing", "after"} /\ vguard # u
    BY Zenon DEF GuardHeld, ValidatorRuns
  <2>2. ASSUME NEW t \in Readers, at[t] = "store" PROVE writing = None /\ once = "done"
    <3>1. once = "done"
      BY Zenon, <2>2 DEF Initialized
    <3> QED BY Zenon, <2>1, <2>2, <3>1 DEF Initialized
  <2> QED BY Zenon, <2>1, <2>2 DEF StoresApart
<1>2. FlagsInv => StoresApart
  BY <1>1 DEF FlagsInv, StoresApart
<1> QED BY <1>2, FlagsCorrect, PTL

\* A saved state with the present counter has the present value and, without a callback, the
\* present modified_ and on_command_line_: RestoreState may then do nothing.
THEOREM CounterTells == FlagsSpec => []CounterMeansUnchanged
<1>1. ASSUME Inv, FlagInv PROVE CounterMeansUnchanged
  <2>1. \A t \in Readers : saved[t] # None => modification_count = counted
    BY Zenon, <1>1, CountIs DEF FlagInv, Initialized
  <2> QED BY Zenon, <1>1, <2>1 DEF FlagInv, SavedKnown, Restorable, CounterMeansUnchanged
<1>2. FlagsInv => CounterMeansUnchanged
  BY <1>1 DEF FlagsInv, CounterMeansUnchanged
<1> QED BY <1>2, FlagsCorrect, PTL

\* When all calls have returned the callback has seen the value that the flag has.
THEOREM CallbackSawLast == FlagsSpec => []CallbackSeesLast
<1>1. FlagInv => CallbackSeesLast
  BY Zenon DEF FlagInv, CallbackInv, Owes, CallbackSeesLast
<1>2. FlagsInv => CallbackSeesLast
  BY <1>1 DEF FlagsInv, CallbackSeesLast
<1> QED BY <1>2, FlagsCorrect, PTL
=============================================================================
