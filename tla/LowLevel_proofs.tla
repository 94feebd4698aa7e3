--------------------------- MODULE LowLevel_proofs ---------------------------
(***************************************************************************)
(* Proofs about what the other primitives are built on: the SpinLock,      *)
(* call_once, the semaphore of a thread and the objects made on first use, *)
(* for any number of threads, calls, posts and exits.  For each of them an *)
(* inductive invariant; LowIInv says that the one in use keeps its own.    *)
(***************************************************************************)
EXTENDS LowLevel, FiniteSetTheorems, TLAPS

(* SpinLock *)

\* EncodeWaitCycles never produces a zero wait field, whatever the clock did.
LEMMA EncodeNonzero ==
  ASSUME NEW e \in Int
  PROVE  Encode(e) \in 1..MaxWaitTime
<1> DEFINE least == IF e < MaxWaitTime THEN e ELSE MaxWaitTime
           clamped == least % (MaxWaitTime + 1)
<1>1. least \in Int /\ MaxWaitTime \in Nat /\ MaxWaitTime >= 2
  BY SpinLockAssumption
<1> HIDE DEF least
<1>2. clamped \in 0..MaxWaitTime
  BY <1>1
<1> HIDE DEF clamped
<1>3. Encode(e) = CASE clamped = 0 -> 1 [] clamped = 1 -> 2 [] OTHER -> clamped
  BY DEF Encode, Sleeper, least, clamped
<1> QED BY <1>1, <1>2, <1>3

\* The initial state satisfies the invariant.
LEMMA InitInv == Init => SpinLockInv
  BY SpinLockAssumption
  DEF Init, SpinLockInv, TypeOK, Exclusion, HeldByHolder, CopiesSound, NoLostWakeup,
      ProfileHonest, Free, Word, Locations

\* TryLockInternal, from any of the places that call it, preserves the invariant:
\* it takes the lock only from a free word, and puts a wait field into it when the
\* thread was a caretaker.
LEMMA TryInv ==
  ASSUME SpinLockInv, NEW t \in Threads, NEW at, NEW lost,
         \/ at \in {"try"} /\ lost = "spin"
         \/ at \in {"tryOnly"} /\ lost = "idle"
         \/ at \in {"trySpun", "retry", "tryRespun"} /\ lost = "loop",
         TryLockInternal(t, at, lost)
  PROVE  SpinLockInv'
<1> USE DEF SpinLockInv, Free
<1>1. TypeOK'
  BY Zenon, SpinLockAssumption DEF TryLockInternal, Goto, TypeOK, Locations, Word, Result, Swapped
<1>2. CASE Result(t).held
  <2>1. /\ UNCHANGED <<word, cycles>>
        /\ pc' = [pc EXCEPT ![t] = lost]
        /\ val' = [val EXCEPT ![t] = Result(t)]
    BY Zenon, <1>2 DEF TryLockInternal, Goto, Swapped, Result, TypeOK, HeldByHolder, Word
  <2>2. Exclusion' /\ HeldByHolder'
    BY Zenon, <2>1 DEF Exclusion, HeldByHolder, TypeOK, TryLockInternal
  <2>3. CopiesSound'
    BY Zenon, <2>1, <1>2 DEF CopiesSound, TypeOK, TryLockInternal
  <2>4. \A u \in Threads : Caretaker(u) => Caretaker(u)'
    BY Zenon, <2>1 DEF Caretaker, TypeOK, TryLockInternal
  <2>5. NoLostWakeup'
    BY Zenon, <2>1, <2>4 DEF NoLostWakeup, TypeOK, TryLockInternal
  <2>6. ProfileHonest'
    BY Zenon, <2>1 DEF ProfileHonest, TypeOK, TryLockInternal
  <2> QED BY Zenon, <1>1, <2>2, <2>3, <2>5, <2>6
<1>3. CASE ~Result(t).held
  <2>1. word = Free /\ val[t] = Free
    BY Zenon, <1>3 DEF Result, CopiesSound, HeldByHolder, TypeOK
  <2>2. /\ word' = [held |-> TRUE, wait |-> cycles[t]]
        /\ pc' = [pc EXCEPT ![t] = "holding"]
        /\ val' = [val EXCEPT ![t] = Free]
        /\ UNCHANGED cycles
        /\ cycles[t] \in 0..MaxWaitTime
    <3>1. word = val[t] /\ val[t].held = FALSE /\ val[t].wait = 0
      BY <2>1
    <3>2. cycles[t] \in 0..MaxWaitTime
      BY Zenon DEF TypeOK
    <3>3. Swapped(t) = [held |-> TRUE, wait |-> cycles[t]] /\ Result(t) = val[t]
      BY Zenon, <3>1 DEF Swapped, Result
    <3> QED BY Zenon, <1>3, <2>1, <3>2, <3>3 DEF TryLockInternal, Goto
  <2>3. \A u \in Threads : pc[u] # "holding"
    BY Zenon, <2>1 DEF HeldByHolder
  <2>4. Exclusion' /\ HeldByHolder'
    BY Zenon, <2>2, <2>3 DEF Exclusion, HeldByHolder, TypeOK
  <2>5. CopiesSound'
    BY Zenon, <2>2, <2>3 DEF CopiesSound, TypeOK
  <2>6. NoLostWakeup'
    <3>1. CASE cycles[t] # 0
      BY Zenon, <2>2, <3>1 DEF NoLostWakeup
    <3>2. CASE cycles[t] = 0
      <4>1. ~Caretaker(t)
        BY Zenon, <3>2 DEF Caretaker, TryLockInternal
      <4>2. \A u \in Threads : Caretaker(u) => Caretaker(u)'
        BY Zenon, <4>1, <2>2 DEF Caretaker, TypeOK
      <4>3. \A u \in Threads : pc'[u] = "asleep" => pc[u] = "asleep"
        BY Zenon, <2>2 DEF TypeOK
      <4> QED BY Zenon, <4>2, <4>3, <2>1, <2>2 DEF NoLostWakeup
    <3> QED BY Zenon, <3>1, <3>2
  <2>7. ProfileHonest'
    BY Zenon, <2>2 DEF ProfileHonest, TypeOK
  <2> QED BY Zenon, <1>1, <2>4, <2>5, <2>6, <2>7
<1> QED BY Zenon, <1>2, <1>3

\* Every step preserves the invariant.
LEMMA NextInv == SpinLockInv /\ [Next]_vars => SpinLockInv'
<1> SUFFICES ASSUME SpinLockInv, [Next]_vars PROVE SpinLockInv'
  BY Zenon
<1> USE DEF SpinLockInv, Free
<1>1. CASE UNCHANGED vars
  BY Zenon, <1>1 DEF vars, TypeOK, Exclusion, HeldByHolder, CopiesSound, NoLostWakeup, ProfileHonest,
     Caretaker
<1>2. ASSUME NEW t \in Threads, Lock(t) \/ TryLock(t)
      PROVE  SpinLockInv'
  <2>1. PICK where \in {"try", "tryOnly"} : Call(t, where)
    BY Zenon, <1>2 DEF Lock, TryLock
  <2>2. TypeOK'
    BY <2>1, SpinLockAssumption DEF Call, Goto, TypeOK, Locations
  <2>3. Exclusion' /\ HeldByHolder'
    BY Zenon, <2>1 DEF Call, Goto, Exclusion, HeldByHolder, TypeOK
  <2>4. CopiesSound'
    BY Zenon, <2>1 DEF Call, Goto, CopiesSound, HeldByHolder, TypeOK
  <2>5. \A u \in Threads : Caretaker(u) => Caretaker(u)'
    BY Zenon, <2>1 DEF Call, Goto, Caretaker, TypeOK
  <2>6. NoLostWakeup'
    BY Zenon, <2>1, <2>5 DEF Call, Goto, NoLostWakeup, TypeOK
  <2>7. ProfileHonest'
    BY Zenon, <2>1 DEF Call, Goto, ProfileHonest, TypeOK
  <2> QED BY Zenon, <2>2, <2>3, <2>4, <2>6, <2>7
<1>3. ASSUME NEW t \in Threads, SpinLoop(t)
      PROVE  SpinLockInv'
  <2>1. TypeOK' /\ Exclusion' /\ HeldByHolder' /\ ProfileHonest'
    BY Zenon, <1>3 DEF SpinLoop, Goto, TypeOK, Exclusion, HeldByHolder, ProfileHonest, Locations
  <2>2. CopiesSound'
    BY Zenon, <1>3 DEF SpinLoop, Goto, CopiesSound, HeldByHolder, TypeOK
  <2>3. \A u \in Threads : Caretaker(u) => Caretaker(u)'
    BY Zenon, <1>3 DEF SpinLoop, Goto, Caretaker, TypeOK
  <2>4. NoLostWakeup'
    BY Zenon, <1>3, <2>3 DEF SpinLoop, Goto, NoLostWakeup, TypeOK
  <2> QED BY Zenon, <2>1, <2>2, <2>4
<1>4. ASSUME NEW t \in Threads, Mark(t)
      PROVE  SpinLockInv'
  <2>1. CASE val[t].wait = 0 /\ word = val[t]
    <3>1. /\ word' = [word EXCEPT !.wait = 1] /\ word.held /\ word.wait = 0
          /\ val' = [val EXCEPT ![t].wait = 1] /\ val[t].held
          /\ pc' = [pc EXCEPT ![t] = "delay"] /\ pc[t] = "loop"
          /\ UNCHANGED <<cycles, calls>>
      BY Zenon, <1>4, <2>1 DEF Mark, Goto, Sleeper, CopiesSound
    <3>2. TypeOK'
      <4>1. word' \in Word /\ val' \in [Threads -> Word]
        BY <3>1, SpinLockAssumption DEF TypeOK, Word
      <4> QED BY Zenon, <3>1, <4>1 DEF TypeOK, Locations
    <3>3. Exclusion' /\ HeldByHolder'
      <4>1. word'.held
        BY Zenon, <3>1 DEF TypeOK, Word
      <4>2. \A u \in Threads : pc'[u] = "holding" <=> pc[u] = "holding"
        BY Zenon, <3>1 DEF TypeOK
      <4> QED BY Zenon, <3>1, <4>1, <4>2 DEF Exclusion, HeldByHolder
    <3>4. CopiesSound'
      <4>1. word'.wait = 1 /\ val'[t].wait = 1 /\ val'[t].held /\ pc'[t] = "delay"
        BY Zenon, <3>1 DEF TypeOK, Word
      <4>2. \A u \in Threads : u # t => val'[u] = val[u] /\ pc'[u] = pc[u]
        BY Zenon, <3>1 DEF TypeOK
      <4> QED BY <4>1, <4>2 DEF CopiesSound, Sleeper
    <3>5. NoLostWakeup' /\ ProfileHonest'
      BY <3>1 DEF NoLostWakeup, ProfileHonest, TypeOK, Word
    <3> QED BY Zenon, <3>2, <3>3, <3>4, <3>5
  <2>2. CASE ~(val[t].wait = 0 /\ word = val[t])
    <3>1. /\ UNCHANGED <<word, cycles, calls>> /\ pc[t] = "loop"
          /\ \E w \in {word, val[t]}, where \in {"delay", "retry", "loop"} :
               /\ val' = [val EXCEPT ![t] = w]
               /\ pc' = [pc EXCEPT ![t] = where]
               /\ where \in {"delay", "loop"} => w.held
               /\ where = "delay" => w.wait # 0
      <4>1. val[t].held /\ val' \in [Threads -> Word]
        BY Zenon, <1>4, <2>2 DEF CopiesSound, Mark, TypeOK
      <4>2. CASE val[t].wait # 0
        BY Zenon, <1>4, <2>2, <4>1, <4>2 DEF Mark, Goto, TypeOK
      <4>3. CASE val[t].wait = 0
        BY Zenon, <1>4, <2>2, <4>1, <4>3 DEF Mark, Goto, TypeOK
      <4> QED BY Zenon, <4>2, <4>3
    <3>2. TypeOK'
      BY <3>1 DEF TypeOK, Locations
    <3>3. Exclusion' /\ HeldByHolder' /\ ProfileHonest'
      BY <3>1 DEF Exclusion, HeldByHolder, ProfileHonest, TypeOK
    <3>4. CopiesSound'
      <4>1. \A u \in Threads : u # t => val'[u] = val[u] /\ pc'[u] = pc[u]
        BY Zenon, <3>1 DEF TypeOK
      <4>2. /\ val'[t] \in {word, val[t]} /\ pc'[t] \in {"delay", "retry", "loop"}
            /\ pc'[t] \in {"delay", "loop"} => val'[t].held
            /\ pc'[t] = "delay" => val'[t].wait # 0
        BY Zenon, <3>1 DEF TypeOK
      <4>3. \A u \in Threads : ~val'[u].held => val'[u] = Free
        BY Zenon, <4>1, <4>2 DEF CopiesSound, HeldByHolder
      <4>4. UNCHANGED <<word, cycles>>
        BY Zenon, <3>1
      <4> HIDE DEF Free
      <4> QED BY Zenon, <4>1, <4>2, <4>3, <4>4 DEF CopiesSound
    <3>5. \A u \in Threads : Caretaker(u) => Caretaker(u)'
      BY Zenon, <3>1 DEF Caretaker, TypeOK
    <3>6. NoLostWakeup'
      BY Zenon, <3>1, <3>5 DEF NoLostWakeup, TypeOK
    <3> QED BY Zenon, <3>2, <3>3, <3>4, <3>6
  <2> QED BY Zenon, <2>1, <2>2
<1>5. ASSUME NEW t \in Threads, Delay(t) \/ Interrupted(t)
      PROVE  SpinLockInv'
  <2>1. PICK where \in {"asleep", "respin"} :
           /\ pc' = [pc EXCEPT ![t] = where] /\ pc[t] \in {"delay", "asleep"}
           /\ where = "asleep" => word = val[t] /\ pc[t] = "delay"
           /\ UNCHANGED <<word, val, cycles, calls>>
    BY Zenon, <1>5 DEF Delay, Interrupted, Goto
  <2>2. TypeOK' /\ Exclusion' /\ HeldByHolder' /\ ProfileHonest'
    BY Zenon, <2>1 DEF TypeOK, Exclusion, HeldByHolder, ProfileHonest, Locations
  <2>3. CopiesSound'
    BY Zenon, <2>1 DEF CopiesSound, TypeOK
  <2>4. NoLostWakeup'
    <3>1. CASE where = "asleep"
      BY Zenon, <2>1, <3>1 DEF NoLostWakeup, CopiesSound, TypeOK
    <3>2. CASE where = "respin"
      BY Zenon, <2>1, <3>2 DEF NoLostWakeup, Caretaker, TypeOK
    <3> QED BY Zenon, <3>1, <3>2
  <2> QED BY Zenon, <2>2, <2>3, <2>4
<1>6. ASSUME NEW t \in Threads, SpinAgain(t)
      PROVE  SpinLockInv'
  <2>1. PICK e \in Elapsed : cycles' = [cycles EXCEPT ![t] = Encode(e)]
    BY Zenon, <1>6 DEF SpinAgain
  <2>2. Encode(e) \in 1..MaxWaitTime
    BY Zenon, EncodeNonzero, SpinLockAssumption
  <2>3. TypeOK'
    BY <1>6, <2>1, <2>2, SpinLockAssumption DEF SpinAgain, Goto, TypeOK, Locations
  <2>4. Exclusion' /\ HeldByHolder' /\ ProfileHonest'
    BY Zenon, <1>6, <2>1 DEF SpinAgain, Goto, TypeOK, Exclusion, HeldByHolder, ProfileHonest
  <2>5. CopiesSound'
    BY Zenon, <1>6, <2>1 DEF SpinAgain, Goto, CopiesSound, HeldByHolder, TypeOK
  <2>6. Caretaker(t)'
    BY <1>6, <2>1, <2>2, SpinLockAssumption DEF SpinAgain, Goto, Caretaker, TypeOK
  <2>7. NoLostWakeup'
    BY Zenon, <2>6 DEF NoLostWakeup
  <2> QED BY Zenon, <2>3, <2>4, <2>5, <2>7
<1>7. ASSUME NEW t \in Threads, Unlock(t)
      PROVE  SpinLockInv'
  <2>1. TypeOK'
    BY <1>7, SpinLockAssumption DEF Unlock, Goto, TypeOK, Locations, Word
  <2>2. Exclusion' /\ HeldByHolder'
    BY Zenon, <1>7 DEF Unlock, Goto, Exclusion, HeldByHolder, TypeOK
  <2>3. CopiesSound'
    BY Zenon, <1>7 DEF Unlock, Goto, CopiesSound, Exclusion, HeldByHolder, TypeOK
  <2>4. NoLostWakeup'
    <3>1. CASE word.wait # 0
      BY Zenon, <1>7, <3>1 DEF Unlock, Goto, NoLostWakeup, Caretaker, TypeOK
    <3>2. CASE word.wait = 0
      <4>1. \A u \in Threads : Caretaker(u) => Caretaker(u)'
        BY Zenon, <1>7 DEF Unlock, Goto, Caretaker, TypeOK
      <4> QED BY Zenon, <1>7, <3>2, <4>1 DEF Unlock, Goto, NoLostWakeup, TypeOK
    <3> QED BY Zenon, <3>1, <3>2
  <2>5. ProfileHonest'
    BY Zenon, <1>7 DEF Unlock, Goto, ProfileHonest, CopiesSound, TypeOK
  <2> QED BY Zenon, <2>1, <2>2, <2>3, <2>4, <2>5
<1>8. ASSUME NEW t \in Threads, SlowUnlock(t)
      PROVE  SpinLockInv'
  <2>1. TypeOK' /\ Exclusion' /\ HeldByHolder' /\ ProfileHonest'
    BY <1>8 DEF SlowUnlock, Goto, TypeOK, Exclusion, HeldByHolder, ProfileHonest, Locations
  <2>2. CopiesSound'
    BY Zenon, <1>8 DEF SlowUnlock, Goto, CopiesSound, TypeOK
  <2>3. NoLostWakeup'
    BY Zenon, <1>8 DEF SlowUnlock, Goto, NoLostWakeup, Caretaker, TypeOK
  <2> QED BY Zenon, <2>1, <2>2, <2>3
<1>9. ASSUME NEW t \in Threads,
             \/ LockFast(t) \/ TryLockOnce(t) \/ LockSpun(t) \/ LockRetry(t) \/ LockRespun(t)
      PROVE  SpinLockInv'
  <2>1. LockFast(t) => SpinLockInv'
    BY Zenon, TryInv DEF LockFast
  <2>2. TryLockOnce(t) => SpinLockInv'
    BY Zenon, TryInv DEF TryLockOnce
  <2>3. LockSpun(t) => SpinLockInv'
    BY Zenon, TryInv DEF LockSpun
  <2>4. LockRetry(t) => SpinLockInv'
    BY Zenon, TryInv DEF LockRetry
  <2>5. LockRespun(t) => SpinLockInv'
    BY Zenon, TryInv DEF LockRespun
  <2> QED BY ONLY Zenon, <1>9, <2>1, <2>2, <2>3, <2>4, <2>5
<1> HIDE DEF SpinLockInv
<1> QED
  BY Zenon, <1>1, <1>2, <1>3, <1>4, <1>5, <1>6, <1>7, <1>8, <1>9 DEF Next, Step

\* SpinLock keeps its invariant in every execution: at most one holder, a free word
\* without a wait field, and somebody responsible for every sleeper.
THEOREM SpinLockCorrect == Spec => []SpinLockInv
  BY InitInv, NextInv, PTL DEF Spec

\* Lock() admits one thread at a time.
THEOREM MutualExclusion == Spec => []Exclusion
<1>1. SpinLockInv => Exclusion
  BY DEF SpinLockInv
<1> QED BY <1>1, SpinLockCorrect, PTL

\* No thread sleeps in the futex without somebody bound to wake it.
THEOREM WakeupsKept == Spec => []NoLostWakeup
<1>1. SpinLockInv => NoLostWakeup
  BY DEF SpinLockInv
<1> QED BY <1>1, SpinLockCorrect, PTL
-----------------------------------------------------------------------------
(* call_once *)


\* The bounds on calls and throws play no part in the proofs.
OnceTypes ==
  /\ control \in once!Control
  /\ pc \in [Threads -> once!Locations]
  /\ v \in [Threads -> once!Control]
  /\ calls \in [Threads -> Nat]
  /\ throws \in Nat /\ runs \in {0, 1}

OnceTaken == {"kOnceRunning", "kOnceWaiter"}

\* One thread at most took the flag out of kOnceInit and is still in the function; the
\* word says so until the exchange with kOnceDone.
OnceInside ==
  /\ \A t, u \in Threads : once!Inside(t) /\ once!Inside(u) => t = u
  /\ \A t \in Threads : once!Inside(t) => control \in OnceTaken

\* The word, and the place of the thread inside, tell whether a run has completed.
\* After a throw the word stays taken, so that nobody tries again.
OnceRuns ==
  /\ control = "kOnceInit" => runs = 0
  /\ control = "kOnceDone" => runs = 1
  /\ \A t \in Threads : pc[t] = "run" => runs = 0
  /\ \A t \in Threads : pc[t] \in {"finish", "wake"} => runs = 1

\* SpinLockWait exchanges only for the transitions that change the word: with the third
\* one a caller that saw kOnceDone would run the function.
OnceSwaps == \A t \in Threads : pc[t] = "swap" => v[t] \in {"kOnceInit", "kOnceRunning"}

OnceIInv == OnceTypes /\ OnceInside /\ OnceRuns /\ OnceSwaps /\ once!NobodyEarly

-----------------------------------------------------------------------------
LEMMA OnceInitIInv == once!Init => OnceIInv
  BY DEF once!Init, OnceIInv, OnceTypes, once!Control, once!Locations, OnceInside, OnceRuns,
     OnceSwaps, once!NobodyEarly, once!Inside

\* How the transitions for a word that SpinLockWait may exchange look.
LEMMA OnceTransitions ==
  ASSUME NEW tr \in once!trans, tr.from \in {"kOnceInit", "kOnceRunning"}
  PROVE  \/ tr.from = "kOnceInit" /\ tr.to = "kOnceRunning" /\ tr.done = TRUE
         \/ tr.from = "kOnceRunning" /\ tr.to = "kOnceWaiter" /\ tr.done = FALSE
  BY DEF once!trans

\* Only a word without a transition makes the caller sleep, only kOnceDone ends the wait.
LEMMA OnceLoadGoes ==
  ASSUME control \in once!Control, NEW t \in Threads, once!WaitLoad(t)
  PROVE  \/ control = "kOnceWaiter" /\ once!Goto(t, "delay")
         \/ control = "kOnceDone" /\ once!Goto(t, "idle")
         \/ control \in {"kOnceInit", "kOnceRunning"} /\ once!Goto(t, "swap")
<1>1. CASE control = "kOnceWaiter"
  BY <1>1 DEF once!WaitLoad, once!trans
<1>2. CASE control = "kOnceDone"
  BY Zenon, <1>2 DEF once!WaitLoad, once!trans
<1>3. CASE control = "kOnceInit"
  BY Zenon, <1>3 DEF once!WaitLoad, once!trans
<1>4. CASE control = "kOnceRunning"
  BY Zenon, <1>4 DEF once!WaitLoad, once!trans
<1> QED BY Zenon, <1>1, <1>2, <1>3, <1>4 DEF once!Control

-----------------------------------------------------------------------------
\* Every step keeps the invariant.
LEMMA OnceNextIInv == OnceIInv /\ [once!Next]_once!vars => OnceIInv'
<1> SUFFICES ASSUME OnceIInv, [once!Next]_once!vars PROVE OnceIInv'
  BY Zenon
<1> USE DEF OnceIInv, OnceTypes, once!Control, once!Locations, OnceInside, OnceRuns, OnceSwaps,
        once!NobodyEarly,
        once!Inside, OnceTaken, once!Goto
<1>1. ASSUME NEW t \in Threads, once!Call(t) PROVE OnceIInv'
  BY <1>1 DEF once!Call
<1>2. ASSUME NEW t \in Threads, once!TryFirst(t) PROVE OnceIInv'
  <2>1. CASE control = "kOnceInit"
    BY Zenon, <1>2, <2>1 DEF once!TryFirst
  <2>2. CASE control # "kOnceInit"
    BY <1>2, <2>2 DEF once!TryFirst
  <2> QED BY Zenon, <2>1, <2>2
<1>3. ASSUME NEW t \in Threads, once!WaitLoad(t) PROVE OnceIInv'
  <2>0. /\ pc[t] = "load" /\ v' = [v EXCEPT ![t] = control]
        /\ UNCHANGED <<control, calls, throws, runs>>
    BY Zenon, <1>3 DEF once!WaitLoad
  <2>1. CASE control = "kOnceWaiter" /\ once!Goto(t, "delay")
    BY Zenon, <2>0, <2>1
  <2>2. CASE control = "kOnceDone" /\ once!Goto(t, "idle")
    BY Zenon, <2>0, <2>2
  <2>3. CASE control \in {"kOnceInit", "kOnceRunning"} /\ once!Goto(t, "swap")
    BY Zenon, <2>0, <2>3
  <2> QED BY Zenon, <1>3, <2>1, <2>2, <2>3, OnceLoadGoes
<1>4. ASSUME NEW t \in Threads, once!WaitSwap(t) PROVE OnceIInv'
  <2>0. /\ pc[t] = "swap" /\ v[t] \in {"kOnceInit", "kOnceRunning"}
        /\ UNCHANGED <<v, calls, throws, runs>>
    BY Zenon, <1>4 DEF once!WaitSwap
  <2>1. PICK tr \in once!trans :
          /\ tr.from = v[t]
          /\ control' = IF control = v[t] THEN tr.to ELSE control
          /\ once!Goto(t, IF control = v[t] /\ tr.done THEN "run" ELSE "load")
    BY Zenon, <1>4 DEF once!WaitSwap
  <2>2. CASE control # v[t]
    BY Zenon, <2>0, <2>1, <2>2
  <2>3. CASE control = v[t] /\ v[t] = "kOnceInit"
    <3>1. control' = "kOnceRunning" /\ once!Goto(t, "run")
      BY Zenon, <2>0, <2>1, <2>3, OnceTransitions
    <3> QED BY Zenon, <2>0, <2>3, <3>1
  <2>4. CASE control = v[t] /\ v[t] = "kOnceRunning"
    <3>1. control' = "kOnceWaiter" /\ once!Goto(t, "load")
      BY Zenon, <2>0, <2>1, <2>4, OnceTransitions
    <3> QED BY Zenon, <2>0, <2>4, <3>1
  <2> QED BY Zenon, <2>0, <2>2, <2>3, <2>4
<1>5. ASSUME NEW t \in Threads, once!Delay(t) PROVE OnceIInv'
  BY <1>5 DEF once!Delay
<1>6. ASSUME NEW t \in Threads, once!Interrupted(t) PROVE OnceIInv'
  BY Zenon, <1>6 DEF once!Interrupted
<1>7. ASSUME NEW t \in Threads, once!Invoke(t) PROVE OnceIInv'
  BY <1>7 DEF once!Invoke
<1>8. ASSUME NEW t \in Threads, once!Throw(t) PROVE OnceIInv'
  BY <1>8 DEF once!Throw
<1>9. ASSUME NEW t \in Threads, once!Finish(t) PROVE OnceIInv'
  BY Zenon, <1>9 DEF once!Finish
<1>10. ASSUME NEW t \in Threads, once!Wake(t) PROVE OnceIInv'
  <2>1. \A u \in Threads : pc'[u] = IF u = t THEN "idle"
                                    ELSE IF pc[u] = "sleeping" THEN "load" ELSE pc[u]
    BY Zenon, <1>10 DEF once!Wake
  <2>2. pc' \in [Threads -> once!Locations]
    BY Zenon, <1>10, <2>1 DEF once!Wake
  <2> QED BY Zenon, <1>10, <2>1, <2>2 DEF once!Wake
<1>11. CASE UNCHANGED once!vars
  BY Zenon, <1>11 DEF once!vars
<1> QED
  BY Zenon, <1>1, <1>2, <1>3, <1>4, <1>5, <1>6, <1>7, <1>8, <1>9, <1>10, <1>11 DEF once!Next, once!Step

LEMMA OnceIsOnce == OnceIInv => once!OnlyOnce /\ once!NobodyEarly
<1>1. OnceIInv => once!OnlyOnce
  BY DEF OnceIInv, OnceTypes, OnceInside, OnceRuns, once!OnlyOnce
<1>2. OnceIInv => once!NobodyEarly
  BY Zenon DEF OnceIInv
<1> QED BY Zenon, <1>1, <1>2

\* "invokes a given fn exactly once across all threads" (call_once.h:55): CallOnceImpl never
\* lets a second thread in, and never begins a run after one has completed.  A call that
\* returns, through the short cut, through SpinLockWait or as the runner, does so after the
\* completed run, unless a run threw.
THEOREM CallOnceCorrect == once!Spec => [](once!OnlyOnce /\ once!NobodyEarly)
  BY OnceInitIInv, OnceNextIInv, OnceIsOnce, PTL DEF once!Spec

-----------------------------------------------------------------------------
(* The semaphore a thread sleeps on *)

SemPlaces ==
  IF kind = "condvar" THEN {"out", "lock", "relock", "asleep", "consumed", "timedout"}
  ELSE {"out", "load", "cas", "block", "asleep", "consumed", "timedout"}

SemTypes ==
  /\ kind \in semaphore!Kinds
  /\ wakeups \in Nat /\ sem \in Nat /\ posts \in Nat /\ ok \in Nat /\ x \in Nat
  /\ ticker \in Nat /\ wait_start \in Nat /\ blocked \in Int /\ waiter_count \in Int
  /\ wpc \in SemPlaces
  /\ ppc \in [Posters -> {"out", "poke"}]

\* Where each post is: in the counter, with the wait that took it, or accounted for.
SemPosts ==
  IF wpc = "consumed" THEN posts = wakeups + ok + 1 ELSE posts = wakeups + ok

\* Between the look at the counter and the sleep, and in the sleep, somebody who raised
\* the counter from zero has still to wake the thread, or has raised sem_.
SemWoken ==
  /\ wpc = "asleep" /\ wakeups > 0 => \E p \in Posters : ppc[p] = "poke"
  /\ wpc = "block" /\ kind = "sem" /\ wakeups > 0 =>
       sem > 0 \/ \E p \in Posters : ppc[p] = "poke"
  /\ wpc = "asleep" \/ kind # "sem" => sem = 0
  /\ kind = "condvar" => \A p \in Posters : ppc[p] = "out"
  /\ wpc = "cas" => x # 0

\* What the identity says of the thread.
SemIdentity ==
  /\ IF kind = "condvar" /\ wpc \in {"asleep", "relock"} THEN waiter_count = 1
     ELSE waiter_count = 0
  /\ wpc # "out" => wait_start # 0
  /\ IF wpc = "out" THEN blocked = 0 ELSE blocked = 1

SemIdle == is_idle => wpc # "out"

SemIInv == SemTypes /\ SemPosts /\ SemWoken /\ SemIdentity /\ SemIdle

LEMMA SemInitIInv == semaphore!Init => SemIInv
  BY DEF semaphore!Init, SemIInv, SemTypes, SemPlaces, semaphore!Kinds, SemPosts, SemWoken,
     SemIdentity, SemIdle

\* The steps of the thread that waits.
LEMMA SemWaiterIInv ==
  ASSUME SemIInv,
         \/ semaphore!WaitBegin \/ semaphore!WaiterStep
         \/ semaphore!Spurious \/ semaphore!TimedOut
  PROVE  SemIInv'
<1> USE DEF SemIInv, SemTypes, SemPlaces, semaphore!Kinds, SemPosts, SemWoken, SemIdentity,
        SemIdle, semaphore!shared, semaphore!identity, semaphore!others
<1>1. CASE semaphore!WaitBegin
  BY <1>1 DEF semaphore!WaitBegin
<1>2. CASE semaphore!WaitEnd
  BY <1>2 DEF semaphore!WaitEnd
<1>3. CASE semaphore!Load
  BY <1>3 DEF semaphore!Load, semaphore!MaybeBecomeIdle
<1>4. CASE semaphore!Cas
  BY <1>4 DEF semaphore!Cas, semaphore!MaybeBecomeIdle
<1>5. CASE semaphore!Block
  BY <1>5 DEF semaphore!Block
<1>6. CASE semaphore!LockedWait
  BY <1>6 DEF semaphore!LockedWait, semaphore!MaybeBecomeIdle
<1>7. CASE semaphore!Spurious
  BY Zenon, <1>7 DEF semaphore!Spurious, semaphore!AfterSleep
<1>8. CASE semaphore!TimedOut
  BY <1>8 DEF semaphore!TimedOut
<1> HIDE DEF SemIInv
<1> QED
  BY Zenon, <1>1, <1>2, <1>3, <1>4, <1>5, <1>6, <1>7, <1>8 DEF semaphore!WaiterStep

\* The steps of those that post and tick.
LEMMA SemOthersIInv ==
  ASSUME SemIInv,
         \/ \E p \in Posters : semaphore!Post(p) \/ semaphore!PostPoke(p)
         \/ semaphore!Tick \/ semaphore!TickPoke
  PROVE  SemIInv'
<1> USE DEF SemIInv, SemTypes, SemPlaces, semaphore!Kinds, SemPosts, SemWoken, SemIdentity,
        SemIdle, semaphore!shared, semaphore!identity, semaphore!waiter, semaphore!Wake,
        semaphore!AfterSleep
<1>1. ASSUME NEW p \in Posters, semaphore!Post(p) PROVE SemIInv'
  BY <1>1 DEF semaphore!Post
<1>2. ASSUME NEW p \in Posters, semaphore!PostPoke(p) PROVE SemIInv'
  BY <1>2 DEF semaphore!PostPoke
<1>3. CASE semaphore!Tick
  BY <1>3 DEF semaphore!Tick
<1>4. CASE semaphore!TickPoke
  BY <1>4 DEF semaphore!TickPoke
<1> HIDE DEF SemIInv
<1> QED BY Zenon, <1>1, <1>2, <1>3, <1>4

LEMMA SemNextIInv == SemIInv /\ [semaphore!Next]_semaphore!vars => SemIInv'
<1> SUFFICES ASSUME SemIInv, [semaphore!Next]_semaphore!vars PROVE SemIInv'
  BY Zenon
<1>1. CASE UNCHANGED semaphore!vars
  BY Zenon, <1>1 DEF semaphore!vars, SemIInv, SemTypes, SemPlaces, SemPosts, SemWoken, SemIdentity,
     SemIdle
<1> QED BY Zenon, <1>1, SemWaiterIInv, SemOthersIInv DEF semaphore!Next

LEMMA SemKeepsPosts == SemIInv => semaphore!NoPostLost
  BY DEF SemIInv, SemTypes, SemPosts, SemWoken, SemIdentity, SemIdle,
     semaphore!NoPostLost

-----------------------------------------------------------------------------
(* Objects made on first use *)

Making(t) == pc[t] \in {"new", "store"}
NoObjectYet == instance \in {object!null, object!Creating}

\* What Traits::New() of an object in static memory returns after its destruction.
Gone == kind = "StaticMemory" /\ exits > 0

ObjectPlaces == {"idle", "create", "wait", "new", "store", "register", "reload"}

ObjectTypes ==
  /\ instance \in Nat /\ once_flag \in {"new", "running", "done"}
  /\ stack \in Nat /\ made \in Nat /\ exits \in Nat
  /\ pc \in [Threads -> ObjectPlaces] /\ mine \in [Threads -> Nat]
  /\ got \in [Threads -> SUBSET Nat]

\* One thread makes the object, and says so in the word or in the once_flag.
OneMaker ==
  /\ \A t, u \in Threads : Making(t) /\ Making(u) => t = u
  /\ \A t \in Threads : Making(t) =>
       IF kind = "get_leaky_singleton" THEN once_flag = "running" /\ instance = object!null
       ELSE instance = object!Creating
  /\ IF kind = "get_leaky_singleton"
     THEN /\ once_flag = "new" => instance = object!null
          /\ once_flag = "done" => ~NoObjectYet
          /\ \A t \in Threads : pc[t] # "wait"
     ELSE once_flag = "new"

\* The published object is the one alive; before that it is the one its maker holds.
AliveKnown ==
  /\ ~NoObjectYet => alive = {instance}
  /\ NoObjectYet /\ (\A t \in Threads : ~Making(t)) => alive = {}
  /\ \A t \in Threads : pc[t] = "new" => alive = {}
  /\ \A t \in Threads : pc[t] = "store" =>
       alive = IF mine[t] = object!null THEN {} ELSE {mine[t]}
  /\ kind = "StaticMemory" /\ dead /\ exits = 0 => alive # {}

\* What a maker has in hand, between New() and the registration.
MineKnown ==
  /\ \A t \in Threads : pc[t] \in {"store", "register"} =>
       mine[t] # object!Creating /\ (mine[t] = object!null => Gone)
  /\ \A t \in Threads : pc[t] = "register" /\ mine[t] # object!null => instance = mine[t]
  /\ \A t, u \in Threads :
       /\ pc[t] = "register" /\ mine[t] # object!null
       /\ pc[u] = "register" /\ mine[u] # object!null
       => t = u

\* It is registered by its maker, once.
StackKnown ==
  stack = IF /\ kind \in object!Registered /\ ~NoObjectYet
             /\ \A t \in Threads : pc[t] = "register" => mine[t] = object!null
          THEN 1 ELSE 0

\* Whoever waits finds the object when the word changes, or one that is gone.
WaitersServed ==
  /\ \A t \in Threads : pc[t] = "wait" /\ instance = object!null => Gone
  /\ \A t \in Threads : pc[t] = "reload" => ~NoObjectYet
  /\ \A t \in Threads : got[t] \subseteq alive \cup (IF Gone THEN {object!null} ELSE {})

\* Does the exchange tell who makes the object?  An exchange that failed for no reason
\* misleads Singleton::get only.
Sure == ~spurious \/ kind \in object!Lazy \/ kind = "get_leaky_singleton"

SureIInv ==
  /\ ObjectTypes /\ OneMaker /\ AliveKnown /\ MineKnown /\ StackKnown
  /\ ~spurious => WaitersServed

\* What holds whatever the exchanges do: only objects that are alive are published or handed
\* out, and static memory has room for one.
NeverDangling ==
  /\ instance \in alive \cup {object!null, object!Creating}
  /\ \A t \in Threads : pc[t] \in {"store", "register"} => mine[t] \in alive \cup {object!null}
  /\ \A t \in Threads : got[t] \subseteq alive \cup {object!null, object!Creating}
  /\ kind = "StaticMemory" => (~dead => alive = {}) /\ \A p, q \in alive : p = q

ObjectIInv == ObjectTypes /\ NeverDangling /\ (Sure => SureIInv)

LEMMA ObjectInitIInv == object!Init => ObjectIInv
<1> SUFFICES ASSUME object!Init PROVE ObjectIInv
  BY Zenon
<1>1. ObjectTypes /\ NeverDangling
  BY DEF object!Init, ObjectTypes, ObjectPlaces, NeverDangling, object!null, object!Creating
<1>2. OneMaker /\ AliveKnown /\ MineKnown /\ StackKnown /\ WaitersServed
  BY DEF object!Init, ObjectTypes, ObjectPlaces, OneMaker, AliveKnown, MineKnown,
     StackKnown, WaitersServed, Making, NoObjectYet, Gone, object!null, object!Creating
<1> QED BY Zenon, <1>1, <1>2 DEF ObjectIInv, SureIInv

\* Only the steps that hand out, make or destroy an object matter to what is alive.
LEMMA ObjectTypesStay ==
  ASSUME ObjectIInv, object!Next PROVE ObjectTypes' /\ NeverDangling'
<1> USE DEF ObjectIInv, ObjectTypes, ObjectPlaces, NeverDangling, object!null, object!Creating,
        object!object, object!others, object!Goto, object!Return
<1>1. ASSUME NEW t \in Threads, object!Load(t) PROVE ObjectTypes' /\ NeverDangling'
  BY <1>1 DEF object!Load
<1>2. ASSUME NEW t \in Threads, object!TryCreate(t) PROVE ObjectTypes' /\ NeverDangling'
  BY <1>2 DEF object!TryCreate
<1>3. ASSUME NEW t \in Threads, object!CallOnce(t) PROVE ObjectTypes' /\ NeverDangling'
  BY <1>3 DEF object!CallOnce
<1>4. ASSUME NEW t \in Threads, object!Wait(t) \/ object!Reload(t)
      PROVE  ObjectTypes' /\ NeverDangling'
  <2>0. /\ pc' = [pc EXCEPT ![t] = "reload"] \/ pc' = [pc EXCEPT ![t] = "idle"]
        /\ got' = got \/ got' = [got EXCEPT ![t] = {instance}]
        /\ UNCHANGED <<kind, dead, alive, instance, once_flag, stack, made, mine, exits>>
    BY Zenon, <1>4 DEF object!Wait, object!Reload
  <2>1. pc' \in [Threads -> ObjectPlaces]
    BY <2>0
  <2>2. \A u \in Threads : pc'[u] \in {"store", "register"} => pc[u] \in {"store", "register"}
    BY <2>0
  <2>3. \A u \in Threads : got'[u] = got[u] \/ got'[u] = {instance}
    BY <2>0
  <2>4. got' \in [Threads -> SUBSET Nat]
    BY <2>0
  <2> QED BY <2>0, <2>1, <2>2, <2>3, <2>4
<1>5. ASSUME NEW t \in Threads, object!New(t) PROVE ObjectTypes' /\ NeverDangling'
  <2>0. /\ pc' = [pc EXCEPT ![t] = "store"]
        /\ UNCHANGED <<kind, instance, once_flag, stack, got, exits>>
    BY Zenon, <1>5 DEF object!New
  <2>1. CASE kind = "StaticMemory" /\ dead
    <3>1. mine' = [mine EXCEPT ![t] = 0] /\ UNCHANGED <<alive, made>> /\ dead'
      BY Zenon, <1>5, <2>1 DEF object!New
    <3> QED BY <2>0, <2>1, <3>1
  <2>2. CASE ~(kind = "StaticMemory" /\ dead)
    <3>1. /\ made' = made + 1 /\ mine' = [mine EXCEPT ![t] = 1 + made']
          /\ alive' = alive \cup {mine'[t]} /\ (kind = "StaticMemory" => dead')
      BY Zenon, <1>5, <2>2 DEF object!New
    <3>2. ObjectTypes'
      BY <2>0, <3>1
    <3>3. kind = "StaticMemory" => alive = {}
      BY Zenon, <2>2
    <3> QED BY <2>0, <3>1, <3>2, <3>3
  <2> QED BY Zenon, <2>1, <2>2
<1>6. ASSUME NEW t \in Threads, object!Store(t) PROVE ObjectTypes' /\ NeverDangling'
  BY <1>6 DEF object!Store
<1>7. ASSUME NEW t \in Threads, object!Register(t) PROVE ObjectTypes' /\ NeverDangling'
  <2>0. /\ pc[t] = "register"
        /\ pc' = [pc EXCEPT ![t] = "reload"] \/ pc' = [pc EXCEPT ![t] = "idle"]
        /\ got' = got \/ got' = [got EXCEPT ![t] = {mine[t]}]
        /\ stack' = stack + 1 \/ stack' = stack
        /\ UNCHANGED <<kind, dead, alive, instance, once_flag, made, mine, exits>>
    BY Zenon, <1>7 DEF object!Register
  <2>1. pc' \in [Threads -> ObjectPlaces]
    BY <2>0
  <2>2. \A u \in Threads : pc'[u] \in {"store", "register"} => pc[u] \in {"store", "register"}
    BY <2>0
  <2>3. \A u \in Threads : got'[u] = got[u] \/ got'[u] = {mine[t]}
    BY <2>0
  <2>4. mine[t] \in alive \cup {object!null} /\ mine[t] \in Nat
    BY <2>0
  <2>5. got' \in [Threads -> SUBSET Nat]
    BY <2>0, <2>4
  <2> QED BY <2>0, <2>1, <2>2, <2>3, <2>4, <2>5
<1>8. CASE object!ProcessCallbacksNow
  BY <1>8 DEF object!ProcessCallbacksNow
<1> QED BY Zenon, <1>1, <1>2, <1>3, <1>4, <1>5, <1>6, <1>7, <1>8 DEF object!Next, object!Step

\* The thread whose exchange succeeds makes the object; the others wait, one that failed
\* for no reason too.
LEMMA ExchangeGoes ==
  ASSUME Sure', NEW t \in Threads, object!TryCreate(t)
  PROVE  \/ instance = object!null /\ instance' = object!Creating /\ object!Goto(t, "new")
         \/ /\ instance' = instance /\ object!Goto(t, "wait")
            /\ instance = object!null => spurious'
<1>1. PICK done \in object!CompareExchangeWeak(instance = object!null) :
        /\ instance' = IF done THEN object!Creating ELSE instance
        /\ IF kind \in object!Lazy THEN object!Goto(t, IF done THEN "new" ELSE "wait")
           ELSE object!Goto(t, IF instance = object!null THEN "new" ELSE "wait")
        /\ spurious' = (spurious \/ (instance = object!null /\ ~done))
  BY Zenon DEF object!TryCreate
<1>2. done = (instance = object!null) \/ done = FALSE
  BY Zenon DEF object!CompareExchangeWeak
<1>3. kind' = kind /\ kind # "get_leaky_singleton"
  BY Zenon DEF object!TryCreate, object!object
<1>4. CASE instance = object!null /\ done
  BY Zenon, <1>1, <1>4
<1>5. CASE instance = object!null /\ ~done
  <2>1. spurious'
    BY Zenon, <1>1, <1>5
  <2>2. kind \in object!Lazy
    BY Zenon, <1>3, <2>1 DEF Sure, object!Lazy
  <2> QED BY Zenon, <1>1, <1>5, <2>1, <2>2
<1>6. CASE instance # object!null
  <2>1. ~done
    BY Zenon, <1>2, <1>6
  <2> QED BY Zenon, <1>1, <1>6, <2>1
<1> QED BY Zenon, <1>4, <1>5, <1>6

\* An exchange that failed for no reason is not forgotten.
LEMMA SureStays ==
  ASSUME object!Next PROVE (~spurious' => ~spurious) /\ (Sure' => Sure)
<1>1. kind' = kind
  BY Zenon DEF object!Next, object!Step, object!Load, object!TryCreate, object!CallOnce, object!Wait,
     object!New, object!Store, object!Register, object!Reload, object!ProcessCallbacksNow,
     object!object, object!others
<1>2. spurious' = spurious \/ \E b \in BOOLEAN : spurious' = (spurious \/ b)
  BY Zenon DEF object!Next, object!Step, object!Load, object!TryCreate, object!CallOnce, object!Wait,
     object!New, object!Store, object!Register, object!Reload, object!ProcessCallbacksNow,
     object!others
<1>3. ~spurious' => ~spurious
  BY Zenon, <1>2
<1> QED BY Zenon, <1>1, <1>3 DEF Sure, object!Lazy

\* get() finds the object, or goes to make it or to wait for it.
LEMMA ObjectSeekIInv ==
  ASSUME SureIInv, Sure', ~spurious' => ~spurious, NEW t \in Threads,
         object!Load(t) \/ object!TryCreate(t) \/ object!CallOnce(t)
  PROVE  SureIInv'
<1> USE DEF SureIInv, ObjectTypes, ObjectPlaces, OneMaker, AliveKnown, MineKnown, StackKnown,
        WaitersServed, Making, NoObjectYet, Gone, object!null, object!Creating, object!object, object!others,
        object!Goto, object!Return
<1>1. CASE object!Load(t)
  <2>1. CASE NoObjectYet
    BY SMTT(30), <1>1, <2>1 DEF object!Load
  <2>2. CASE ~NoObjectYet
    BY <1>1, <2>2 DEF object!Load
  <2> QED BY Zenon, <2>1, <2>2
<1>2. CASE object!TryCreate(t)
  <2>0. /\ pc[t] = "create" /\ kind # "get_leaky_singleton"
        /\ UNCHANGED <<kind, dead, stack, alive, made, exits, once_flag, mine, gets, got>>
    BY Zenon, <1>2 DEF object!TryCreate
  <2>1. CASE instance = 0 /\ instance' = 1 /\ pc' = [pc EXCEPT ![t] = "new"]
    BY <2>0, <2>1
  <2>2. CASE /\ instance' = instance /\ pc' = [pc EXCEPT ![t] = "wait"]
             /\ instance = 0 => spurious'
    BY SMTT(30), <2>0, <2>2
  <2> QED BY Zenon, <1>2, <2>1, <2>2, ExchangeGoes
<1>3. CASE object!CallOnce(t)
  BY <1>3 DEF object!CallOnce
<1> QED BY Zenon, <1>1, <1>2, <1>3

\* The maker makes the object, publishes it and registers its destruction.
LEMMA ObjectMakeIInv ==
  ASSUME SureIInv, ~spurious' => ~spurious, NEW t \in Threads,
         object!New(t) \/ object!Store(t) \/ object!Register(t)
  PROVE  SureIInv'
<1> USE DEF SureIInv, ObjectTypes, ObjectPlaces, OneMaker, AliveKnown, MineKnown, StackKnown,
        WaitersServed, Making, NoObjectYet, Gone, object!null, object!Creating, object!object, object!others,
        object!Goto, object!Return
<1>1. CASE object!New(t)
  <2>1. CASE kind = "StaticMemory" /\ dead
    BY <1>1, <2>1 DEF object!New
  <2>2. CASE ~(kind = "StaticMemory" /\ dead)
    BY <1>1, <2>2 DEF object!New
  <2> QED BY Zenon, <2>1, <2>2
<1>2. CASE object!Store(t)
  BY SMTT(30), <1>2 DEF object!Store
<1>3. CASE object!Register(t)
  BY <1>3 DEF object!Register, object!Registered, object!Lazy
<1> QED BY Zenon, <1>1, <1>2, <1>3

\* The waits end, and the AtExitManager destroys what was registered.
LEMMA ObjectEndIInv ==
  ASSUME SureIInv, ~spurious' => ~spurious,
         \/ \E t \in Threads : object!Wait(t) \/ object!Reload(t)
         \/ object!ProcessCallbacksNow
  PROVE  SureIInv'
<1> USE DEF SureIInv, ObjectTypes, ObjectPlaces, OneMaker, AliveKnown, MineKnown, StackKnown,
        WaitersServed, Making, NoObjectYet, Gone, object!null, object!Creating, object!object, object!others,
        object!Goto, object!Return
<1>1. ASSUME NEW t \in Threads, object!Wait(t) PROVE SureIInv'
  BY <1>1 DEF object!Wait, object!Lazy
<1>2. ASSUME NEW t \in Threads, object!Reload(t) PROVE SureIInv'
  BY <1>2 DEF object!Reload
<1>3. CASE object!ProcessCallbacksNow
  <2>1. /\ pc' = pc /\ \A t \in Threads : pc[t] = "idle"
        /\ stack' = 0 /\ exits' = exits + 1 /\ got' = [t \in Threads |-> {}]
        /\ UNCHANGED <<kind, once_flag, dead, made, mine>>
    BY Zenon, <1>3 DEF object!ProcessCallbacksNow
  <2>2. CASE stack > 0
    <3>1. kind \in object!Registered /\ alive = {instance}
      BY <2>2
    <3>2. alive' = {} /\ instance' = 0
      BY <1>3, <2>2, <3>1 DEF object!ProcessCallbacksNow
    <3>3. kind # "get_leaky_singleton"
      BY Zenon, <3>1 DEF object!Registered
    <3> QED BY <2>1, <3>2, <3>3
  <2>3. CASE stack = 0
    <3>1. alive' = alive /\ instance' = instance
      BY <1>3, <2>3 DEF object!ProcessCallbacksNow
    <3>2. kind \in object!Registered => NoObjectYet
      BY <2>1, <2>3
    <3>3. ObjectTypes' /\ OneMaker' /\ AliveKnown'
      BY <2>1, <3>1
    <3>4. MineKnown' /\ StackKnown' /\ WaitersServed'
      BY Zenon, <2>1, <3>1, <3>2
    <3> QED BY Zenon, <3>3, <3>4
  <2>4. stack > 0 \/ stack = 0
    OBVIOUS
  <2> QED BY ONLY Zenon, <2>2, <2>3, <2>4
<1> QED BY Zenon, <1>1, <1>2, <1>3

LEMMA ObjectNextIInv ==
  ASSUME ObjectIInv, [object!Next]_object!vars
  PROVE  ObjectIInv'
<1>1. CASE UNCHANGED object!vars
  BY ZenonT(30), <1>1 DEF object!vars, ObjectIInv, Sure, SureIInv, NeverDangling, ObjectTypes, OneMaker,
     AliveKnown, MineKnown, StackKnown, WaitersServed, Making, NoObjectYet, Gone
<1>2. CASE object!Next
  <2>1. ASSUME Sure' PROVE SureIInv'
    BY Zenon, <1>2, <2>1, SureStays, ObjectSeekIInv, ObjectMakeIInv, ObjectEndIInv
       DEF ObjectIInv, object!Next, object!Step
  <2> QED BY Zenon, <1>2, <2>1, ObjectTypesStay DEF ObjectIInv
<1> QED BY Zenon, <1>1, <1>2

LEMMA ObjectIsOne == ObjectIInv => object!OneTrueInstance
<1> SUFFICES ASSUME ObjectIInv PROVE object!OneTrueInstance
  BY Zenon
<1>1. Sure \/ kind = "StaticMemory" => alive = {} \/ \E o : alive = {o}
  <2>1. ASSUME Sure PROVE alive = {} \/ \E o : alive = {o}
    BY Zenon, <2>1 DEF ObjectIInv, SureIInv, AliveKnown, Making
  <2>2. ASSUME kind = "StaticMemory" PROVE alive = {} \/ \E o : alive = {o}
    <3>1. \A p, q \in alive : p = q
      BY Zenon, <2>2 DEF ObjectIInv, NeverDangling
    <3>2. ASSUME NEW o \in alive PROVE alive = {o}
      BY Zenon, <3>1, <3>2
    <3> QED BY Zenon, <3>2
  <2> QED BY Zenon, <2>1, <2>2
<1>2. Sure \/ kind = "StaticMemory" =>
        /\ alive = {} => object!Cardinality(alive) = 0
        /\ alive # {} => object!Cardinality(alive) = 1
  <2>1. object!Cardinality(alive) = Cardinality(alive)
    BY Zenon DEF Cardinality, object!Cardinality
  <2> QED BY Zenon, <1>1, <2>1, FS_EmptySet, FS_Singleton
<1>3. ~spurious /\ (\A t \in Threads : pc[t] = "idle") =>
        stack = IF kind \in object!Registered THEN object!Cardinality(alive) ELSE 0
  <2> SUFFICES ASSUME ~spurious, \A t \in Threads : pc[t] = "idle"
               PROVE  stack = IF kind \in object!Registered THEN object!Cardinality(alive) ELSE 0
    BY Zenon
  <2>1. SureIInv /\ Sure
    BY Zenon DEF ObjectIInv, Sure
  <2>2. IF NoObjectYet THEN alive = {} ELSE alive # {}
    BY Zenon, <2>1 DEF SureIInv, AliveKnown, Making
  <2> QED BY Zenon, <1>2, <2>1, <2>2 DEF SureIInv, StackKnown
<1>4. \A t \in Threads :
        got[t] \subseteq alive \cup (IF Gone THEN {object!null} ELSE {})
                               \cup (IF spurious THEN {object!null, object!Creating} ELSE {})
  <2>1. CASE spurious
    BY Zenon, <2>1 DEF ObjectIInv, NeverDangling
  <2>2. CASE ~spurious
    BY Zenon, <2>2 DEF ObjectIInv, Sure, SureIInv, WaitersServed
  <2> QED BY Zenon, <2>1, <2>2
<1>5. Sure \/ kind = "StaticMemory" => object!Cardinality(alive) <= 1
  BY <1>2
<1> QED BY Zenon, <1>3, <1>4, <1>5 DEF Sure, object!OneTrueInstance, Gone

-----------------------------------------------------------------------------
(* Whichever of them the threads use *)

LowIInv ==
  /\ using = "call_once" => OnceIInv
  /\ using = "PerThreadSem" => SemIInv
  /\ using = "Singleton" => ObjectIInv

\* What is in use is used as by itself, and the variables of the others do not matter.
LEMMA LowStep ==
  ASSUME [LowLevelNext]_low_vars
  PROVE  /\ using' = using
         /\ using = "call_once" => [once!Next]_once!vars
         /\ using = "PerThreadSem" => [semaphore!Next]_semaphore!vars
         /\ using = "Singleton" => [object!Next]_object!vars
<1>1. CASE UNCHANGED low_vars
  <2>1. UNCHANGED <<using, kind, pc, calls, once_, semaphore_, object_>>
    BY Zenon, <1>1 DEF low_vars
  <2>2. UNCHANGED once!vars
    BY Zenon, <2>1 DEF once!vars, once_
  <2>3. UNCHANGED semaphore!vars
    BY Zenon, <2>1 DEF semaphore!vars, semaphore_
  <2>4. UNCHANGED object!vars
    BY Zenon, <2>1 DEF object!vars, object_
  <2> QED BY Zenon, <2>1, <2>2, <2>3, <2>4
<1>2. CASE LowLevelNext
  BY Zenon, <1>2 DEF LowLevelNext, UsesSpinLock, UsesCallOnce, UsesSemaphore, UsesObject
<1> QED BY Zenon, <1>1, <1>2

\* The invariant of what is in use holds always.
THEOREM LowLevelCorrect == LowLevelSpec => []LowIInv
<1>1. LowLevelInit => LowIInv
  BY Zenon, OnceInitIInv, SemInitIInv, ObjectInitIInv DEF LowLevelInit, LowIInv
<1>2. LowIInv /\ [LowLevelNext]_low_vars => LowIInv'
  <2> SUFFICES ASSUME LowIInv, [LowLevelNext]_low_vars PROVE LowIInv'
    BY Zenon
  <2>1. using = "call_once" => OnceIInv'
    BY Zenon, LowStep, OnceNextIInv DEF LowIInv
  <2>2. using = "PerThreadSem" => SemIInv'
    BY Zenon, LowStep, SemNextIInv DEF LowIInv
  <2>3. using = "Singleton" => ObjectIInv'
    BY Zenon, LowStep, ObjectNextIInv DEF LowIInv
  <2> QED BY LowStep, <2>1, <2>2, <2>3 DEF LowIInv
<1> QED BY <1>1, <1>2, PTL DEF LowLevelSpec

\* The function of call_once runs once and nobody returns before, unless a run threw; a
\* singleton of any kind is made once, every get() returns that object while it is alive,
\* and AtExitManager destroys it once.  Where a compare_exchange_weak has failed for no
\* reason, objects in static memory and LazyInstances are still made once, and no get()
\* returns an object that was destroyed.
THEOREM OnlyOneEver == LowLevelSpec => []OnceOnly
<1>1. LowIInv => OnceOnly
  BY OnceIsOnce, ObjectIsOne DEF LowIInv, OnceOnly
<1> QED BY <1>1, LowLevelCorrect, PTL

\* Whichever waiter the platform has, a Post is consumed by one Wait that returns true, and
\* the thread does not sleep on it unless the call that wakes it is still to come.
THEOREM PostsKept == LowLevelSpec => []NoPostLost
<1>1. LowIInv => NoPostLost
  BY SemKeepsPosts DEF LowIInv, NoPostLost
<1> QED BY <1>1, LowLevelCorrect, PTL
=============================================================================
