------------------------- MODULE Rendezvous_proofs -------------------------
(***************************************************************************)
(* Barrier, BlockingCounter and Notification are correct for any threads   *)
(* and counts, from the contract of Mutex alone: no wait returns early,    *)
(* and whoever may destroy the object does so when all others are out.     *)
(***************************************************************************)
EXTENDS Rendezvous, FiniteSetTheorems, TLAPS

-----------------------------------------------------------------------------
(* Barrier *)


BarrierTypes ==
  /\ view \in [Threads -> barrier!lock!Modes]
  /\ want \in [Threads -> barrier!lock!Wishes \cup {None}]
  /\ truth \in SUBSET {"IsZero"}
  /\ pc \in [Threads -> barrier!Locations]
  /\ result \in [Threads -> BOOLEAN]
  /\ alive \in BOOLEAN

BarrierCritical == {"counting", "await", "exiting", "unlock"}

\* The places in Block() tell who holds lock_ and what the others wait for.
BarrierLocked ==
  /\ \A t \in Threads : view[t] = IF pc[t] \in BarrierCritical THEN "Exclusive" ELSE "none"
  /\ \A t, u \in Threads : pc[t] \in BarrierCritical /\ pc[u] \in BarrierCritical => t = u
  /\ \A t \in Threads : pc[t] = "entering" => want[t] = barrier!Wish(None)
  /\ \A t \in Threads : pc[t] = "blocked" => want[t] = barrier!Wish("IsZero")

BarrierBefore == {t \in Threads : pc[t] \in {"idle", "entering", "counting"}}
BarrierInside == {t \in Threads : pc[t] \notin {"unlock", "out"}}

\* The two counters count the callers that have them still to decrement.
BarrierCounted ==
  num_to_block = Cardinality(BarrierBefore) /\ num_to_exit = Cardinality(BarrierInside)

\* Nobody passes Await() before the last caller has counted itself in.
BarrierOpened ==
  /\ "IsZero" \in truth => BarrierBefore = {}
  /\ \A t \in Threads : pc[t] \in {"exiting", "unlock", "out"} => "IsZero" \in truth

\* The caller that counts itself out as the last one gets true.  It holds the lock then, so
\* that the others have released it.
BarrierElected ==
  /\ \A t \in Threads : result[t] =>
       BarrierInside = {} /\ \A u \in Threads \ {t} : pc[u] = "out" /\ ~result[u]
  /\ BarrierInside = {} => Threads = {} \/ \E t \in Threads : result[t]
  /\ ~alive => \E t \in Threads : result[t] /\ pc[t] = "out"

BarrierIInv == BarrierTypes /\ BarrierLocked /\ BarrierCounted /\ BarrierOpened /\ BarrierElected

-----------------------------------------------------------------------------
\* Finitely many threads call Block(), once each; None is not a condition.
LEMMA BarrierUsage ==
  IsFiniteSet(Threads) /\ None # "IsZero"
BY Zenon, RendezvousAssumption

LEMMA BarrierCardinality == ASSUME NEW S PROVE barrier!Cardinality(S) = Cardinality(S)
BY Zenon DEF barrier!Cardinality, Cardinality

LEMMA BarrierFinite ==
  /\ IsFiniteSet(BarrierBefore) /\ Cardinality(BarrierBefore) \in Nat
  /\ IsFiniteSet(BarrierInside) /\ Cardinality(BarrierInside) \in Nat
<1>1. BarrierBefore \in SUBSET Threads /\ BarrierInside \in SUBSET Threads
  BY Zenon DEF BarrierBefore, BarrierInside
<1> QED BY Zenon, <1>1, FS_Subset, FS_CardinalityType, BarrierUsage

LEMMA BarrierInitIInv == ASSUME barrier!Init PROVE BarrierIInv
<1> USE DEF barrier!Init, barrier!lock!Init
<1>1. BarrierTypes
  BY Zenon DEF BarrierTypes, barrier!lock!Modes, barrier!Locations
<1>2. BarrierLocked
  BY Zenon DEF BarrierLocked, BarrierCritical
<1>3. BarrierBefore = Threads /\ BarrierInside = Threads
  BY Zenon DEF BarrierBefore, BarrierInside
<1>4. BarrierCounted
  BY Zenon, <1>3, BarrierCardinality DEF BarrierCounted
<1>5. BarrierOpened /\ BarrierElected
  BY Zenon, <1>3 DEF BarrierOpened, BarrierElected
<1> QED BY Zenon, <1>1, <1>2, <1>4, <1>5 DEF BarrierIInv

\* A step that counts nobody in or out, and lets nobody past Await() that should not.
LEMMA BarrierOthers ==
  ASSUME BarrierIInv, NEW t \in Threads, NEW to \in barrier!Locations,
         pc' = [pc EXCEPT ![t] = to],
         UNCHANGED <<num_to_block, num_to_exit, result, alive, truth>>,
         pc[t] # "out",
         to \in {"idle", "entering", "counting"} <=> pc[t] \in {"idle", "entering", "counting"},
         to \in {"unlock", "out"} <=> pc[t] = "unlock",
         to \in {"exiting", "unlock", "out"} => "IsZero" \in truth
  PROVE  BarrierCounted' /\ BarrierOpened' /\ BarrierElected'
<1>1. BarrierBefore' = BarrierBefore /\ BarrierInside' = BarrierInside
  BY Zenon DEF BarrierBefore, BarrierInside, BarrierIInv, BarrierTypes
<1>2. BarrierCounted'
  BY Zenon, <1>1 DEF BarrierCounted, BarrierIInv
<1>3. BarrierOpened'
  BY Zenon, <1>1 DEF BarrierOpened, BarrierIInv, BarrierTypes
<1>4. BarrierElected'
  <2>1. \A x \in Threads : pc[x] = "out" => pc'[x] = "out"
    BY Zenon DEF BarrierIInv, BarrierTypes
  <2> QED BY Zenon, <1>1, <2>1 DEF BarrierElected, BarrierIInv
<1> QED BY Zenon, <1>2, <1>3, <1>4

\* Whoever gets the lock finds nobody else in a critical section.
LEMMA BarrierGetAlone ==
  ASSUME BarrierIInv, NEW t \in Threads, pc[t] \in {"entering", "blocked"}, barrier!lock!Get(t)
  PROVE  /\ \A u \in Threads : pc[u] \notin BarrierCritical
         /\ view' = [view EXCEPT ![t] = "Exclusive"]
         /\ want' = [want EXCEPT ![t] = None]
         /\ truth' = truth
         /\ pc[t] = "blocked" => "IsZero" \in truth
<1>1. want[t].how = "Exclusive"
  BY DEF BarrierIInv, BarrierLocked, barrier!Wish
<1>2. pc[t] = "blocked" => want[t].cond = "IsZero"
  BY DEF BarrierIInv, BarrierLocked, barrier!Wish
<1>3. \A u \in Threads \ {t} : view[u] = "none"
  BY Zenon, <1>1 DEF barrier!lock!Get, barrier!lock!Compatible
<1>4. \A u \in Threads : pc[u] \notin BarrierCritical
  BY Zenon, <1>3 DEF BarrierIInv, BarrierLocked, BarrierCritical
<1> QED BY Zenon, <1>1, <1>2, <1>4, BarrierUsage DEF barrier!lock!Get

-----------------------------------------------------------------------------
LEMMA BarrierBlockKeeps ==
  ASSUME BarrierIInv, NEW t \in Threads, barrier!Block(t) PROVE BarrierIInv'
<1>1. /\ pc[t] = "idle" /\ pc' = [pc EXCEPT ![t] = "entering"] /\ view' = view
      /\ UNCHANGED <<num_to_block, num_to_exit, result, alive, truth>>
  BY Zenon DEF barrier!Block, barrier!Goto, barrier!lock!Ask
<1>2. PICK wish \in barrier!lock!Wishes : want' = [want EXCEPT ![t] = wish]
  BY Zenon DEF barrier!Block, barrier!lock!Ask
<1>3. wish = barrier!Wish(None)
  BY Zenon, <1>2 DEF barrier!Block, BarrierIInv, BarrierTypes
<1>4. BarrierTypes'
  BY Zenon, <1>1, <1>2 DEF BarrierIInv, BarrierTypes, barrier!Locations
<1>5. BarrierLocked'
  BY Zenon, <1>1, <1>2, <1>3 DEF BarrierIInv, BarrierTypes, BarrierLocked, BarrierCritical
<1>6. BarrierCounted' /\ BarrierOpened' /\ BarrierElected'
  BY Zenon, <1>1, BarrierOthers DEF barrier!Locations
<1> QED BY Zenon, <1>4, <1>5, <1>6 DEF BarrierIInv

LEMMA BarrierEnterKeeps ==
  ASSUME BarrierIInv, NEW t \in Threads, barrier!Enter(t) PROVE BarrierIInv'
<1>1. /\ pc[t] = "entering" /\ pc' = [pc EXCEPT ![t] = "counting"] /\ barrier!lock!Get(t)
      /\ UNCHANGED <<num_to_block, num_to_exit, result, alive>>
  BY Zenon DEF barrier!Enter, barrier!Goto
<1>2. /\ \A u \in Threads : pc[u] \notin BarrierCritical
      /\ view' = [view EXCEPT ![t] = "Exclusive"] /\ want' = [want EXCEPT ![t] = None]
      /\ truth' = truth
  BY Zenon, <1>1, BarrierGetAlone
<1>3. BarrierTypes'
  BY Zenon, <1>1, <1>2 DEF BarrierIInv, BarrierTypes, barrier!Locations, barrier!lock!Modes
<1>4. BarrierLocked'
  BY Zenon, <1>1, <1>2 DEF BarrierIInv, BarrierTypes, BarrierLocked, BarrierCritical
<1>5. BarrierCounted' /\ BarrierOpened' /\ BarrierElected'
  BY Zenon, <1>1, <1>2, BarrierOthers DEF barrier!Locations
<1> QED BY Zenon, <1>3, <1>4, <1>5 DEF BarrierIInv

\* The last caller to count itself in, and no other, makes the condition true.
LEMMA BarrierCountInKeeps ==
  ASSUME BarrierIInv, NEW t \in Threads, barrier!CountIn(t) PROVE BarrierIInv'
<1>1. /\ pc[t] = "counting" /\ pc' = [pc EXCEPT ![t] = "await"]
      /\ num_to_block' = num_to_block - 1
      /\ truth' = IF num_to_block' = 0 THEN {"IsZero"} ELSE {}
      /\ UNCHANGED <<view, want, num_to_exit, result, alive>>
  BY Zenon DEF barrier!CountIn, barrier!Goto, barrier!lock!Write
<1>2. /\ t \in BarrierBefore /\ BarrierBefore' = BarrierBefore \ {t}
      /\ BarrierInside' = BarrierInside /\ t \in BarrierInside
  BY Zenon, <1>1 DEF BarrierBefore, BarrierInside, BarrierIInv, BarrierTypes
<1>3. Cardinality(BarrierBefore') = Cardinality(BarrierBefore) - 1
  BY Zenon, <1>2, BarrierFinite, FS_RemoveElement
<1>4. BarrierTypes'
  BY Zenon, <1>1 DEF BarrierIInv, BarrierTypes, barrier!Locations
<1>5. BarrierLocked'
  BY <1>1 DEF BarrierIInv, BarrierTypes, BarrierLocked, BarrierCritical
<1>6. BarrierCounted'
  BY Zenon, <1>1, <1>2, <1>3 DEF BarrierIInv, BarrierCounted
<1>7. IsFiniteSet(BarrierBefore')
  BY Zenon, <1>2, BarrierFinite, FS_RemoveElement
<1>8. BarrierOpened'
  <2>1. "IsZero" \in truth' => BarrierBefore' = {}
    BY Zenon, <1>1, <1>6, <1>7, FS_EmptySet DEF BarrierCounted
  <2>2. \A u \in Threads : pc'[u] \notin {"exiting", "unlock", "out"}
    BY Zenon, <1>1, <1>2 DEF BarrierIInv, BarrierTypes, BarrierOpened
  <2> QED BY Zenon, <2>1, <2>2 DEF BarrierOpened
<1>9. BarrierElected'
  BY Zenon, <1>1, <1>2 DEF BarrierIInv, BarrierElected
<1> QED BY Zenon, <1>4, <1>5, <1>6, <1>8, <1>9 DEF BarrierIInv

LEMMA BarrierAwaitKeeps ==
  ASSUME BarrierIInv, NEW t \in Threads, barrier!Await(t) PROVE BarrierIInv'
<1>1. pc[t] = "await" /\ UNCHANGED <<num_to_block, num_to_exit, result, alive>>
  BY Zenon DEF barrier!Await
<1>2. CASE "IsZero" \in truth
  <2>1. pc' = [pc EXCEPT ![t] = "exiting"] /\ UNCHANGED <<view, want, truth>>
    BY Zenon, <1>2 DEF barrier!Await, barrier!Goto, barrier!region
  <2>2. BarrierTypes'
    BY Zenon, <1>1, <2>1 DEF BarrierIInv, BarrierTypes, barrier!Locations
  <2>3. BarrierLocked'
    BY Zenon, <1>1, <2>1 DEF BarrierIInv, BarrierTypes, BarrierLocked, BarrierCritical
  <2>4. BarrierCounted' /\ BarrierOpened' /\ BarrierElected'
    BY Zenon, <1>1, <1>2, <2>1, BarrierOthers DEF barrier!Locations
  <2> QED BY Zenon, <2>2, <2>3, <2>4 DEF BarrierIInv
<1>3. CASE "IsZero" \notin truth
  <2>1. /\ pc' = [pc EXCEPT ![t] = "blocked"] /\ truth' = truth
        /\ view' = [view EXCEPT ![t] = "none"]
    BY Zenon, <1>3 DEF barrier!Await, barrier!Goto, barrier!lock!Suspend
  <2>2. PICK wish \in barrier!lock!Wishes : want' = [want EXCEPT ![t] = wish]
    BY Zenon, <1>3 DEF barrier!Await, barrier!lock!Suspend
  <2>3. wish = barrier!Wish("IsZero")
    BY Zenon, <1>3, <2>2 DEF barrier!Await, BarrierIInv, BarrierTypes
  <2>4. BarrierTypes'
    BY Zenon, <1>1, <2>1, <2>2 DEF BarrierIInv, BarrierTypes, barrier!Locations, barrier!lock!Modes
  <2>5. BarrierLocked'
    BY Zenon, <1>1, <2>1, <2>2, <2>3 DEF BarrierIInv, BarrierTypes, BarrierLocked, BarrierCritical
  <2>6. BarrierCounted' /\ BarrierOpened' /\ BarrierElected'
    BY Zenon, <1>1, <2>1, BarrierOthers DEF barrier!Locations
  <2> QED BY Zenon, <2>4, <2>5, <2>6 DEF BarrierIInv
<1> QED BY Zenon, <1>2, <1>3

LEMMA BarrierResumeKeeps ==
  ASSUME BarrierIInv, NEW t \in Threads, barrier!Resume(t) PROVE BarrierIInv'
<1>1. /\ pc[t] = "blocked" /\ pc' = [pc EXCEPT ![t] = "exiting"] /\ barrier!lock!Get(t)
      /\ UNCHANGED <<num_to_block, num_to_exit, result, alive>>
  BY Zenon DEF barrier!Resume, barrier!Goto
<1>2. /\ \A u \in Threads : pc[u] \notin BarrierCritical
      /\ view' = [view EXCEPT ![t] = "Exclusive"] /\ want' = [want EXCEPT ![t] = None]
      /\ truth' = truth /\ "IsZero" \in truth
  BY Zenon, <1>1, BarrierGetAlone
<1>3. BarrierTypes'
  BY Zenon, <1>1, <1>2 DEF BarrierIInv, BarrierTypes, barrier!Locations, barrier!lock!Modes
<1>4. BarrierLocked'
  BY Zenon, <1>1, <1>2 DEF BarrierIInv, BarrierTypes, BarrierLocked, BarrierCritical
<1>5. BarrierCounted' /\ BarrierOpened' /\ BarrierElected'
  BY Zenon, <1>1, <1>2, BarrierOthers DEF barrier!Locations
<1> QED BY Zenon, <1>3, <1>4, <1>5 DEF BarrierIInv

\* The caller that counts itself out holds the lock: if it is the last one inside, all
\* others have released it.
LEMMA BarrierCountOutKeeps ==
  ASSUME BarrierIInv, NEW t \in Threads, barrier!CountOut(t) PROVE BarrierIInv'
<1>1. /\ pc[t] = "exiting" /\ pc' = [pc EXCEPT ![t] = "unlock"]
      /\ num_to_exit' = num_to_exit - 1
      /\ result' = [result EXCEPT ![t] = (num_to_exit' = 0)]
      /\ UNCHANGED <<view, want, truth, num_to_block, alive>>
  BY Zenon DEF barrier!CountOut, barrier!Goto, barrier!region
<1>2. t \in BarrierInside /\ BarrierInside' = BarrierInside \ {t} /\ BarrierBefore' = BarrierBefore
  BY Zenon, <1>1 DEF BarrierBefore, BarrierInside, BarrierIInv, BarrierTypes
<1>3. Cardinality(BarrierInside') = Cardinality(BarrierInside) - 1 /\ IsFiniteSet(BarrierInside')
  BY Zenon, <1>2, BarrierFinite, FS_RemoveElement
<1>4. BarrierTypes'
  BY Zenon, <1>1 DEF BarrierIInv, BarrierTypes, barrier!Locations
<1>5. BarrierLocked'
  BY Zenon, <1>1 DEF BarrierIInv, BarrierTypes, BarrierLocked, BarrierCritical
<1>6. BarrierCounted'
  BY Zenon, <1>1, <1>2, <1>3 DEF BarrierIInv, BarrierCounted
<1>7. BarrierOpened'
  BY Zenon, <1>1, <1>2 DEF BarrierIInv, BarrierTypes, BarrierOpened
<1>8. BarrierElected'
  <2>1. \A u \in Threads : ~result[u]
    BY Zenon, <1>2 DEF BarrierIInv, BarrierElected
  <2>2. result'[t] <=> BarrierInside' = {}
    BY Zenon, <1>1, <1>3, <1>6, FS_EmptySet DEF BarrierCounted, BarrierIInv, BarrierTypes
  <2>3. \A u \in Threads \ {t} : ~result'[u]
    BY Zenon, <1>1, <2>1 DEF BarrierIInv, BarrierTypes
  <2>4. \A u \in Threads \ {t} : BarrierInside' = {} => pc'[u] = "out"
    <3> SUFFICES ASSUME NEW u \in Threads \ {t}, BarrierInside' = {} PROVE pc'[u] = "out"
      BY Zenon
    <3>1. pc[u] \in {"unlock", "out"}
      BY Zenon, <1>2 DEF BarrierInside
    <3>2. pc[u] # "unlock"
      BY Zenon, <1>1 DEF BarrierIInv, BarrierLocked, BarrierCritical
    <3> QED BY Zenon, <1>1, <3>1, <3>2 DEF BarrierIInv, BarrierTypes
  <2>5. alive'
    BY Zenon, <1>1, <2>1 DEF BarrierIInv, BarrierElected
  <2> QED BY Zenon, <2>2, <2>3, <2>4, <2>5 DEF BarrierElected
<1> QED BY Zenon, <1>4, <1>5, <1>6, <1>7, <1>8 DEF BarrierIInv

LEMMA BarrierReturnKeeps ==
  ASSUME BarrierIInv, NEW t \in Threads, barrier!Return(t) PROVE BarrierIInv'
<1>1. /\ pc[t] = "unlock" /\ pc' = [pc EXCEPT ![t] = "out"]
      /\ view' = [view EXCEPT ![t] = "none"]
      /\ UNCHANGED <<want, truth, num_to_block, num_to_exit, result, alive>>
  BY Zenon DEF barrier!Return, barrier!Goto, barrier!lock!Leave
<1>2. BarrierTypes'
  BY Zenon, <1>1 DEF BarrierIInv, BarrierTypes, barrier!Locations, barrier!lock!Modes
<1>3. BarrierLocked'
  BY Zenon, <1>1 DEF BarrierIInv, BarrierTypes, BarrierLocked, BarrierCritical
<1>4. "IsZero" \in truth
  BY Zenon, <1>1 DEF BarrierIInv, BarrierOpened
<1>5. BarrierCounted' /\ BarrierOpened' /\ BarrierElected'
  BY Zenon, <1>1, <1>4, BarrierOthers DEF barrier!Locations
<1> QED BY Zenon, <1>2, <1>3, <1>5 DEF BarrierIInv

LEMMA BarrierDeleteKeeps ==
  ASSUME BarrierIInv, NEW t \in Threads, barrier!Delete(t) PROVE BarrierIInv'
<1>1. /\ pc[t] = "out" /\ result[t] /\ alive' = FALSE
      /\ UNCHANGED <<view, want, truth, num_to_block, num_to_exit, pc, result>>
  BY Zenon DEF barrier!Delete, barrier!region
<1>2. BarrierBefore' = BarrierBefore /\ BarrierInside' = BarrierInside
  BY Zenon, <1>1 DEF BarrierBefore, BarrierInside
<1>3. BarrierTypes' /\ BarrierLocked' /\ BarrierCounted' /\ BarrierOpened'
  BY Zenon, <1>1, <1>2 DEF BarrierIInv, BarrierTypes, BarrierLocked, BarrierCounted, BarrierOpened
<1>4. BarrierElected'
  BY Zenon, <1>1, <1>2 DEF BarrierIInv, BarrierElected
<1> QED BY Zenon, <1>3, <1>4 DEF BarrierIInv

LEMMA BarrierStutterKeeps == ASSUME BarrierIInv, UNCHANGED barrier!vars PROVE BarrierIInv'
<1>1. UNCHANGED <<view, want, truth, num_to_block, num_to_exit, pc, result, alive>>
  BY Zenon DEF barrier!vars, barrier!region, barrier!own
<1>2. BarrierBefore' = BarrierBefore /\ BarrierInside' = BarrierInside
  BY Zenon, <1>1 DEF BarrierBefore, BarrierInside
<1>3. BarrierTypes' /\ BarrierLocked' /\ BarrierCounted' /\ BarrierOpened' /\ BarrierElected'
  BY Zenon, <1>1, <1>2 DEF BarrierIInv, BarrierTypes, BarrierLocked, BarrierCounted, BarrierOpened,
     BarrierElected
<1> QED BY Zenon, <1>3 DEF BarrierIInv

LEMMA BarrierNextIInv == ASSUME BarrierIInv, [barrier!Next]_barrier!vars PROVE BarrierIInv'
<1>1. ASSUME NEW t \in Threads, barrier!Step(t) PROVE BarrierIInv'
  BY Zenon, <1>1, BarrierBlockKeeps, BarrierEnterKeeps, BarrierCountInKeeps, BarrierAwaitKeeps,
     BarrierResumeKeeps, BarrierCountOutKeeps,
     BarrierReturnKeeps, BarrierDeleteKeeps DEF barrier!Step
<1> QED BY Zenon, <1>1, BarrierStutterKeeps DEF barrier!Next

-----------------------------------------------------------------------------
\* No call of Block() goes on before every caller has decremented num_to_block_; one caller
\* gets true if all return; and it deletes the barrier when all others have left Block()
\* and released lock_ (barrier.cc:46-48).
LEMMA BarrierSafe == BarrierIInv => barrier!Together /\ barrier!OneDeleter /\ barrier!SafeToDelete
<1>1. BarrierIInv => barrier!Together
  BY Zenon DEF BarrierIInv, BarrierOpened, BarrierBefore, barrier!Together
<1>2. BarrierIInv => barrier!OneDeleter
  BY Zenon DEF BarrierIInv, BarrierElected, BarrierInside, barrier!OneDeleter
<1>3. BarrierIInv => barrier!SafeToDelete
  BY Zenon DEF BarrierIInv, BarrierElected, barrier!SafeToDelete
<1> QED BY Zenon, <1>1, <1>2, <1>3

\* A Barrier is correct by itself.
THEOREM BarrierCorrect == 
  barrier!Spec => [](barrier!Together /\ barrier!OneDeleter /\ barrier!SafeToDelete)
<1>1. barrier!Init => BarrierIInv
  BY Zenon, BarrierInitIInv
<1>2. BarrierIInv /\ [barrier!Next]_barrier!vars => BarrierIInv'
  BY BarrierNextIInv
<1> QED BY <1>1, <1>2, BarrierSafe, PTL DEF barrier!Spec

-----------------------------------------------------------------------------
(* BlockingCounter *)

CounterTypes ==
  /\ view \in [counter!Callers -> counter!lock!Modes]
  /\ want \in [counter!Callers -> counter!lock!Wishes \cup {None}]
  /\ truth \in SUBSET {"IsDone"}
  /\ initial_count \in Nat /\ count \in Nat
  /\ pc \in [counter!Callers -> counter!Locations]
  /\ alive \in BOOLEAN
  /\ \A w \in (Threads \ {Caller}) : pc[w] \notin {"await", "blocked"}

CounterCritical == {"inside", "await", "unlock"}

\* The places in the code tell who holds lock_ and what the others wait for.
CounterLocked ==
  /\ \A t \in counter!Callers : view[t] = IF pc[t] \in CounterCritical THEN "Exclusive" ELSE "none"
  /\ \A t, u \in counter!Callers : pc[t] \in CounterCritical /\ pc[u] \in CounterCritical => t = u
  /\ \A t \in counter!Callers : pc[t] = "entering" => want[t] = counter!Wish(None)
  /\ \A t \in counter!Callers : pc[t] = "blocked" => want[t] = counter!Wish("IsDone")

\* A worker that has decremented and still uses the counter.
CounterLast(w) == pc[w] \in {"entering", "inside", "unlock"}

\* The worker that still uses the counter is the one that brought it to zero.
CounterCounted ==
  /\ count + Cardinality(counter!Called) = initial_count
  /\ \A w \in (Threads \ {Caller}) : CounterLast(w) => count = 0
  /\ \A w, x \in (Threads \ {Caller}) : CounterLast(w) /\ CounterLast(x) => w = x

\* done_ is set when the last worker is about to release the lock; the waiter, who sees
\* done_ under the lock, holds it after that release.
CounterPassed ==
  /\ "IsDone" \in truth =>
       count = 0 /\ \A w \in (Threads \ {Caller}) : pc[w] \notin {"entering", "inside"}
  /\ pc[Caller] \in {"unlock", "out"} => "IsDone" \in truth
  /\ pc[Caller] = "out" => \A w \in (Threads \ {Caller}) : pc[w] # "unlock"
  /\ ~alive => pc[Caller] = "out"

CounterIInv == CounterTypes /\ CounterLocked /\ CounterCounted /\ CounterPassed

-----------------------------------------------------------------------------
\* How a counter is used: the initial count is not negative, as the constructor checks, and
\* the waiter is not one of the workers.  None is not a condition.
LEMMA CounterUsage ==
  /\ IsFiniteSet(Threads \ {Caller}) /\ Caller \notin Threads \ {Caller}
  /\ InitialCounts \subseteq Nat
  /\ None # "IsDone"
<1>1. IsFiniteSet(Threads \ {Caller})
  BY Zenon, RendezvousAssumption, FS_RemoveElement
<1> QED BY <1>1, RendezvousAssumption, FS_CardinalityType

LEMMA CounterCardinality == ASSUME NEW S PROVE counter!Cardinality(S) = Cardinality(S)
BY Zenon DEF counter!Cardinality, Cardinality

LEMMA CalledFinite ==
  IsFiniteSet(counter!Called) /\ Cardinality(counter!Called) \in Nat
<1>1. counter!Called \in SUBSET (Threads \ {Caller})
  BY Zenon DEF counter!Called
<1> QED BY Zenon, <1>1, FS_Subset, FS_CardinalityType, CounterUsage

LEMMA CounterInitIInv == ASSUME counter!Init PROVE CounterIInv
<1> USE CounterUsage DEF counter!Init, counter!Callers
<1>1. CounterTypes
  BY Zenon DEF CounterTypes, counter!lock!Modes, counter!Locations
<1>2. CounterLocked
  BY Zenon DEF CounterLocked, CounterCritical
<1>3. counter!Called = {}
  BY Zenon DEF counter!Called
<1>4. CounterCounted
  BY <1>3, FS_EmptySet DEF CounterCounted, CounterLast
<1>5. CounterPassed
  BY Zenon DEF CounterPassed
<1> QED BY Zenon, <1>1, <1>2, <1>4, <1>5 DEF CounterIInv

\* A step that leaves the count alone and calls nobody keeps the bookkeeping.
LEMMA CounterCountKept ==
  ASSUME CounterIInv, UNCHANGED <<count, initial_count>>,
         \A w \in (Threads \ {Caller}) : pc[w] = "idle" <=> pc'[w] = "idle",
         \A w \in (Threads \ {Caller}) : CounterLast(w)' => CounterLast(w)
  PROVE  CounterCounted'
<1>1. counter!Called' = counter!Called
  BY Zenon DEF counter!Called
<1> QED BY Zenon, <1>1 DEF CounterCounted, CounterIInv

-----------------------------------------------------------------------------
\* DecrementCount finds the count above zero, so that nobody is the last worker yet.
LEMMA CounterDecrementKeeps ==
  ASSUME CounterIInv, NEW w \in (Threads \ {Caller}), counter!DecrementCount(w)
  PROVE  CounterIInv'
<1> USE CounterUsage DEF counter!Callers
<1>1. Cardinality(counter!Called) \in Nat /\ IsFiniteSet(counter!Called)
  BY Zenon, CalledFinite
<1>2. count \in Nat /\ count > 0 /\ count' = count - 1 /\ initial_count' = initial_count
  BY <1>1, CounterCardinality DEF counter!DecrementCount, CounterIInv, CounterTypes, CounterCounted
<1>3. "IsDone" \notin truth /\ \A x \in (Threads \ {Caller}) : ~CounterLast(x)
  BY <1>2 DEF CounterIInv, CounterPassed, CounterCounted
<1>4. pc[w] = "idle" /\ w # Caller /\ view' = view /\ truth' = truth /\ alive' = alive
  BY Zenon DEF counter!DecrementCount, counter!LockFor, counter!region, counter!lock!Ask
<1>5. \/ count' = 0 /\ pc' = [pc EXCEPT ![w] = "entering"]
         /\ want' = [want EXCEPT ![w] = counter!Wish(None)]
      \/ count' # 0 /\ pc' = [pc EXCEPT ![w] = "out"] /\ want' = want
  <2>1. CASE count' = 0
    <3>1. PICK wish \in counter!lock!Wishes : want' = [want EXCEPT ![w] = wish]
      BY Zenon, <2>1 DEF counter!DecrementCount, counter!LockFor, counter!lock!Ask
    <3>2. want'[w] = counter!Wish(None)
      BY Zenon, <2>1 DEF counter!DecrementCount, counter!LockFor
    <3>3. wish = counter!Wish(None)
      BY Zenon, <3>1, <3>2 DEF CounterIInv, CounterTypes
    <3> QED BY Zenon, <2>1, <3>1, <3>3 DEF counter!DecrementCount, counter!Goto
  <2>2. CASE count' # 0
    BY Zenon, <2>2 DEF counter!DecrementCount, counter!Goto, counter!region
  <2> QED BY Zenon, <2>1, <2>2
<1>6. counter!Called' = counter!Called \cup {w} /\ w \notin counter!Called
  BY <1>4, <1>5 DEF counter!Called, CounterIInv, CounterTypes
<1>7. Cardinality(counter!Called') = Cardinality(counter!Called) + 1
  BY Zenon, <1>1, <1>6, FS_AddElement
<1>8. CounterCounted'
  <2>1. count' + Cardinality(counter!Called') = initial_count'
    BY <1>1, <1>2, <1>7 DEF CounterIInv, CounterCounted
  <2>2. \A x \in (Threads \ {Caller}) : CounterLast(x)' => x = w /\ count' = 0
    BY Zenon, <1>3, <1>5 DEF CounterLast, CounterIInv, CounterTypes
  <2> QED BY Zenon, <2>1, <2>2 DEF CounterCounted, CounterLast, counter!Called
<1>9. CounterTypes'
  <2>1. counter!Wish(None) \in counter!lock!Wishes
    BY Zenon DEF counter!Wish, counter!lock!Wishes
  <2>2. want' \in [counter!Callers -> counter!lock!Wishes \cup {None}]
    BY Zenon, <1>5, <2>1 DEF CounterIInv, CounterTypes
  <2> QED BY <1>2, <1>4, <1>5, <2>2 DEF CounterIInv, CounterTypes, counter!Locations
<1>10. CounterLocked'
  BY <1>4, <1>5 DEF CounterIInv, CounterTypes, CounterLocked, CounterCritical
<1>11. CounterPassed'
  BY Zenon, <1>3, <1>4, <1>5 DEF CounterIInv, CounterTypes, CounterPassed
<1> QED BY Zenon, <1>8, <1>9, <1>10, <1>11 DEF CounterIInv

\* A wait that begins asks for the lock and nothing else.
LEMMA CounterWaitKeeps == ASSUME CounterIInv, counter!Wait PROVE CounterIInv'
<1> USE CounterUsage DEF counter!Callers
<1>1. /\ pc[Caller] = "idle" /\ pc' = [pc EXCEPT ![Caller] = "entering"]
      /\ UNCHANGED <<view, truth, count, initial_count, alive>>
  BY Zenon DEF counter!Wait, counter!LockFor, counter!Goto, counter!lock!Ask
<1>2. PICK wish \in counter!lock!Wishes : want' = [want EXCEPT ![Caller] = wish]
  BY Zenon DEF counter!Wait, counter!LockFor, counter!lock!Ask
<1>3. wish = counter!Wish(None)
  BY Zenon, <1>2 DEF counter!Wait, counter!LockFor, CounterIInv, CounterTypes
<1>4. CounterTypes'
  BY Zenon, <1>1, <1>2 DEF CounterIInv, CounterTypes, counter!Locations
<1>5. CounterLocked'
  BY Zenon, <1>1, <1>2, <1>3 DEF CounterIInv, CounterTypes, CounterLocked, CounterCritical
<1>6. CounterCounted'
  BY Zenon, <1>1, CounterCountKept DEF CounterIInv, CounterTypes, CounterLast
<1>7. CounterPassed'
  BY Zenon, <1>1 DEF CounterIInv, CounterTypes, CounterPassed
<1> QED BY Zenon, <1>4, <1>5, <1>6, <1>7 DEF CounterIInv

\* Whoever gets the lock finds nobody else in a critical section.
LEMMA CounterGetAlone ==
  ASSUME CounterIInv, NEW t \in counter!Callers, pc[t] \in {"entering", "blocked"},
         counter!lock!Get(t)
  PROVE  /\ \A u \in counter!Callers : pc[u] \notin CounterCritical
         /\ view' = [view EXCEPT ![t] = "Exclusive"]
         /\ want' = [want EXCEPT ![t] = None]
         /\ truth' = truth
         /\ pc[t] = "blocked" => "IsDone" \in truth
<1>1. want[t].how = "Exclusive"
  BY DEF CounterIInv, CounterLocked, counter!Wish
<1>2. pc[t] = "blocked" => want[t].cond = "IsDone"
  BY DEF CounterIInv, CounterLocked, counter!Wish
<1>3. \A u \in counter!Callers \ {t} : view[u] = "none"
  BY Zenon, <1>1 DEF counter!lock!Get, counter!lock!Compatible
<1>4. \A u \in counter!Callers : pc[u] \notin CounterCritical
  BY Zenon, <1>3 DEF CounterIInv, CounterLocked, CounterCritical
<1> QED BY Zenon, <1>1, <1>2, <1>4, CounterUsage DEF counter!lock!Get

LEMMA CounterEnterKeeps ==
  ASSUME CounterIInv, NEW t \in counter!Callers, counter!Enter(t) PROVE CounterIInv'
<1> USE DEF counter!Callers
<1>1. /\ pc[t] = "entering" /\ pc' = [pc EXCEPT ![t] = "inside"]
      /\ UNCHANGED <<count, initial_count, alive>> /\ counter!lock!Get(t)
  BY Zenon DEF counter!Enter, counter!Goto
<1>2. /\ \A u \in counter!Callers : pc[u] \notin CounterCritical
      /\ view' = [view EXCEPT ![t] = "Exclusive"] /\ want' = [want EXCEPT ![t] = None]
      /\ truth' = truth
  BY Zenon, <1>1, CounterGetAlone
<1>3. CounterTypes'
  BY Zenon, <1>1, <1>2 DEF CounterIInv, CounterTypes, counter!Locations, counter!lock!Modes
<1>4. CounterLocked'
  BY Zenon, <1>1, <1>2 DEF CounterIInv, CounterTypes, CounterLocked, CounterCritical
<1>5. CounterCounted'
  BY Zenon, <1>1, CounterCountKept DEF CounterIInv, CounterTypes, CounterLast
<1>6. CounterPassed'
  BY Zenon, <1>1, <1>2, CounterUsage DEF CounterIInv, CounterTypes, CounterPassed
<1> QED BY Zenon, <1>3, <1>4, <1>5, <1>6 DEF CounterIInv

\* The one last worker sets done_: no other worker is on its way to the lock.
LEMMA CounterSetDoneKeeps ==
  ASSUME CounterIInv, NEW w \in (Threads \ {Caller}), counter!SetDone(w) PROVE CounterIInv'
<1> USE DEF counter!Callers
<1>1. /\ pc[w] = "inside" /\ pc' = [pc EXCEPT ![w] = "unlock"] /\ truth' = {"IsDone"}
      /\ UNCHANGED <<view, want, count, initial_count, alive>>
  BY Zenon DEF counter!SetDone, counter!Goto, counter!lock!Write
<1>2. count = 0 /\ \A x \in (Threads \ {Caller}) : CounterLast(x) => x = w
  BY Zenon, <1>1 DEF CounterIInv, CounterCounted, CounterLast
<1>3. "IsDone" \notin truth
  BY Zenon, <1>1 DEF CounterIInv, CounterPassed
<1>4. CounterTypes'
  BY Zenon, <1>1 DEF CounterIInv, CounterTypes, counter!Locations
<1>5. CounterLocked'
  BY Zenon, <1>1 DEF CounterIInv, CounterTypes, CounterLocked, CounterCritical
<1>6. CounterCounted'
  BY Zenon, <1>1, CounterCountKept DEF CounterIInv, CounterTypes, CounterLast
<1>7. CounterPassed'
  BY Zenon, <1>1, <1>2, <1>3, CounterUsage DEF CounterIInv, CounterTypes, CounterPassed, CounterLast
<1> QED BY Zenon, <1>4, <1>5, <1>6, <1>7 DEF CounterIInv

LEMMA CounterCountWaiterKeeps == ASSUME CounterIInv, counter!CountWaiter PROVE CounterIInv'
<1> USE DEF counter!Callers
<1>1. /\ pc[Caller] = "inside" /\ pc' = [pc EXCEPT ![Caller] = "await"]
      /\ UNCHANGED <<view, want, truth, count, initial_count, alive>>
  BY Zenon DEF counter!CountWaiter, counter!Goto, counter!region
<1>2. CounterTypes'
  BY Zenon, <1>1, CounterUsage DEF CounterIInv, CounterTypes, counter!Locations
<1>3. CounterLocked'
  BY Zenon, <1>1 DEF CounterIInv, CounterTypes, CounterLocked, CounterCritical
<1>4. CounterCounted'
  BY Zenon, <1>1, CounterCountKept, CounterUsage DEF CounterIInv, CounterTypes, CounterLast
<1>5. CounterPassed'
  BY Zenon, <1>1, CounterUsage DEF CounterIInv, CounterTypes, CounterPassed
<1> QED BY Zenon, <1>2, <1>3, <1>4, <1>5 DEF CounterIInv

LEMMA CounterAwaitKeeps == ASSUME CounterIInv, counter!Await PROVE CounterIInv'
<1> USE DEF counter!Callers
<1>1. pc[Caller] = "await" /\ UNCHANGED <<count, initial_count, alive>>
  BY Zenon DEF counter!Await
<1>2. CASE "IsDone" \in truth
  <2>1. pc' = [pc EXCEPT ![Caller] = "unlock"] /\ UNCHANGED <<view, want, truth>>
    BY Zenon, <1>2 DEF counter!Await, counter!Goto, counter!region
  <2>2. CounterTypes'
    BY Zenon, <1>1, <2>1, CounterUsage DEF CounterIInv, CounterTypes, counter!Locations
  <2>3. CounterLocked'
    BY Zenon, <1>1, <2>1 DEF CounterIInv, CounterTypes, CounterLocked, CounterCritical
  <2>4. CounterCounted'
    BY Zenon, <1>1, <2>1, CounterCountKept, CounterUsage DEF CounterIInv, CounterTypes, CounterLast
  <2>5. CounterPassed'
    BY Zenon, <1>1, <1>2, <2>1, CounterUsage DEF CounterIInv, CounterTypes, CounterPassed
  <2> QED BY Zenon, <2>2, <2>3, <2>4, <2>5 DEF CounterIInv
<1>3. CASE "IsDone" \notin truth
  <2>1. /\ pc' = [pc EXCEPT ![Caller] = "blocked"] /\ truth' = truth
        /\ view' = [view EXCEPT ![Caller] = "none"]
    BY Zenon, <1>3 DEF counter!Await, counter!Goto, counter!lock!Suspend
  <2>2. PICK wish \in counter!lock!Wishes : want' = [want EXCEPT ![Caller] = wish]
    BY Zenon, <1>3 DEF counter!Await, counter!lock!Suspend
  <2>3. wish = counter!Wish("IsDone")
    BY Zenon, <1>3, <2>2 DEF counter!Await, CounterIInv, CounterTypes
  <2>4. CounterTypes'
    BY Zenon, <1>1, <2>1, <2>2, CounterUsage DEF CounterIInv, CounterTypes, counter!Locations,
       counter!lock!Modes
  <2>5. CounterLocked'
    BY Zenon, <1>1, <2>1, <2>2, <2>3 DEF CounterIInv, CounterTypes, CounterLocked, CounterCritical
  <2>6. CounterCounted'
    BY Zenon, <1>1, <2>1, CounterCountKept, CounterUsage DEF CounterIInv, CounterTypes, CounterLast
  <2>7. CounterPassed'
    BY Zenon, <1>1, <2>1, CounterUsage DEF CounterIInv, CounterTypes, CounterPassed
  <2> QED BY Zenon, <2>4, <2>5, <2>6, <2>7 DEF CounterIInv
<1> QED BY Zenon, <1>2, <1>3

LEMMA CounterResumeKeeps == ASSUME CounterIInv, counter!Resume PROVE CounterIInv'
<1> USE DEF counter!Callers
<1>1. /\ pc[Caller] = "blocked" /\ pc' = [pc EXCEPT ![Caller] = "unlock"]
      /\ UNCHANGED <<count, initial_count, alive>> /\ counter!lock!Get(Caller)
  BY Zenon DEF counter!Resume, counter!Goto
<1>2. /\ \A u \in counter!Callers : pc[u] \notin CounterCritical
      /\ view' = [view EXCEPT ![Caller] = "Exclusive"] /\ want' = [want EXCEPT ![Caller] = None]
      /\ truth' = truth /\ "IsDone" \in truth
  BY Zenon, <1>1, CounterGetAlone
<1>3. CounterTypes'
  BY Zenon, <1>1, <1>2, CounterUsage DEF CounterIInv, CounterTypes, counter!Locations, counter!lock!Modes
<1>4. CounterLocked'
  BY Zenon, <1>1, <1>2 DEF CounterIInv, CounterTypes, CounterLocked, CounterCritical
<1>5. CounterCounted'
  BY Zenon, <1>1, CounterCountKept, CounterUsage DEF CounterIInv, CounterTypes, CounterLast
<1>6. CounterPassed'
  BY Zenon, <1>1, <1>2, CounterUsage DEF CounterIInv, CounterTypes, CounterPassed
<1> QED BY Zenon, <1>3, <1>4, <1>5, <1>6 DEF CounterIInv

\* When the waiter releases the lock the last worker has done so before.
LEMMA CounterReturnKeeps ==
  ASSUME CounterIInv, NEW t \in counter!Callers, counter!Return(t) PROVE CounterIInv'
<1> USE DEF counter!Callers
<1>1. /\ pc[t] = "unlock" /\ pc' = [pc EXCEPT ![t] = "out"]
      /\ view' = [view EXCEPT ![t] = "none"]
      /\ UNCHANGED <<want, truth, count, initial_count, alive>>
  BY Zenon DEF counter!Return, counter!Goto, counter!lock!Leave
<1>2. \A u \in counter!Callers : pc[u] = "unlock" => u = t
  BY Zenon, <1>1 DEF CounterIInv, CounterLocked, CounterCritical
<1>3. CounterTypes'
  BY Zenon, <1>1 DEF CounterIInv, CounterTypes, counter!Locations, counter!lock!Modes
<1>4. CounterLocked'
  BY Zenon, <1>1 DEF CounterIInv, CounterTypes, CounterLocked, CounterCritical
<1>5. CounterCounted'
  BY Zenon, <1>1, CounterCountKept DEF CounterIInv, CounterTypes, CounterLast
<1>6. CounterPassed'
  BY <1>1, <1>2, CounterUsage DEF CounterIInv, CounterTypes, CounterPassed
<1> QED BY Zenon, <1>3, <1>4, <1>5, <1>6 DEF CounterIInv

LEMMA CounterDestroyKeeps == ASSUME CounterIInv, counter!Destroy PROVE CounterIInv'
<1>1. pc[Caller] = "out" /\ alive' = FALSE
      /\ UNCHANGED <<view, want, truth, count, initial_count, pc>>
  BY Zenon DEF counter!Destroy, counter!region
<1>2. CounterTypes' /\ CounterLocked' /\ CounterPassed'
  BY Zenon, <1>1 DEF CounterIInv, CounterTypes, CounterLocked, CounterPassed
<1>3. CounterCounted'
  BY Zenon, <1>1, CounterCountKept DEF CounterLast
<1> QED BY Zenon, <1>2, <1>3 DEF CounterIInv

LEMMA CounterStutterKeeps == ASSUME CounterIInv, UNCHANGED counter!vars PROVE CounterIInv'
<1>1. UNCHANGED <<view, want, truth, count, initial_count, pc, alive>>
  BY Zenon DEF counter!vars, counter!region
<1>2. CounterTypes' /\ CounterLocked' /\ CounterPassed'
  BY Zenon, <1>1 DEF CounterIInv, CounterTypes, CounterLocked, CounterPassed
<1>3. CounterCounted'
  BY Zenon, <1>1, CounterCountKept DEF CounterLast
<1> QED BY Zenon, <1>2, <1>3 DEF CounterIInv

LEMMA CounterNextIInv == ASSUME CounterIInv, [counter!Next]_counter!vars PROVE CounterIInv'
<1>1. Caller \in counter!Callers /\ \A w \in (Threads \ {Caller}) : w \in counter!Callers
  BY Zenon DEF counter!Callers
<1>2. CASE counter!WaiterStep
  BY Zenon, <1>1, <1>2, CounterWaitKeeps, CounterEnterKeeps, CounterCountWaiterKeeps,
     CounterAwaitKeeps, CounterResumeKeeps, CounterReturnKeeps,
     CounterDestroyKeeps DEF counter!WaiterStep
<1>3. ASSUME NEW w \in (Threads \ {Caller}), counter!WorkerStep(w) PROVE CounterIInv'
  BY Zenon, <1>1, <1>3, CounterDecrementKeeps, CounterEnterKeeps, CounterSetDoneKeeps,
     CounterReturnKeeps DEF counter!WorkerStep
<1>4. CASE UNCHANGED counter!vars
  BY Zenon, <1>4, CounterStutterKeeps
<1> QED BY Zenon, <1>2, <1>3, <1>4 DEF counter!Next

-----------------------------------------------------------------------------
\* When Wait() has returned the counter may be destroyed: not even the last worker, which
\* decremented outside the lock, has its lock still to release (blocking_counter.cc:61-64).
\* "When Wait() returns, the number of calls to DecrementCount() on this blocking counter
\* exactly equals initial_count".
LEMMA CounterSafe ==
  CounterIInv => counter!SafeToDestroy /\ counter!ExactCount
<1>1. CounterIInv => counter!SafeToDestroy
  <2> SUFFICES ASSUME CounterIInv, ~alive, NEW w \in counter!Called PROVE pc[w] = "out"
    BY Zenon DEF counter!SafeToDestroy
  <2>1. w \in (Threads \ {Caller}) /\ w \in counter!Callers /\ pc[w] # "idle"
    BY Zenon DEF counter!Called, counter!Callers
  <2>2. "IsDone" \in truth /\ pc[w] \notin {"entering", "inside", "unlock"}
    BY Zenon, <2>1 DEF CounterIInv, CounterPassed
  <2> QED BY Zenon, <2>1, <2>2 DEF CounterIInv, CounterTypes, counter!Locations
<1>2. CounterIInv => counter!ExactCount
  BY CalledFinite, CounterCardinality DEF CounterIInv, CounterPassed, CounterCounted, CounterTypes,
     counter!ExactCount
<1> QED BY Zenon, <1>1, <1>2

\* A BlockingCounter is correct by itself.
THEOREM CounterCorrect == 
  counter!Spec => [](counter!SafeToDestroy /\ counter!ExactCount)
<1>1. counter!Init => CounterIInv
  BY Zenon, CounterInitIInv
<1>2. CounterIInv /\ [counter!Next]_counter!vars => CounterIInv'
  BY CounterNextIInv
<1> QED BY <1>1, <1>2, CounterSafe, PTL DEF counter!Spec

-----------------------------------------------------------------------------
(* Notification *)

NotifTypes ==
  /\ view \in [notification!Callers -> notification!lock!Modes]
  /\ want \in [notification!Callers -> notification!lock!Wishes \cup {None}]
  /\ truth \in SUBSET {"notified"}
  /\ prenotify \in BOOLEAN
  /\ pc \in [notification!Callers -> notification!Locations]
  /\ timed \in [notification!Callers -> BOOLEAN]
  /\ result \in [notification!Callers -> BOOLEAN]
  /\ pc[Notifier] \in {"idle", "blocked", "store", "unlock", "out"}
  /\ \A t \in notification!Waiting : pc[t] # "store"
  /\ \A t \in notification!Callers \ {Caller} : pc[t] \notin {"destroying", "destroyed", "gone"}

NotifCritical == {"store", "unlock", "destroyed"}

\* The places in the code tell who holds mutex_ and what the others wait for: a wait for the
\* notification turns into one for the lock alone when its timeout expires.
NotifLocked ==
  /\ \A t \in notification!Callers :
       view[t] = IF pc[t] \in NotifCritical THEN "Exclusive" ELSE "none"
  /\ \A t, u \in notification!Callers : pc[t] \in NotifCritical /\ pc[u] \in NotifCritical => t = u
  /\ pc[Notifier] = "blocked" => want[Notifier] = notification!Wish(None, FALSE)
  /\ pc[Caller] = "destroying" => want[Caller] = notification!Wish(None, FALSE)
  /\ \A t \in notification!Waiting : pc[t] = "blocked" =>
       \/ want[t] = notification!Wish("notified", timed[t])
       \/ timed[t] /\ want[t] = notification!Wish(None, FALSE)

\* notified_yet_ is set from the start or since the notifier is about to release mutex_.
\* Whoever answers that it was not holds mutex_, so that it still is not; the destructor,
\* once it has had mutex_, comes after that release.
NotifTold ==
  /\ "notified" \in truth <=> prenotify \/ pc[Notifier] \in {"unlock", "out"}
  /\ prenotify => pc[Notifier] = "idle"
  /\ \A t \in notification!Waiting : result[t] => "notified" \in truth
  /\ \A t \in notification!Waiting :
       pc[t] = "unlock" /\ ~result[t] => timed[t] /\ "notified" \notin truth
  /\ pc[Caller] \in {"destroying", "destroyed", "gone"} => "notified" \in truth
  /\ pc[Caller] \in {"destroyed", "gone"} => prenotify \/ pc[Notifier] = "out"

NotifIInv == NotifTypes /\ NotifLocked /\ NotifTold

-----------------------------------------------------------------------------
LEMMA NotifUsage ==
  /\ None # "notified" /\ Notifier # Caller
  /\ Notifier \in notification!Callers /\ Notifier \notin notification!Waiting
  /\ Caller \in notification!Callers /\ Caller \in notification!Waiting
  /\ \A t \in notification!Callers : t = Notifier \/ t \in notification!Waiting
  /\ \A t \in notification!Waiting : t \in notification!Callers
<1>1. Notifier \in Threads \ {Caller}
  BY Zenon, RendezvousAssumption DEF Notifier
<1> QED BY Zenon, <1>1, RendezvousAssumption DEF notification!Callers, notification!Waiting

LEMMA NotifInitIInv == ASSUME notification!Init PROVE NotifIInv
<1> USE NotifUsage DEF notification!Init
<1>1. NotifTypes
  BY Zenon DEF NotifTypes, notification!lock!Modes, notification!Locations
<1>2. NotifLocked
  BY Zenon DEF NotifLocked, NotifCritical
<1>3. NotifTold
  BY Zenon DEF NotifTold
<1> QED BY Zenon, <1>1, <1>2, <1>3 DEF NotifIInv

\* What a request for the lock does, for a caller that says what it wants.
LEMMA NotifAsks ==
  ASSUME NotifIInv, NEW t \in notification!Callers, NEW wish,
         notification!lock!Ask(t), want'[t] = wish
  PROVE  /\ want' = [want EXCEPT ![t] = wish] /\ wish \in notification!lock!Wishes
         /\ UNCHANGED <<view, truth>>
<1>1. PICK w \in notification!lock!Wishes : want' = [want EXCEPT ![t] = w]
  BY Zenon DEF notification!lock!Ask
<1>2. w = wish
  BY Zenon, <1>1 DEF NotifIInv, NotifTypes
<1> QED BY Zenon, <1>1, <1>2 DEF notification!lock!Ask

\* Whoever gets the lock finds nobody else in a critical section.
LEMMA NotifGetAlone ==
  ASSUME NotifIInv, NEW t \in notification!Callers, notification!lock!Get(t),
         want[t].how = "Exclusive"
  PROVE  /\ \A u \in notification!Callers \ {t} : pc[u] \notin NotifCritical
         /\ view' = [view EXCEPT ![t] = "Exclusive"]
         /\ want' = [want EXCEPT ![t] = None]
         /\ truth' = truth
         /\ want[t].cond = None \/ want[t].cond \in truth
<1>1. \A u \in notification!Callers \ {t} : view[u] = "none"
  BY Zenon DEF notification!lock!Get, notification!lock!Compatible
<1>2. \A u \in notification!Callers \ {t} : pc[u] \notin NotifCritical
  BY Zenon, <1>1 DEF NotifIInv, NotifLocked
<1> QED BY Zenon, <1>2 DEF notification!lock!Get

LEMMA NotifyKeeps == ASSUME NotifIInv, notification!Notify PROVE NotifIInv'
<1> USE NotifUsage
<1>1. /\ pc[Notifier] = "idle" /\ ~prenotify /\ pc' = [pc EXCEPT ![Notifier] = "blocked"]
      /\ UNCHANGED <<prenotify, timed, result>>
  BY Zenon DEF notification!Notify, notification!Goto
<1>2. /\ want' = [want EXCEPT ![Notifier] = notification!Wish(None, FALSE)]
      /\ notification!Wish(None, FALSE) \in notification!lock!Wishes /\ UNCHANGED <<view, truth>>
  BY Zenon, NotifAsks DEF notification!Notify
<1>3. NotifTypes'
  BY Zenon, <1>1, <1>2 DEF NotifIInv, NotifTypes, notification!Locations
<1>4. NotifLocked'
  BY Zenon, <1>1, <1>2 DEF NotifIInv, NotifTypes, NotifLocked, NotifCritical
<1>5. NotifTold'
  BY Zenon, <1>1, <1>2 DEF NotifIInv, NotifTypes, NotifTold
<1> QED BY Zenon, <1>3, <1>4, <1>5 DEF NotifIInv

LEMMA NotifyLockedKeeps == ASSUME NotifIInv, notification!NotifyLocked PROVE NotifIInv'
<1> USE NotifUsage
<1>1. /\ pc[Notifier] = "blocked" /\ pc' = [pc EXCEPT ![Notifier] = "store"]
      /\ notification!lock!Get(Notifier) /\ UNCHANGED <<prenotify, timed, result>>
  BY Zenon DEF notification!NotifyLocked, notification!Goto
<1>2. want[Notifier].how = "Exclusive"
  BY <1>1 DEF NotifIInv, NotifLocked, notification!Wish
<1>3. /\ \A u \in notification!Callers \ {Notifier} : pc[u] \notin NotifCritical
      /\ view' = [view EXCEPT ![Notifier] = "Exclusive"]
      /\ want' = [want EXCEPT ![Notifier] = None] /\ truth' = truth
  BY Zenon, <1>1, <1>2, NotifGetAlone
<1>4. NotifTypes'
  BY Zenon, <1>1, <1>3 DEF NotifIInv, NotifTypes, notification!Locations, notification!lock!Modes
<1>5. NotifLocked'
  BY ZenonT(30), <1>1, <1>3 DEF NotifIInv, NotifTypes, NotifLocked, NotifCritical
<1>6. NotifTold'
  BY Zenon, <1>1, <1>3 DEF NotifIInv, NotifTypes, NotifTold
<1> QED BY Zenon, <1>4, <1>5, <1>6 DEF NotifIInv

\* The flag is set under the lock: no waiter is about to answer that it is not set.
LEMMA NotifyStoreKeeps == ASSUME NotifIInv, notification!NotifyStore PROVE NotifIInv'
<1> USE NotifUsage
<1>1. /\ pc[Notifier] = "store" /\ pc' = [pc EXCEPT ![Notifier] = "unlock"] /\ truth' = {"notified"}
      /\ UNCHANGED <<view, want, prenotify, timed, result>>
  BY Zenon DEF notification!NotifyStore, notification!Goto, notification!lock!Write
<1>2. \A t \in notification!Waiting : pc[t] \notin NotifCritical
  BY Zenon, <1>1 DEF NotifIInv, NotifLocked, NotifCritical
<1>3. NotifTypes'
  BY Zenon, <1>1 DEF NotifIInv, NotifTypes, notification!Locations
<1>4. NotifLocked'
  BY ZenonT(30), <1>1 DEF NotifIInv, NotifTypes, NotifLocked, NotifCritical
<1>5. NotifTold'
  BY Zenon, <1>1, <1>2 DEF NotifIInv, NotifTypes, NotifTold, NotifCritical
<1> QED BY Zenon, <1>3, <1>4, <1>5 DEF NotifIInv

LEMMA NotifWaitKeeps ==
  ASSUME NotifIInv, NEW t \in notification!Callers, NEW tmo \in BOOLEAN, notification!Wait(t, tmo)
  PROVE  NotifIInv'
<1> USE NotifUsage
<1>1. /\ t \in notification!Waiting /\ pc[t] = "idle" /\ timed' = [timed EXCEPT ![t] = tmo]
      /\ prenotify' = prenotify
  BY Zenon DEF notification!Wait
<1>2. CASE "notified" \in truth
  <2>1. /\ pc' = [pc EXCEPT ![t] = "out"] /\ result' = [result EXCEPT ![t] = TRUE]
        /\ UNCHANGED <<view, want, truth>>
    BY Zenon, <1>2 DEF notification!Wait, notification!HasBeenNotified, notification!Goto,
       notification!region
  <2>2. NotifTypes'
    BY Zenon, <1>1, <2>1 DEF NotifIInv, NotifTypes, notification!Locations
  <2>3. NotifLocked'
    BY ZenonT(30), <1>1, <2>1 DEF NotifIInv, NotifTypes, NotifLocked, NotifCritical
  <2>4. NotifTold'
    BY Zenon, <1>1, <1>2, <2>1 DEF NotifIInv, NotifTypes, NotifTold
  <2> QED BY Zenon, <2>2, <2>3, <2>4 DEF NotifIInv
<1>3. CASE "notified" \notin truth
  <2>1. pc' = [pc EXCEPT ![t] = "blocked"] /\ result' = result
    BY Zenon, <1>3 DEF notification!Wait, notification!HasBeenNotified, notification!Goto
  <2>2. notification!lock!Ask(t) /\ want'[t] = notification!Wish("notified", tmo)
    BY Zenon, <1>3 DEF notification!Wait, notification!HasBeenNotified
  <2>3. /\ want' = [want EXCEPT ![t] = notification!Wish("notified", tmo)]
        /\ notification!Wish("notified", tmo) \in notification!lock!Wishes
        /\ UNCHANGED <<view, truth>>
    BY Zenon, <2>2, NotifAsks
  <2>4. NotifTypes'
    BY Zenon, <1>1, <2>1, <2>3 DEF NotifIInv, NotifTypes, notification!Locations
  <2>5. NotifLocked'
    BY Zenon, <1>1, <2>1, <2>3 DEF NotifIInv, NotifTypes, NotifLocked, NotifCritical
  <2>6. NotifTold'
    BY Zenon, <1>1, <2>1, <2>3 DEF NotifIInv, NotifTypes, NotifTold
  <2> QED BY Zenon, <2>4, <2>5, <2>6 DEF NotifIInv
<1> QED BY Zenon, <1>2, <1>3

LEMMA NotifExpireKeeps ==
  ASSUME NotifIInv, NEW t \in notification!Callers, notification!TimeoutExpires(t)
  PROVE  NotifIInv'
<1> USE NotifUsage
<1>1. /\ t \in notification!Waiting /\ pc[t] = "blocked" /\ want[t].timed
      /\ want' = [want EXCEPT ![t].cond = None, ![t].timed = FALSE, ![t].cv = FALSE]
      /\ UNCHANGED <<view, truth, prenotify, pc, timed, result>>
  BY Zenon DEF notification!TimeoutExpires, notification!lock!Expire
<1>2. want[t] = notification!Wish("notified", timed[t]) /\ timed[t] = TRUE
  <2>1. notification!Wish(None, FALSE).timed = FALSE
    BY Zenon DEF notification!Wish
  <2>2. want[t] = notification!Wish("notified", timed[t])
    BY Zenon, <1>1, <2>1 DEF NotifIInv, NotifLocked
  <2>3. notification!Wish("notified", timed[t]).timed = timed[t]
    BY Zenon DEF notification!Wish
  <2>4. timed[t] \in BOOLEAN
    BY Zenon DEF NotifIInv, NotifTypes
  <2> QED BY Zenon, <1>1, <2>2, <2>3, <2>4
<1>3. want'[t] = notification!Wish(None, FALSE)
  BY <1>1, <1>2 DEF NotifIInv, NotifTypes, notification!Wish
<1>4. \A u \in notification!Callers \ {t} : want'[u] = want[u]
  BY Zenon, <1>1 DEF NotifIInv, NotifTypes
<1>5. want' = [want EXCEPT ![t] = notification!Wish(None, FALSE)]
  BY Zenon, <1>1, <1>3, <1>4 DEF NotifIInv, NotifTypes
<1>6. NotifTypes'
  <2>1. notification!Wish(None, FALSE) \in notification!lock!Wishes
    BY Zenon DEF notification!Wish, notification!lock!Wishes
  <2>2. want' \in [notification!Callers -> notification!lock!Wishes \cup {None}]
    BY Zenon, <1>5, <2>1 DEF NotifIInv, NotifTypes
  <2>3. UNCHANGED <<view, truth, prenotify, pc, timed, result>>
    BY Zenon, <1>1
  <2> QED BY Zenon, <2>2, <2>3 DEF NotifIInv, NotifTypes
<1>7. NotifLocked'
  BY Zenon, <1>1, <1>2, <1>3, <1>4 DEF NotifIInv, NotifLocked
<1>8. NotifTold'
  BY Zenon, <1>1 DEF NotifIInv, NotifTold
<1> QED BY Zenon, <1>6, <1>7, <1>8 DEF NotifIInv

\* A wait that ends while the flag is not set has timed out.
LEMMA NotifWaitLockedKeeps ==
  ASSUME NotifIInv, NEW t \in notification!Callers, notification!WaitLocked(t)
  PROVE  NotifIInv'
<1> USE NotifUsage
<1>1. /\ t \in notification!Waiting /\ pc[t] = "blocked" /\ notification!lock!Get(t)
      /\ result' = [result EXCEPT ![t] = ("notified" \in truth)]
      /\ pc' = [pc EXCEPT ![t] = "unlock"] /\ UNCHANGED <<prenotify, timed>>
  BY Zenon DEF notification!WaitLocked, notification!Goto, notification!HasBeenNotified
<1>2. /\ want[t].how = "Exclusive"
      /\ want[t].cond = "notified" \/ (timed[t] /\ want[t].cond = None)
  <2>1. \/ want[t] = notification!Wish("notified", timed[t])
        \/ timed[t] /\ want[t] = notification!Wish(None, FALSE)
    BY Zenon, <1>1 DEF NotifIInv, NotifLocked
  <2>2. CASE want[t] = notification!Wish("notified", timed[t])
    BY <2>2 DEF notification!Wish
  <2>3. CASE timed[t] /\ want[t] = notification!Wish(None, FALSE)
    <3>1. want[t].how = "Exclusive" /\ want[t].cond = None
      BY <2>3 DEF notification!Wish
    <3> QED BY <3>1, <2>3, Zenon
  <2> QED BY Zenon, <2>1, <2>2, <2>3
<1>3. /\ \A u \in notification!Callers \ {t} : pc[u] \notin NotifCritical
      /\ view' = [view EXCEPT ![t] = "Exclusive"] /\ want' = [want EXCEPT ![t] = None]
      /\ truth' = truth
      /\ "notified" \in truth \/ timed[t]
  BY Zenon, <1>1, <1>2, NotifGetAlone
<1>4. NotifTypes'
  BY <1>1, <1>3 DEF NotifIInv, NotifTypes, notification!Locations, notification!lock!Modes
<1>5. NotifLocked'
  BY Zenon, <1>1, <1>3 DEF NotifIInv, NotifTypes, NotifLocked, NotifCritical
<1>6. NotifTold'
  BY Zenon, <1>1, <1>3 DEF NotifIInv, NotifTypes, NotifTold
<1> QED BY Zenon, <1>4, <1>5, <1>6 DEF NotifIInv

LEMMA NotifUnlockKeeps ==
  ASSUME NotifIInv, NEW t \in notification!Callers, notification!Unlock(t)
  PROVE  NotifIInv'
<1> USE NotifUsage
<1>1. /\ pc[t] = "unlock" /\ pc' = [pc EXCEPT ![t] = "out"]
      /\ view' = [view EXCEPT ![t] = "none"]
      /\ UNCHANGED <<want, truth, prenotify, timed, result>>
  BY Zenon DEF notification!Unlock, notification!Goto, notification!lock!Leave
<1>2. NotifTypes'
  BY Zenon, <1>1 DEF NotifIInv, NotifTypes, notification!Locations, notification!lock!Modes
<1>3. NotifLocked'
  <2>1. pc'[t] = "out" /\ \A u \in notification!Callers \ {t} : pc'[u] = pc[u]
    BY Zenon, <1>1 DEF NotifIInv, NotifTypes
  <2>2. view'[t] = "none" /\ \A u \in notification!Callers \ {t} : view'[u] = view[u]
    BY Zenon, <1>1 DEF NotifIInv, NotifTypes
  <2>3. \A u \in notification!Callers :
          /\ pc'[u] \in NotifCritical => u # t /\ pc[u] \in NotifCritical
          /\ pc'[u] = "blocked" => pc[u] = "blocked"
          /\ pc'[u] = "destroying" => pc[u] = "destroying"
    BY Zenon, <2>1 DEF NotifCritical
  <2>4. \A u \in notification!Callers :
          view'[u] = IF pc'[u] \in NotifCritical THEN "Exclusive" ELSE "none"
    BY Zenon, <2>1, <2>2 DEF NotifIInv, NotifLocked, NotifCritical
  <2> QED BY Zenon, <1>1, <2>3, <2>4 DEF NotifIInv, NotifLocked
<1>4. NotifTold'
  BY Zenon, <1>1 DEF NotifIInv, NotifTypes, NotifTold
<1> QED BY Zenon, <1>2, <1>3, <1>4 DEF NotifIInv

\* The destructor: once it has the lock, Notify() has released it for good.
LEMMA NotifDestroyKeeps ==
  ASSUME NotifIInv, notification!Destroy \/ notification!DestroyLocked \/ notification!Destroyed
  PROVE  NotifIInv'
<1> USE NotifUsage
<1>1. CASE notification!Destroy
  <2>1. /\ pc[Caller] = "out" /\ result[Caller] /\ pc' = [pc EXCEPT ![Caller] = "destroying"]
        /\ UNCHANGED <<prenotify, timed, result>>
    BY Zenon, <1>1 DEF notification!Destroy, notification!MayDestroy, notification!Goto
  <2>2. /\ want' = [want EXCEPT ![Caller] = notification!Wish(None, FALSE)]
        /\ notification!Wish(None, FALSE) \in notification!lock!Wishes /\ UNCHANGED <<view, truth>>
    BY Zenon, <1>1, NotifAsks DEF notification!Destroy
  <2>3. NotifTypes'
    BY Zenon, <2>1, <2>2 DEF NotifIInv, NotifTypes, notification!Locations
  <2>4. NotifLocked'
    BY ZenonT(30), <2>1, <2>2 DEF NotifIInv, NotifTypes, NotifLocked, NotifCritical
  <2>5. NotifTold'
    BY Zenon, <2>1, <2>2 DEF NotifIInv, NotifTypes, NotifTold
  <2> QED BY Zenon, <2>3, <2>4, <2>5 DEF NotifIInv
<1>2. CASE notification!DestroyLocked
  <2>1. /\ pc[Caller] = "destroying" /\ pc' = [pc EXCEPT ![Caller] = "destroyed"]
        /\ notification!lock!Get(Caller) /\ UNCHANGED <<prenotify, timed, result>>
    BY Zenon, <1>2 DEF notification!DestroyLocked, notification!Goto
  <2>2. want[Caller].how = "Exclusive"
    BY <2>1 DEF NotifIInv, NotifLocked, notification!Wish
  <2>3. /\ \A u \in notification!Callers \ {Caller} : pc[u] \notin NotifCritical
        /\ view' = [view EXCEPT ![Caller] = "Exclusive"]
        /\ want' = [want EXCEPT ![Caller] = None] /\ truth' = truth
    BY Zenon, <2>1, <2>2, NotifGetAlone
  <2>4. NotifTypes'
    BY Zenon, <2>1, <2>3 DEF NotifIInv, NotifTypes, notification!Locations, notification!lock!Modes
  <2>5. NotifLocked'
    BY Zenon, <2>1, <2>3 DEF NotifIInv, NotifTypes, NotifLocked, NotifCritical
  <2>6. NotifTold'
    BY Zenon, <2>1, <2>3 DEF NotifIInv, NotifTypes, NotifTold, NotifCritical
  <2> QED BY Zenon, <2>4, <2>5, <2>6 DEF NotifIInv
<1>3. CASE notification!Destroyed
  <2>1. /\ pc[Caller] = "destroyed" /\ pc' = [pc EXCEPT ![Caller] = "gone"]
        /\ view' = [view EXCEPT ![Caller] = "none"]
        /\ UNCHANGED <<want, truth, prenotify, timed, result>>
    BY Zenon, <1>3 DEF notification!Destroyed, notification!Goto, notification!lock!Leave
  <2>2. NotifTypes'
    BY Zenon, <2>1 DEF NotifIInv, NotifTypes, notification!Locations, notification!lock!Modes
  <2>3. NotifLocked'
    BY Zenon, <2>1 DEF NotifIInv, NotifTypes, NotifLocked, NotifCritical
  <2>4. NotifTold'
    BY Zenon, <2>1 DEF NotifIInv, NotifTypes, NotifTold
  <2> QED BY Zenon, <2>2, <2>3, <2>4 DEF NotifIInv
<1> QED BY Zenon, <1>1, <1>2, <1>3

LEMMA NotifNextIInv == ASSUME NotifIInv, [notification!Next]_notification!vars PROVE NotifIInv'
<1>1. ASSUME NEW t \in notification!Callers, notification!Step(t) PROVE NotifIInv'
  BY Zenon, <1>1, NotifyKeeps, NotifyLockedKeeps, NotifyStoreKeeps, NotifWaitKeeps, NotifExpireKeeps,
     NotifWaitLockedKeeps, NotifUnlockKeeps, NotifDestroyKeeps DEF notification!Step
<1>2. CASE UNCHANGED notification!vars
  <2>1. UNCHANGED <<view, want, truth, prenotify, pc, timed, result>>
    BY Zenon, <1>2 DEF notification!vars, notification!region
  <2> QED BY Zenon, <2>1 DEF NotifIInv, NotifTypes, NotifLocked, NotifTold
<1> QED BY Zenon, <1>1, <1>2 DEF notification!Next

\* When the destructor has returned Notify() has, or was never called.
LEMMA NotifSafe == NotifIInv => notification!SafeToDestroy
BY Zenon DEF NotifIInv, NotifTold, notification!SafeToDestroy

\* A wait answers as the flag is: true only after a notification, false only after a timeout
\* and while there was none.
LEMMA NotifHonest == NotifIInv => notification!NoFalseAlarm /\ notification!HonestTimeout
BY Zenon DEF NotifIInv, NotifTold, notification!NoFalseAlarm, notification!HonestTimeout,
       notification!HasBeenNotified

\* A Notification is correct by itself: its destructor waits for Notify() to return, and a
\* wait answers as the flag is.
THEOREM NotificationCorrect == 
  notification!Spec =>
    [](notification!SafeToDestroy /\ notification!NoFalseAlarm /\ notification!HonestTimeout)
<1>1. notification!Init => NotifIInv
  BY Zenon, NotifInitIInv
<1>2. NotifIInv /\ [notification!Next]_notification!vars => NotifIInv'
  BY NotifNextIInv
<1> QED BY <1>1, <1>2, NotifSafe, NotifHonest, PTL DEF notification!Spec
=============================================================================
