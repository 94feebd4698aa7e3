------------------------- MODULE ThreadPool_proofs -------------------------
(***************************************************************************)
(* A DelegateSimpleThreadPool runs each piece of work at most once, and    *)
(* JoinAll() returns when what was added before it is done, for any number *)
(* of workers, of pieces and of rounds.                                    *)
(***************************************************************************)
EXTENDS ThreadPool, FiniteSetTheorems, TLAPS

\* There is a worker, and the workers are different threads.
Usage ==
  /\ Workers # <<>> /\ Workers \in Seq({Workers[i] : i \in DOMAIN Workers})
  /\ \A i, j \in DOMAIN Workers : Workers[i] = Workers[j] => i = j
  /\ MaxWork \in Nat


\* The workers that have still to take a nullptr, and where the nullptrs are.
Active == {w \in Ids : at[w] \notin {"none", "exited"}}
Zeros(d) == {i \in 1..Len(d) : d[i] = 0}
Quits == Zeros(delegates)
Queued(n) == \E i \in 1..Len(delegates) : delegates[i] = n
Running(n) == \E w \in Ids : at[w] = "run" /\ work[w] = n

Types ==
  /\ added \in 0..MaxWork /\ outstanding \in 0..added
  /\ delegates \in Seq(0..added)
  /\ dry \in BOOLEAN /\ (delegates # <<>> => dry)
  /\ ~zero => ~Aborted /\ (dry => delegates # <<>>)
  /\ owner \in {"idle", "start", "started", "join"}
  /\ threads \in 0..Len(Workers)
  /\ at \in [Ids -> {"none", "main", "wait", "take", "run", "exited", "abort"}]
  /\ work \in [Ids -> 0..added]
  /\ runs \in [1..MaxWork -> {0, 1}]

\* Which threads there are at each place of the owner.  While JoinAll() joins them there are
\* as many nullptrs as workers that have still to take one, and before there is none.
Phase ==
  /\ owner = "idle" => threads = 0 /\ \A w \in Ids : at[w] = "none"
  /\ owner = "start" =>
       /\ threads < Len(Workers)
       /\ \A i \in 1..Len(Workers) : /\ i <= threads => at[Workers[i]] # "none"
                                     /\ i > threads + 1 => at[Workers[i]] = "none"
  /\ owner = "started" => \A w \in Ids : at[w] # "none"
  /\ owner # "join" => Quits = {} /\ \A w \in Ids : at[w] # "exited"
  /\ owner = "join" =>
       /\ threads < Len(Workers)
       /\ \A i \in 1..Len(Workers) : at[Workers[i]] = "none" <=> i <= threads
       /\ Cardinality(Quits) = Cardinality(Active)

\* A piece of work that was added is queued, or being run by one worker, or was run once.
Once ==
  /\ \A i, j \in 1..Len(delegates) : delegates[i] # 0 /\ delegates[i] = delegates[j] => i = j
  /\ \A v, w \in Ids : at[v] = "run" /\ at[w] = "run" /\ work[v] = work[w] => v = w
  /\ \A w \in Ids : at[w] = "run" => work[w] # 0 /\ ~Queued(work[w])
  /\ \A n \in 1..MaxWork : runs[n] = 1 <=> n <= added /\ ~Queued(n) /\ ~Running(n)

\* What JoinAll() found is in front of its nullptrs: when one of them has been taken, the
\* rest of it is being run or done, and when all have been, it is done.
Served ==
  /\ owner # "join" => \A n \in 1..outstanding : runs[n] = 1
  /\ owner = "join" =>
       /\ \A i, j \in 1..Len(delegates) :
            delegates[i] = 0 /\ delegates[j] \in 1..outstanding => j < i
       /\ (\E w \in Ids : at[w] \in {"none", "exited"}) =>
            \A j \in 1..Len(delegates) : delegates[j] \notin 1..outstanding

IInv == Types /\ Phase /\ Once /\ Served
-----------------------------------------------------------------------------
\* The pool has at least one worker and its workers are different threads.
LEMMA WorkersKnown ==
  ASSUME Usage
  PROVE
  /\ Len(Workers) \in Nat \ {0} /\ MaxWork \in Nat
  /\ \A i \in 1..Len(Workers) : Workers[i] \in Ids
  /\ \A w \in Ids : \E i \in 1..Len(Workers) : w = Workers[i]
  /\ \A i, j \in 1..Len(Workers) : Workers[i] = Workers[j] => i = j
<1>1. Ids = {Workers[i] : i \in DOMAIN Workers}
  BY Zenon DEF Ids, Range
<1>2. Workers \in Seq(Ids) /\ Workers # <<>>
  BY Zenon, <1>1 DEF Usage
<1>3. DOMAIN Workers = 1..Len(Workers) /\ Len(Workers) \in Nat \ {0}
  BY <1>2
<1> QED BY Zenon, <1>1, <1>3 DEF Usage

LEMMA Size ==
  ASSUME Usage PROVE IsFiniteSet(Ids) /\ Cardinality(Ids) = Len(Workers)
<1> DEFINE N == Len(Workers)
           f == [i \in 1..N |-> Workers[i]]
<1>1. N \in Nat \ {0}
  BY Zenon, WorkersKnown
<1>2. IsFiniteSet(1..N) /\ Cardinality(1..N) = N
  <2> HIDE DEF N
  <2> QED BY <1>1, FS_Interval
<1>3. f \in Bijection(1..N, Ids)
  <2>1. f \in [1..N -> Ids]
    BY Zenon, WorkersKnown
  <2>2. \A i, j \in 1..N : f[i] = f[j] => i = j
    BY Zenon, WorkersKnown
  <2>3. \A w \in Ids : \E i \in 1..N : f[i] = w
    BY Zenon, WorkersKnown
  <2> HIDE DEF f, N
  <2> QED BY Zenon, <2>1, <2>2, <2>3 DEF Bijection, Injection, Surjection, IsInjective
<1>4. ExistsBijection(1..N, Ids)
  BY Zenon, <1>3 DEF ExistsBijection
<1> QED BY Zenon, <1>2, <1>4, FS_Bijection

LEMMA ActiveFinite ==
  ASSUME Usage PROVE IsFiniteSet(Active) /\ Cardinality(Active) \in Nat
<1>1. Active \in SUBSET Ids
  BY Zenon DEF Active
<1> QED BY Zenon, <1>1, Size, FS_Subset, FS_CardinalityType

LEMMA ZerosFinite ==
  ASSUME NEW d \in Seq(Nat)
  PROVE  IsFiniteSet(Zeros(d)) /\ Cardinality(Zeros(d)) \in Nat
<1>1. Zeros(d) \in SUBSET (1..Len(d)) /\ Len(d) \in Nat
  BY DEF Zeros
<1>2. IsFiniteSet(1..Len(d))
  BY <1>1, FS_Interval
<1> QED BY Zenon, <1>1, <1>2, FS_Subset, FS_CardinalityType

LEMMA TailOf ==
  ASSUME NEW S, NEW d \in Seq(S), d # <<>>
  PROVE  /\ Len(d) \in Nat \ {0} /\ d[1] \in S
         /\ Tail(d) \in Seq(S) /\ Len(Tail(d)) = Len(d) - 1
         /\ \A i \in 1..Len(Tail(d)) : Tail(d)[i] = d[i + 1]
OBVIOUS

LEMMA JoinOf ==
  ASSUME NEW S, NEW d \in Seq(S), NEW e \in Seq(S)
  PROVE  /\ d \o e \in Seq(S) /\ Len(d \o e) = Len(d) + Len(e)
         /\ \A i \in 1..Len(d) : (d \o e)[i] = d[i]
         /\ \A i \in 1..Len(e) : (d \o e)[Len(d) + i] = e[i]
OBVIOUS

\* Taking the first delegate takes at most one nullptr.
LEMMA ZerosTail ==
  ASSUME NEW d \in Seq(Nat), d # <<>>
  PROVE  Cardinality(Zeros(Tail(d))) = IF d[1] = 0 THEN Cardinality(Zeros(d)) - 1
                                                   ELSE Cardinality(Zeros(d))
<1> DEFINE Z == Zeros(Tail(d))
           R == Zeros(d) \ {1}
           f == [i \in Z |-> i + 1]
<1>1. /\ Len(d) \in Nat \ {0} /\ Tail(d) \in Seq(Nat) /\ Len(Tail(d)) = Len(d) - 1
      /\ \A i \in 1..Len(Tail(d)) : Tail(d)[i] = d[i + 1]
  BY Zenon, TailOf
<1>2. \A i : i \in Z <=> i \in Nat \ {0} /\ i + 1 \in R
  BY <1>1 DEF Zeros
<1>3. \A i \in R : i \in Nat \ {0, 1}
  BY <1>1 DEF Zeros
<1>4. IsFiniteSet(Z) /\ IsFiniteSet(Zeros(d)) /\ Cardinality(Zeros(d)) \in Nat
  BY Zenon, <1>1, ZerosFinite
<1>5. 1 \in Zeros(d) <=> d[1] = 0
  BY <1>1 DEF Zeros
<1> HIDE DEF Z, R
<1>6. f \in Bijection(Z, R)
  <2>1. f \in [Z -> R]
    BY Zenon, <1>2
  <2>2. \A i, j \in Z : f[i] = f[j] => i = j
    BY <1>2
  <2>3. \A k \in R : \E i \in Z : f[i] = k
    <3> TAKE k \in R
    <3>1. k - 1 \in Z
      BY <1>2, <1>3
    <3>2. f[k - 1] = k
      BY <1>3, <3>1
    <3> QED BY Zenon, <3>1, <3>2
  <2> HIDE DEF f
  <2> QED BY Zenon, <2>1, <2>2, <2>3 DEF Bijection, Injection, Surjection, IsInjective
<1>7. ExistsBijection(Z, R)
  BY Zenon, <1>6 DEF ExistsBijection
<1>8. Cardinality(R) = Cardinality(Z)
  BY Zenon, <1>4, <1>7, FS_Bijection
<1>9. Cardinality(R) = IF 1 \in Zeros(d) THEN Cardinality(Zeros(d)) - 1 ELSE Cardinality(Zeros(d))
  BY Zenon, <1>4, FS_RemoveElement DEF R
<1> QED BY Zenon, <1>5, <1>8, <1>9 DEF Z
-----------------------------------------------------------------------------
LEMMA InitIInv == ASSUME Usage, Init PROVE IInv
<1> USE WorkersKnown DEF Init
<1>1. Len(delegates) = 0
  BY Zenon
<1>2. Types
  <2>1. delegates \in Seq(0..added)
    OBVIOUS
  <2>2. dry \in BOOLEAN /\ dry = FALSE /\ delegates = <<>>
    BY Zenon
  <2>3. ~Aborted
    BY DEF Aborted
  <2> QED BY <2>1, <2>2, <2>3 DEF Types, nullptr
<1>3. Quits = {}
  BY <1>1 DEF Quits, Zeros
<1>4. Phase
  BY Zenon, <1>3 DEF Phase
<1>5. Once
  BY <1>1 DEF Once, Queued, Running
<1>6. Served
  BY DEF Served
<1> QED BY Zenon, <1>2, <1>4, <1>5, <1>6 DEF IInv

\* New pieces have new numbers and are queued behind everything else.
LEMMA AddKeeps ==
  ASSUME Usage, IInv, NEW n \in 0..2, AddPieces(n),
         UNCHANGED <<owner, threads, at, work, outstanding, runs>>
  PROVE  IInv'
<1> DEFINE pushed == [i \in 1..n |-> added + i]
           L == Len(delegates)
<1>1. added \in Nat /\ added' = added + n /\ added' <= MaxWork /\ n \in Nat
  BY WorkersKnown DEF AddPieces, IInv, Types
<1>2. delegates' = delegates \o pushed /\ dry' = TRUE
  BY Zenon DEF AddPieces, AddWork
<1>3. pushed \in Seq(0..added') /\ Len(pushed) = n /\ \A i \in 1..n : pushed[i] = added + i
  BY <1>1
<1>4. delegates \in Seq(0..added') /\ L \in Nat /\ \A i \in 1..L : delegates[i] \in 0..added
  BY <1>1 DEF IInv, Types
<1> HIDE DEF pushed
<1>5. /\ delegates' \in Seq(0..added') /\ Len(delegates') = L + n
      /\ \A i \in 1..L : delegates'[i] = delegates[i]
      /\ \A i \in 1..n : delegates'[L + i] = added + i
  BY <1>2, <1>3, <1>4, JoinOf
<1> HIDE DEF L
<1>6. \A i \in 1..(L + n) : i \in 1..L \/ \E k \in 1..n : i = L + k
  <2> TAKE i \in 1..(L + n)
  <2>1. i \notin 1..L => i - L \in 1..n /\ i = L + (i - L)
    BY <1>1, <1>4
  <2> QED BY Zenon, <2>1
<1>7. \A i \in 1..(L + n) : i \notin 1..L =>
        delegates'[i] > added /\ delegates'[i] = added + (i - L)
  <2> SUFFICES ASSUME NEW i \in 1..(L + n), i \notin 1..L
               PROVE  delegates'[i] > added /\ delegates'[i] = added + (i - L)
    BY Zenon
  <2>1. PICK k \in 1..n : i = L + k
    BY Zenon, <1>6
  <2>2. delegates'[i] = added + k
    BY Zenon, <1>5, <2>1
  <2> QED BY <1>1, <1>4, <2>1, <2>2
<1>8. Quits' = Quits
  <2>1. \A i \in 1..(L + n) : delegates'[i] = 0 => i \in 1..L
    BY <1>1, <1>7
  <2>2. 1..L \subseteq 1..(L + n)
    BY <1>1, <1>4
  <2>3. Quits' = {i \in 1..(L + n) : delegates'[i] = 0}
    BY Zenon, <1>5 DEF Quits, Zeros
  <2>4. Quits = {i \in 1..L : delegates[i] = 0}
    BY Zenon DEF Quits, Zeros, L
  <2> QED BY Zenon, <1>5, <2>1, <2>2, <2>3, <2>4
<1>9. \A m \in Nat : Queued(m)' <=> Queued(m) \/ m \in added + 1 .. added'
  <2> TAKE m \in Nat
  <2>1. ASSUME Queued(m)' PROVE Queued(m) \/ m \in added + 1 .. added'
    <3>1. PICK i \in 1..(L + n) : delegates'[i] = m
      BY Zenon, <1>5, <2>1 DEF Queued
    <3>2. CASE i \in 1..L
      BY Zenon, <1>5, <3>1, <3>2 DEF Queued, L
    <3>3. CASE i \notin 1..L
      BY <1>1, <1>4, <1>7, <3>1, <3>3
    <3> QED BY Zenon, <3>2, <3>3
  <2>2. ASSUME Queued(m) PROVE Queued(m)'
    BY <1>1, <1>4, <1>5, <2>2 DEF Queued, L
  <2>3. ASSUME m \in added + 1 .. added' PROVE Queued(m)'
    <3>1. m - added \in 1..n /\ delegates'[L + (m - added)] = m
      BY <1>1, <1>5, <2>3
    <3>2. L + (m - added) \in 1..Len(delegates')
      BY <1>1, <1>4, <1>5, <3>1
    <3> QED BY Zenon, <3>1, <3>2 DEF Queued
  <2> QED BY Zenon, <2>1, <2>2, <2>3
<1>10. \A m : Running(m)' <=> Running(m)
  BY Zenon DEF Running
<1>11. Types'
  <2>1. n # 0 => delegates' # <<>>
    BY <1>1, <1>4, <1>5
  <2>5. zero' = (zero \/ n = 0)
    BY Zenon DEF AddPieces
  <2>6. Aborted' <=> Aborted
    BY Zenon DEF Aborted
  <2>7. ~zero' => ~Aborted' /\ (dry' => delegates' # <<>>)
    BY Zenon, <2>1, <2>5, <2>6 DEF IInv, Types
  <2>2. \A w \in Ids : work[w] \in 0..added'
    BY <1>1 DEF IInv, Types
  <2>3. added' \in 0..MaxWork /\ outstanding' \in 0..added'
    BY <1>1, WorkersKnown DEF IInv, Types
  <2>4. work' \in [Ids -> 0..added']
    BY Zenon, <2>2 DEF IInv, Types
  <2> QED BY Zenon, <1>2, <1>5, <2>3, <2>4, <2>7 DEF IInv, Types
<1>12. Phase'
  <2>1. Active' = Active
    BY Zenon DEF Active
  <2> QED BY Zenon, <1>8, <2>1 DEF IInv, Phase
<1>13. Once'
  <2>1. \A i, j \in 1..Len(delegates') :
          delegates'[i] # 0 /\ delegates'[i] = delegates'[j] => i = j
    <3> TAKE i, j \in 1..Len(delegates')
    <3>1. CASE i \in 1..L /\ j \in 1..L
      BY Zenon, <1>5, <3>1 DEF IInv, Once, L
    <3>2. CASE i \in 1..L /\ j \notin 1..L
      <4>1. delegates'[i] \in 0..added /\ delegates'[j] > added
        <5>1. delegates'[i] \in 0..added
          BY Zenon, <1>4, <1>5, <3>2
        <5>2. delegates'[j] > added
          BY Zenon, <1>5, <1>7, <3>2
        <5> QED BY Zenon, <5>1, <5>2
      <4> QED BY <1>1, <4>1
    <3>3. CASE i \notin 1..L /\ j \in 1..L
      <4>1. delegates'[j] \in 0..added /\ delegates'[i] > added
        <5>1. delegates'[j] \in 0..added
          BY Zenon, <1>4, <1>5, <3>3
        <5>2. delegates'[i] > added
          BY Zenon, <1>5, <1>7, <3>3
        <5> QED BY Zenon, <5>1, <5>2
      <4> QED BY <1>1, <4>1
    <3>4. CASE i \notin 1..L /\ j \notin 1..L
      BY <1>1, <1>4, <1>5, <1>7, <3>4
    <3> QED BY Zenon, <3>1, <3>2, <3>3, <3>4
  <2>2. \A w \in Ids : at[w] = "run" => work[w] # 0 /\ ~Queued(work[w])'
    BY <1>1, <1>9 DEF IInv, Types, Once
  <2>3. \A m \in 1..MaxWork : runs[m] = 1 <=> m <= added' /\ ~Queued(m)' /\ ~Running(m)'
    BY <1>1, <1>9, <1>10 DEF IInv, Once
  <2> QED BY Zenon, <2>1, <2>2, <2>3 DEF IInv, Once
<1>14. Served'
  <2>1. \A i \in 1..Len(delegates') : i \notin 1..L => delegates'[i] \notin 0..outstanding
    BY <1>1, <1>5, <1>7 DEF IInv, Types
  <2>2. \A i \in 1..Len(delegates') : delegates'[i] \in 0..outstanding =>
          i \in 1..L /\ delegates'[i] = delegates[i]
    BY Zenon, <1>5, <2>1
  <2>3. outstanding \in Nat
    BY DEF IInv, Types
  <2>4. owner = "join" => \A i, j \in 1..Len(delegates') :
          delegates'[i] = 0 /\ delegates'[j] \in 1..outstanding => j < i
    <3> SUFFICES ASSUME owner = "join", NEW i \in 1..Len(delegates'),
                        NEW j \in 1..Len(delegates'),
                        delegates'[i] = 0, delegates'[j] \in 1..outstanding
                 PROVE  j < i
      BY Zenon
    <3>1. i \in 1..L /\ delegates[i] = 0 /\ j \in 1..L /\ delegates[j] \in 1..outstanding
      BY <2>2, <2>3
    <3> QED BY Zenon, <3>1 DEF IInv, Served, L
  <2>5. \A j \in 1..Len(delegates') : delegates'[j] \in 1..outstanding =>
          j \in 1..L /\ delegates[j] \in 1..outstanding
    BY <2>2, <2>3
  <2> QED BY Zenon, <2>4, <2>5 DEF IInv, Served, L
<1> QED BY Zenon, <1>11, <1>12, <1>13, <1>14 DEF IInv
-----------------------------------------------------------------------------
\* What depends on the queue and on who runs what is as it was.
LEMMA SameQueue ==
  ASSUME delegates' = delegates
  PROVE  Quits' = Quits /\ \A n : Queued(n)' <=> Queued(n)
BY Zenon DEF Quits, Zeros, Queued

LEMMA StartKeeps == ASSUME Usage, IInv, Start PROVE IInv'
<1>1. /\ owner = "idle" /\ owner' = "start"
      /\ UNCHANGED <<delegates, dry, threads, at, work, added, outstanding, zero, runs>>
  BY Zenon DEF Start
<1>2. Quits' = Quits /\ \A n : Queued(n)' <=> Queued(n)
  BY Zenon, <1>1, SameQueue
<1>3. \A n : Running(n)' <=> Running(n)
  BY Zenon, <1>1 DEF Running
<1>4. Types'
  BY Zenon, <1>1 DEF IInv, Types, Aborted
<1>5. Phase'
  <2>1. threads = 0 /\ \A i \in 1..Len(Workers) : at[Workers[i]] = "none"
    BY Zenon, <1>1, WorkersKnown DEF IInv, Phase
  <2> QED BY <1>1, <1>2, <2>1, WorkersKnown DEF IInv, Phase
<1>6. Once'
  BY Zenon, <1>1, <1>2, <1>3 DEF IInv, Once
<1>7. Served'
  BY Zenon, <1>1 DEF IInv, Served
<1> QED BY Zenon, <1>4, <1>5, <1>6, <1>7 DEF IInv

LEMMA CreateKeeps == ASSUME Usage, IInv, Create PROVE IInv'
<1> DEFINE w == Workers[threads + 1]
<1>1. /\ owner = "start" /\ at[w] = "none" /\ at' = [at EXCEPT ![w] = "main"]
      /\ UNCHANGED <<delegates, dry, owner, threads, work, added, outstanding, zero, runs>>
  BY Zenon DEF Create, Goto
<1>2. Quits' = Quits /\ \A n : Queued(n)' <=> Queued(n)
  BY Zenon, <1>1, SameQueue
<1>3. threads \in Nat /\ threads + 1 \in 1..Len(Workers) /\ w \in Ids
  BY <1>1, WorkersKnown DEF IInv, Types, Phase
<1> HIDE DEF w
<1>4. /\ at'[w] = "main"
      /\ \A v \in Ids \ {w} : at'[v] = at[v]
  BY Zenon, <1>1, <1>3 DEF IInv, Types
<1>5. \A n : Running(n)' <=> Running(n)
  BY Zenon, <1>1, <1>4 DEF Running
<1>6. Types'
  <2>1. Aborted' => Aborted
    BY Zenon, <1>4 DEF Aborted
  <2> QED BY Zenon, <1>1, <2>1 DEF IInv, Types
<1>7. Phase'
  <2>1. \A i \in 1..Len(Workers) : Workers[i] = w <=> i = threads + 1
    BY Zenon, <1>3, WorkersKnown DEF w
  <2>2. \A i \in 1..Len(Workers) : /\ i <= threads => at'[Workers[i]] # "none"
                                   /\ i > threads + 1 => at'[Workers[i]] = "none"
    BY <1>1, <1>3, <1>4, <2>1, WorkersKnown DEF IInv, Phase
  <2>3. \A v \in Ids : at'[v] # "exited"
    BY Zenon, <1>1, <1>4 DEF IInv, Phase
  <2> QED BY Zenon, <1>1, <1>2, <2>2, <2>3 DEF IInv, Phase
<1>8. Once'
  BY Zenon, <1>1, <1>2, <1>4, <1>5 DEF IInv, Once
<1>9. Served'
  BY Zenon, <1>1 DEF IInv, Served
<1> QED BY Zenon, <1>6, <1>7, <1>8, <1>9 DEF IInv

LEMMA StartedKeeps == ASSUME Usage, IInv, Started PROVE IInv'
<1>1. /\ owner = "start" /\ at[Workers[threads + 1]] # "none" /\ threads' = threads + 1
      /\ owner' = IF threads' = Len(Workers) THEN "started" ELSE "start"
      /\ UNCHANGED <<delegates, dry, at, work, added, outstanding, zero, runs>>
  BY Zenon DEF Started
<1>2. Quits' = Quits /\ \A n : Queued(n)' <=> Queued(n)
  BY Zenon, <1>1, SameQueue
<1>3. threads \in Nat /\ threads + 1 <= Len(Workers) /\ Len(Workers) \in Nat
  BY <1>1, WorkersKnown DEF IInv, Types, Phase
<1>4. \A n : Running(n)' <=> Running(n)
  BY Zenon, <1>1 DEF Running
<1>5. Types'
  <2>1. Aborted' => Aborted
    BY Zenon, <1>1 DEF Aborted
  <2> QED BY <1>1, <1>3, <2>1 DEF IInv, Types
<1>6. Phase'
  <2>1. \A i \in 1..Len(Workers) : /\ i <= threads' => at[Workers[i]] # "none"
                                   /\ i > threads' + 1 => at[Workers[i]] = "none"
    BY <1>1, <1>3 DEF IInv, Phase
  <2>2. threads' = Len(Workers) => \A w \in Ids : at[w] # "none"
    <3> SUFFICES ASSUME threads' = Len(Workers), NEW w \in Ids PROVE at[w] # "none"
      BY Zenon
    <3>1. PICK i \in 1..Len(Workers) : w = Workers[i]
      BY Zenon, WorkersKnown
    <3> QED BY <1>3, <2>1, <3>1
  <2> QED BY <1>1, <1>2, <1>3, <2>1, <2>2 DEF IInv, Phase
<1>7. Once'
  BY Zenon, <1>1, <1>2, <1>4 DEF IInv, Once
<1>8. Served'
  BY Zenon, <1>1 DEF IInv, Served
<1> QED BY Zenon, <1>5, <1>6, <1>7, <1>8 DEF IInv

\* As many nullptrs as workers are queued, behind what there is.
LEMMA JoinAllKeeps == ASSUME Usage, IInv, JoinAll PROVE IInv'
<1> DEFINE N == Len(Workers)
           pushed == [i \in 1..N |-> 0]
           L == Len(delegates)
<1>1. /\ owner = "started" /\ owner' = "join" /\ threads' = 0 /\ outstanding' = added
      /\ delegates' = delegates \o pushed /\ dry' = TRUE
      /\ UNCHANGED <<at, work, added, zero, runs>>
  BY Zenon DEF JoinAll, AddWork, nullptr
<1>2. N \in Nat \ {0} /\ added \in Nat
  BY WorkersKnown DEF IInv, Types
<1>3. pushed \in Seq(0..added) /\ Len(pushed) = N /\ \A i \in 1..N : pushed[i] = 0
  BY <1>2
<1>4. delegates \in Seq(0..added) /\ L \in Nat
  BY DEF IInv, Types
<1> HIDE DEF N, pushed, L
<1>5. /\ delegates' \in Seq(0..added) /\ Len(delegates') = L + N
      /\ \A i \in 1..L : delegates'[i] = delegates[i]
      /\ \A i \in 1..N : delegates'[L + i] = 0
  <2> DEFINE S == 0..added
  <2>0. delegates \in Seq(S) /\ pushed \in Seq(S)
    BY Zenon, <1>3, <1>4
  <2> HIDE DEF S
  <2>1. /\ delegates \o pushed \in Seq(S)
        /\ Len(delegates \o pushed) = Len(delegates) + Len(pushed)
        /\ \A i \in 1..Len(delegates) : (delegates \o pushed)[i] = delegates[i]
        /\ \A i \in 1..Len(pushed) : (delegates \o pushed)[Len(delegates) + i] = pushed[i]
    BY <2>0, JoinOf
  <2>2. delegates' = delegates \o pushed
    BY Zenon, <1>1
  <2> QED BY Zenon, <1>3, <2>1, <2>2 DEF L, S
<1>6. \A i \in 1..L : delegates[i] # 0
  BY Zenon, <1>1 DEF IInv, Phase, Quits, Zeros, L
<1>7. \A i \in 1..(L + N) : i \notin 1..L => delegates'[i] = 0
  <2> SUFFICES ASSUME NEW i \in 1..(L + N), i \notin 1..L PROVE delegates'[i] = 0
    BY Zenon
  <2>1. i - L \in 1..N /\ i = L + (i - L)
    BY <1>2, <1>4
  <2> QED BY Zenon, <1>5, <2>1
<1>8. \A n \in Nat \ {0} : Queued(n)' <=> Queued(n)
  <2> TAKE n \in Nat \ {0}
  <2>1. ASSUME Queued(n)' PROVE Queued(n)
    <3>1. PICK i \in 1..(L + N) : delegates'[i] = n
      BY Zenon, <1>5, <2>1 DEF Queued
    <3>2. i \in 1..L
      BY Zenon, <1>7, <3>1
    <3> QED BY Zenon, <1>5, <3>1, <3>2 DEF Queued, L
  <2>2. ASSUME Queued(n) PROVE Queued(n)'
    BY <1>2, <1>4, <1>5, <2>2 DEF Queued, L
  <2> QED BY Zenon, <2>1, <2>2
<1>9. \A n : Running(n)' <=> Running(n)
  BY Zenon, <1>1 DEF Running
<1>10. Types'
  <2>1. delegates' # <<>>
    BY <1>2, <1>4, <1>5
  <2>2. Aborted' => Aborted
    BY Zenon, <1>1 DEF Aborted
  <2> QED BY <1>1, <1>2, <1>5, <2>1, <2>2, WorkersKnown DEF IInv, Types
<1>11. Phase'
  <2>1. Quits' = (L + 1)..(L + N)
    <3>1. Quits' = {i \in 1..(L + N) : delegates'[i] = 0}
      BY Zenon, <1>5 DEF Quits, Zeros
    <3>2. \A i \in 1..(L + N) : delegates'[i] = 0 <=> i \notin 1..L
      BY Zenon, <1>5, <1>6, <1>7
    <3> QED BY <1>2, <1>4, <3>1, <3>2
  <2>2. Cardinality(Quits') = N
    BY <1>2, <1>4, <2>1, FS_Interval
  <2>3. Active' = Ids
    BY Zenon, <1>1 DEF Active, IInv, Phase
  <2>4. Cardinality(Quits)' = Cardinality(Active)'
    BY Zenon, <2>2, <2>3, Size DEF N
  <2>5. \A i \in 1..Len(Workers) : at[Workers[i]] # "none"
    BY Zenon, <1>1, WorkersKnown DEF IInv, Phase
  <2> QED BY <1>1, <1>2, <2>4, <2>5 DEF Phase, N
<1>12. Once'
  <2>1. \A i \in 1..(L + N) : delegates'[i] # 0 => i \in 1..L
    BY Zenon, <1>7
  <2>2. \A i, j \in 1..Len(delegates') :
          delegates'[i] # 0 /\ delegates'[i] = delegates'[j] => i = j
    BY Zenon, <1>5, <2>1 DEF IInv, Once, L
  <2>3. \A w \in Ids : at[w] = "run" => work[w] \in Nat \ {0}
    BY DEF IInv, Types, Once
  <2> QED BY <1>1, <1>8, <1>9, <2>2, <2>3 DEF IInv, Once
<1>13. Served'
  <2>1. \A i \in 1..Len(delegates') : delegates'[i] = 0 => i \notin 1..L
    BY Zenon, <1>5, <1>6
  <2>2. \A j \in 1..Len(delegates') : delegates'[j] \in 1..added => j \in 1..L
    BY <1>2, <1>5, <1>7
  <2>3. \A i, j \in 1..Len(delegates') :
          delegates'[i] = 0 /\ delegates'[j] \in 1..added => j < i
    BY <1>2, <1>4, <1>5, <2>1, <2>2
  <2>4. \A w \in Ids : at[w] \notin {"none", "exited"}
    BY Zenon, <1>1 DEF IInv, Phase
  <2> QED BY Zenon, <1>1, <2>3, <2>4 DEF Served
<1> QED BY Zenon, <1>10, <1>11, <1>12, <1>13 DEF IInv

\* A worker that is joined has exited; after the last one, all that JoinAll() found is done,
\* and no nullptr is left.
LEMMA JoinKeeps == ASSUME Usage, IInv, Join PROVE IInv'
<1> DEFINE w == Workers[threads + 1]
           N == Len(Workers)
<1>1. /\ owner = "join" /\ at[w] = "exited" /\ at' = [at EXCEPT ![w] = "none"]
      /\ threads' = IF threads + 1 = N THEN 0 ELSE threads + 1
      /\ owner' = IF threads + 1 = N THEN "idle" ELSE "join"
      /\ UNCHANGED <<delegates, dry, work, added, outstanding, zero, runs>>
  BY Zenon DEF Join, Goto
<1>2. Quits' = Quits /\ \A n : Queued(n)' <=> Queued(n)
  BY Zenon, <1>1, SameQueue
<1>3. N \in Nat /\ threads \in Nat /\ threads + 1 \in 1..N /\ w \in Ids
  BY <1>1, WorkersKnown DEF IInv, Types, Phase
<1>4. \A i \in 1..N : Workers[i] = w <=> i = threads + 1
  BY Zenon, <1>3, WorkersKnown
<1> HIDE DEF w, N
<1>5. /\ at'[w] = "none"
      /\ \A v \in Ids \ {w} : at'[v] = at[v]
  BY Zenon, <1>1, <1>3 DEF IInv, Types
<1>6. \A n : Running(n)' <=> Running(n)
  BY Zenon, <1>1, <1>5 DEF Running
<1>7. Active' = Active
  BY Zenon, <1>1, <1>5 DEF Active
<1>8. \A i \in 1..N : at'[Workers[i]] = "none" <=> i <= threads + 1
  BY <1>1, <1>3, <1>4, <1>5, WorkersKnown DEF IInv, Phase, N
<1>9. threads + 1 = N => \A v \in Ids : at'[v] = "none"
  <2> SUFFICES ASSUME threads + 1 = N, NEW v \in Ids PROVE at'[v] = "none"
    BY Zenon
  <2>1. PICK i \in 1..N : v = Workers[i]
    BY Zenon, WorkersKnown DEF N
  <2> QED BY <1>3, <1>8, <2>1
<1>10. threads + 1 = N => Quits = {}
  <2> SUFFICES ASSUME threads + 1 = N PROVE Quits = {}
    BY Zenon
  <2>1. Active = {}
    BY Zenon, <1>7, <1>9 DEF Active
  <2>2. Cardinality(Quits) = 0
    BY Zenon, <1>1, <2>1, FS_EmptySet DEF IInv, Phase
  <2>3. delegates \in Seq(Nat)
    BY DEF IInv, Types
  <2> QED BY Zenon, <2>2, <2>3, ZerosFinite, FS_EmptySet DEF Quits
<1>11. Types'
  <2>1. Aborted' => Aborted
    BY Zenon, <1>5 DEF Aborted
  <2> QED BY <1>1, <1>3, <2>1 DEF IInv, Types, N
<1>12. Phase'
  <2>1. CASE threads + 1 = N
    BY Zenon, <1>1, <1>2, <1>9, <1>10, <2>1 DEF Phase
  <2>2. CASE threads + 1 # N
    BY <1>1, <1>2, <1>3, <1>7, <1>8, <2>2 DEF IInv, Phase, N
  <2> QED BY Zenon, <2>1, <2>2
<1>13. Once'
  BY Zenon, <1>1, <1>2, <1>5, <1>6 DEF IInv, Once
<1>14. \A j \in 1..Len(delegates) : delegates[j] \notin 1..outstanding
  BY Zenon, <1>1, <1>3 DEF IInv, Served
<1>15. Served'
  <2>1. CASE threads + 1 = N
    <3> SUFFICES ASSUME NEW n \in 1..outstanding PROVE runs[n] = 1
      BY Zenon, <1>1, <2>1 DEF Served
    <3>1. ~Queued(n)
      BY Zenon, <1>14 DEF Queued
    <3>2. ~Running(n)
      BY Zenon, <1>6, <1>9, <2>1 DEF Running
    <3>3. n \in 1..MaxWork /\ n <= added
      BY WorkersKnown DEF IInv, Types
    <3> QED BY Zenon, <3>1, <3>2, <3>3 DEF IInv, Once
  <2>2. CASE threads + 1 # N
    BY Zenon, <1>1, <1>14, <2>2 DEF IInv, Served
  <2> QED BY Zenon, <2>1, <2>2
<1> QED BY Zenon, <1>11, <1>12, <1>13, <1>15 DEF IInv

-----------------------------------------------------------------------------
\* A worker between its creation and its next delegate.
LEMMA MoveKeeps ==
  ASSUME Usage, IInv, NEW w \in Ids, at[w] \in {"main", "wait", "take"},
         NEW to \in {"wait", "take", "abort"}, at' = [at EXCEPT ![w] = to],
         to = "abort" => zero,
         UNCHANGED <<delegates, dry, owner, threads, work, added, outstanding, zero, runs>>
  PROVE  IInv'
<1>1. Quits' = Quits /\ \A n : Queued(n)' <=> Queued(n)
  BY Zenon, SameQueue
<1>2. /\ at'[w] = to
      /\ \A v \in Ids \ {w} : at'[v] = at[v]
  BY Zenon DEF IInv, Types
<1>3. \A n : Running(n)' <=> Running(n)
  BY Zenon, <1>2 DEF Running
<1>4. Active' = Active
  BY Zenon, <1>2 DEF Active
<1>5. \A v \in Ids : /\ at'[v] = "none" <=> at[v] = "none"
                     /\ at'[v] = "exited" <=> at[v] = "exited"
                     /\ at'[v] = "run" <=> at[v] = "run"
  BY Zenon, <1>2
<1>6. Types'
  <2>1. ~zero' => ~Aborted'
    BY Zenon, <1>2 DEF IInv, Types, Aborted
  <2> QED BY Zenon, <2>1 DEF IInv, Types
<1>7. Phase'
  <2>1. \A i \in 1..Len(Workers) : Workers[i] \in Ids
    BY Zenon, WorkersKnown
  <2> QED BY Zenon, <1>1, <1>4, <1>5, <2>1 DEF IInv, Phase
<1>8. Once'
  BY Zenon, <1>1, <1>3, <1>5 DEF IInv, Once
<1>9. Served'
  BY Zenon, <1>5 DEF IInv, Served
<1> QED BY Zenon, <1>6, <1>7, <1>8, <1>9 DEF IInv

\* The piece whose run ends was run by this worker alone.
LEMMA RunEndsKeeps == ASSUME Usage, IInv, NEW w \in Ids, RunEnds(w) PROVE IInv'
<1> PICK p : p = work[w]
  BY Zenon
<1>1. /\ at[w] = "run" /\ at' = [at EXCEPT ![w] = "wait"] /\ runs' = [runs EXCEPT ![p] = @ + 1]
      /\ UNCHANGED <<delegates, dry, owner, threads, work, added, outstanding, zero>>
  BY Zenon DEF RunEnds, Goto
<1>2. Quits' = Quits /\ \A n : Queued(n)' <=> Queued(n)
  BY Zenon, <1>1, SameQueue
<1>3. p \in 1..MaxWork /\ p <= added /\ ~Queued(p)
  BY <1>1, WorkersKnown DEF IInv, Types, Once
<1>4. Running(p)
  BY Zenon, <1>1 DEF Running
<1>5. runs[p] = 0
  BY Zenon, <1>3, <1>4 DEF IInv, Once, Types
<1>6. /\ at'[w] = "wait"
      /\ \A v \in Ids \ {w} : at'[v] = at[v]
  BY Zenon, <1>1 DEF IInv, Types
<1>7. \A v \in Ids \ {w} : at[v] = "run" => work[v] # p
  BY Zenon, <1>1 DEF IInv, Once
<1>8. ~Running(p)' /\ \A n : n # p => (Running(n)' <=> Running(n))
  BY Zenon, <1>1, <1>6, <1>7 DEF Running
<1>9. runs'[p] = 1 /\ \A n \in 1..MaxWork : n # p => runs'[n] = runs[n]
  BY <1>1, <1>3, <1>5 DEF IInv, Types
<1>10. Types'
  <2>1. Aborted' => Aborted
    BY Zenon, <1>6 DEF Aborted
  <2> QED BY <1>1, <1>3, <1>5, <2>1 DEF IInv, Types
<1>11. Active' = Active
  BY Zenon, <1>1, <1>6 DEF Active
<1>12. Phase'
  <2>1. \A i \in 1..Len(Workers) : Workers[i] \in Ids
    BY Zenon, WorkersKnown
  <2>2. \A v \in Ids : /\ at'[v] = "none" <=> at[v] = "none"
                       /\ at'[v] = "exited" <=> at[v] = "exited"
    BY Zenon, <1>1, <1>6
  <2> QED BY Zenon, <1>1, <1>2, <1>11, <2>1, <2>2 DEF IInv, Phase
<1>13. Once'
  <2>1. \A v \in Ids : at'[v] = "run" => at[v] = "run"
    BY Zenon, <1>6
  <2>2. \A n \in 1..MaxWork : runs'[n] = 1 <=> n <= added' /\ ~Queued(n)' /\ ~Running(n)'
    <3> TAKE n \in 1..MaxWork
    <3>1. CASE n = p
      <4>1. runs'[p] = 1 /\ ~Running(p)' /\ ~Queued(p)' /\ p <= added'
        BY Zenon, <1>1, <1>2, <1>3, <1>8, <1>9
      <4> QED BY <3>1, <4>1, Zenon
    <3>2. CASE n # p
      <4>1. runs'[n] = runs[n] /\ (Running(n)' <=> Running(n)) /\ (Queued(n)' <=> Queued(n))
        BY Zenon, <1>2, <1>8, <1>9, <3>2
      <4>2. runs[n] = 1 <=> n <= added /\ ~Queued(n) /\ ~Running(n)
        BY Zenon DEF IInv, Once
      <4> QED BY Zenon, <1>1, <4>1, <4>2
    <3> QED BY Zenon, <3>1, <3>2
  <2> QED BY Zenon, <1>1, <1>2, <2>1, <2>2 DEF IInv, Once
<1>14. Served'
  <2>1. \A n \in 1..outstanding : n \in 1..MaxWork
    BY WorkersKnown DEF IInv, Types
  <2>2. \A n \in 1..outstanding : runs[n] = 1 => runs'[n] = 1
    BY Zenon, <1>9, <2>1
  <2>3. \A v \in Ids : at'[v] \in {"none", "exited"} => at[v] \in {"none", "exited"}
    BY Zenon, <1>6
  <2> QED BY Zenon, <1>1, <2>2, <2>3 DEF IInv, Served
<1> QED BY Zenon, <1>10, <1>12, <1>13, <1>14 DEF IInv

\* The first delegate is taken: a nullptr ends the worker, a piece of work is its own.
LEMMA TakeKeeps ==
  ASSUME Usage, IInv, NEW w \in Ids, Take(w), dry, delegates # <<>> PROVE IInv'
<1> PICK d, L, q : d = delegates /\ L = Len(d) /\ q = d[1]
  BY Zenon
<1> DEFINE to == IF q = 0 THEN "exited" ELSE "run"
<1>1. /\ at[w] = "take" /\ work' = [work EXCEPT ![w] = q] /\ delegates' = Tail(d)
      /\ dry' = (delegates' # <<>>)
      /\ at' = [at EXCEPT ![w] = IF work'[w] = 0 THEN "exited" ELSE "run"]
      /\ UNCHANGED <<owner, threads, added, outstanding, zero, runs>>
  BY Zenon DEF Take, Goto, nullptr
<1>2. /\ d \in Seq(0..added) /\ d \in Seq(Nat) /\ d # <<>> /\ added \in Nat /\ added <= MaxWork
      /\ MaxWork \in Nat
  BY WorkersKnown DEF IInv, Types
<1>3. /\ L \in Nat \ {0} /\ q \in 0..added /\ Tail(d) \in Seq(0..added) /\ Len(Tail(d)) = L - 1
      /\ \A i \in 1..(L - 1) : Tail(d)[i] = d[i + 1]
  BY Zenon, <1>2, TailOf
<1>4. work'[w] = q /\ \A v \in Ids \ {w} : work'[v] = work[v]
  BY Zenon, <1>1 DEF IInv, Types
<1>5. at' = [at EXCEPT ![w] = to]
  BY Zenon, <1>1, <1>4
<1>6. at'[w] = to /\ \A v \in Ids \ {w} : at'[v] = at[v]
  BY Zenon, <1>5 DEF IInv, Types
<1>7. \A i \in 1..L : i # 1 => i - 1 \in 1..(L - 1) /\ delegates'[i - 1] = d[i]
  BY <1>1, <1>3
<1>8. Len(delegates') = L - 1 /\ \A i \in 1..(L - 1) : i + 1 \in 1..L /\ delegates'[i] = d[i + 1]
  BY <1>1, <1>3
<1> HIDE DEF to
<1>9. \A n : n # q => (Queued(n)' <=> Queued(n))
  <2> SUFFICES ASSUME NEW n, n # q PROVE Queued(n)' <=> Queued(n)
    BY Zenon
  <2>1. ASSUME Queued(n)' PROVE Queued(n)
    <3>1. PICK i \in 1..(L - 1) : delegates'[i] = n
      BY Zenon, <1>8, <2>1 DEF Queued
    <3> QED BY Zenon, <1>8, <3>1 DEF Queued
  <2>2. ASSUME Queued(n) PROVE Queued(n)'
    <3>1. PICK i \in 1..L : d[i] = n
      BY Zenon, <2>2 DEF Queued
    <3>2. i # 1
      BY Zenon, <3>1
    <3> QED BY Zenon, <1>7, <1>8, <3>1, <3>2 DEF Queued
  <2> QED BY Zenon, <2>1, <2>2
<1>10. Queued(q)
  BY <1>3 DEF Queued
<1>11. q # 0 => ~Queued(q)'
  <2> SUFFICES ASSUME q # 0, NEW i \in 1..(L - 1), delegates'[i] = q PROVE FALSE
    BY Zenon, <1>8 DEF Queued
  <2>1. i + 1 \in 1..L /\ 1 \in 1..L /\ d[i + 1] = q /\ d[1] = q /\ i + 1 # 1
    BY <1>3, <1>8
  <2> QED BY Zenon, <2>1 DEF IInv, Once
<1>12. \A n : n # q => (Running(n)' <=> Running(n))
  BY Zenon, <1>1, <1>4, <1>6 DEF Running, to
<1>13. q # 0 => Running(q)' /\ ~Running(q)
  <2>1. \A v \in Ids : at[v] = "run" => work[v] # q
    BY Zenon, <1>10 DEF IInv, Once
  <2> QED BY Zenon, <1>4, <1>6, <2>1 DEF Running, to
<1>14. Types'
  <2>1. work' \in [Ids -> 0..added]
    BY Zenon, <1>1, <1>3 DEF IInv, Types
  <2>2. at' \in [Ids -> {"none", "main", "wait", "take", "run", "exited", "abort"}]
    BY Zenon, <1>5 DEF IInv, Types, to
  <2>4. ~zero' => ~Aborted'
    BY Zenon, <1>1, <1>6 DEF IInv, Types, Aborted, to
  <2>3. dry' \in BOOLEAN /\ (dry' <=> delegates' # <<>>)
    BY <1>1, Zenon
  <2> QED BY Zenon, <1>1, <1>3, <2>1, <2>2, <2>3, <2>4 DEF IInv, Types
<1>15. q = 0 => owner = "join"
  <2>1. 1 \in 1..Len(delegates) /\ delegates[1] = q
    BY <1>3
  <2> QED BY Zenon, <2>1 DEF IInv, Phase, Quits, Zeros
<1>16. Phase'
  <2>1. \A i \in 1..Len(Workers) : Workers[i] \in Ids
    BY Zenon, WorkersKnown
  <2>2. \A v \in Ids : at'[v] = "none" <=> at[v] = "none"
    BY <1>1, <1>6 DEF to
  <2>3. owner # "join" => \A v \in Ids : at'[v] # "exited"
    BY Zenon, <1>6, <1>15 DEF IInv, Phase, to
  <2>4. owner # "join" => Quits' = {}
    <3>1. \A i \in 1..(L - 1) : i + 1 \in 1..Len(delegates) /\ delegates'[i] = delegates[i + 1]
      BY Zenon, <1>8
    <3>2. owner # "join" => \A i \in 1..Len(delegates) : delegates[i] # 0
      BY Zenon DEF IInv, Phase, Quits, Zeros
    <3> QED BY Zenon, <1>8, <3>1, <3>2 DEF Quits, Zeros
  <2>5. owner = "join" => Cardinality(Quits') = Cardinality(Active')
    <3> SUFFICES ASSUME owner = "join" PROVE Cardinality(Quits') = Cardinality(Active')
      BY Zenon
    <3>1. Cardinality(Quits) = Cardinality(Active)
      BY Zenon DEF IInv, Phase
    <3>2. Quits' = Zeros(Tail(d))
      BY Zenon, <1>1 DEF Quits, Zeros
    <3>3. Cardinality(Quits') = IF q = 0 THEN Cardinality(Quits) - 1 ELSE Cardinality(Quits)
      BY Zenon, <1>2, <3>2, ZerosTail DEF Quits
    <3>4. CASE q = 0
      <4>1. Active' = Active \ {w} /\ w \in Active
        BY Zenon, <1>1, <1>6, <3>4 DEF Active, to
      <4> QED BY Zenon, <3>1, <3>3, <3>4, <4>1, ActiveFinite, FS_RemoveElement
    <3>5. CASE q # 0
      <4>1. Active' = Active
        BY <1>1, <1>6, <3>5 DEF Active, to
      <4> QED BY Zenon, <3>1, <3>3, <3>5, <4>1
    <3> QED BY Zenon, <3>4, <3>5
  <2> QED BY Zenon, <1>1, <2>1, <2>2, <2>3, <2>4, <2>5 DEF IInv, Phase
<1>17. Once'
  <2>1. \A i, j \in 1..Len(delegates') :
          delegates'[i] # 0 /\ delegates'[i] = delegates'[j] => i = j
    <3> SUFFICES ASSUME NEW i \in 1..(L - 1), NEW j \in 1..(L - 1),
                        delegates'[i] # 0, delegates'[i] = delegates'[j]
                 PROVE  i = j
      BY Zenon, <1>8
    <3>1. i + 1 \in 1..L /\ j + 1 \in 1..L /\ d[i + 1] # 0 /\ d[i + 1] = d[j + 1]
      BY Zenon, <1>8
    <3>2. i + 1 = j + 1
      BY Zenon, <3>1 DEF IInv, Once
    <3> QED BY <1>3, <3>2
  <2>2. \A u, v \in Ids : at'[u] = "run" /\ at'[v] = "run" /\ work'[u] = work'[v] => u = v
    <3>1. \A v \in Ids \ {w} : at'[v] = "run" => at[v] = "run" /\ work'[v] = work[v]
      BY Zenon, <1>4, <1>6
    <3>2. at'[w] = "run" => q # 0
      BY Zenon, <1>6 DEF to
    <3>3. at'[w] = "run" => \A v \in Ids \ {w} : at'[v] = "run" => work'[v] # work'[w]
      BY Zenon, <1>4, <1>13, <3>1, <3>2 DEF Running
    <3> QED BY <3>1, <3>3 DEF IInv, Once
  <2>3. \A v \in Ids : \A n : at'[v] = "run" /\ work'[v] = n => n # 0 /\ ~Queued(n)'
    <3> SUFFICES ASSUME NEW v \in Ids, NEW n, at'[v] = "run", work'[v] = n
                 PROVE  n # 0 /\ ~Queued(n)'
      BY Zenon
    <3>1. CASE v = w
      BY Zenon, <1>4, <1>6, <1>11, <3>1 DEF to
    <3>2. CASE v # w
      <4>1. work'[v] = work[v] /\ at[v] = "run"
        BY Zenon, <1>4, <1>6, <3>2
      <4>2. work[v] # 0 /\ ~Queued(work[v])
        BY Zenon, <4>1 DEF IInv, Once
      <4> QED BY Zenon, <1>9, <1>10, <4>1, <4>2
    <3> QED BY Zenon, <3>1, <3>2
  <2>4. \A n \in 1..MaxWork : runs'[n] = 1 <=> n <= added' /\ ~Queued(n)' /\ ~Running(n)'
    <3> TAKE n \in 1..MaxWork
    <3>1. runs[n] = 1 <=> n <= added /\ ~Queued(n) /\ ~Running(n)
      BY Zenon DEF IInv, Once
    <3>2. CASE n = q
      <4>1. Running(q)' /\ Queued(q)
        BY <1>10, <1>13, <3>2
      <4>2. ~(runs[n] = 1)
        BY Zenon, <3>1, <3>2, <4>1
      <4>3. Running(n)'
        BY <3>2, <4>1, Zenon
      <4> QED BY Zenon, <1>1, <4>2, <4>3
    <3>3. CASE n # q
      <4>1. (Queued(n)' <=> Queued(n)) /\ (Running(n)' <=> Running(n))
        BY Zenon, <1>9, <1>12, <3>3
      <4> QED BY Zenon, <1>1, <3>1, <4>1
    <3> QED BY Zenon, <3>2, <3>3
  <2>5. \A v \in Ids : at'[v] = "run" =>
          work'[v] # 0 /\ ~\E i \in 1..Len(delegates') : delegates'[i] = work'[v]
    BY Zenon, <2>3 DEF Queued
  <2> QED BY Zenon, <2>1, <2>2, <2>4, <2>5 DEF Once, Queued
<1>18. Served'
  <2>1. CASE owner # "join"
    BY Zenon, <1>1, <2>1 DEF IInv, Served
  <2>2. CASE owner = "join"
    <3>1. \A i, j \in 1..L : d[i] = 0 /\ d[j] \in 1..outstanding => j < i
      BY Zenon, <2>2 DEF IInv, Served
    <3>2. \A i, j \in 1..(L - 1) : delegates'[i] = 0 /\ delegates'[j] \in 1..outstanding => j < i
      <4> SUFFICES ASSUME NEW i \in 1..(L - 1), NEW j \in 1..(L - 1),
                          delegates'[i] = 0, delegates'[j] \in 1..outstanding
                   PROVE  j < i
        BY Zenon
      <4>1. i + 1 \in 1..L /\ j + 1 \in 1..L /\ d[i + 1] = 0 /\ d[j + 1] \in 1..outstanding
        BY Zenon, <1>8
      <4>2. j + 1 < i + 1
        BY Zenon, <3>1, <4>1
      <4> QED BY <1>3, <4>2
    <3>3. ASSUME \E v \in Ids : at'[v] \in {"none", "exited"}
          PROVE  \A j \in 1..(L - 1) : delegates'[j] \notin 1..outstanding
      <4>1. CASE q = 0
        <5> SUFFICES ASSUME NEW j \in 1..(L - 1), delegates'[j] \in 1..outstanding PROVE FALSE
          BY Zenon
        <5>1. j + 1 \in 1..L /\ 1 \in 1..L /\ d[1] = 0 /\ d[j + 1] \in 1..outstanding
          BY <1>3, <1>8, <4>1
        <5>2. j + 1 < 1
          BY Zenon, <3>1, <5>1
        <5> QED BY <1>3, <5>2
      <4>2. CASE q # 0
        <5>1. \E v \in Ids : at[v] \in {"none", "exited"}
          BY Zenon, <1>6, <3>3, <4>2 DEF to
        <5>2. \A j \in 1..L : d[j] \notin 1..outstanding
          BY Zenon, <2>2, <5>1 DEF IInv, Served
        <5> QED BY Zenon, <1>8, <5>2
      <4> QED BY Zenon, <4>1, <4>2
    <3> QED BY Zenon, <1>1, <1>8, <2>2, <3>2, <3>3 DEF Served
  <2> QED BY Zenon, <2>1, <2>2
<1> QED BY Zenon, <1>14, <1>16, <1>17, <1>18 DEF IInv

LEMMA NextIInv == ASSUME Usage, IInv, [Next]_vars PROVE IInv'
<1>1. ASSUME NEW w \in Ids, WorkerStep(w) PROVE IInv'
  <2>1. CASE ThreadMain(w) \/ Wait(w)
    <3>1. \E to \in {"wait", "take", "abort"} : at' = [at EXCEPT ![w] = to] /\ (to = "abort" => zero)
      BY Zenon, <2>1 DEF ThreadMain, Wait, Goto
    <3>2. /\ at[w] \in {"main", "wait", "take"}
          /\ UNCHANGED <<delegates, dry, owner, threads, work, added, outstanding, zero, runs>>
      BY Zenon, <2>1 DEF ThreadMain, Wait
    <3> QED BY Zenon, <3>1, <3>2, MoveKeeps
  <2>2. CASE Take(w) /\ ~dry
    <3>1. at' = [at EXCEPT ![w] = "wait"]
      BY Zenon, <2>2 DEF Take, Goto
    <3>2. /\ at[w] \in {"main", "wait", "take"}
          /\ UNCHANGED <<delegates, dry, owner, threads, work, added, outstanding, zero, runs>>
      BY Zenon, <2>2 DEF Take
    <3> QED BY Zenon, <3>1, <3>2, MoveKeeps
  <2>3. CASE Take(w) /\ dry /\ delegates = <<>>
    <3>1. at' = [at EXCEPT ![w] = "abort"]
      BY Zenon, <2>3 DEF Take, Goto
    <3>2. /\ at[w] \in {"main", "wait", "take"} /\ zero
          /\ UNCHANGED <<delegates, dry, owner, threads, work, added, outstanding, zero, runs>>
      BY Zenon, <2>3 DEF Take, IInv, Types
    <3> QED BY Zenon, <3>1, <3>2, MoveKeeps
  <2> QED BY Zenon, <1>1, <2>1, <2>2, <2>3, TakeKeeps, RunEndsKeeps DEF WorkerStep
<1>2. ASSUME NEW w \in Ids, AddFromWorker(w) PROVE IInv'
  <2>1. /\ \E n \in 0..2 : AddPieces(n)
        /\ UNCHANGED <<owner, threads, at, work, outstanding, runs>>
    BY <1>2 DEF AddFromWorker
  <2> QED BY Zenon, <2>1, AddKeeps
<1>3. CASE AddFromOwner
  <2>1. /\ \E n \in 0..2 : AddPieces(n)
        /\ UNCHANGED <<owner, threads, at, work, outstanding, runs>>
    BY Zenon, <1>3 DEF AddFromOwner
  <2> QED BY Zenon, <2>1, AddKeeps
<1>4. CASE UNCHANGED vars
  <2>1. UNCHANGED <<delegates, dry, owner, threads, at, work, added, outstanding, zero, runs>>
    BY Zenon, <1>4 DEF vars
  <2>2. Quits' = Quits /\ \A n : Queued(n)' <=> Queued(n)
    BY Zenon, <2>1, SameQueue
  <2>3. Active' = Active /\ \A n : Running(n)' <=> Running(n)
    BY Zenon, <2>1 DEF Active, Running
  <2>4. Types' /\ Served'
    BY Zenon, <2>1 DEF IInv, Types, Served, Aborted
  <2>5. Phase'
    BY Zenon, <2>1, <2>2, <2>3 DEF IInv, Phase
  <2>6. Once'
    BY Zenon, <2>1, <2>2, <2>3 DEF IInv, Once
  <2> QED BY Zenon, <2>4, <2>5, <2>6 DEF IInv
<1> QED BY Zenon, <1>1, <1>2, <1>3, <1>4, StartKeeps, CreateKeeps, StartedKeeps,
           JoinAllKeeps, JoinKeeps DEF Next, OwnerStep

\* A piece that was added is queued or was run when no worker is left.
LEMMA Done == ASSUME Usage, IInv PROVE WorkDoneOnce
<1>1. /\ delegates # <<>> => dry
      /\ ~zero => ~Aborted /\ dry = (delegates # <<>>)
  BY Zenon DEF IInv, Types
<1>2. \A n \in 1..MaxWork : runs[n] <= 1
  BY DEF IInv, Types
<1>3. ASSUME owner = "idle"
      PROVE  /\ \A n \in 1..added : runs[n] = 1 \/ (n > outstanding /\ n \in Range(delegates))
             /\ 0 \notin Range(delegates)
  <2>1. /\ delegates \in Seq(0..added) /\ added \in Nat /\ added <= MaxWork
        /\ outstanding \in Nat
    BY WorkersKnown DEF IInv, Types
  <2>2. \A n : n \in Range(delegates) <=> Queued(n)
    BY <2>1 DEF Range, Queued
  <2>3. \A n : ~Running(n)
    BY Zenon, <1>3 DEF IInv, Phase, Running
  <2>4. ~Queued(0)
    BY Zenon, <1>3 DEF IInv, Phase, Quits, Zeros, Queued
  <2>5. \A n \in 1..added : n \in 1..MaxWork /\ n <= added
    BY <2>1, WorkersKnown
  <2>6. \A n \in 1..added : runs[n] = 1 \/ Queued(n)
    BY Zenon, <2>3, <2>5 DEF IInv, Once
  <2>7. \A n \in 1..outstanding : runs[n] = 1
    BY Zenon, <1>3 DEF IInv, Served
  <2>8. \A n \in 1..added : n \in 1..outstanding \/ n > outstanding
    BY <2>1
  <2> QED BY Zenon, <2>2, <2>4, <2>6, <2>7, <2>8
<1> QED BY Zenon, <1>1, <1>2, <1>3 DEF WorkDoneOnce, nullptr

-----------------------------------------------------------------------------
\* A pool of any size runs no piece of work twice.  What was added before JoinAll() is done
\* when it returns, and what running work added meanwhile is done or still queued, without a
\* nullptr among it.  Without an AddWork() of nothing a worker that finds dry_ signaled finds
\* work: the assertion at simple_thread.cc:152 does not fail.
THEOREM WorkRunsOnce == ASSUME Usage PROVE Spec => []WorkDoneOnce
<1>1. Init => IInv
  BY Zenon, InitIInv
<1>2. IInv /\ [Next]_vars => IInv'
  BY Zenon, NextIInv
<1>3. IInv => WorkDoneOnce
  BY Done
<1> QED BY <1>1, <1>2, <1>3, PTL DEF Spec
=============================================================================
