------------------------- MODULE ResourcePool_proofs -------------------------
(***************************************************************************)
(* A ResourcePool of any size, used by any number of threads, keeps every  *)
(* object in one place, and fails only when it is full.                    *)
(***************************************************************************)
EXTENDS ResourcePool, FiniteSetTheorems, TLAPS

USE PoolAssumption

LEMMA BackTaken ==
  ASSUME NEW S, NEW s \in Seq(S), s # <<>>
  PROVE  /\ Len(s) \in Nat \ {0} /\ DOMAIN s = 1..Len(s) /\ Len(s) \in DOMAIN s /\ s[Len(s)] \in S
         /\ SubSeq(s, 1, Len(s) - 1) \in Seq(S)
         /\ DOMAIN SubSeq(s, 1, Len(s) - 1) = 1..Len(s) - 1
         /\ \A k \in 1..Len(s) - 1 : SubSeq(s, 1, Len(s) - 1)[k] = s[k]
OBVIOUS

LEMMA Appended ==
  ASSUME NEW S, NEW s \in Seq(S), NEW e \in S, IsInjective(s), e \notin Range(s)
  PROVE  /\ Append(s, e) \in Seq(S) /\ IsInjective(Append(s, e))
         /\ Range(Append(s, e)) = Range(s) \cup {e}
<1>1. PICK a : a = Append(s, e)
  BY Zenon
<1>2. /\ a \in Seq(S) /\ DOMAIN s = 1..Len(s) /\ Len(s) \in Nat
      /\ DOMAIN a = 1..Len(s) + 1 /\ a[Len(s) + 1] = e
      /\ \A k \in DOMAIN s : a[k] = s[k]
  BY <1>1
<1>3. /\ \A k \in DOMAIN a : k \in DOMAIN s \/ k = Len(s) + 1
      /\ \A k \in DOMAIN s : k \in DOMAIN a
      /\ Len(s) + 1 \in DOMAIN a
  BY <1>2
<1>4. \A k \in DOMAIN s : s[k] # e
  BY Zenon DEF Range
<1>5. IsInjective(a)
  BY Zenon, <1>2, <1>3, <1>4 DEF IsInjective
<1>6. ASSUME NEW x
      PROVE  x \in Range(a) <=> x \in Range(s) \cup {e}
  BY Zenon, <1>2, <1>3 DEF Range
<1> QED BY Zenon, <1>1, <1>2, <1>5, <1>6

-----------------------------------------------------------------------------
(* ResourcePool *)

PoolTypes ==
  /\ ngroup \in 0..RP_MAX_BLOCK_NGROUP /\ nblock \in [Groups -> Nat]
  /\ blocks \subseteq Blocks /\ nitem \in [Blocks -> 0..BLOCK_NITEM]
  /\ DOMAIN local = Callers /\ curBlock \in [Callers -> Blocks \cup {NoBlock}]
  /\ pc \in [Callers -> PC] /\ seen \in [Callers -> 0..RP_MAX_BLOCK_NGROUP]
  /\ slot \in [Callers -> 0..RP_GROUP_NBLOCK - 1]

\* The threads whose fetch_add on a full group is still to be taken back.
Overshot(g) == {t \in Callers : pc[t] = "giveBack" /\ seen[t] = g + 1}
Count(g) ==
  /\ nblock[g] <= RP_GROUP_NBLOCK + Cardinality(Overshot(g))
  /\ Overshot(g) # {} => nblock[g] = RP_GROUP_NBLOCK + Cardinality(Overshot(g))

\* What a thread knows of the groups, and the block that it is about to store.
Seen(t) ==
  /\ seen[t] <= ngroup
  /\ pc[t] \in {"reserve", "store", "giveBack"} => seen[t] >= 1
  /\ pc[t] = "group" /\ seen[t] >= 1 => nblock[seen[t] - 1] >= RP_GROUP_NBLOCK
Reserved(t) == (seen[t] - 1) * RP_GROUP_NBLOCK + slot[t]
Storing(t) ==
  pc[t] = "store" =>
    /\ slot[t] < nblock[seen[t] - 1] /\ Reserved(t) \notin blocks
    /\ \A u \in Callers : u # t /\ pc[u] = "store" => Reserved(u) # Reserved(t)

\* A block has a place in a group, one that was taken for it.
At(g, s) == g * RP_GROUP_NBLOCK + s
Placed(b) ==
  \E g \in Groups : \E s \in 0..RP_GROUP_NBLOCK - 1 :
    b = At(g, s) /\ s < nblock[g] /\ g < ngroup

PoolBlocks ==
  /\ \A g \in Groups : Count(g)
  /\ \A t \in Callers : Seen(t) /\ Storing(t)
  /\ \A b \in blocks : Placed(b)
  /\ \A b \in Blocks \ blocks : nitem[b] = 0

\* A block belongs to one thread at most.
BlockOwned ==
  /\ \A t \in Callers : curBlock[t] # NoBlock => curBlock[t] \in blocks
  /\ \A s, t \in Callers : s # t /\ curBlock[s] # NoBlock => curBlock[s] # curBlock[t]

\* The ids of the objects made so far.
MadeIn(items, x) == x - (x \div BLOCK_NITEM) * BLOCK_NITEM < items[x \div BLOCK_NITEM]
Made(items) == {x \in ResourceIds : MadeIn(items, x)}

\* Lists of free ids, local ones cf and global ones fc, with the ids in use and lost, of
\* the ids all: every id is in one place, once.
OnFreeList(cf, fc, x) ==
  (\E t \in Callers : x \in Range(cf[t])) \/ \E i \in DOMAIN fc : x \in Range(fc[i])
ListsApart(cf, fc) ==
  /\ \A s, t \in Callers : \A x : x \in Range(cf[s]) /\ x \in Range(cf[t]) => s = t
  /\ \A i, j \in DOMAIN fc : \A x : x \in Range(fc[i]) /\ x \in Range(fc[j]) => i = j
  /\ \A t \in Callers : \A i \in DOMAIN fc : \A x : x \in Range(cf[t]) => x \notin Range(fc[i])
InOnePlace(cf, fc, used, gone, all) ==
  /\ cf \in [Callers -> Seq(ResourceIds)] /\ fc \in Seq(Seq(ResourceIds))
  /\ \A t \in Callers : IsInjective(cf[t])
  /\ \A i \in DOMAIN fc : IsInjective(fc[i]) /\ fc[i] # <<>>
  /\ ListsApart(cf, fc)
  /\ \A x : x \in used \/ x \in gone => ~OnFreeList(cf, fc, x)
  /\ \A x : ~(x \in used /\ x \in gone)
  /\ \A x : x \in all <=> x \in used \/ x \in gone \/ OnFreeList(cf, fc, x)

PoolLists ==
  /\ InOnePlace(curFree, freeChunks, inUse, lost, Made(nitem))
  /\ \A t \in Callers : pc[t] # "idle" => curFree[t] = <<>>
  /\ ~MallocFails => lost = {}

PoolInv == PoolTypes /\ PoolBlocks /\ BlockOwned /\ PoolLists

\* Places of blocks, and ids in them.
LEMMA TimesMono ==
  ASSUME NEW n \in Nat, NEW a \in Int, NEW b \in Int, a + 1 <= b
  PROVE  a * n + n <= b * n
<1>1. PICK d \in Nat : b = a + 1 + d
  <2>1. b - a - 1 \in Nat /\ b = a + 1 + (b - a - 1)
    OBVIOUS
  <2> QED BY Zenon, <2>1
<1>2. b * n = a * n + n + d * n /\ a * n \in Int
  BY <1>1
<1>3. d * n >= 0
  OBVIOUS
<1> QED BY <1>2, <1>3

LEMMA PlaceOnce ==
  ASSUME NEW n \in Nat \ {0}, NEW g \in Nat, NEW h \in Nat, NEW r \in 0..n - 1, NEW s \in 0..n - 1,
         g * n + r = h * n + s
  PROVE  g = h /\ r = s
<1>1. g * n \in Int /\ h * n \in Int
  OBVIOUS
<1>2. ~(g < h)
  <2>1. g < h => g * n + n <= h * n
    BY TimesMono
  <2> QED BY <1>1, <2>1
<1>3. ~(h < g)
  <2>1. h < g => h * n + n <= g * n
    BY TimesMono
  <2> QED BY <1>1, <2>1
<1>4. g = h
  BY <1>2, <1>3
<1> QED BY <1>1, <1>4

LEMMA Divided ==
  ASSUME NEW n \in Nat \ {0}, NEW x \in Nat
  PROVE  /\ x \div n \in Nat /\ (x \div n) * n <= x /\ x < (x \div n) * n + n
         /\ (x \div n) * n \in Nat
OBVIOUS

LEMMA DividedOnce ==
  ASSUME NEW n \in Nat \ {0}, NEW g \in Nat, NEW s \in 0..n - 1
  PROVE  (g * n + s) \div n = g /\ g * n + s \in Nat
<1>1. g * n \in Nat
  OBVIOUS
<1>2. PICK x \in Nat : x = g * n + s
  BY <1>1
<1>3. PICK d \in Nat : d = x \div n /\ d * n <= x /\ x < d * n + n /\ d * n \in Nat
  BY Zenon, Divided
<1>4. x - d * n \in 0..n - 1 /\ d * n + (x - d * n) = g * n + s
  BY <1>2, <1>3
<1>5. d = g
  BY Zenon, <1>4, PlaceOnce
<1> QED BY Zenon, <1>2, <1>3, <1>5

LEMMA InProduct ==
  ASSUME NEW n \in Nat \ {0}, NEW m \in Nat, NEW g \in 0..m - 1, NEW s \in 0..n - 1
  PROVE  g * n + s \in 0..m * n - 1
<1>1. g * n \in Nat /\ m * n \in Nat
  OBVIOUS
<1>2. g * n + n <= m * n
  BY TimesMono
<1> QED BY <1>1, <1>2

LEMMA LastTaken ==
  ASSUME NEW S, NEW s \in Seq(S), s # <<>>, IsInjective(s)
  PROVE  /\ Back(s) \in Range(s) /\ Back(s) \in S
         /\ WithoutBack(s) \in Seq(S) /\ IsInjective(WithoutBack(s))
         /\ Range(WithoutBack(s)) = Range(s) \ {Back(s)}
<1>1. PICK a : a = WithoutBack(s)
  BY Zenon
<1>2. /\ Len(s) \in DOMAIN s /\ Back(s) = s[Len(s)] /\ Back(s) \in S
      /\ a \in Seq(S) /\ \A k \in DOMAIN a : k \in DOMAIN s /\ k # Len(s) /\ a[k] = s[k]
      /\ \A k \in DOMAIN s : k # Len(s) => k \in DOMAIN a
  BY <1>1, BackTaken DEF Back, WithoutBack
<1>3. IsInjective(a)
  BY Zenon, <1>2 DEF IsInjective
<1>4. ASSUME NEW x
      PROVE  x \in Range(a) <=> x \in Range(s) \ {Back(s)}
  <2>1. ASSUME x \in Range(a)
        PROVE  x \in Range(s) /\ x # Back(s)
    <3>1. PICK k \in DOMAIN a : x = a[k]
      BY Zenon, <2>1 DEF Range
    <3> QED BY Zenon, <1>2, <3>1 DEF Range, IsInjective
  <2>2. ASSUME x \in Range(s), x # Back(s)
        PROVE  x \in Range(a)
    <3>1. PICK k \in DOMAIN s : x = s[k]
      BY Zenon, <2>2 DEF Range
    <3>2. k \in DOMAIN a /\ a[k] = x
      BY Zenon, <1>2, <2>2, <3>1
    <3> QED BY Zenon, <3>2 DEF Range
  <2> QED BY Zenon, <2>1, <2>2
<1>5. Back(s) \in Range(s)
  BY Zenon, <1>2 DEF Range
<1> QED BY Zenon, <1>1, <1>2, <1>3, <1>4, <1>5

\* An id is taken from the back of a thread's list.
LEMMA ListTaken ==
  ASSUME NEW cf, NEW fc, NEW used, NEW gone, NEW all, InOnePlace(cf, fc, used, gone, all),
         NEW t \in Callers, cf[t] # <<>>
  PROVE  /\ InOnePlace([cf EXCEPT ![t] = WithoutBack(cf[t])], fc, used \cup {Back(cf[t])}, gone, all)
         /\ Back(cf[t]) \in ResourceIds
<1>1. PICK c : c = [cf EXCEPT ![t] = WithoutBack(cf[t])]
  BY Zenon
<1>2. PICK e : e = Back(cf[t])
  BY Zenon
<1>3. cf \in [Callers -> Seq(ResourceIds)] /\ cf[t] \in Seq(ResourceIds) /\ IsInjective(cf[t])
  BY Zenon DEF InOnePlace
<1>4. /\ e \in Range(cf[t]) /\ e \in ResourceIds
      /\ WithoutBack(cf[t]) \in Seq(ResourceIds) /\ IsInjective(WithoutBack(cf[t]))
      /\ Range(WithoutBack(cf[t])) = Range(cf[t]) \ {e}
  BY Zenon, <1>2, <1>3, LastTaken
<1>5. /\ c \in [Callers -> Seq(ResourceIds)] /\ IsInjective(c[t])
      /\ \A u \in Callers : u # t => c[u] = cf[u]
      /\ \A x : x \in Range(c[t]) <=> x \in Range(cf[t]) /\ x # e
  BY Zenon, <1>1, <1>3, <1>4
<1>6. \A u \in Callers : \A x : x \in Range(c[u]) <=> x \in Range(cf[u]) /\ x # e
  BY Zenon, <1>4, <1>5 DEF InOnePlace, ListsApart
<1>7. \A i \in DOMAIN fc : e \notin Range(fc[i])
  BY Zenon, <1>4 DEF InOnePlace, ListsApart
<1>8. \A x : OnFreeList(c, fc, x) <=> OnFreeList(cf, fc, x) /\ x # e
  BY Zenon, <1>6, <1>7 DEF OnFreeList
<1>9. ListsApart(c, fc)
  BY Zenon, <1>6 DEF InOnePlace, ListsApart
<1>10. OnFreeList(cf, fc, e)
  BY Zenon, <1>4 DEF OnFreeList
<1>11. /\ \A x : x \in used \cup {e} \/ x \in gone => ~OnFreeList(c, fc, x)
       /\ \A x : ~(x \in used \cup {e} /\ x \in gone)
  BY Zenon, <1>8, <1>10 DEF InOnePlace
<1>12. \A x : x \in all <=> x \in used \cup {e} \/ x \in gone \/ OnFreeList(c, fc, x)
  BY Zenon, <1>8, <1>10 DEF InOnePlace
<1>13. \A u \in Callers : IsInjective(c[u])
  BY Zenon, <1>5 DEF InOnePlace
<1>14. InOnePlace(c, fc, used \cup {e}, gone, all)
  BY Zenon, <1>5, <1>9, <1>11, <1>12, <1>13 DEF InOnePlace
<1> QED BY Zenon, <1>1, <1>2, <1>4, <1>14

\* An id in use is put at the back of a thread's list.
LEMMA ListPut ==
  ASSUME NEW cf, NEW fc, NEW used, NEW gone, NEW all, InOnePlace(cf, fc, used, gone, all),
         NEW t \in Callers, NEW e \in used, e \in ResourceIds
  PROVE  InOnePlace([cf EXCEPT ![t] = Append(cf[t], e)], fc, used \ {e}, gone, all)
<1>1. PICK c : c = [cf EXCEPT ![t] = Append(cf[t], e)]
  BY Zenon
<1>2. /\ \A u \in Callers : e \notin Range(cf[u])
      /\ \A i \in DOMAIN fc : e \notin Range(fc[i])
  BY Zenon DEF InOnePlace, OnFreeList
<1>3. cf \in [Callers -> Seq(ResourceIds)] /\ cf[t] \in Seq(ResourceIds) /\ IsInjective(cf[t])
  BY Zenon DEF InOnePlace
<1>4. /\ Append(cf[t], e) \in Seq(ResourceIds) /\ IsInjective(Append(cf[t], e))
      /\ Range(Append(cf[t], e)) = Range(cf[t]) \cup {e}
  BY Zenon, <1>2, <1>3, Appended
<1>5. /\ c \in [Callers -> Seq(ResourceIds)] /\ IsInjective(c[t])
      /\ \A u \in Callers : u # t => c[u] = cf[u]
      /\ \A x : x \in Range(c[t]) <=> x \in Range(cf[t]) \/ x = e
  BY Zenon, <1>1, <1>3, <1>4
<1>6. \A u \in Callers : \A x : x \in Range(c[u]) <=> x \in Range(cf[u]) \/ (x = e /\ u = t)
  BY Zenon, <1>5
<1>8. \A x : OnFreeList(c, fc, x) <=> OnFreeList(cf, fc, x) \/ x = e
  BY Zenon, <1>6 DEF OnFreeList
<1>9. ListsApart(c, fc)
  <2>1. ASSUME NEW u \in Callers, NEW v \in Callers, NEW x, x \in Range(c[u]), x \in Range(c[v])
        PROVE  u = v
    <3>1. CASE x = e
      BY Zenon, <1>2, <1>6, <2>1, <3>1
    <3>2. CASE x # e
      BY Zenon, <1>6, <2>1, <3>2 DEF InOnePlace, ListsApart
    <3> QED BY Zenon, <3>1, <3>2
  <2>2. ASSUME NEW u \in Callers, NEW i \in DOMAIN fc, NEW x, x \in Range(c[u])
        PROVE  x \notin Range(fc[i])
    <3>1. CASE x = e
      BY Zenon, <1>2, <3>1
    <3>2. CASE x # e
      BY Zenon, <1>6, <2>2, <3>2 DEF InOnePlace, ListsApart
    <3> QED BY Zenon, <3>1, <3>2
  <2> QED BY Zenon, <2>1, <2>2 DEF InOnePlace, ListsApart
<1>11. /\ \A x : x \in used \ {e} \/ x \in gone => ~OnFreeList(c, fc, x)
       /\ \A x : ~(x \in used \ {e} /\ x \in gone)
  BY Zenon, <1>8 DEF InOnePlace
<1>12. \A x : x \in all <=> x \in used \ {e} \/ x \in gone \/ OnFreeList(c, fc, x)
  BY Zenon, <1>8 DEF InOnePlace
<1>13. \A u \in Callers : IsInjective(c[u])
  BY Zenon, <1>5 DEF InOnePlace
<1>14. InOnePlace(c, fc, used \ {e}, gone, all)
  BY Zenon, <1>5, <1>9, <1>11, <1>12, <1>13 DEF InOnePlace
<1> QED BY Zenon, <1>1, <1>14

\* A thread with an empty list takes the last chunk for it.
LEMMA ChunkTaken ==
  ASSUME NEW cf, NEW fc, NEW used, NEW gone, NEW all, InOnePlace(cf, fc, used, gone, all),
         NEW t \in Callers, cf[t] = <<>>, fc # <<>>
  PROVE  /\ InOnePlace([cf EXCEPT ![t] = Back(fc)], WithoutBack(fc), used, gone, all)
         /\ Back(fc) # <<>>
<1>1. PICK c : c = [cf EXCEPT ![t] = Back(fc)]
  BY Zenon
<1>2. PICK f : f = WithoutBack(fc)
  BY Zenon
<1>3. PICK n : n = Len(fc)
  BY Zenon
<1>4. /\ cf \in [Callers -> Seq(ResourceIds)] /\ fc \in Seq(Seq(ResourceIds))
      /\ \A i \in DOMAIN fc : IsInjective(fc[i]) /\ fc[i] # <<>>
      /\ \A u \in Callers : IsInjective(cf[u])
  BY Zenon DEF InOnePlace
<1>5. /\ n \in DOMAIN fc /\ Back(fc) = fc[n] /\ fc[n] \in Seq(ResourceIds)
      /\ f \in Seq(Seq(ResourceIds)) /\ \A i \in DOMAIN f : i \in DOMAIN fc /\ i # n /\ f[i] = fc[i]
      /\ \A i \in DOMAIN fc : i # n => i \in DOMAIN f
  <2>1. /\ Len(fc) \in Nat \ {0} /\ DOMAIN fc = 1..Len(fc) /\ Len(fc) \in DOMAIN fc
        /\ fc[Len(fc)] \in Seq(ResourceIds) /\ SubSeq(fc, 1, Len(fc) - 1) \in Seq(Seq(ResourceIds))
        /\ DOMAIN SubSeq(fc, 1, Len(fc) - 1) = 1..Len(fc) - 1
        /\ \A k \in 1..Len(fc) - 1 : SubSeq(fc, 1, Len(fc) - 1)[k] = fc[k]
    BY Zenon, <1>4, BackTaken
  <2>2. f = SubSeq(fc, 1, Len(fc) - 1) /\ Back(fc) = fc[n]
    BY Zenon, <1>2, <1>3 DEF Back, WithoutBack
  <2>3. DOMAIN f = 1..n - 1 /\ DOMAIN fc = 1..n /\ n \in Nat \ {0} /\ \A k \in 1..n - 1 : f[k] = fc[k]
    BY Zenon, <1>3, <2>1, <2>2
  <2>4. \A i \in 1..n - 1 : i \in 1..n /\ i # n
    BY <2>3
  <2>5. \A i \in 1..n : i # n => i \in 1..n - 1
    BY <2>3
  <2> QED BY Zenon, <1>3, <2>1, <2>2, <2>3, <2>4, <2>5
<1>6. /\ c \in [Callers -> Seq(ResourceIds)] /\ c[t] = fc[n]
      /\ \A u \in Callers : u # t => c[u] = cf[u]
  BY Zenon, <1>1, <1>4, <1>5
<1>7. \A x : x \notin Range(cf[t])
  BY DEF Range
<1>8. /\ \A u \in Callers : IsInjective(c[u])
      /\ \A i \in DOMAIN f : IsInjective(f[i]) /\ f[i] # <<>>
  BY Zenon, <1>4, <1>5, <1>6
<1>9. ASSUME NEW x
      PROVE  OnFreeList(c, f, x) <=> OnFreeList(cf, fc, x)
  <2>1. ASSUME OnFreeList(c, f, x)
        PROVE  OnFreeList(cf, fc, x)
    BY Zenon, <1>5, <1>6, <2>1 DEF OnFreeList
  <2>2. ASSUME OnFreeList(cf, fc, x)
        PROVE  OnFreeList(c, f, x)
    <3>1. CASE \E u \in Callers : x \in Range(cf[u])
      BY Zenon, <1>6, <1>7, <3>1 DEF OnFreeList
    <3>2. ASSUME NEW i \in DOMAIN fc, x \in Range(fc[i])
          PROVE  OnFreeList(c, f, x)
      <4>1. CASE i = n
        BY Zenon, <1>6, <3>2, <4>1 DEF OnFreeList
      <4>2. CASE i # n
        BY Zenon, <1>5, <3>2, <4>2 DEF OnFreeList
      <4> QED BY Zenon, <4>1, <4>2
    <3> QED BY Zenon, <2>2, <3>1, <3>2 DEF OnFreeList
  <2> QED BY Zenon, <2>1, <2>2
<1>10. /\ \A u, v \in Callers : \A x : x \in Range(cf[u]) /\ x \in Range(cf[v]) => u = v
       /\ \A i, j \in DOMAIN fc : \A x : x \in Range(fc[i]) /\ x \in Range(fc[j]) => i = j
       /\ \A u \in Callers : \A i \in DOMAIN fc : \A x : x \in Range(cf[u]) => x \notin Range(fc[i])
  BY Zenon DEF InOnePlace, ListsApart
<1>11. ListsApart(c, f)
  <2>1. ASSUME NEW u \in Callers, NEW v \in Callers, NEW x, x \in Range(c[u]), x \in Range(c[v])
        PROVE  u = v
    <3>1. CASE u = t /\ v # t
      BY Zenon, <1>5, <1>6, <1>10, <2>1, <3>1
    <3>2. CASE u # t /\ v = t
      BY Zenon, <1>5, <1>6, <1>10, <2>1, <3>2
    <3>3. CASE u # t /\ v # t
      BY Zenon, <1>6, <1>10, <2>1, <3>3
    <3> QED BY Zenon, <3>1, <3>2, <3>3
  <2>2. ASSUME NEW i \in DOMAIN f, NEW j \in DOMAIN f, NEW x, x \in Range(f[i]), x \in Range(f[j])
        PROVE  i = j
    BY Zenon, <1>5, <1>10, <2>2
  <2>3. ASSUME NEW u \in Callers, NEW i \in DOMAIN f, NEW x, x \in Range(c[u])
        PROVE  x \notin Range(f[i])
    <3>1. CASE u = t
      BY Zenon, <1>5, <1>6, <1>10, <2>3, <3>1
    <3>2. CASE u # t
      BY Zenon, <1>5, <1>6, <1>10, <2>3, <3>2
    <3> QED BY Zenon, <3>1, <3>2
  <2> QED BY Zenon, <2>1, <2>2, <2>3 DEF ListsApart
<1>12. InOnePlace(c, f, used, gone, all)
  BY Zenon, <1>5, <1>6, <1>8, <1>9, <1>11 DEF InOnePlace
<1> QED BY Zenon, <1>1, <1>2, <1>4, <1>5, <1>12

\* A thread's list becomes the last chunk.
LEMMA ChunkPushed ==
  ASSUME NEW cf, NEW fc, NEW used, NEW gone, NEW all, InOnePlace(cf, fc, used, gone, all),
         NEW t \in Callers, cf[t] # <<>>
  PROVE  InOnePlace([cf EXCEPT ![t] = <<>>], Append(fc, cf[t]), used, gone, all)
<1>1. PICK c : c = [cf EXCEPT ![t] = <<>>]
  BY Zenon
<1>2. PICK f : f = Append(fc, cf[t])
  BY Zenon
<1>3. PICK n : n = Len(fc) + 1
  BY Zenon
<1>4. /\ cf \in [Callers -> Seq(ResourceIds)] /\ fc \in Seq(Seq(ResourceIds)) /\ cf[t] \in Seq(ResourceIds)
      /\ \A i \in DOMAIN fc : IsInjective(fc[i]) /\ fc[i] # <<>>
      /\ \A u \in Callers : IsInjective(cf[u])
  BY Zenon DEF InOnePlace
<1>5. /\ f \in Seq(Seq(ResourceIds)) /\ n \in DOMAIN f /\ f[n] = cf[t] /\ n \notin DOMAIN fc
      /\ \A i \in DOMAIN f : i \in DOMAIN fc \/ i = n
      /\ \A i \in DOMAIN fc : i \in DOMAIN f /\ f[i] = fc[i]
  BY <1>2, <1>3, <1>4
<1>6. /\ c \in [Callers -> Seq(ResourceIds)] /\ c[t] = <<>>
      /\ \A u \in Callers : u # t => c[u] = cf[u]
  BY <1>1, <1>4
<1>7. (\A x : x \notin Range(c[t])) /\ IsInjective(c[t])
  BY <1>6 DEF Range, IsInjective
<1>8. /\ \A u \in Callers : IsInjective(c[u])
      /\ \A i \in DOMAIN f : IsInjective(f[i]) /\ f[i] # <<>>
  BY Zenon, <1>4, <1>5, <1>6, <1>7
<1>9. ASSUME NEW x
      PROVE  OnFreeList(c, f, x) <=> OnFreeList(cf, fc, x)
  <2>1. ASSUME OnFreeList(c, f, x)
        PROVE  OnFreeList(cf, fc, x)
    <3>1. CASE \E u \in Callers : x \in Range(c[u])
      BY Zenon, <1>6, <1>7, <3>1 DEF OnFreeList
    <3>2. ASSUME NEW i \in DOMAIN f, x \in Range(f[i])
          PROVE  OnFreeList(cf, fc, x)
      <4>1. CASE i = n
        BY Zenon, <1>5, <3>2, <4>1 DEF OnFreeList
      <4>2. CASE i # n
        BY Zenon, <1>5, <3>2, <4>2 DEF OnFreeList
      <4> QED BY Zenon, <4>1, <4>2
    <3> QED BY Zenon, <2>1, <3>1, <3>2 DEF OnFreeList
  <2>2. ASSUME OnFreeList(cf, fc, x)
        PROVE  OnFreeList(c, f, x)
    BY Zenon, <1>5, <1>6, <2>2 DEF OnFreeList
  <2> QED BY Zenon, <2>1, <2>2
<1>10. /\ \A u, v \in Callers : \A x : x \in Range(cf[u]) /\ x \in Range(cf[v]) => u = v
       /\ \A i, j \in DOMAIN fc : \A x : x \in Range(fc[i]) /\ x \in Range(fc[j]) => i = j
       /\ \A u \in Callers : \A i \in DOMAIN fc : \A x : x \in Range(cf[u]) => x \notin Range(fc[i])
  BY Zenon DEF InOnePlace, ListsApart
<1>11. ListsApart(c, f)
  <2>1. ASSUME NEW u \in Callers, NEW v \in Callers, NEW x, x \in Range(c[u]), x \in Range(c[v])
        PROVE  u = v
    BY Zenon, <1>6, <1>7, <1>10, <2>1
  <2>2. ASSUME NEW i \in DOMAIN f, NEW j \in DOMAIN f, NEW x, x \in Range(f[i]), x \in Range(f[j])
        PROVE  i = j
    <3>1. CASE i = n /\ j # n
      BY Zenon, <1>5, <1>10, <2>2, <3>1
    <3>2. CASE i # n /\ j = n
      BY Zenon, <1>5, <1>10, <2>2, <3>2
    <3>3. CASE i # n /\ j # n
      BY Zenon, <1>5, <1>10, <2>2, <3>3
    <3> QED BY Zenon, <3>1, <3>2, <3>3
  <2>3. ASSUME NEW u \in Callers, NEW i \in DOMAIN f, NEW x, x \in Range(c[u])
        PROVE  x \notin Range(f[i])
    <3>1. u # t /\ x \in Range(cf[u])
      BY Zenon, <1>6, <1>7, <2>3
    <3>2. CASE i = n
      BY Zenon, <1>5, <1>10, <3>1, <3>2
    <3>3. CASE i # n
      BY Zenon, <1>5, <1>10, <3>1, <3>3
    <3> QED BY Zenon, <3>2, <3>3
  <2> QED BY Zenon, <2>1, <2>2, <2>3 DEF ListsApart
<1>12. InOnePlace(c, f, used, gone, all)
  BY Zenon, <1>5, <1>6, <1>8, <1>9, <1>11 DEF InOnePlace
<1> QED BY Zenon, <1>1, <1>2, <1>12

\* A thread's list is lost.
LEMMA ListLost ==
  ASSUME NEW cf, NEW fc, NEW used, NEW gone, NEW all, InOnePlace(cf, fc, used, gone, all),
         NEW t \in Callers
  PROVE  InOnePlace([cf EXCEPT ![t] = <<>>], fc, used, gone \cup Range(cf[t]), all)
<1>1. PICK c : c = [cf EXCEPT ![t] = <<>>]
  BY Zenon
<1>2. cf \in [Callers -> Seq(ResourceIds)]
  BY Zenon DEF InOnePlace
<1>3. /\ c \in [Callers -> Seq(ResourceIds)] /\ c[t] = <<>>
      /\ \A u \in Callers : u # t => c[u] = cf[u]
  BY <1>1, <1>2
<1>4. (\A x : x \notin Range(c[t])) /\ IsInjective(c[t])
  BY <1>3 DEF Range, IsInjective
<1>5. \A u \in Callers : IsInjective(c[u])
  BY Zenon, <1>3, <1>4 DEF InOnePlace
<1>6. ListsApart(c, fc)
  BY Zenon, <1>3, <1>4 DEF InOnePlace, ListsApart
<1>7. \A x : x \in Range(cf[t]) => ~OnFreeList(c, fc, x) /\ OnFreeList(cf, fc, x)
  BY Zenon, <1>3, <1>4 DEF InOnePlace, ListsApart, OnFreeList
<1>8. \A x : OnFreeList(cf, fc, x) <=> OnFreeList(c, fc, x) \/ x \in Range(cf[t])
  BY Zenon, <1>3, <1>4 DEF OnFreeList
<1>9. \A x : x \in used \/ x \in gone \cup Range(cf[t]) => ~OnFreeList(c, fc, x)
  BY Zenon, <1>7, <1>8 DEF InOnePlace
<1>10. \A x : ~(x \in used /\ x \in gone \cup Range(cf[t]))
  BY Zenon, <1>7 DEF InOnePlace
<1>11. \A x : x \in all <=> x \in used \/ x \in gone \cup Range(cf[t]) \/ OnFreeList(c, fc, x)
  BY Zenon, <1>8 DEF InOnePlace
<1>12. InOnePlace(c, fc, used, gone \cup Range(cf[t]), all)
  BY Zenon, <1>3, <1>5, <1>6, <1>9, <1>10, <1>11 DEF InOnePlace
<1> QED BY Zenon, <1>1, <1>12

\* A new id is in use.
LEMMA IdMade ==
  ASSUME NEW cf, NEW fc, NEW used, NEW gone, NEW all, InOnePlace(cf, fc, used, gone, all),
         NEW e, e \notin all
  PROVE  InOnePlace(cf, fc, used \cup {e}, gone, all \cup {e})
<1>1. /\ \A x : x \in used \cup {e} \/ x \in gone => ~OnFreeList(cf, fc, x)
      /\ \A x : ~(x \in used \cup {e} /\ x \in gone)
  BY Zenon DEF InOnePlace
<1>2. \A x : x \in all \cup {e} <=> x \in used \cup {e} \/ x \in gone \/ OnFreeList(cf, fc, x)
  BY Zenon DEF InOnePlace
<1> QED BY Zenon, <1>1, <1>2 DEF InOnePlace

-----------------------------------------------------------------------------
(* Groups and blocks: thread t moves *)

LEMMA ReservedPlace ==
  ASSUME PoolTypes, NEW t \in Callers, Seen(t), pc[t] \in {"reserve", "store", "giveBack"}
  PROVE  /\ seen[t] - 1 \in Groups /\ seen[t] - 1 < ngroup
         /\ slot[t] \in 0..RP_GROUP_NBLOCK - 1
         /\ Reserved(t) = At(seen[t] - 1, slot[t])
         /\ Reserved(t) \in Blocks
<1>1. /\ seen[t] \in 0..RP_MAX_BLOCK_NGROUP /\ slot[t] \in 0..RP_GROUP_NBLOCK - 1
      /\ seen[t] >= 1 /\ seen[t] <= ngroup /\ ngroup \in 0..RP_MAX_BLOCK_NGROUP
  BY Zenon DEF PoolTypes, Seen
<1>2. seen[t] - 1 \in 0..RP_MAX_BLOCK_NGROUP - 1 /\ seen[t] - 1 < ngroup
  BY <1>1
<1>3. (seen[t] - 1) * RP_GROUP_NBLOCK + slot[t] \in 0..RP_MAX_BLOCK_NGROUP * RP_GROUP_NBLOCK - 1
  BY Zenon, <1>1, <1>2, InProduct
<1> QED BY Zenon, <1>1, <1>2, <1>3 DEF Groups, Blocks, Reserved, At

LEMMA OnePlace ==
  ASSUME NEW g \in Groups, NEW h \in Groups,
         NEW r \in 0..RP_GROUP_NBLOCK - 1, NEW s \in 0..RP_GROUP_NBLOCK - 1,
         At(g, r) = At(h, s)
  PROVE  g = h /\ r = s
<1>1. g \in Nat /\ h \in Nat
  BY DEF Groups
<1> QED BY <1>1, PlaceOnce DEF At

\* The groups may grow, and taken places stay taken.
Grown ==
  /\ ngroup' >= ngroup
  /\ \A g \in Groups : \A s \in 0..RP_GROUP_NBLOCK - 1 : s < nblock[g] => s < nblock'[g]
  /\ \A g \in Groups : nblock[g] >= RP_GROUP_NBLOCK => nblock'[g] >= RP_GROUP_NBLOCK

LEMMA OthersKept ==
  ASSUME PoolTypes, PoolBlocks, PoolTypes', Grown, NEW u \in Callers,
         pc'[u] = pc[u], seen'[u] = seen[u], slot'[u] = slot[u]
  PROVE  /\ Seen(u)' /\ Reserved(u)' = Reserved(u)
         /\ pc'[u] = "store" => slot'[u] < nblock'[seen'[u] - 1]
<1>1. Seen(u) /\ Storing(u)
  BY Zenon DEF PoolBlocks
<1>2. ngroup \in Nat /\ ngroup' \in Nat /\ seen[u] \in 0..RP_MAX_BLOCK_NGROUP
  BY DEF PoolTypes
<1>3. seen'[u] <= ngroup'
  BY <1>1, <1>2 DEF Seen, Grown
<1>4. pc[u] = "group" /\ seen[u] >= 1 => nblock'[seen[u] - 1] >= RP_GROUP_NBLOCK
  <2>1. seen[u] >= 1 => seen[u] - 1 \in Groups
    BY <1>2 DEF Groups
  <2> QED BY Zenon, <1>1, <2>1 DEF Grown, Seen
<1>5. ASSUME pc[u] = "store"
      PROVE  slot[u] < nblock'[seen[u] - 1]
  <2>1. seen[u] - 1 \in Groups /\ slot[u] \in 0..RP_GROUP_NBLOCK - 1
    BY Zenon, <1>1, <1>5, ReservedPlace
  <2>2. slot[u] < nblock[seen[u] - 1]
    BY Zenon, <1>1, <1>5 DEF Storing
  <2> QED BY Zenon, <2>1, <2>2 DEF Grown
<1>6. Seen(u)'
  BY Zenon, <1>1, <1>3, <1>4 DEF Seen
<1>7. Reserved(u)' = Reserved(u)
  BY Zenon DEF Reserved
<1> QED BY Zenon, <1>5, <1>6, <1>7

LEMMA PlacedKept ==
  ASSUME PoolTypes, PoolTypes', Grown, NEW b, Placed(b)
  PROVE  Placed(b)'
<1>1. PICK g \in Groups, s \in 0..RP_GROUP_NBLOCK - 1 : b = At(g, s) /\ s < nblock[g] /\ g < ngroup
  BY Zenon DEF Placed
<1>2. g < ngroup'
  BY <1>1 DEF Groups, PoolTypes, Grown
<1>3. s < nblock'[g]
  BY Zenon, <1>1 DEF Grown
<1> QED BY Zenon, <1>1, <1>2, <1>3 DEF Placed

\* A thread that does not store a block.
LEMMA BlocksMoved ==
  ASSUME PoolTypes, PoolBlocks, PoolTypes', Grown, NEW t \in Callers,
         \A u \in Callers \ {t} : pc'[u] = pc[u] /\ seen'[u] = seen[u] /\ slot'[u] = slot[u],
         blocks' = blocks, \A b \in Blocks \ blocks : nitem'[b] = 0,
         \A g \in Groups : Count(g)', Seen(t)', pc'[t] # "store" \/ Storing(t)'
  PROVE  PoolBlocks'
<1>1. \A b \in blocks' : Placed(b)'
  BY Zenon, PlacedKept DEF PoolBlocks
<1>2. \A u \in Callers : Seen(u)'
  BY Zenon, OthersKept
<1>3. ASSUME NEW u \in Callers
      PROVE  Storing(u)'
  <2>1. CASE u = t
    BY Zenon, <2>1 DEF Storing
  <2>2. CASE u # t /\ pc'[u] = "store"
    <3>1. /\ pc[u] = "store" /\ Reserved(u)' = Reserved(u) /\ slot'[u] < nblock'[seen'[u] - 1]
          /\ Storing(u)
      BY Zenon, <2>2, OthersKept DEF PoolBlocks
    <3>2. Reserved(u)' \notin blocks'
      BY Zenon, <3>1 DEF Storing
    <3>3. ASSUME NEW v \in Callers, v # u, pc'[v] = "store"
          PROVE  Reserved(v)' # Reserved(u)'
      <4>1. CASE v = t
        BY Zenon, <2>2, <3>3, <4>1 DEF Storing
      <4>2. CASE v # t
        <5>1. pc[v] = "store" /\ Reserved(v)' = Reserved(v)
          BY Zenon, <3>3, <4>2, OthersKept
        <5> QED BY Zenon, <3>1, <3>3, <5>1 DEF Storing
      <4> QED BY Zenon, <4>1, <4>2
    <3> QED BY Zenon, <3>1, <3>2, <3>3 DEF Storing
  <2>3. CASE pc'[u] # "store"
    BY Zenon, <2>3 DEF Storing
  <2> QED BY Zenon, <2>1, <2>2, <2>3
<1> QED BY Zenon, <1>1, <1>2, <1>3 DEF PoolBlocks

\* A step without an effect on the groups but, maybe, one more of them.
LEMMA QuietStep ==
  ASSUME PoolTypes, PoolBlocks, PoolTypes', NEW t \in Callers,
         NEW p, p \notin {"store", "giveBack"}, pc' = [pc EXCEPT ![t] = p],
         pc[t] \notin {"store", "giveBack"},
         \A u \in Callers \ {t} : seen'[u] = seen[u], slot' = slot,
         ngroup' >= ngroup, nblock' = nblock, blocks' = blocks,
         \A b \in Blocks \ blocks : nitem'[b] = 0, Seen(t)'
  PROVE  PoolBlocks'
<1>1. /\ \A u \in Callers \ {t} : pc'[u] = pc[u] /\ seen'[u] = seen[u] /\ slot'[u] = slot[u]
      /\ pc'[t] = p
  BY Zenon DEF PoolTypes
<1>2. Grown
  BY Zenon DEF Grown
<1>3. ASSUME NEW g \in Groups
      PROVE  Count(g)'
  <2>1. \A u \in Callers : pc'[u] = "giveBack" /\ seen'[u] = g + 1 <=> pc[u] = "giveBack" /\ seen[u] = g + 1
    BY Zenon, <1>1
  <2>2. Overshot(g)' = Overshot(g)
    BY Zenon, <2>1 DEF Overshot
  <2> QED BY Zenon, <2>2 DEF PoolBlocks, Count
<1>4. pc'[t] # "store"
  BY Zenon, <1>1
<1> QED BY Zenon, <1>1, <1>2, <1>3, <1>4, BlocksMoved

\* The place that fetch_add reserved is new.
LEMMA SlotReserved ==
  ASSUME PoolTypes, PoolBlocks, PoolTypes', NEW t \in Callers, pc[t] = "reserve",
         NEW g, g = seen[t] - 1, NEW n, n = nblock[g], n < RP_GROUP_NBLOCK,
         nblock' = [nblock EXCEPT ![g] = n + 1], slot' = [slot EXCEPT ![t] = n],
         pc' = [pc EXCEPT ![t] = "store"],
         UNCHANGED <<ngroup, blocks, nitem, seen>>
  PROVE  PoolBlocks'
<1>1. Seen(t) /\ g \in Groups /\ g < ngroup /\ seen[t] >= 1
  <2>1. Seen(t)
    BY Zenon DEF PoolBlocks
  <2> QED BY Zenon, <2>1, ReservedPlace DEF Seen
<1>2. /\ n \in 0..RP_GROUP_NBLOCK - 1 /\ nblock'[g] = n + 1
      /\ \A h \in Groups : h # g => nblock'[h] = nblock[h]
      /\ \A h \in Groups : nblock[h] \in Nat /\ nblock'[h] \in Nat
  BY Zenon, <1>1 DEF PoolTypes
<1>3. /\ slot'[t] = n /\ pc'[t] = "store"
      /\ seen' = seen /\ ngroup' = ngroup /\ blocks' = blocks /\ nitem' = nitem
      /\ \A u \in Callers \ {t} : pc'[u] = pc[u] /\ slot'[u] = slot[u]
  BY Zenon DEF PoolTypes
<1>4. Grown
  BY <1>2, <1>3 DEF Grown, PoolTypes
<1>5. ASSUME NEW h \in Groups
      PROVE  Count(h)'
  <2>1. \A u \in Callers : pc'[u] = "giveBack" /\ seen'[u] = h + 1 <=> pc[u] = "giveBack" /\ seen[u] = h + 1
    BY Zenon, <1>3
  <2>2. Overshot(h)' = Overshot(h)
    BY Zenon, <2>1 DEF Overshot
  <2>3. Count(h) /\ Cardinality(Overshot(h)) \in Nat
    <3>1. IsFiniteSet(Overshot(h))
      BY Zenon, FS_Subset DEF Overshot
    <3> QED BY Zenon, <3>1, FS_CardinalityType DEF PoolBlocks
  <2>4. CASE h = g
    <3>1. Overshot(g) = {}
      BY <1>2, <2>3, <2>4 DEF Count
    <3>2. Cardinality(Overshot(g)) = 0
      BY Zenon, <3>1, FS_EmptySet
    <3> QED BY <1>2, <2>2, <2>4, <3>1, <3>2 DEF Count
  <2>5. CASE h # g
    BY Zenon, <1>2, <2>2, <2>3, <2>5 DEF Count
  <2> QED BY Zenon, <2>4, <2>5
<1>6. Seen(t)'
  BY Zenon, <1>1, <1>3 DEF Seen
<1>7. Reserved(t)' = At(g, n)
  BY Zenon, <1>3 DEF Reserved, At
<1>8. At(g, n) \notin blocks
  <2>1. SUFFICES ASSUME At(g, n) \in blocks
                 PROVE  FALSE
    BY Zenon
  <2>2. PICK h \in Groups, s \in 0..RP_GROUP_NBLOCK - 1 : At(g, n) = At(h, s) /\ s < nblock[h]
    BY Zenon, <2>1 DEF PoolBlocks, Placed
  <2>3. g = h /\ n = s
    BY <1>1, <1>2, <2>2, OnePlace
  <2>4. n < n
    BY Zenon, <2>2, <2>3
  <2> QED BY <1>2, <2>4
<1>9. ASSUME NEW u \in Callers, u # t, pc'[u] = "store"
      PROVE  Reserved(u)' # At(g, n)
  <2>1. pc[u] = "store" /\ Seen(u) /\ Storing(u) /\ Reserved(u)' = Reserved(u)
    BY Zenon, <1>3, <1>9 DEF PoolBlocks, Reserved
  <2>2. /\ seen[u] - 1 \in Groups /\ slot[u] \in 0..RP_GROUP_NBLOCK - 1
        /\ Reserved(u) = At(seen[u] - 1, slot[u])
    BY Zenon, <2>1, ReservedPlace
  <2>3. slot[u] < nblock[seen[u] - 1]
    BY Zenon, <2>1 DEF Storing
  <2>4. SUFFICES ASSUME At(seen[u] - 1, slot[u]) = At(g, n)
                 PROVE  FALSE
    BY Zenon, <2>1, <2>2
  <2>5. seen[u] - 1 = g /\ slot[u] = n
    <3>1. PICK h \in Groups : h = seen[u] - 1
      BY Zenon, <2>2
    <3>2. PICK s \in 0..RP_GROUP_NBLOCK - 1 : s = slot[u]
      BY Zenon, <2>2
    <3>3. At(h, s) = At(g, n)
      BY Zenon, <2>4, <3>1, <3>2
    <3>4. h = g /\ s = n
      BY <1>1, <1>2, <3>3, OnePlace
    <3> QED BY Zenon, <3>1, <3>2, <3>4
  <2>6. n < n
    BY Zenon, <2>3, <2>5
  <2> QED BY <1>2, <2>6
<1>10. slot'[t] < nblock'[seen'[t] - 1]
  BY <1>2, <1>3
<1>11. Storing(t)'
  BY Zenon, <1>3, <1>7, <1>8, <1>9, <1>10 DEF Storing
<1>12. \A b \in Blocks \ blocks : nitem'[b] = 0
  BY Zenon, <1>3 DEF PoolBlocks
<1> QED BY Zenon, <1>3, <1>4, <1>5, <1>6, <1>11, <1>12, BlocksMoved

\* A fetch_add on a full group, and its undoing.
LEMMA OvershotFinite ==
  ASSUME NEW g
  PROVE  IsFiniteSet(Overshot(g)) /\ Cardinality(Overshot(g)) \in Nat
<1>1. IsFiniteSet(Overshot(g))
  BY Zenon, FS_Subset DEF Overshot
<1> QED BY Zenon, <1>1, FS_CardinalityType

LEMMA FullGroupStep ==
  ASSUME PoolTypes, PoolBlocks, PoolTypes', NEW t \in Callers, pc[t] = "reserve",
         NEW g, g = seen[t] - 1, nblock[g] >= RP_GROUP_NBLOCK,
         nblock' = [nblock EXCEPT ![g] = nblock[g] + 1],
         pc' = [pc EXCEPT ![t] = "giveBack"],
         UNCHANGED <<ngroup, blocks, nitem, seen, slot>>
  PROVE  PoolBlocks'
<1>1. Seen(t) /\ g \in Groups /\ seen[t] >= 1
  <2>1. Seen(t)
    BY Zenon DEF PoolBlocks
  <2> QED BY Zenon, <2>1, ReservedPlace DEF Seen
<1>2. /\ nblock'[g] = nblock[g] + 1
      /\ \A h \in Groups : h # g => nblock'[h] = nblock[h]
      /\ \A h \in Groups : nblock[h] \in Nat /\ nblock'[h] \in Nat
  BY Zenon, <1>1 DEF PoolTypes
<1>3. /\ pc'[t] = "giveBack"
      /\ seen' = seen /\ slot' = slot /\ ngroup' = ngroup /\ blocks' = blocks /\ nitem' = nitem
      /\ \A u \in Callers \ {t} : pc'[u] = pc[u]
  BY Zenon DEF PoolTypes
<1>4. Grown
  BY <1>2, <1>3 DEF Grown, PoolTypes
<1>5. seen[t] = g + 1 /\ \A h \in Groups : seen[t] = h + 1 => h = g
  BY DEF PoolTypes, Groups
<1>6. ASSUME NEW h \in Groups
      PROVE  Count(h)'
  <2>1. CASE h = g
    <3>1. t \notin Overshot(g)
      BY Zenon DEF Overshot
    <3>2. Overshot(g)' = Overshot(g) \cup {t}
      <4>1. ASSUME NEW u \in Callers
            PROVE  pc'[u] = "giveBack" /\ seen'[u] = g + 1 <=> (pc[u] = "giveBack" /\ seen[u] = g + 1) \/ u = t
        BY Zenon, <1>3, <1>5
      <4> QED BY Zenon, <4>1 DEF Overshot
    <3>3. Cardinality(Overshot(g) \cup {t}) = Cardinality(Overshot(g)) + 1
      BY Zenon, <3>1, OvershotFinite, FS_AddElement
    <3>4. Count(g) /\ Cardinality(Overshot(g)) \in Nat /\ (Overshot(g) = {} => Cardinality(Overshot(g)) = 0)
      BY Zenon, <1>1, OvershotFinite, FS_EmptySet DEF PoolBlocks
    <3>5. nblock[g] = RP_GROUP_NBLOCK + Cardinality(Overshot(g))
      BY <1>1, <1>2, <3>4 DEF Count
    <3>6. Cardinality(Overshot(g))' = Cardinality(Overshot(g)) + 1
      BY Zenon, <3>2, <3>3
    <3>7. PICK n \in Nat : n = Cardinality(Overshot(g))
      BY Zenon, <3>4
    <3>8. nblock'[g] = RP_GROUP_NBLOCK + (n + 1) /\ RP_GROUP_NBLOCK + (n + 1) <= RP_GROUP_NBLOCK + (n + 1)
      BY <1>2, <3>5, <3>7
    <3>9. Count(g)'
      BY Zenon, <3>6, <3>7, <3>8 DEF Count
    <3> QED BY Zenon, <2>1, <3>9
  <2>2. CASE h # g
    <3>1. ASSUME NEW u \in Callers
          PROVE  pc'[u] = "giveBack" /\ seen'[u] = h + 1 <=> pc[u] = "giveBack" /\ seen[u] = h + 1
      BY Zenon, <1>3, <1>5, <2>2
    <3>2. Overshot(h)' = Overshot(h)
      BY Zenon, <3>1 DEF Overshot
    <3> QED BY Zenon, <1>2, <2>2, <3>2 DEF PoolBlocks, Count
  <2> QED BY Zenon, <2>1, <2>2
<1>7. Seen(t)'
  BY Zenon, <1>1, <1>3 DEF Seen
<1>8. pc'[t] # "store"
  BY Zenon, <1>3
<1>9. \A b \in Blocks \ blocks : nitem'[b] = 0
  BY Zenon, <1>3 DEF PoolBlocks
<1> QED BY Zenon, <1>3, <1>4, <1>6, <1>7, <1>8, <1>9, BlocksMoved

LEMMA GiveBackStep ==
  ASSUME PoolTypes, PoolBlocks, PoolTypes', NEW t \in Callers, pc[t] = "giveBack",
         NEW g, g = seen[t] - 1,
         nblock' = [nblock EXCEPT ![g] = nblock[g] - 1],
         pc' = [pc EXCEPT ![t] = "group"],
         UNCHANGED <<ngroup, blocks, nitem, seen, slot>>
  PROVE  PoolBlocks'
<1>1. Seen(t) /\ g \in Groups /\ seen[t] >= 1
  <2>1. Seen(t)
    BY Zenon DEF PoolBlocks
  <2> QED BY Zenon, <2>1, ReservedPlace DEF Seen
<1>2. /\ nblock'[g] = nblock[g] - 1
      /\ \A h \in Groups : h # g => nblock'[h] = nblock[h]
      /\ \A h \in Groups : nblock[h] \in Nat /\ nblock'[h] \in Nat
  BY Zenon, <1>1 DEF PoolTypes
<1>3. /\ pc'[t] = "group"
      /\ seen' = seen /\ slot' = slot /\ ngroup' = ngroup /\ blocks' = blocks /\ nitem' = nitem
      /\ \A u \in Callers \ {t} : pc'[u] = pc[u]
  BY Zenon DEF PoolTypes
<1>4. seen[t] = g + 1 /\ \A h \in Groups : seen[t] = h + 1 => h = g
  BY DEF PoolTypes, Groups
<1>5. t \in Overshot(g)
  BY Zenon, <1>4 DEF Overshot
<1>6. Overshot(g)' = Overshot(g) \ {t}
  <2>1. ASSUME NEW u \in Callers
        PROVE  pc'[u] = "giveBack" /\ seen'[u] = g + 1 <=> (pc[u] = "giveBack" /\ seen[u] = g + 1) /\ u # t
    BY Zenon, <1>3, <1>4
  <2> QED BY Zenon, <2>1 DEF Overshot
<1>7. /\ Cardinality(Overshot(g)) \in Nat /\ Cardinality(Overshot(g) \ {t}) \in Nat
      /\ Cardinality(Overshot(g) \ {t}) = Cardinality(Overshot(g)) - 1
      /\ nblock[g] = RP_GROUP_NBLOCK + Cardinality(Overshot(g))
  <2>1. /\ IsFiniteSet(Overshot(g)) /\ Cardinality(Overshot(g)) \in Nat
        /\ nblock[g] = RP_GROUP_NBLOCK + Cardinality(Overshot(g))
    BY Zenon, <1>1, <1>5, OvershotFinite DEF PoolBlocks, Count
  <2>2. /\ Cardinality(Overshot(g) \ {t}) = Cardinality(Overshot(g)) - 1
        /\ IsFiniteSet(Overshot(g) \ {t})
    BY Zenon, <1>5, <2>1, FS_RemoveElement
  <2> QED BY Zenon, <2>1, <2>2, FS_CardinalityType
<1>8. PICK n \in Nat : n = Cardinality(Overshot(g) \ {t})
  BY Zenon, <1>7
<1>9. nblock'[g] = RP_GROUP_NBLOCK + n /\ RP_GROUP_NBLOCK + n <= RP_GROUP_NBLOCK + n
  BY <1>2, <1>7, <1>8
<1>10. ASSUME NEW h \in Groups
       PROVE  Count(h)'
  <2>1. CASE h = g
    <3>1. Count(g)'
      BY Zenon, <1>6, <1>8, <1>9 DEF Count
    <3> QED BY Zenon, <2>1, <3>1
  <2>2. CASE h # g
    <3>1. ASSUME NEW u \in Callers
          PROVE  pc'[u] = "giveBack" /\ seen'[u] = h + 1 <=> pc[u] = "giveBack" /\ seen[u] = h + 1
      BY Zenon, <1>3, <1>4, <2>2
    <3>2. Overshot(h)' = Overshot(h)
      BY Zenon, <3>1 DEF Overshot
    <3> QED BY Zenon, <1>2, <2>2, <3>2 DEF PoolBlocks, Count
  <2> QED BY Zenon, <2>1, <2>2
<1>11. nblock'[g] >= RP_GROUP_NBLOCK
  BY <1>8, <1>9
<1>12. Grown
  <2>1. \A s \in 0..RP_GROUP_NBLOCK - 1 : s < nblock'[g]
    BY <1>1, <1>2, <1>11
  <2>2. ngroup' >= ngroup
    BY <1>3 DEF PoolTypes
  <2> QED BY Zenon, <1>2, <1>11, <2>1, <2>2 DEF Grown
<1>13. Seen(t)'
  BY Zenon, <1>1, <1>3, <1>11 DEF Seen
<1>14. pc'[t] # "store"
  BY Zenon, <1>3
<1>15. \A b \in Blocks \ blocks : nitem'[b] = 0
  BY Zenon, <1>3 DEF PoolBlocks
<1> QED BY Zenon, <1>3, <1>10, <1>12, <1>13, <1>14, <1>15, BlocksMoved

\* A block is stored in the place reserved for it.
LEMMA StoredStep ==
  ASSUME PoolTypes, PoolBlocks, PoolTypes', NEW t \in Callers, pc[t] = "store",
         blocks' = blocks \cup {Reserved(t)}, pc' = [pc EXCEPT ![t] = "block"],
         UNCHANGED <<ngroup, nblock, nitem, seen, slot>>
  PROVE  PoolBlocks'
<1>1. /\ pc'[t] = "block" /\ \A u \in Callers \ {t} : pc'[u] = pc[u]
      /\ seen' = seen /\ slot' = slot /\ ngroup' = ngroup /\ nblock' = nblock /\ nitem' = nitem
  BY Zenon DEF PoolTypes
<1>2. Grown
  BY <1>1 DEF Grown, PoolTypes
<1>3. ASSUME NEW g \in Groups
      PROVE  Count(g)'
  <2>1. ASSUME NEW u \in Callers
        PROVE  pc'[u] = "giveBack" /\ seen'[u] = g + 1 <=> pc[u] = "giveBack" /\ seen[u] = g + 1
    BY Zenon, <1>1
  <2>2. Overshot(g)' = Overshot(g)
    BY Zenon, <2>1 DEF Overshot
  <2> QED BY Zenon, <1>1, <2>2 DEF PoolBlocks, Count
<1>4. Seen(t) /\ Storing(t)
  BY Zenon DEF PoolBlocks
<1>5. \A u \in Callers : Seen(u)'
  <2>1. Seen(t)'
    BY Zenon, <1>1, <1>4 DEF Seen
  <2> QED BY Zenon, <1>1, <1>2, <2>1, OthersKept
<1>6. \A u \in Callers : Reserved(u)' = Reserved(u)
  BY Zenon, <1>1 DEF Reserved
<1>7. ASSUME NEW u \in Callers
      PROVE  Storing(u)'
  <2>1. CASE pc'[u] = "store"
    <3>1. u # t /\ pc[u] = "store" /\ \A v \in Callers : pc'[v] = "store" => pc[v] = "store"
      BY Zenon, <1>1, <2>1
    <3>2. Storing(u)
      BY Zenon DEF PoolBlocks
    <3>3. Reserved(u)' \notin blocks' /\ slot'[u] < nblock'[seen'[u] - 1]
      BY Zenon, <1>1, <1>4, <1>6, <3>1, <3>2 DEF Storing
    <3>4. \A v \in Callers : v # u /\ pc'[v] = "store" => Reserved(v)' # Reserved(u)'
      BY Zenon, <1>6, <3>1, <3>2 DEF Storing
    <3> QED BY Zenon, <3>3, <3>4 DEF Storing
  <2> QED BY Zenon, <2>1 DEF Storing
<1>8. Placed(Reserved(t))
  BY Zenon, <1>4, ReservedPlace DEF Storing, Placed
<1>9. ASSUME NEW b \in blocks'
      PROVE  Placed(b)'
  <2>1. Placed(b)
    BY Zenon, <1>8 DEF PoolBlocks
  <2> QED BY Zenon, <1>2, <2>1, PlacedKept
<1> QED BY Zenon, <1>1, <1>3, <1>5, <1>7, <1>9 DEF PoolBlocks

-----------------------------------------------------------------------------
(* The steps of the pool *)

LEMMA OwnedKept ==
  ASSUME PoolTypes, BlockOwned, NEW t \in Callers, blocks \subseteq blocks',
         curBlock' = curBlock \/ curBlock' = [curBlock EXCEPT ![t] = NoBlock]
  PROVE  BlockOwned'
<1>1. \A u \in Callers : curBlock'[u] = curBlock[u] \/ curBlock'[u] = NoBlock
  BY Zenon DEF PoolTypes
<1> QED BY Zenon, <1>1 DEF BlockOwned

LEMMA ListsStay ==
  ASSUME PoolTypes, PoolLists, NEW t \in Callers, NEW p, pc' = [pc EXCEPT ![t] = p],
         p = "idle" \/ curFree[t] = <<>>,
         UNCHANGED <<curFree, freeChunks, inUse, lost, nitem>>
  PROVE  PoolLists'
<1>1. curFree' = curFree /\ freeChunks' = freeChunks /\ inUse' = inUse /\ lost' = lost /\ nitem' = nitem
  BY Zenon
<1>2. \A u \in Callers : pc'[u] # "idle" => curFree'[u] = <<>>
  BY Zenon, <1>1 DEF PoolLists, PoolTypes
<1> QED BY Zenon, <1>1, <1>2 DEF PoolLists

\* A step of a thread that leaves the blocks of the groups alone.
LEMMA PoolMoves ==
  ASSUME PoolInv, NEW t \in Callers, pc[t] \notin {"store", "giveBack"},
         NEW p \in PC, p \notin {"store", "giveBack"}, pc' = [pc EXCEPT ![t] = p],
         seen' = seen \/ seen' = [seen EXCEPT ![t] = ngroup],
         ngroup' = ngroup \/ (ngroup' = ngroup + 1 /\ ngroup < RP_MAX_BLOCK_NGROUP),
         nblock' = nblock, blocks' = blocks, slot' = slot,
         curBlock' = curBlock \/ curBlock' = [curBlock EXCEPT ![t] = NoBlock],
         DOMAIN local' = Callers, nitem' \in [Blocks -> 0..BLOCK_NITEM],
         \A b \in Blocks \ blocks : nitem'[b] = 0,
         PoolLists', Seen(t)'
  PROVE  PoolInv'
<1>1. PoolTypes /\ PoolBlocks /\ BlockOwned
  BY Zenon DEF PoolInv
<1>2. ngroup' \in 0..RP_MAX_BLOCK_NGROUP /\ ngroup' >= ngroup
  BY <1>1 DEF PoolTypes
<1>3. pc' \in [Callers -> PC] /\ seen' \in [Callers -> 0..RP_MAX_BLOCK_NGROUP]
  BY Zenon, <1>1 DEF PoolTypes
<1>4. curBlock' \in [Callers -> Blocks \cup {NoBlock}]
  BY Zenon, <1>1 DEF PoolTypes
<1>5. PoolTypes'
  BY Zenon, <1>1, <1>2, <1>3, <1>4 DEF PoolTypes
<1>6. \A u \in Callers \ {t} : seen'[u] = seen[u]
  BY Zenon, <1>1 DEF PoolTypes
<1>7. PoolBlocks'
  BY Zenon, <1>1, <1>2, <1>5, <1>6, QuietStep
<1>8. BlockOwned'
  BY Zenon, <1>1, OwnedKept
<1> QED BY Zenon, <1>5, <1>7, <1>8 DEF PoolInv

\* One of them that leaves the lists and items alone, too, and the groups seen.
LEMMA PoolGoes ==
  ASSUME PoolInv, NEW t \in Callers, pc[t] \notin {"store", "giveBack"},
         NEW p \in PC, p \notin {"store", "giveBack", "reserve", "group"}, pc' = [pc EXCEPT ![t] = p],
         p = "idle" \/ curFree[t] = <<>>,
         seen' = seen,
         ngroup' = ngroup \/ (ngroup' = ngroup + 1 /\ ngroup < RP_MAX_BLOCK_NGROUP),
         nblock' = nblock, blocks' = blocks, slot' = slot,
         curBlock' = curBlock \/ curBlock' = [curBlock EXCEPT ![t] = NoBlock],
         DOMAIN local' = Callers,
         UNCHANGED <<curFree, freeChunks, inUse, lost, nitem>>
  PROVE  PoolInv'
<1>1. PoolTypes /\ PoolBlocks /\ PoolLists /\ Seen(t)
  BY Zenon DEF PoolInv, PoolBlocks
<1>2. PoolLists'
  BY Zenon, <1>1, ListsStay
<1>3. /\ nitem' \in [Blocks -> 0..BLOCK_NITEM]
      /\ \A b \in Blocks \ blocks : nitem'[b] = 0
  BY Zenon, <1>1 DEF PoolTypes, PoolBlocks
<1>4. pc'[t] = p
  BY Zenon, <1>1 DEF PoolTypes
<1>5. seen'[t] <= ngroup'
  BY <1>1 DEF PoolTypes, Seen
<1>6. Seen(t)'
  BY Zenon, <1>4, <1>5 DEF Seen
<1> QED BY Zenon, <1>2, <1>3, <1>6, PoolMoves

LEMMA PoolGetStep ==
  ASSUME PoolInv, NEW t \in Callers, GetResource(t)
  PROVE  PoolInv'
<1>1. /\ pc[t] = "idle" /\ ngroup' = ngroup /\ nblock' = nblock /\ blocks' = blocks /\ nitem' = nitem
      /\ freeChunks' = freeChunks /\ curBlock' = curBlock /\ seen' = seen /\ slot' = slot /\ lost' = lost
  BY Zenon DEF GetResource, groups
<1>2. DOMAIN local' = Callers
  BY Zenon DEF GetResource, GetOrNewLocalPool, PoolInv, PoolTypes
<1>3. PoolTypes /\ PoolBlocks /\ PoolLists /\ Seen(t)
  BY Zenon DEF PoolInv, PoolBlocks
<1>4. CASE curFree[t] # <<>>
  <2>1. /\ inUse' = inUse \cup {Back(curFree[t])}
        /\ curFree' = [curFree EXCEPT ![t] = WithoutBack(curFree[t])] /\ pc' = pc
    BY Zenon, <1>4 DEF GetResource
  <2>2. InOnePlace(curFree', freeChunks', inUse', lost', Made(nitem'))
    BY Zenon, <1>1, <1>3, <1>4, <2>1, ListTaken DEF PoolLists
  <2>3. \A u \in Callers : pc'[u] # "idle" => curFree'[u] = <<>>
    <3>1. \A u \in Callers : u # t => curFree'[u] = curFree[u]
      BY Zenon, <1>3, <2>1 DEF PoolLists, InOnePlace
    <3> QED BY Zenon, <1>1, <1>3, <2>1, <3>1 DEF PoolLists
  <2>4. PoolLists'
    BY Zenon, <1>1, <1>3, <2>2, <2>3 DEF PoolLists
  <2>5. pc' = [pc EXCEPT ![t] = "idle"] /\ "idle" \in PC /\ "idle" \notin {"store", "giveBack"}
    BY Zenon, <1>1, <1>3, <2>1 DEF PoolTypes, PC
  <2>6. /\ nitem' \in [Blocks -> 0..BLOCK_NITEM]
        /\ \A b \in Blocks \ blocks : nitem'[b] = 0
    BY Zenon, <1>1, <1>3 DEF PoolTypes, PoolBlocks
  <2>7. Seen(t)' /\ pc[t] \notin {"store", "giveBack"}
    BY Zenon, <1>1, <1>3, <2>1 DEF Seen
  <2> QED BY Zenon, <1>1, <1>2, <2>4, <2>5, <2>6, <2>7, PoolMoves
<1>5. CASE curFree[t] = <<>>
  <2>1. /\ pc' = [pc EXCEPT ![t] = "check"] /\ inUse' = inUse /\ curFree' = curFree
    BY Zenon, <1>5 DEF GetResource, Goto
  <2>2. "check" \in PC /\ "check" \notin {"store", "giveBack", "reserve", "group"} /\ pc[t] \notin {"store", "giveBack"}
    BY Zenon, <1>1 DEF PC
  <2> QED BY Zenon, <1>1, <1>2, <1>5, <2>1, <2>2, PoolGoes
<1> QED BY Zenon, <1>4, <1>5

LEMMA PoolPopStep ==
  ASSUME PoolInv, NEW t \in Callers, PopChunk(t)
  PROVE  PoolInv'
<1>1. /\ pc[t] = "pop" /\ ngroup' = ngroup /\ nblock' = nblock /\ blocks' = blocks /\ nitem' = nitem
      /\ local' = local /\ curBlock' = curBlock /\ seen' = seen /\ slot' = slot /\ lost' = lost
  BY Zenon DEF PopChunk, groups, locals
<1>2. PoolTypes /\ PoolBlocks /\ PoolLists /\ Seen(t) /\ curFree[t] = <<>>
  BY Zenon, <1>1 DEF PoolInv, PoolBlocks, PoolLists
<1>3. DOMAIN local' = Callers
  BY Zenon, <1>1, <1>2 DEF PoolTypes
<1>4. CASE freeChunks # <<>>
  <2>1. /\ inUse' = inUse \cup {Back(Back(freeChunks))}
        /\ curFree' = [curFree EXCEPT ![t] = WithoutBack(Back(freeChunks))]
        /\ freeChunks' = WithoutBack(freeChunks)
        /\ pc' = [pc EXCEPT ![t] = "idle"]
    BY Zenon, <1>4 DEF PopChunk, Goto
  <2>2. PICK c : c = [curFree EXCEPT ![t] = Back(freeChunks)]
    BY Zenon
  <2>3. curFree \in [Callers -> Seq(ResourceIds)]
    BY Zenon, <1>2 DEF PoolLists, InOnePlace
  <2>4. /\ c[t] = Back(freeChunks)
        /\ [c EXCEPT ![t] = WithoutBack(c[t])] = curFree'
    BY Zenon, <2>1, <2>2, <2>3
  <2>5. InOnePlace(c, freeChunks', inUse, lost, Made(nitem)) /\ c[t] # <<>>
    <3>1. InOnePlace(curFree, freeChunks, inUse, lost, Made(nitem))
      BY Zenon, <1>2 DEF PoolLists
    <3>2. /\ InOnePlace([curFree EXCEPT ![t] = Back(freeChunks)], WithoutBack(freeChunks), inUse, lost, Made(nitem))
          /\ Back(freeChunks) # <<>>
      BY Zenon, <1>2, <1>4, <3>1, ChunkTaken
    <3> QED BY Zenon, <2>1, <2>2, <2>4, <3>2
  <2>6. InOnePlace([c EXCEPT ![t] = WithoutBack(c[t])], freeChunks', inUse \cup {Back(c[t])}, lost, Made(nitem))
    BY Zenon, <2>5, ListTaken
  <2>7. InOnePlace(curFree', freeChunks', inUse', lost', Made(nitem'))
    BY Zenon, <1>1, <2>1, <2>4, <2>6
  <2>8. \A u \in Callers : pc'[u] # "idle" => curFree'[u] = <<>>
    BY Zenon, <1>2, <2>1, <2>3 DEF PoolLists, PoolTypes
  <2>9. PoolLists'
    BY Zenon, <1>1, <1>2, <2>7, <2>8 DEF PoolLists
  <2>10. "idle" \in PC /\ "idle" \notin {"store", "giveBack"}
    BY Zenon DEF PC
  <2>11. /\ nitem' \in [Blocks -> 0..BLOCK_NITEM]
         /\ \A b \in Blocks \ blocks : nitem'[b] = 0
    BY Zenon, <1>1, <1>2 DEF PoolTypes, PoolBlocks
  <2>12. Seen(t)' /\ pc[t] \notin {"store", "giveBack"}
    BY Zenon, <1>1, <1>2, <2>1 DEF Seen, PoolTypes
  <2> QED BY Zenon, <1>1, <1>3, <2>1, <2>9, <2>10, <2>11, <2>12, PoolMoves
<1>5. CASE freeChunks = <<>>
  <2>1. /\ pc' = [pc EXCEPT ![t] = "block"] /\ UNCHANGED <<freeChunks, curFree, inUse>>
    BY Zenon, <1>5 DEF PopChunk, Goto
  <2>2. "block" \in PC /\ "block" \notin {"store", "giveBack", "reserve", "group"} /\ pc[t] \notin {"store", "giveBack"}
    BY Zenon, <1>1 DEF PC
  <2> QED BY Zenon, <1>1, <1>2, <1>3, <2>1, <2>2, PoolGoes
<1> QED BY Zenon, <1>4, <1>5

LEMMA PoolReturnStep ==
  ASSUME PoolInv, NEW t \in Callers, NEW x \in ResourceIds, ReturnResource(t, x)
  PROVE  PoolInv'
<1>1. /\ pc[t] = "idle" /\ x \in inUse /\ ngroup' = ngroup /\ nblock' = nblock /\ blocks' = blocks
      /\ nitem' = nitem /\ curBlock' = curBlock /\ pc' = pc /\ seen' = seen /\ slot' = slot /\ lost' = lost
  BY Zenon DEF ReturnResource, groups
<1>2. PoolTypes /\ PoolBlocks /\ PoolLists /\ Seen(t)
  BY Zenon, <1>1 DEF PoolInv, PoolBlocks
<1>3. DOMAIN local' = Callers
  BY Zenon, <1>2 DEF PoolTypes, ReturnResource, GetOrNewLocalPool
<1>4. curFree \in [Callers -> Seq(ResourceIds)]
  BY Zenon, <1>2 DEF PoolLists, InOnePlace
<1>5. /\ InOnePlace(curFree', freeChunks', inUse', lost', Made(nitem'))
      /\ \A u \in Callers \ {t} : curFree'[u] = curFree[u]
  <2>1. CASE /\ inUse' = inUse \ {x}
             /\ curFree' = [curFree EXCEPT ![t] = Append(curFree[t], x)]
             /\ freeChunks' = freeChunks
    BY Zenon, <1>1, <1>2, <1>4, <2>1, ListPut DEF PoolLists
  <2>2. CASE /\ Len(curFree[t]) >= FreeChunkNItem
             /\ inUse' = inUse \ {x}
             /\ freeChunks' = Append(freeChunks, curFree[t])
             /\ curFree' = [curFree EXCEPT ![t] = <<x>>]
    <3>1. curFree[t] # <<>>
      BY <2>2
    <3>2. PICK c : c = [curFree EXCEPT ![t] = <<>>]
      BY Zenon
    <3>3. [c EXCEPT ![t] = Append(c[t], x)] = curFree' /\ \A u \in Callers \ {t} : curFree'[u] = curFree[u]
      <4>1. c[t] = <<>> /\ Append(<<>>, x) = <<x>>
        BY <1>4, <3>2
      <4>2. [c EXCEPT ![t] = <<x>>] = [curFree EXCEPT ![t] = <<x>>]
        BY Zenon, <1>4, <3>2
      <4> QED BY Zenon, <1>4, <2>2, <4>1, <4>2
    <3>4. InOnePlace(c, freeChunks', inUse, lost, Made(nitem))
      BY Zenon, <1>2, <2>2, <3>1, <3>2, ChunkPushed DEF PoolLists
    <3>5. InOnePlace([c EXCEPT ![t] = Append(c[t], x)], freeChunks', inUse \ {x}, lost, Made(nitem))
      BY Zenon, <1>1, <3>4, ListPut
    <3> QED BY Zenon, <1>1, <2>2, <3>3, <3>5
  <2>3. CASE UNCHANGED <<inUse, freeChunks, curFree>>
    BY Zenon, <1>1, <1>2, <2>3 DEF PoolLists
  <2> QED BY Zenon, <2>1, <2>2, <2>3 DEF ReturnResource
<1>6. PoolLists'
  BY Zenon, <1>1, <1>2, <1>5 DEF PoolLists
<1>7. pc' = [pc EXCEPT ![t] = "idle"] /\ "idle" \in PC /\ "idle" \notin {"store", "giveBack"}
  BY Zenon, <1>1, <1>2 DEF PoolTypes, PC
<1>8. /\ nitem' \in [Blocks -> 0..BLOCK_NITEM]
      /\ \A b \in Blocks \ blocks : nitem'[b] = 0
  BY Zenon, <1>1, <1>2 DEF PoolTypes, PoolBlocks
<1>9. Seen(t)' /\ pc[t] \notin {"store", "giveBack"}
  BY Zenon, <1>1, <1>2 DEF Seen
<1> QED BY Zenon, <1>1, <1>3, <1>6, <1>7, <1>8, <1>9, PoolMoves

LEMMA PoolClearStep ==
  ASSUME PoolInv, NEW t \in Callers, Clear(t)
  PROVE  PoolInv'
<1>1. /\ pc[t] = "idle" /\ ngroup' = ngroup /\ nblock' = nblock /\ blocks' = blocks /\ nitem' = nitem
      /\ curBlock' = [curBlock EXCEPT ![t] = NoBlock] /\ curFree' = [curFree EXCEPT ![t] = <<>>]
      /\ pc' = pc /\ seen' = seen /\ slot' = slot /\ inUse' = inUse
  BY Zenon DEF Clear, groups
<1>2. PoolTypes /\ PoolBlocks /\ PoolLists /\ Seen(t)
  BY Zenon, <1>1 DEF PoolInv, PoolBlocks
<1>3. DOMAIN local' = Callers
  BY Zenon, <1>2 DEF PoolTypes, Clear
<1>4. curFree \in [Callers -> Seq(ResourceIds)]
  BY Zenon, <1>2 DEF PoolLists, InOnePlace
<1>5. /\ InOnePlace(curFree', freeChunks', inUse', lost', Made(nitem'))
      /\ ~MallocFails => lost' = {}
  <2>1. CASE curFree[t] # <<>> /\ freeChunks' = Append(freeChunks, curFree[t]) /\ lost' = lost
    BY Zenon, <1>1, <1>2, <2>1, ChunkPushed DEF PoolLists
  <2>2. CASE curFree[t] = <<>> /\ freeChunks' = freeChunks /\ lost' = lost
    <3>1. curFree' = curFree
      BY Zenon, <1>1, <1>4, <2>2
    <3> QED BY Zenon, <1>1, <1>2, <2>2, <3>1 DEF PoolLists
  <2>3. CASE MallocFails /\ lost' = lost \cup Range(curFree[t]) /\ freeChunks' = freeChunks
    BY Zenon, <1>1, <1>2, <2>3, ListLost DEF PoolLists
  <2> QED BY Zenon, <2>1, <2>2, <2>3 DEF Clear
<1>6. \A u \in Callers : pc'[u] # "idle" => curFree'[u] = <<>>
  BY Zenon, <1>1, <1>2, <1>4 DEF PoolLists
<1>7. PoolLists'
  BY Zenon, <1>5, <1>6 DEF PoolLists
<1>8. pc' = [pc EXCEPT ![t] = "idle"] /\ "idle" \in PC /\ "idle" \notin {"store", "giveBack"}
  BY Zenon, <1>1, <1>2 DEF PoolTypes, PC
<1>9. /\ nitem' \in [Blocks -> 0..BLOCK_NITEM]
      /\ \A b \in Blocks \ blocks : nitem'[b] = 0
  BY Zenon, <1>1, <1>2 DEF PoolTypes, PoolBlocks
<1>10. Seen(t)' /\ pc[t] \notin {"store", "giveBack"}
  BY Zenon, <1>1, <1>2 DEF Seen
<1> QED BY Zenon, <1>1, <1>3, <1>7, <1>8, <1>9, <1>10, PoolMoves

LEMMA BlockOfId ==
  ASSUME NEW x \in ResourceIds
  PROVE  /\ x \in Nat /\ x \div BLOCK_NITEM \in Blocks
         /\ x - (x \div BLOCK_NITEM) * BLOCK_NITEM \in Nat
<1>1. PICK m \in Nat : m = RP_MAX_BLOCK_NGROUP * RP_GROUP_NBLOCK
  OBVIOUS
<1>2. x \in 0..m * BLOCK_NITEM - 1 /\ m * BLOCK_NITEM \in Nat
  BY <1>1 DEF ResourceIds
<1>3. x \in Nat /\ x < m * BLOCK_NITEM
  BY <1>2
<1>4. PICK d \in Nat : d = x \div BLOCK_NITEM /\ d * BLOCK_NITEM <= x /\ d * BLOCK_NITEM \in Nat
  BY Zenon, <1>3, Divided
<1>5. m <= d => m * BLOCK_NITEM <= d * BLOCK_NITEM
  <2>1. SUFFICES ASSUME m <= d
                 PROVE  m * BLOCK_NITEM <= d * BLOCK_NITEM
    BY Zenon
  <2>2. (m - 1) * BLOCK_NITEM + BLOCK_NITEM <= d * BLOCK_NITEM
    BY <2>1, TimesMono
  <2>3. (m - 1) * BLOCK_NITEM + BLOCK_NITEM = m * BLOCK_NITEM
    OBVIOUS
  <2> QED BY Zenon, <2>2, <2>3
<1>6. d \in 0..m - 1
  BY <1>2, <1>3, <1>4, <1>5
<1>7. x - d * BLOCK_NITEM \in Nat
  BY <1>3, <1>4
<1> QED BY Zenon, <1>1, <1>3, <1>4, <1>6, <1>7 DEF Blocks

\* The next item of a block is new.
LEMMA ItemMade ==
  ASSUME PoolTypes, NEW b \in Blocks, nitem[b] < BLOCK_NITEM,
         nitem' = [nitem EXCEPT ![b] = nitem[b] + 1],
         NEW e, e = b * BLOCK_NITEM + nitem[b]
  PROVE  /\ e \notin Made(nitem) /\ Made(nitem') = Made(nitem) \cup {e}
         /\ nitem' \in [Blocks -> 0..BLOCK_NITEM]
<1>1. PICK n \in 0..BLOCK_NITEM - 1 : n = nitem[b]
  BY DEF PoolTypes
<1>2. /\ nitem' \in [Blocks -> 0..BLOCK_NITEM] /\ nitem'[b] = n + 1
      /\ \A c \in Blocks : c # b => nitem'[c] = nitem[c]
  BY <1>1 DEF PoolTypes
<1>3. PICK m \in Nat : m = RP_MAX_BLOCK_NGROUP * RP_GROUP_NBLOCK
  OBVIOUS
<1>4. b \in 0..m - 1 /\ b \in Nat
  BY <1>3 DEF Blocks
<1>5. e \in 0..m * BLOCK_NITEM - 1
  BY Zenon, <1>1, <1>4, InProduct
<1>6. e \in ResourceIds
  BY Zenon, <1>3, <1>5 DEF ResourceIds
<1>7. e \div BLOCK_NITEM = b
  BY Zenon, <1>1, <1>4, DividedOnce
<1>8. PICK k \in Int : k = b * BLOCK_NITEM
  BY <1>4
<1>9. e = k + n /\ e - k = n /\ e - (e \div BLOCK_NITEM) * BLOCK_NITEM = n
  BY <1>1, <1>7, <1>8
<1>10. e \notin Made(nitem)
  BY <1>1, <1>7, <1>9 DEF Made, MadeIn
<1>11. ASSUME NEW x \in ResourceIds
       PROVE  MadeIn(nitem', x) <=> MadeIn(nitem, x) \/ x = e
  <2>1. x \in Nat /\ x \div BLOCK_NITEM \in Blocks
    BY Zenon, BlockOfId
  <2>2. CASE x \div BLOCK_NITEM = b
    <3>1. x - (x \div BLOCK_NITEM) * BLOCK_NITEM = x - k
      BY Zenon, <1>8, <2>2
    <3>2. x - k < n + 1 <=> x - k < n \/ x = e
      BY <1>9, <2>1
    <3> QED BY Zenon, <1>1, <1>2, <2>2, <3>1, <3>2 DEF MadeIn
  <2>3. CASE x \div BLOCK_NITEM # b
    BY Zenon, <1>2, <1>7, <2>1, <2>3 DEF MadeIn
  <2> QED BY Zenon, <2>2, <2>3
<1>12. Made(nitem') = Made(nitem) \cup {e}
  BY Zenon, <1>6, <1>11 DEF Made
<1> QED BY Zenon, <1>2, <1>10, <1>12

LEMMA PoolConstructStep ==
  ASSUME PoolInv, NEW t \in Callers, Construct(t)
  PROVE  PoolInv'
<1>1. PICK b : b = curBlock[t]
  BY Zenon
<1>2. PICK e : e = b * BLOCK_NITEM + nitem[b]
  BY Zenon
<1>3. /\ pc[t] = "block" /\ b # NoBlock /\ nitem[b] < BLOCK_NITEM
      /\ inUse' = inUse \cup {e} /\ nitem' = [nitem EXCEPT ![b] = nitem[b] + 1]
      /\ pc' = [pc EXCEPT ![t] = "idle"]
  BY Zenon, <1>1, <1>2 DEF Construct, HasRoom, Goto
<1>4. /\ ngroup' = ngroup /\ nblock' = nblock /\ blocks' = blocks /\ freeChunks' = freeChunks
      /\ local' = local /\ curBlock' = curBlock /\ curFree' = curFree /\ seen' = seen /\ slot' = slot
      /\ lost' = lost
  BY Zenon DEF Construct, groups, locals
<1>5. PoolTypes /\ PoolBlocks /\ PoolLists /\ BlockOwned /\ Seen(t)
  BY Zenon DEF PoolInv, PoolBlocks
<1>6. b \in blocks /\ b \in Blocks
  BY Zenon, <1>1, <1>3, <1>5 DEF BlockOwned, PoolTypes
<1>7. /\ e \notin Made(nitem) /\ Made(nitem') = Made(nitem) \cup {e}
      /\ nitem' \in [Blocks -> 0..BLOCK_NITEM]
  BY Zenon, <1>2, <1>3, <1>5, <1>6, ItemMade
<1>8. InOnePlace(curFree', freeChunks', inUse', lost', Made(nitem'))
  <2>1. InOnePlace(curFree, freeChunks, inUse \cup {e}, lost, Made(nitem) \cup {e})
    BY Zenon, <1>5, <1>7, IdMade DEF PoolLists
  <2> QED BY Zenon, <1>3, <1>4, <1>7, <2>1
<1>9. \A u \in Callers : pc'[u] # "idle" => curFree'[u] = <<>>
  BY Zenon, <1>3, <1>4, <1>5 DEF PoolLists, PoolTypes
<1>10. PoolLists'
  BY Zenon, <1>4, <1>5, <1>8, <1>9 DEF PoolLists
<1>11. \A c \in Blocks \ blocks : nitem'[c] = 0
  BY Zenon, <1>3, <1>5, <1>6 DEF PoolBlocks, PoolTypes
<1>12. /\ "idle" \in PC /\ "idle" \notin {"store", "giveBack"} /\ pc[t] \notin {"store", "giveBack"}
       /\ Seen(t)' /\ DOMAIN local' = Callers
  BY Zenon, <1>3, <1>4, <1>5 DEF Seen, PoolTypes, PC
<1> QED BY Zenon, <1>3, <1>4, <1>7, <1>10, <1>11, <1>12, PoolMoves

LEMMA PoolQuietStep ==
  ASSUME PoolInv, NEW t \in Callers,
         CheckChunks(t) \/ Reject(t) \/ NewBlock(t) \/ NoMemory(t) \/ AddBlockGroup(t)
  PROVE  PoolInv'
<1>1. /\ pc[t] \notin {"store", "giveBack", "idle"}
      /\ nblock' = nblock /\ blocks' = blocks /\ local' = local /\ slot' = slot /\ seen' = seen
      /\ UNCHANGED <<curFree, freeChunks, inUse, lost, nitem>>
  <2>1. pc[t] \in {"check", "block", "group"}
    BY Zenon DEF CheckChunks, Reject, NewBlock, NoMemory, AddBlockGroup
  <2>2. pc[t] \notin {"store", "giveBack", "idle"}
    BY Zenon, <2>1
  <2> QED BY Zenon, <2>2 DEF CheckChunks, Reject, NewBlock, NoMemory, AddBlockGroup, groups, locals
<1>2. curFree[t] = <<>> /\ DOMAIN local' = Callers
  BY Zenon, <1>1 DEF PoolInv, PoolLists, PoolTypes
<1>3. PICK p \in {"block", "pop", "idle", "load"} : pc' = [pc EXCEPT ![t] = p]
  BY Zenon DEF CheckChunks, Reject, NewBlock, NoMemory, AddBlockGroup, FailGet, Goto
<1>4. p \in PC /\ p \notin {"store", "giveBack", "reserve", "group"}
  BY Zenon DEF PC
<1>5. /\ ngroup' = ngroup \/ (ngroup' = ngroup + 1 /\ ngroup < RP_MAX_BLOCK_NGROUP)
      /\ curBlock' = curBlock \/ curBlock' = [curBlock EXCEPT ![t] = NoBlock]
  BY Zenon DEF CheckChunks, Reject, NewBlock, NoMemory, AddBlockGroup, FailGet, groups
<1> QED BY Zenon, <1>1, <1>2, <1>3, <1>4, <1>5, PoolGoes

LEMMA PoolLoadStep ==
  ASSUME PoolInv, NEW t \in Callers, LoadGroups(t)
  PROVE  PoolInv'
<1> DEFINE p == IF ngroup >= 1 THEN "reserve" ELSE "group"
<1>1. /\ pc[t] = "load" /\ seen' = [seen EXCEPT ![t] = ngroup] /\ pc' = [pc EXCEPT ![t] = p]
      /\ ngroup' = ngroup /\ nblock' = nblock /\ blocks' = blocks /\ local' = local /\ slot' = slot
      /\ curBlock' = curBlock /\ UNCHANGED <<curFree, freeChunks, inUse, lost, nitem>>
  BY Zenon DEF LoadGroups, Goto, groups, locals
<1>2. PoolTypes /\ PoolBlocks /\ PoolLists
  BY Zenon DEF PoolInv
<1>3. curFree[t] = <<>>
  BY Zenon, <1>1, <1>2 DEF PoolLists
<1>4. /\ p \in PC /\ p \notin {"store", "giveBack"} /\ pc[t] \notin {"store", "giveBack"}
      /\ DOMAIN local' = Callers
  BY Zenon, <1>1, <1>2 DEF PC, PoolTypes
<1>5. pc'[t] = p /\ seen'[t] = ngroup /\ ngroup \in Nat
  BY <1>1, <1>2 DEF PoolTypes
<1>6. Seen(t)'
  BY <1>1, <1>5 DEF Seen
<1> HIDE DEF p
<1>7. PoolLists'
  BY Zenon, <1>1, <1>2, <1>3, ListsStay
<1>8. /\ nitem' \in [Blocks -> 0..BLOCK_NITEM]
      /\ \A b \in Blocks \ blocks : nitem'[b] = 0
  BY Zenon, <1>1, <1>2 DEF PoolTypes, PoolBlocks
<1> QED BY Zenon, <1>1, <1>4, <1>6, <1>7, <1>8, PoolMoves

LEMMA PoolReserveStep ==
  ASSUME PoolInv, NEW t \in Callers, ReserveSlot(t)
  PROVE  PoolInv'
<1>1. PICK g : g = seen[t] - 1
  BY Zenon
<1>2. /\ pc[t] = "reserve" /\ nblock' = [nblock EXCEPT ![g] = nblock[g] + 1]
      /\ UNCHANGED <<ngroup, blocks, nitem, seen>>
      /\ local' = local /\ curBlock' = curBlock /\ UNCHANGED <<curFree, freeChunks, inUse, lost, nitem>>
  BY Zenon, <1>1 DEF ReserveSlot, locals
<1>3. PoolTypes /\ PoolBlocks /\ PoolLists /\ BlockOwned /\ Seen(t)
  BY Zenon DEF PoolInv, PoolBlocks
<1>4. curFree[t] = <<>> /\ blocks \subseteq blocks' /\ g \in Groups
  BY Zenon, <1>1, <1>2, <1>3, ReservedPlace DEF PoolLists
<1>5. nblock' \in [Groups -> Nat] /\ nblock[g] \in Nat
  BY <1>2, <1>3, <1>4 DEF PoolTypes
<1>6. BlockOwned'
  BY Zenon, <1>2, <1>3, <1>4, OwnedKept
<1>7. CASE nblock[g] < RP_GROUP_NBLOCK
  <2>1. PICK n : n = nblock[g]
    BY Zenon
  <2>2. slot' = [slot EXCEPT ![t] = n] /\ pc' = [pc EXCEPT ![t] = "store"]
    BY Zenon, <1>1, <1>7, <2>1 DEF ReserveSlot, Goto
  <2>3. n \in 0..RP_GROUP_NBLOCK - 1 /\ "store" \in PC
    BY <1>5, <1>7, <2>1 DEF PC
  <2>4. slot' \in [Callers -> 0..RP_GROUP_NBLOCK - 1] /\ pc' \in [Callers -> PC]
    BY Zenon, <1>3, <2>2, <2>3 DEF PoolTypes
  <2>5. PoolTypes'
    BY Zenon, <1>2, <1>3, <1>5, <2>4 DEF PoolTypes
  <2>6. PoolBlocks'
    BY Zenon, <1>1, <1>2, <1>3, <1>7, <2>1, <2>2, <2>5, SlotReserved
  <2>7. PoolLists'
    BY Zenon, <1>2, <1>3, <1>4, <2>2, ListsStay
  <2> QED BY Zenon, <1>6, <2>5, <2>6, <2>7 DEF PoolInv
<1>8. CASE ~(nblock[g] < RP_GROUP_NBLOCK)
  <2>1. slot' = slot /\ pc' = [pc EXCEPT ![t] = "giveBack"]
    BY Zenon, <1>1, <1>8 DEF ReserveSlot, Goto
  <2>2. nblock[g] >= RP_GROUP_NBLOCK /\ "giveBack" \in PC
    BY <1>5, <1>8 DEF PC
  <2>3. pc' \in [Callers -> PC]
    BY Zenon, <1>3, <2>1, <2>2 DEF PoolTypes
  <2>4. PoolTypes'
    BY Zenon, <1>2, <1>3, <1>5, <2>1, <2>3 DEF PoolTypes
  <2>5. PoolBlocks'
    BY Zenon, <1>1, <1>2, <1>3, <2>1, <2>2, <2>4, FullGroupStep
  <2>6. PoolLists'
    BY Zenon, <1>2, <1>3, <1>4, <2>1, ListsStay
  <2> QED BY Zenon, <1>6, <2>4, <2>5, <2>6 DEF PoolInv
<1> QED BY Zenon, <1>7, <1>8

LEMMA PoolGiveBackStep ==
  ASSUME PoolInv, NEW t \in Callers, GiveBackSlot(t)
  PROVE  PoolInv'
<1>1. PICK g : g = seen[t] - 1
  BY Zenon
<1>2. /\ pc[t] = "giveBack" /\ nblock' = [nblock EXCEPT ![g] = nblock[g] - 1]
      /\ pc' = [pc EXCEPT ![t] = "group"]
      /\ UNCHANGED <<ngroup, blocks, nitem, seen, slot>>
      /\ local' = local /\ curBlock' = curBlock /\ UNCHANGED <<curFree, freeChunks, inUse, lost, nitem>>
  BY Zenon, <1>1 DEF GiveBackSlot, Goto, locals
<1>3. PoolTypes /\ PoolBlocks /\ PoolLists /\ BlockOwned /\ Seen(t)
  BY Zenon DEF PoolInv, PoolBlocks
<1>4. curFree[t] = <<>> /\ blocks \subseteq blocks' /\ g \in Groups /\ "group" \in PC
  BY Zenon, <1>1, <1>2, <1>3, ReservedPlace DEF PoolLists, PC
<1>5. nblock[g] - 1 \in Nat
  <2>1. t \in Overshot(g)
    BY <1>1, <1>2, <1>3 DEF Overshot, PoolTypes
  <2>2. nblock[g] = RP_GROUP_NBLOCK + Cardinality(Overshot(g)) /\ Cardinality(Overshot(g)) \in Nat
    BY Zenon, <1>3, <1>4, <2>1, OvershotFinite DEF PoolBlocks, Count
  <2> QED BY <2>2
<1>6. nblock' \in [Groups -> Nat] /\ pc' \in [Callers -> PC]
  BY Zenon, <1>2, <1>3, <1>4, <1>5 DEF PoolTypes
<1>7. PoolTypes'
  BY Zenon, <1>2, <1>3, <1>6 DEF PoolTypes
<1>8. PoolBlocks'
  BY Zenon, <1>1, <1>2, <1>3, <1>7, GiveBackStep
<1>9. PoolLists'
  BY Zenon, <1>2, <1>3, <1>4, ListsStay
<1>10. BlockOwned'
  BY Zenon, <1>2, <1>3, <1>4, OwnedKept
<1> QED BY Zenon, <1>7, <1>8, <1>9, <1>10 DEF PoolInv

LEMMA PoolStoreStep ==
  ASSUME PoolInv, NEW t \in Callers, StoreBlock(t)
  PROVE  PoolInv'
<1>1. PICK b : b = Reserved(t)
  BY Zenon
<1>2. /\ pc[t] = "store" /\ blocks' = blocks \cup {b} /\ curBlock' = [curBlock EXCEPT ![t] = b]
      /\ pc' = [pc EXCEPT ![t] = "block"]
      /\ UNCHANGED <<ngroup, nblock, nitem, seen, slot>>
      /\ local' = local /\ UNCHANGED <<curFree, freeChunks, inUse, lost, nitem>>
  BY Zenon, <1>1 DEF StoreBlock, Goto, locals, Reserved
<1>3. PoolTypes /\ PoolBlocks /\ PoolLists /\ BlockOwned /\ Seen(t) /\ Storing(t)
  BY Zenon DEF PoolInv, PoolBlocks
<1>4. b \in Blocks /\ b \notin blocks
  BY Zenon, <1>1, <1>2, <1>3, ReservedPlace DEF Storing
<1>5. curFree[t] = <<>> /\ "block" \in PC
  BY Zenon, <1>2, <1>3 DEF PoolLists, PC
<1>6. pc' \in [Callers -> PC] /\ curBlock' \in [Callers -> Blocks \cup {NoBlock}] /\ blocks' \subseteq Blocks
  BY Zenon, <1>2, <1>3, <1>4, <1>5 DEF PoolTypes
<1>7. PoolTypes'
  BY Zenon, <1>2, <1>3, <1>6 DEF PoolTypes
<1>8. PoolBlocks'
  BY Zenon, <1>1, <1>2, <1>3, <1>7, StoredStep
<1>9. PoolLists'
  BY Zenon, <1>2, <1>3, <1>5, ListsStay
<1>10. BlockOwned'
  <2>1. curBlock'[t] = b /\ \A u \in Callers \ {t} : curBlock'[u] = curBlock[u]
    BY Zenon, <1>2, <1>3 DEF PoolTypes
  <2>2. \A u \in Callers : curBlock'[u] # NoBlock => curBlock'[u] \in blocks'
    <3>1. curBlock'[t] \in blocks'
      BY <1>2, <2>1
    <3>2. \A u \in Callers \ {t} : curBlock'[u] # NoBlock => curBlock'[u] \in blocks'
      <4>1. blocks \subseteq blocks'
        BY Zenon, <1>2
      <4> QED BY Zenon, <1>3, <2>1, <4>1 DEF BlockOwned
    <3> QED BY Zenon, <3>1, <3>2
  <2>3. \A u \in Callers \ {t} : curBlock'[u] # NoBlock => curBlock'[u] # b
    BY Zenon, <1>3, <1>4, <2>1 DEF BlockOwned
  <2>4. ASSUME NEW u \in Callers, NEW v \in Callers, u # v, curBlock'[u] # NoBlock
        PROVE  curBlock'[u] # curBlock'[v]
    <3>1. CASE u = t
      BY Zenon, <2>1, <2>3, <2>4, <3>1
    <3>2. CASE v = t
      BY Zenon, <2>1, <2>3, <2>4, <3>2
    <3>3. CASE u # t /\ v # t
      BY Zenon, <1>3, <2>1, <2>4, <3>3 DEF BlockOwned
    <3> QED BY Zenon, <3>1, <3>2, <3>3
  <2> QED BY Zenon, <2>2, <2>4 DEF BlockOwned
<1> QED BY Zenon, <1>7, <1>8, <1>9, <1>10 DEF PoolInv

LEMMA PoolStep == PoolInv /\ (PoolNext \/ UNCHANGED pool_vars) => PoolInv'
<1> SUFFICES ASSUME PoolInv, PoolNext \/ UNCHANGED pool_vars
             PROVE  PoolInv'
  BY Zenon
<1>1. CASE UNCHANGED pool_vars
  <2>1. /\ ngroup' = ngroup /\ nblock' = nblock /\ blocks' = blocks /\ nitem' = nitem
        /\ freeChunks' = freeChunks /\ local' = local /\ curBlock' = curBlock /\ curFree' = curFree
        /\ pc' = pc /\ seen' = seen /\ slot' = slot /\ inUse' = inUse /\ lost' = lost
    BY Zenon, <1>1 DEF pool_vars, groups, locals
  <2>2. PoolTypes' /\ BlockOwned'
    BY Zenon, <2>1 DEF PoolInv, PoolTypes, BlockOwned
  <2>3. PoolLists'
    BY Zenon, <2>1 DEF PoolInv, PoolLists
  <2>4. /\ \A g \in Groups : Overshot(g)' = Overshot(g)
        /\ \A t \in Callers : Reserved(t)' = Reserved(t)
    BY Zenon, <2>1 DEF Overshot, Reserved
  <2>5. /\ \A g \in Groups : Count(g)'
        /\ \A t \in Callers : Seen(t)' /\ Storing(t)'
    BY Zenon, <2>1, <2>4 DEF PoolInv, PoolBlocks, Count, Seen, Storing
  <2>6. \A b \in blocks' : Placed(b)'
    BY Zenon, <2>1 DEF PoolInv, PoolBlocks, Placed
  <2>7. PoolBlocks'
    BY Zenon, <2>1, <2>5, <2>6 DEF PoolInv, PoolBlocks
  <2> QED BY Zenon, <2>2, <2>3, <2>7 DEF PoolInv
<1>2. CASE PoolNext
  BY Zenon, <1>2, PoolGetStep, PoolPopStep, PoolConstructStep, PoolQuietStep, PoolLoadStep, PoolReserveStep,
     PoolStoreStep, PoolGiveBackStep, PoolClearStep, PoolReturnStep DEF PoolNext, GetStep
<1> QED BY Zenon, <1>1, <1>2

LEMMA PoolStart == PoolInit => PoolInv
<1> SUFFICES ASSUME PoolInit
             PROVE  PoolInv
  BY Zenon
<1>1. PoolTypes
  BY DEF PoolInit, PoolTypes, PC
<1>2. /\ \A t \in Callers : pc[t] = "idle" /\ seen[t] = 0 /\ curBlock[t] = NoBlock /\ curFree[t] = <<>>
      /\ \A g \in Groups : nblock[g] = 0
      /\ \A b \in Blocks : nitem[b] = 0
      /\ ngroup = 0 /\ blocks = {} /\ freeChunks = <<>> /\ inUse = {} /\ lost = {}
  BY Zenon DEF PoolInit
<1>3. ASSUME NEW g \in Groups
      PROVE  Count(g)
  <2>1. Overshot(g) = {}
    BY Zenon, <1>2 DEF Overshot
  <2>2. Cardinality(Overshot(g)) = 0
    BY Zenon, <2>1, FS_EmptySet
  <2> QED BY <1>2, <2>1, <2>2 DEF Count
<1>4. \A t \in Callers : Seen(t) /\ Storing(t)
  BY <1>2 DEF Seen, Storing
<1>5. PoolBlocks
  BY Zenon, <1>2, <1>3, <1>4 DEF PoolBlocks
<1>6. BlockOwned
  BY Zenon, <1>2 DEF BlockOwned
<1>7. \A x : x \notin Made(nitem)
  <2>1. SUFFICES ASSUME NEW x \in ResourceIds, MadeIn(nitem, x)
                 PROVE  FALSE
    BY Zenon DEF Made
  <2>2. /\ x - (x \div BLOCK_NITEM) * BLOCK_NITEM < 0
        /\ x - (x \div BLOCK_NITEM) * BLOCK_NITEM \in Nat
    BY Zenon, <1>2, <2>1, BlockOfId DEF MadeIn
  <2> QED BY <2>2
<1>8. DOMAIN freeChunks = {}
  BY <1>2
<1>9. \A t \in Callers : curFree[t] \in Seq(ResourceIds) /\ DOMAIN curFree[t] = {}
  <2>1. <<>> \in Seq(ResourceIds) /\ DOMAIN <<>> = {}
    OBVIOUS
  <2> QED BY Zenon, <1>2, <2>1
<1>10. \A t \in Callers : IsInjective(curFree[t]) /\ \A x : x \notin Range(curFree[t])
  BY Zenon, <1>9 DEF IsInjective, Range
<1>11. curFree \in [Callers -> Seq(ResourceIds)] /\ freeChunks \in Seq(Seq(ResourceIds))
  BY <1>2, <1>9 DEF PoolInit
<1>12. ListsApart(curFree, freeChunks) /\ \A x : ~OnFreeList(curFree, freeChunks, x)
  BY Zenon, <1>8, <1>10 DEF ListsApart, OnFreeList
<1>13. InOnePlace(curFree, freeChunks, inUse, lost, Made(nitem))
  BY Zenon, <1>2, <1>7, <1>8, <1>10, <1>11, <1>12 DEF InOnePlace
<1> QED BY Zenon, <1>1, <1>2, <1>5, <1>6, <1>13 DEF PoolInv, PoolLists

\* address_resource() finds what was made.
LEMMA Addressed ==
  ASSUME PoolInv, NEW x \in ResourceIds
  PROVE  Address(x) <=> MadeIn(nitem, x)
<1>1. PICK b \in Blocks : b = x \div BLOCK_NITEM
  BY Zenon, BlockOfId
<1>2. x - b * BLOCK_NITEM \in Nat
  BY Zenon, <1>1, BlockOfId
<1>3. Address(x) <=> b \div RP_GROUP_NBLOCK < ngroup /\ b \in blocks /\ x - b * BLOCK_NITEM < nitem[b]
  BY Zenon, <1>1 DEF Address
<1>4. MadeIn(nitem, x) <=> x - b * BLOCK_NITEM < nitem[b]
  BY Zenon, <1>1 DEF MadeIn
<1>5. ASSUME b \notin blocks
      PROVE  ~(x - b * BLOCK_NITEM < nitem[b])
  <2>1. nitem[b] = 0
    BY Zenon, <1>5 DEF PoolInv, PoolBlocks
  <2> QED BY <1>2, <2>1
<1>6. ASSUME b \in blocks
      PROVE  b \div RP_GROUP_NBLOCK < ngroup
  <2>1. PICK g \in Groups, s \in 0..RP_GROUP_NBLOCK - 1 : b = At(g, s) /\ g < ngroup
    BY Zenon, <1>6 DEF PoolInv, PoolBlocks, Placed
  <2>2. g \in Nat
    BY DEF Groups
  <2>3. b \div RP_GROUP_NBLOCK = g
    BY Zenon, <2>1, <2>2, DividedOnce DEF At
  <2> QED BY Zenon, <2>1, <2>3
<1> QED BY Zenon, <1>3, <1>4, <1>5, <1>6

LEMMA PoolCorrect == PoolInv => ExactlyOnce
<1> SUFFICES ASSUME PoolInv
             PROVE  ExactlyOnce
  BY Zenon
<1>1. PoolLists /\ BlockOwned /\ InOnePlace(curFree, freeChunks, inUse, lost, Made(nitem))
  BY Zenon DEF PoolInv, PoolLists
<1>2. ASSUME NEW x
      PROVE  x \in FreeIds <=> OnFreeList(curFree, freeChunks, x)
  <2>1. x \in UNION {Range(c) : c \in Range(freeChunks)} <=> \E i \in DOMAIN freeChunks : x \in Range(freeChunks[i])
    <3>1. ASSUME NEW i \in DOMAIN freeChunks, x \in Range(freeChunks[i])
          PROVE  x \in UNION {Range(c) : c \in Range(freeChunks)}
      <4>1. freeChunks[i] \in Range(freeChunks)
        BY Zenon DEF Range
      <4> QED BY Zenon, <3>1, <4>1
    <3>2. ASSUME x \in UNION {Range(c) : c \in Range(freeChunks)}
          PROVE  \E i \in DOMAIN freeChunks : x \in Range(freeChunks[i])
      <4>1. PICK c \in Range(freeChunks) : x \in Range(c)
        BY Zenon, <3>2
      <4>2. PICK i \in DOMAIN freeChunks : c = freeChunks[i]
        BY Zenon DEF Range
      <4> QED BY Zenon, <4>1, <4>2
    <3> QED BY Zenon, <3>1, <3>2
  <2>2. x \in UNION {Range(curFree[t]) : t \in Callers} <=> \E t \in Callers : x \in Range(curFree[t])
    BY Zenon
  <2>3. x \in FreeIds <=> \/ x \in UNION {Range(curFree[t]) : t \in Callers}
                         \/ x \in UNION {Range(c) : c \in Range(freeChunks)}
    <3>1. PICK A, B : A = UNION {Range(curFree[t]) : t \in Callers} /\ B = UNION {Range(c) : c \in Range(freeChunks)}
      BY Zenon
    <3>2. FreeIds = A \cup B
      BY Zenon, <3>1 DEF FreeIds
    <3>3. x \in FreeIds <=> x \in A \/ x \in B
      BY Zenon, <3>2
    <3> QED BY Zenon, <3>1, <3>3
  <2> QED BY Zenon, <2>1, <2>2, <2>3 DEF OnFreeList
<1>3. \A s, t \in Callers : s # t /\ curBlock[s] # NoBlock => curBlock[s] # curBlock[t]
  BY Zenon, <1>1 DEF BlockOwned
<1>4. inUse \cap FreeIds = {} /\ lost \cap (inUse \cup FreeIds) = {}
  BY Zenon, <1>1, <1>2 DEF InOnePlace
<1>5. ASSUME NEW c \in Range(freeChunks) \cup Range(curFree)
      PROVE  IsInjective(c)
  <2>1. DOMAIN curFree = Callers
    BY Zenon, <1>1 DEF InOnePlace
  <2>2. CASE c \in Range(freeChunks)
    BY Zenon, <1>1, <2>2 DEF InOnePlace, Range
  <2>3. CASE c \in Range(curFree)
    BY Zenon, <1>1, <2>1, <2>3 DEF InOnePlace, Range
  <2> QED BY Zenon, <2>2, <2>3
<1>6. /\ \A s, t \in Callers : \A x : x \in Range(curFree[s]) /\ x \in Range(curFree[t]) => s = t
      /\ \A i, j \in DOMAIN freeChunks : \A x : x \in Range(freeChunks[i]) /\ x \in Range(freeChunks[j]) => i = j
      /\ \A t \in Callers : \A i \in DOMAIN freeChunks : \A x : x \in Range(curFree[t]) => x \notin Range(freeChunks[i])
  BY Zenon, <1>1 DEF InOnePlace, ListsApart
<1>7. \A s, t \in Callers : s # t => Range(curFree[s]) \cap Range(curFree[t]) = {}
  BY Zenon, <1>6
<1>8. \A i, j \in DOMAIN freeChunks : i # j => Range(freeChunks[i]) \cap Range(freeChunks[j]) = {}
  BY Zenon, <1>6
<1>9. ASSUME NEW t \in Callers, NEW c \in Range(freeChunks)
      PROVE  Range(c) \cap Range(curFree[t]) = {}
  <2>1. PICK i \in DOMAIN freeChunks : c = freeChunks[i]
    BY Zenon DEF Range
  <2> QED BY Zenon, <1>6, <2>1
<1>10. ~MallocFails => lost = {}
  BY Zenon, <1>1 DEF PoolLists
<1>11. {x \in ResourceIds : Address(x)} = inUse \cup FreeIds \cup lost
  <2>1. {x \in ResourceIds : Address(x)} = Made(nitem)
    BY Zenon, Addressed DEF Made
  <2>2. ASSUME NEW x
        PROVE  x \in Made(nitem) <=> x \in inUse \cup FreeIds \cup lost
    BY Zenon, <1>1, <1>2 DEF InOnePlace
  <2> QED BY Zenon, <2>1, <2>2
<1> QED BY Zenon, <1>3, <1>4, <1>5, <1>7, <1>8, <1>9, <1>10, <1>11 DEF ExactlyOnce

LEMMA PoolRace ==
  ASSUME PoolInv, PoolNext \/ UNCHANGED pool_vars
  PROVE  GroupRaceSettled
<1> SUFFICES ASSUME NEW t \in Callers, pc[t] = "group"
             PROVE  /\ pc'[t] = "idle" => Full \/ (MallocFails /\ ngroup = seen[t])
                    /\ pc'[t] = "load" => ngroup' > seen[t]
  BY Zenon DEF GroupRaceSettled
<1>1. /\ Seen(t) /\ pc \in [Callers -> PC]
      /\ seen[t] \in Nat /\ ngroup \in 0..RP_MAX_BLOCK_NGROUP /\ seen[t] <= ngroup
  BY DEF PoolInv, PoolBlocks, PoolTypes, Seen
<1>2. CASE pc'[t] = "group"
  BY Zenon, <1>2
<1>3. CASE NoMemory(t)
  <2>1. pc'[t] = "idle" /\ MallocFails /\ ngroup = seen[t]
    BY Zenon, <1>1, <1>3 DEF NoMemory, Goto
  <2> QED BY Zenon, <2>1
<1>4. CASE AddBlockGroup(t)
  <2>1. CASE ngroup # seen[t]
    <3>1. pc'[t] = "load" /\ ngroup' = ngroup
      BY Zenon, <1>1, <1>4, <2>1 DEF AddBlockGroup, Goto
    <3> QED BY <1>1, <2>1, <3>1
  <2>2. CASE ngroup = seen[t] /\ ngroup < RP_MAX_BLOCK_NGROUP
    <3>1. pc'[t] = "load" /\ ngroup' = ngroup + 1
      BY Zenon, <1>1, <1>4, <2>2 DEF AddBlockGroup, Goto
    <3> QED BY <1>1, <2>2, <3>1
  <2>3. CASE ngroup = seen[t] /\ ~(ngroup < RP_MAX_BLOCK_NGROUP)
    <3>1. pc'[t] = "idle"
      BY Zenon, <1>1, <1>4, <2>3 DEF AddBlockGroup, FailGet, Goto
    <3>2. ngroup = RP_MAX_BLOCK_NGROUP /\ seen[t] >= 1
      BY <1>1, <2>3
    <3>3. Full
      BY Zenon, <1>1, <2>3, <3>2 DEF Seen, Full
    <3> QED BY Zenon, <3>1, <3>3
  <2> QED BY Zenon, <2>1, <2>2, <2>3
<1>5. CASE PoolNext
  <2>1. PICK u \in Callers : GetResource(u) \/ GetStep(u) \/ Clear(u) \/ \E x \in ResourceIds : ReturnResource(u, x)
    BY Zenon, <1>5 DEF PoolNext
  <2>2. CASE u # t
    <3>1. pc' = pc \/ \E p : pc' = [pc EXCEPT ![u] = p]
      BY Zenon, <2>1 DEF GetResource, Clear, ReturnResource, GetStep, CheckChunks, PopChunk, Construct, Reject,
         NewBlock, NoMemory, LoadGroups, ReserveSlot, StoreBlock, GiveBackSlot, AddBlockGroup,
         FailGet, Goto
    <3>2. pc'[t] = pc[t]
      BY Zenon, <1>1, <2>2, <3>1
    <3> QED BY Zenon, <1>2, <3>2
  <2>3. CASE u = t
    <3>1. NoMemory(t) \/ AddBlockGroup(t)
      BY Zenon, <2>1, <2>3 DEF GetResource, Clear, ReturnResource, GetStep, CheckChunks, PopChunk, Construct, Reject,
         NewBlock, LoadGroups, ReserveSlot, StoreBlock, GiveBackSlot
    <3> QED BY Zenon, <1>3, <1>4, <3>1
  <2> QED BY Zenon, <2>2, <2>3
<1>6. CASE UNCHANGED pool_vars
  <2>1. pc' = pc
    BY Zenon, <1>6 DEF pool_vars
  <2> QED BY Zenon, <1>2, <2>1
<1> QED BY Zenon, <1>5, <1>6

-----------------------------------------------------------------------------
\* The invariant that the two properties rest on.
THEOREM PoolConsistent == PoolSpec => []PoolInv
<1>1. PoolInv /\ [PoolNext]_pool_vars => PoolInv'
  BY Zenon, PoolStep
<1> QED BY <1>1, PoolStart, PTL DEF PoolSpec

\* Whatever the sizes, and however many threads get, return and clear: every object that
\* was made is with one caller or once on one free list, address_resource() finds these
\* objects and no others, and no two threads construct objects in the same block.
THEOREM ObjectsInOnePlace == PoolSpec => []ExactlyOnce
BY PoolConsistent, PoolCorrect, PTL

\* In a race for the last group a thread gives up only if the pool is full or memory is
\* out, and tries again only for a group that it had not seen.
THEOREM RaceSettled == PoolSpec => FailsOnlyWhenFull
<1>1. PoolInv /\ [PoolNext]_pool_vars => GroupRaceSettled
  BY Zenon, PoolRace
<1>2. PoolInv /\ [PoolNext]_pool_vars => [GroupRaceSettled]_pool_vars
  BY Zenon, <1>1
<1> QED BY <1>2, PoolConsistent, PTL DEF PoolSpec, FailsOnlyWhenFull
=============================================================================
