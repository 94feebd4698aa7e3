---------------------------- MODULE ResourcePool ----------------------------
(***************************************************************************)
(* turbo::ResourcePool (turbo/memory/resource_pool_inl.h): objects with    *)
(* ids, in blocks that belong to a thread each, reached through groups of  *)
(* blocks that grow without a lock, and free ids that go back in chunks    *)
(* through a global list.  ObjectPool (turbo/memory/object_pool_inl.h) is  *)
(* the same with the address of the object in place of its id.             *)
(*                                                                         *)
(* An id is block_index * BLOCK_NITEM + offset.  What a thread does with   *)
(* its own LocalPool is one step.  The first look at _free_chunks is not   *)
(* locked, and so is a step of its own.  The reclamation of all memory,    *)
(* compiled for unit tests only, is left out.                              *)
(***************************************************************************)
EXTENDS Naturals, Sequences, FiniteSets, Functions

CONSTANTS
  Callers,             \* the threads that get and return objects
  BLOCK_NITEM, RP_GROUP_NBLOCK, RP_MAX_BLOCK_NGROUP,
  FreeChunkNItem,      \* free_chunk_nitem()
  NoBlock,
  MallocFails          \* whether allocations may fail

ASSUME PoolAssumption ==
  /\ IsFiniteSet(Callers)
  /\ BLOCK_NITEM \in Nat \ {0} /\ RP_GROUP_NBLOCK \in Nat \ {0} /\ RP_MAX_BLOCK_NGROUP \in Nat \ {0}
  /\ FreeChunkNItem \in 1..BLOCK_NITEM /\ MallocFails \in BOOLEAN

Groups == 0..RP_MAX_BLOCK_NGROUP - 1
Blocks == 0..RP_MAX_BLOCK_NGROUP * RP_GROUP_NBLOCK - 1
ResourceIds == 0..RP_MAX_BLOCK_NGROUP * RP_GROUP_NBLOCK * BLOCK_NITEM - 1

VARIABLES
  ngroup, nblock, blocks,      \* _ngroup, nblock of each group, the entries stored
  nitem,                       \* Block::nitem
  freeChunks,                  \* _free_chunks
  local, nlocal,               \* whether the thread has a LocalPool; _nlocal
  curBlock, curFree,           \* _cur_block_index if there is a block; _cur_free
  pc, seen, slot,              \* per thread: location, ngroup read, slot reserved
  inUse,                       \* the ids that callers hold
  lost                         \* the ids dropped by a ~LocalPool that could not push

locals == <<local, nlocal>>
groups == <<ngroup, nblock, blocks>>
pool_vars == <<groups, nitem, freeChunks, locals, curBlock, curFree, pc, seen, slot, inUse, lost>>

PC == {"idle", "check", "pop", "block", "load", "reserve", "store", "giveBack", "group"}

PoolTypeOK ==
  /\ ngroup \in 0..RP_MAX_BLOCK_NGROUP
  /\ nblock \in [Groups -> 0..RP_GROUP_NBLOCK + Cardinality(Callers)]
  /\ blocks \in SUBSET Blocks
  /\ nitem \in [Blocks -> 0..BLOCK_NITEM]
  /\ freeChunks \in Seq(Seq(ResourceIds))
  /\ local \in [Callers -> BOOLEAN] /\ nlocal = Cardinality({t \in Callers : local[t]})
  /\ curBlock \in [Callers -> Blocks \cup {NoBlock}]
  /\ curFree \in [Callers -> Seq(ResourceIds)] /\ \A t \in Callers : Len(curFree[t]) <= FreeChunkNItem
  /\ pc \in [Callers -> PC] /\ seen \in [Callers -> 0..RP_MAX_BLOCK_NGROUP]
  /\ slot \in [Callers -> 0..RP_GROUP_NBLOCK - 1]
  /\ inUse \in SUBSET ResourceIds /\ lost \in SUBSET ResourceIds

PoolInit ==
  /\ ngroup = 0 /\ nblock = [g \in Groups |-> 0] /\ blocks = {}
  /\ nitem = [b \in Blocks |-> 0] /\ freeChunks = <<>>
  /\ local = [t \in Callers |-> FALSE] /\ nlocal = 0
  /\ curBlock = [t \in Callers |-> NoBlock] /\ curFree = [t \in Callers |-> <<>>]
  /\ pc = [t \in Callers |-> "idle"] /\ seen = [t \in Callers |-> 0]
  /\ slot = [t \in Callers |-> 0]
  /\ inUse = {} /\ lost = {}

\* Lists are taken from at the back.
Back(s) == s[Len(s)]
WithoutBack(s) == SubSeq(s, 1, Len(s) - 1)

Goto(t, where) == pc' = [pc EXCEPT ![t] = where]

\* get_or_new_local_pool()
GetOrNewLocalPool(t) ==
  /\ local' = [local EXCEPT ![t] = TRUE]
  /\ nlocal' = IF local[t] THEN nlocal ELSE nlocal + 1

\* address_resource(): the object of an id, or nullptr if the id is unknown.
Address(id) ==
  LET b == id \div BLOCK_NITEM
  IN  b \div RP_GROUP_NBLOCK < ngroup /\ b \in blocks /\ id - b * BLOCK_NITEM < nitem[b]

-----------------------------------------------------------------------------
(* get_resource() *)

\* From the thread's own free list if it can.
GetResource(t) ==
  /\ pc[t] = "idle"
  /\ GetOrNewLocalPool(t)
  /\ IF curFree[t] # <<>>
     THEN /\ inUse' = inUse \cup {Back(curFree[t])}
          /\ curFree' = [curFree EXCEPT ![t] = WithoutBack(@)]
          /\ UNCHANGED pc
     ELSE Goto(t, "check") /\ UNCHANGED <<inUse, curFree>>
  /\ UNCHANGED <<groups, nitem, freeChunks, curBlock, seen, slot, lost>>

CheckChunks(t) ==
  /\ pc[t] = "check"
  /\ Goto(t, IF freeChunks = <<>> THEN "block" ELSE "pop")
  /\ UNCHANGED <<groups, nitem, freeChunks, locals, curBlock, curFree, seen, slot, inUse, lost>>

\* (wrong) the chunk stays on the list
PopKeeping(t) ==
  /\ pc[t] = "pop"
  /\ IF freeChunks = <<>>
     THEN Goto(t, "block") /\ UNCHANGED <<freeChunks, curFree, inUse>>
     ELSE /\ curFree' = [curFree EXCEPT ![t] = WithoutBack(Back(freeChunks))]
          /\ inUse' = inUse \cup {Back(Back(freeChunks))}
          /\ UNCHANGED freeChunks
          /\ Goto(t, "idle")
  /\ UNCHANGED <<groups, nitem, locals, curBlock, seen, slot, lost>>

\* pop_free_chunk() under the lock
PopChunk(t) ==
  /\ pc[t] = "pop"
  /\ IF freeChunks = <<>>
     THEN Goto(t, "block") /\ UNCHANGED <<freeChunks, curFree, inUse>>
     ELSE /\ curFree' = [curFree EXCEPT ![t] = WithoutBack(Back(freeChunks))]
          /\ inUse' = inUse \cup {Back(Back(freeChunks))}
          /\ freeChunks' = WithoutBack(freeChunks)
          /\ Goto(t, "idle")
  /\ UNCHANGED <<groups, nitem, locals, curBlock, seen, slot, lost>>

HasRoom(t) == curBlock[t] # NoBlock /\ nitem[curBlock[t]] < BLOCK_NITEM

\* The next item of the thread's block is constructed.
Construct(t) ==
  /\ pc[t] = "block" /\ HasRoom(t)
  /\ inUse' = inUse \cup {curBlock[t] * BLOCK_NITEM + nitem[curBlock[t]]}
  /\ nitem' = [nitem EXCEPT ![curBlock[t]] = @ + 1]
  /\ Goto(t, "idle")
  /\ UNCHANGED <<groups, freeChunks, locals, curBlock, curFree, seen, slot, lost>>

\* ResourcePoolValidator rejects the object: it is destructed, and get fails.
Reject(t) ==
  /\ pc[t] = "block" /\ HasRoom(t)
  /\ Goto(t, "idle")
  /\ UNCHANGED <<groups, nitem, freeChunks, locals, curBlock, curFree, seen, slot, inUse, lost>>

\* add_block() begins.
NewBlock(t) ==
  /\ pc[t] = "block" /\ ~HasRoom(t)
  /\ Goto(t, "load")
  /\ UNCHANGED <<groups, nitem, freeChunks, locals, curBlock, curFree, seen, slot, inUse, lost>>

\* A Block, or a BlockGroup, cannot be allocated.
NoMemory(t) ==
  /\ MallocFails
  /\ \/ pc[t] = "block" /\ ~HasRoom(t)
     \/ pc[t] = "group" /\ ngroup = seen[t] /\ ngroup < RP_MAX_BLOCK_NGROUP
  /\ curBlock' = [curBlock EXCEPT ![t] = NoBlock]
  /\ Goto(t, "idle")
  /\ UNCHANGED <<groups, nitem, freeChunks, locals, curFree, seen, slot, inUse, lost>>

LoadGroups(t) ==
  /\ pc[t] = "load"
  /\ seen' = [seen EXCEPT ![t] = ngroup]
  /\ Goto(t, IF ngroup >= 1 THEN "reserve" ELSE "group")
  /\ UNCHANGED <<groups, nitem, freeChunks, locals, curBlock, curFree, slot, inUse, lost>>

\* The fetch_add on nblock of the last group that was seen.
ReserveSlot(t) ==
  /\ pc[t] = "reserve"
  /\ LET g == seen[t] - 1 IN
       /\ nblock' = [nblock EXCEPT ![g] = @ + 1]
       /\ IF nblock[g] < RP_GROUP_NBLOCK
          THEN slot' = [slot EXCEPT ![t] = nblock[g]] /\ Goto(t, "store")
          ELSE Goto(t, "giveBack") /\ UNCHANGED slot
  /\ UNCHANGED <<ngroup, blocks, nitem, freeChunks, locals, curBlock, curFree, seen, inUse, lost>>

StoreBlock(t) ==
  /\ pc[t] = "store"
  /\ LET b == (seen[t] - 1) * RP_GROUP_NBLOCK + slot[t] IN
       /\ blocks' = blocks \cup {b}
       /\ curBlock' = [curBlock EXCEPT ![t] = b]
  /\ Goto(t, "block")
  /\ UNCHANGED <<ngroup, nblock, nitem, freeChunks, locals, curFree, seen, slot, inUse, lost>>

GiveBackSlot(t) ==
  /\ pc[t] = "giveBack"
  /\ nblock' = [nblock EXCEPT ![seen[t] - 1] = @ - 1]
  /\ Goto(t, "group")
  /\ UNCHANGED <<ngroup, blocks, nitem, freeChunks, locals, curBlock, curFree, seen, slot, inUse, lost>>

Full == ngroup = RP_MAX_BLOCK_NGROUP /\ nblock[RP_MAX_BLOCK_NGROUP - 1] >= RP_GROUP_NBLOCK

\* No group can be added: get fails, and the thread has no block any more.
FailGet(t) ==
  /\ curBlock' = [curBlock EXCEPT ![t] = NoBlock]
  /\ Goto(t, "idle")
  /\ UNCHANGED ngroup

\* (wrong) a group that another thread has just added counts as a failure
AddGroupOnce(t) ==
  /\ pc[t] = "group"
  /\ IF ngroup = seen[t] /\ ngroup < RP_MAX_BLOCK_NGROUP
     THEN ngroup' = ngroup + 1 /\ Goto(t, "load") /\ UNCHANGED curBlock
     ELSE FailGet(t)
  /\ UNCHANGED <<nblock, blocks, nitem, freeChunks, locals, curFree, seen, slot, inUse, lost>>

\* add_block_group()
AddBlockGroup(t) ==
  /\ pc[t] = "group"
  /\ IF ngroup # seen[t]
     THEN Goto(t, "load") /\ UNCHANGED <<ngroup, curBlock>>
     ELSE IF ngroup < RP_MAX_BLOCK_NGROUP
          THEN ngroup' = ngroup + 1 /\ Goto(t, "load") /\ UNCHANGED curBlock
          ELSE FailGet(t)
  /\ UNCHANGED <<nblock, blocks, nitem, freeChunks, locals, curFree, seen, slot, inUse, lost>>

-----------------------------------------------------------------------------
\* return_resource() by any thread; a full local list goes to the global one first.
ReturnResource(t, id) ==
  /\ pc[t] = "idle" /\ id \in inUse
  /\ GetOrNewLocalPool(t)
  /\ \/ /\ Len(curFree[t]) < FreeChunkNItem
        /\ inUse' = inUse \ {id}
        /\ curFree' = [curFree EXCEPT ![t] = Append(@, id)]
        /\ UNCHANGED freeChunks
     \/ /\ Len(curFree[t]) >= FreeChunkNItem
        /\ inUse' = inUse \ {id}
        /\ freeChunks' = Append(freeChunks, curFree[t])
        /\ curFree' = [curFree EXCEPT ![t] = <<id>>]
     \/ /\ Len(curFree[t]) >= FreeChunkNItem /\ MallocFails    \* -1: the caller keeps it
        /\ UNCHANGED <<inUse, freeChunks, curFree>>
  /\ UNCHANGED <<groups, nitem, curBlock, pc, seen, slot, lost>>

\* ~LocalPool, from clear_resources() or when the thread exits.
Clear(t) ==
  /\ pc[t] = "idle" /\ local[t]
  /\ \/ /\ freeChunks' = IF curFree[t] # <<>> THEN Append(freeChunks, curFree[t]) ELSE freeChunks
        /\ UNCHANGED lost
     \/ /\ MallocFails /\ curFree[t] # <<>>
        /\ lost' = lost \cup Range(curFree[t])
        /\ UNCHANGED freeChunks
  /\ local' = [local EXCEPT ![t] = FALSE] /\ nlocal' = nlocal - 1
  /\ curBlock' = [curBlock EXCEPT ![t] = NoBlock]
  /\ curFree' = [curFree EXCEPT ![t] = <<>>]
  /\ UNCHANGED <<groups, nitem, pc, seen, slot, inUse>>

GetStep(t) ==
  \/ CheckChunks(t) \/ PopChunk(t) \/ Construct(t) \/ Reject(t) \/ NewBlock(t) \/ NoMemory(t)
  \/ LoadGroups(t) \/ ReserveSlot(t) \/ StoreBlock(t) \/ GiveBackSlot(t) \/ AddBlockGroup(t)

PoolNext ==
  \E t \in Callers :
    GetResource(t) \/ GetStep(t) \/ Clear(t) \/ \E id \in ResourceIds : ReturnResource(t, id)

PoolSpec == PoolInit /\ [][PoolNext]_pool_vars

-----------------------------------------------------------------------------
FreeIds ==
  (UNION {Range(curFree[t]) : t \in Callers}) \cup (UNION {Range(c) : c \in Range(freeChunks)})

\* Every object ever constructed is in one place: with one caller, or once on one free
\* list, whatever thread returns it (lost stays empty unless malloc fails).  These are the
\* ids that address_resource() finds, also while other threads add blocks and groups.
\* "items in the Block are only used by the thread": no two threads share a block.
ExactlyOnce ==
  /\ \A s, t \in Callers : s # t /\ curBlock[s] # NoBlock => curBlock[s] # curBlock[t]
  /\ inUse \cap FreeIds = {} /\ lost \cap (inUse \cup FreeIds) = {}
  /\ \A c \in Range(freeChunks) \cup Range(curFree) : IsInjective(c)
  /\ \A s, t \in Callers : s # t => Range(curFree[s]) \cap Range(curFree[t]) = {}
  /\ \A i, j \in DOMAIN freeChunks : i # j => Range(freeChunks[i]) \cap Range(freeChunks[j]) = {}
  /\ \A t \in Callers, c \in Range(freeChunks) : Range(c) \cap Range(curFree[t]) = {}
  /\ ~MallocFails => lost = {}
  /\ {id \in ResourceIds : Address(id)} = inUse \cup FreeIds \cup lost

\* What becomes of a thread that found the last group full.
GroupRaceSettled ==
  \A t \in Callers : pc[t] = "group" =>
    /\ pc'[t] = "idle" => Full \/ (MallocFails /\ ngroup = seen[t])
    /\ pc'[t] = "load" => ngroup' > seen[t]

\* get_resource() gives up for want of a group only when every block of every group is
\* taken, or a group cannot be allocated and nobody has added one since; it tries again only
\* when there is a group it has not seen, and so at most RP_MAX_BLOCK_NGROUP times
\* (resource_pool_inl.h:386-430).  The other ways to fail, a block that cannot be allocated and
\* an object that ResourcePoolValidator rejects, are not restricted.
FailsOnlyWhenFull == [][GroupRaceSettled]_pool_vars
=============================================================================
