------------------------------- MODULE Cordz -------------------------------
(***************************************************************************)
(* The records kept of sampled cords and the snapshots that read them      *)
(* without a lock (turbo/strings/internal/cordz_handle.cc, cordz_info.cc,  *)
(* cordz_sample_token.cc).  A CordzInfo is linked into global_list_ while  *)
(* its cord lives.  When it goes and there are snapshots, it joins the     *)
(* delete queue behind them and is deleted with the last of those.         *)
(*                                                                         *)
(* Each record has one cord and each snapshot one thread, which are the    *)
(* actors.  What runs under a lock is one step; prev is read only there.   *)
(***************************************************************************)
EXTENDS Integers, SequencesExt

CONSTANTS
  Infos,        \* addresses of CordzInfo objects, used again after deletion
  Snapshots,    \* threads that take snapshots
  MaxTracked,   \* bound: cords sampled
  MaxTaken,     \* bound: snapshots taken
  None

VARIABLES
  head, next, prev,   \* global_list_.head, ci_next_ and ci_prev_
  dq,           \* the delete queue, from its head to dq_tail
  info,         \* per record: where it is in its life
  rep,          \* per record: whether rep_ is set
  refs,         \* per record: references to the rep of its cord
  snap,         \* per thread: where it is in the life of its snapshot
  cur,          \* per snapshot: the record its iterator is at
  doomed,       \* per snapshot: handles ~CordzHandle took off the queue to delete
  tracked, taken,
  touched_freed \* a record or a rep was used after it was deleted

vars == <<head, next, prev, dq, info, rep, refs, snap, cur, doomed, tracked, taken, touched_freed>>

Init ==
  /\ head = None /\ next = [i \in Infos |-> None] /\ prev = [i \in Infos |-> None]
  /\ dq = <<>>
  /\ info = [i \in Infos |-> "free"] /\ rep = [i \in Infos |-> FALSE]
  /\ refs = [i \in Infos |-> 0]
  /\ snap = [s \in Snapshots |-> "none"] /\ cur = [s \in Snapshots |-> None]
  /\ doomed = [s \in Snapshots |-> {}]
  /\ tracked = 0 /\ taken = 0 /\ touched_freed = FALSE

list == <<head, next, prev>>
reader == <<snap, cur, doomed, taken>>

Goto(i, where) == info' = [info EXCEPT ![i] = where]

-----------------------------------------------------------------------------
(* The cords *)

\* TrackCord: a new record of a cord whose rep is i's, put in front by Track().
TrackCord(i) ==
  /\ info[i] = "free" /\ refs[i] = 0 /\ tracked < MaxTracked
  /\ tracked' = tracked + 1
  /\ Goto(i, "tracked")
  /\ rep' = [rep EXCEPT ![i] = TRUE] /\ refs' = [refs EXCEPT ![i] = 1]
  /\ next' = [next EXCEPT ![i] = head]
  /\ prev' = [p \in Infos |-> IF p = i THEN None ELSE IF p = head THEN i ELSE prev[p]]
  /\ head' = i
  /\ UNCHANGED <<dq, reader, touched_freed>>

\* Untrack: take it out of the list; its own ci_next_ stays as it is.
Delist(i) ==
  /\ info[i] = "tracked"
  /\ Goto(i, "delisted")
  /\ prev' = [p \in Infos |-> IF p = next[i] THEN prev[i] ELSE prev[p]]
  /\ next' = [p \in Infos |-> IF p = prev[i] THEN next[i] ELSE next[p]]
  /\ head' = IF prev[i] = None THEN next[i] ELSE head
  /\ UNCHANGED <<dq, rep, refs, reader, tracked, touched_freed>>

\* SafeToDelete reads dq_tail without the lock; if there is none, the record is deleted.
SafeToDelete(i) ==
  /\ info[i] = "delisted"
  /\ IF dq = <<>> THEN Goto(i, "unref") /\ rep' = [rep EXCEPT ![i] = FALSE]
     ELSE Goto(i, "extend") /\ UNCHANGED rep
  /\ UNCHANGED <<list, dq, refs, reader, tracked, touched_freed>>

\* The record outlives the cord: it takes a reference of its own.
ExtendRep(i) ==
  /\ info[i] = "extend"
  /\ Goto(i, "delete")
  /\ refs' = [refs EXCEPT ![i] = @ + 1]
  /\ UNCHANGED <<list, dq, rep, reader, tracked, touched_freed>>

\* CordzHandle::Delete: to the end of the queue, or, when the snapshots have gone in the
\* meantime, deleted at once: ~CordzInfo gives the reference back.
Delete(i) ==
  /\ info[i] = "delete"
  /\ IF dq # <<>>
     THEN dq' = Append(dq, i) /\ Goto(i, "queued") /\ UNCHANGED <<rep, refs>>
     ELSE /\ Goto(i, "unref") /\ UNCHANGED dq
          /\ rep' = [rep EXCEPT ![i] = FALSE] /\ refs' = [refs EXCEPT ![i] = @ - 1]
  /\ UNCHANGED <<list, reader, tracked, touched_freed>>

\* The destructor of the cord, Untrack() having returned, drops the cord's reference.
\* "unref": the record is gone; "queued" and "orphan": it is on its own, before and
\* after this step.
UnrefRep(i) ==
  /\ info[i] \in {"unref", "queued", "deleted"}
  /\ refs' = [refs EXCEPT ![i] = @ - 1]
  /\ Goto(i, IF info[i] = "queued" THEN "orphan" ELSE "free")
  /\ UNCHANGED <<list, dq, rep, reader, tracked, touched_freed>>

-----------------------------------------------------------------------------
(* The snapshots *)

\* CordzHandle(true): at the end of the queue.
TakeSnapshot(s) ==
  /\ snap[s] = "none" /\ taken < MaxTaken
  /\ taken' = taken + 1
  /\ snap' = [snap EXCEPT ![s] = "begin"]
  /\ dq' = Append(dq, s)
  /\ UNCHANGED <<list, info, rep, refs, cur, doomed, tracked, touched_freed>>

\* The object at this address is one that exists.
Alive(i) == i # None => info[i] \notin {"free", "unref", "deleted"}

\* CordzInfo::Head and CordzInfo::Next.
Iterate(s) ==
  /\ snap[s] = "begin" \/ (snap[s] = "at" /\ cur[s] # None)
  /\ cur' = [cur EXCEPT ![s] = IF snap[s] = "begin" THEN head ELSE next[cur[s]]]
  /\ snap' = [snap EXCEPT ![s] = "at"]
  /\ touched_freed' = (touched_freed \/ (snap[s] = "at" /\ ~Alive(cur[s])))
  /\ UNCHANGED <<list, dq, info, rep, refs, doomed, taken, tracked>>

\* RefCordRep under the mutex of the record: the rep is analyzed if there is one.
Analyze(s) ==
  LET i == cur[s]
  IN  /\ snap[s] = "at" /\ i # None
      /\ snap' = [snap EXCEPT ![s] = IF rep[i] THEN "analyzing" ELSE "at"]
      /\ refs' = IF rep[i] THEN [refs EXCEPT ![i] = @ + 1] ELSE refs
      /\ touched_freed' = (touched_freed \/ ~Alive(i) \/ (rep[i] /\ refs[i] = 0))
      /\ UNCHANGED <<list, dq, info, rep, cur, doomed, taken, tracked>>

Analyzed(s) ==
  /\ snap[s] = "analyzing"
  /\ snap' = [snap EXCEPT ![s] = "at"]
  /\ refs' = [refs EXCEPT ![cur[s]] = @ - 1]
  /\ UNCHANGED <<list, dq, info, rep, cur, doomed, taken, tracked, touched_freed>>

\* (wrong) whichever snapshot goes takes along what is behind it
TakenAlongAlways(k) ==
  {i \in Infos : \E j \in (k + 1)..Len(dq) : dq[j] = i /\ \A m \in (k + 1)..j : dq[m] \notin Snapshots}

\* The handles a snapshot at position k takes along when it goes: if it is the head of the
\* queue, all up to the next snapshot, for they waited for it alone.
TakenAlong(k) ==
  {i \in Infos : k = 1 /\ \E j \in 2..Len(dq) : dq[j] = i /\ \A m \in 2..j : dq[m] \notin Snapshots}

\* ~CordzHandle of a snapshot, from any place in the queue.
DropSnapshot(s) ==
  LET k == CHOOSE k \in DOMAIN dq : dq[k] = s
      gone == TakenAlong(k)
  IN  /\ snap[s] = "at"
      /\ dq' = SelectSeq(dq, LAMBDA h : h \notin gone \cup {s})
      /\ doomed' = [doomed EXCEPT ![s] = gone]
      /\ cur' = [cur EXCEPT ![s] = None]
      /\ snap' = [snap EXCEPT ![s] = "dropped"]
      /\ UNCHANGED <<list, info, rep, refs, taken, tracked, touched_freed>>

\* delete handle, outside the lock: ~CordzInfo drops the reference to the rep.
DeleteDoomed(s, i) ==
  /\ snap[s] = "dropped" /\ i \in doomed[s]
  /\ doomed' = [doomed EXCEPT ![s] = @ \ {i}]
  /\ Goto(i, IF info[i] = "orphan" THEN "free" ELSE "deleted")
  /\ rep' = [rep EXCEPT ![i] = FALSE] /\ refs' = [refs EXCEPT ![i] = @ - 1]
  /\ UNCHANGED <<list, dq, snap, cur, taken, tracked, touched_freed>>

SnapshotGone(s) ==
  /\ snap[s] = "dropped" /\ doomed[s] = {}
  /\ snap' = [snap EXCEPT ![s] = "none"]
  /\ UNCHANGED <<list, dq, info, rep, refs, cur, doomed, taken, tracked, touched_freed>>

Next ==
  \/ \E i \in Infos : TrackCord(i) \/ Delist(i) \/ SafeToDelete(i) \/ ExtendRep(i) \/ Delete(i) \/ UnrefRep(i)
  \/ \E s \in Snapshots :
       \/ TakeSnapshot(s) \/ Iterate(s) \/ Analyze(s) \/ Analyzed(s) \/ DropSnapshot(s) \/ SnapshotGone(s)
       \/ \E i \in Infos : DeleteDoomed(s, i)

Spec == Init /\ [][Next]_vars

-----------------------------------------------------------------------------
\* "once a profiler creates a CordzSampleToken and has gained visibility into a CordzInfo
\* object, that CordzInfo object will not be deleted prematurely" (cordz_handle.h): what an
\* iterator stands on exists, and so does the rep it analyzes, however often records behind
\* and before it are untracked, deleted and allocated anew.  And deletion is not put off for
\* ever: the queue starts with a snapshot, so that it is empty when the last one goes.
SnapshotKeepsAlive ==
  /\ ~touched_freed
  /\ \A s \in Snapshots : /\ Alive(cur[s])
                          /\ snap[s] = "analyzing" => refs[cur[s]] > 0
  /\ dq # <<>> => Head(dq) \in Snapshots
  /\ \A i \in Infos : /\ info[i] \in {"queued", "orphan"} =>
                            i \in Range(dq) \cup UNION Range(doomed)
                      /\ info[i] = "free" => refs[i] = 0
=============================================================================
