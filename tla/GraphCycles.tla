---------------------------- MODULE GraphCycles ----------------------------
(***************************************************************************)
(* The acquired-before graph of the deadlock detector                      *)
(* (turbo/synchronization/internal/graphcycles.cc) as operators on a       *)
(* graph: nodes are numbered from 1, each with a rank, a version, the      *)
(* pointer it stands for and its neighbours.  free holds the indices of    *)
(* removed nodes.  A GraphId is <<index, version>>.  NodeSet and           *)
(* PointerMap, which are hash tables, are a set and a search here.         *)
(***************************************************************************)
EXTENDS Integers, SequencesExt, FiniteSetsExt

CONSTANTS
  None,
  MaxVersion     \* numeric_limits<uint32_t>::max(), the last version of a node

NoGraph == [rank |-> <<>>, version |-> <<>>, ptr |-> <<>>, in |-> <<>>, out |-> <<>>,
            free |-> <<>>]

MakeId(g, i) == <<i, g.version[i]>>

\* FindNode(rep, id) # nullptr
HasNode(g, id) == id # None /\ g.version[id[1]] = id[2]

Ptr(g, id) == IF HasNode(g, id) THEN g.ptr[id[1]] ELSE None

Find(g, p) == {i \in DOMAIN g.ptr : g.ptr[i] = p}

\* GetId: the node of p, a new one with the next rank, or a removed one with the rank
\* it had.  It yields the graph and the id.
GetId(g, p) ==
  LET n == Len(g.rank) + 1
      r == Last(g.free)
      grown == [rank |-> Append(g.rank, n), version |-> Append(g.version, 1),
                ptr |-> Append(g.ptr, p), in |-> Append(g.in, {}),
                out |-> Append(g.out, {}), free |-> g.free]
      reused == [g EXCEPT !.ptr[r] = p, !.free = Front(@)]
  IN  IF Find(g, p) # {} THEN [g |-> g, id |-> MakeId(g, CHOOSE i \in Find(g, p) : TRUE)]
      ELSE IF g.free = <<>> THEN [g |-> grown, id |-> MakeId(grown, n)]
      ELSE [g |-> reused, id |-> MakeId(reused, r)]

\* RemoveNode; the version it counts up makes every copy of the id stale.  A node with the
\* last version is not used again.
RemoveNode(g, p) ==
  LET i == CHOOSE i \in Find(g, p) : TRUE
  IN  IF Find(g, p) = {} THEN g
      ELSE [g EXCEPT !.in = [y \in DOMAIN @ |-> IF y = i THEN {} ELSE @[y] \ {i}],
                     !.out = [y \in DOMAIN @ |-> IF y = i THEN {} ELSE @[y] \ {i}],
                     !.ptr[i] = None,
                     !.version[i] = IF @ = MaxVersion THEN @ ELSE @ + 1,
                     !.free = IF g.version[i] = MaxVersion THEN @ ELSE Append(@, i)]

\* What a depth-first search from `todo` visits when `to[n]` are the nodes it goes to
\* from n.
RECURSIVE Visit(_, _, _)
Visit(to, todo, visited) ==
  IF todo \ visited = {} THEN visited
  ELSE LET n == CHOOSE n \in todo \ visited : TRUE
       IN  Visit(to, todo \cup to[n], visited \cup {n})

\* (wrong) stops a rank early
ForwardDFSShort(g, n, upper_bound) ==
  Visit([i \in DOMAIN g.out |-> {w \in g.out[i] : g.rank[w] + 1 < upper_bound}], {n}, {})

ForwardDFS(g, n, upper_bound) ==
  Visit([i \in DOMAIN g.out |-> {w \in g.out[i] : g.rank[w] < upper_bound}], {n}, {})

\* ForwardDFS returns false: some node it visits has a successor of the bound's rank.
MeetsCycle(g, visited, upper_bound) ==
  \E i \in visited : \E w \in g.out[i] : g.rank[w] = upper_bound

BackwardDFS(g, n, lower_bound, visited) ==
  Visit([i \in DOMAIN g.in |-> {w \in g.in[i] \ visited : lower_bound < g.rank[w]}], {n}, {})

\* Sort: by rank.
ByRank(g, S) == SetToSortSeq(S, LAMBDA a, b : g.rank[a] < g.rank[b])

\* Reorder hands the ranks of both lists out again, to the predecessors of the edge
\* first and in each list in the order they had.
Reorder(g, deltaf, deltab) ==
  LET list == ByRank(g, deltab) \o ByRank(g, deltaf)
      merged == SetToSortSeq({g.rank[i] : i \in deltab \cup deltaf}, <)
  IN  [g EXCEPT !.rank = [i \in DOMAIN @ |->
          IF i \in deltab \cup deltaf THEN merged[CHOOSE k \in DOMAIN list : list[k] = i]
          ELSE @[i]]]

\* InsertEdge: the graph and whether the edge, if it is new, closes no cycle.
InsertEdge(g, idx, idy) ==
  LET x == idx[1]
      y == idy[1]
      edge == [g EXCEPT !.out[x] = @ \cup {y}, !.in[y] = @ \cup {x}]
      deltaf == ForwardDFS(edge, y, g.rank[x])
      deltab == BackwardDFS(edge, x, g.rank[y], deltaf)
  IN  IF ~HasNode(g, idx) \/ ~HasNode(g, idy) THEN [g |-> g, ok |-> TRUE]
      ELSE IF x = y THEN [g |-> g, ok |-> FALSE]
      ELSE IF y \in g.out[x] THEN [g |-> g, ok |-> TRUE]
      ELSE IF g.rank[x] <= g.rank[y] THEN [g |-> edge, ok |-> TRUE]
      ELSE IF MeetsCycle(edge, deltaf, g.rank[x]) THEN [g |-> g, ok |-> FALSE]
      ELSE [g |-> Reorder(edge, deltaf, deltab), ok |-> TRUE]

\* What FindPath finds a path by, and IsReachable answers.
IsReachable(g, idx, idy) ==
  HasNode(g, idx) /\ HasNode(g, idy) /\ idy[1] \in Visit(g.out, {idx[1]}, {})

-----------------------------------------------------------------------------
\* CheckInvariants: the ranks are a permutation and rise along every edge.  Besides,
\* both ends of an edge know it and removed nodes have none.
CheckInvariants(g) ==
  /\ Range(g.rank) = 1 .. Len(g.rank)
  /\ \A x \in DOMAIN g.out : \A y \in g.out[x] : g.rank[x] < g.rank[y]
  /\ \A x, y \in DOMAIN g.out : y \in g.out[x] <=> x \in g.in[y]
  /\ \A i \in DOMAIN g.free : g.ptr[g.free[i]] = None /\ g.out[g.free[i]] = {}
  /\ \A x, y \in DOMAIN g.ptr : g.ptr[x] = g.ptr[y] /\ g.ptr[x] # None => x = y
=============================================================================
