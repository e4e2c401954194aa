-------------------------------- MODULE BstTk --------------------------------
(***************************************************************************)
(* The external search tree with versioned ticket locks                    *)
(* (src/DLTree/src/bst-tk/bst_tk.c; its locks are in bst.h there).  Keys   *)
(* are in the leaves; an internal node sends the keys smaller than its own *)
(* to the left.  A node has a lock for each of its two edges, a version    *)
(* and a ticket in one word, and both words are read, and at a removal     *)
(* taken, at once.  Operations walk down without locks and note the words  *)
(* of each node before they follow an edge; an update then takes an edge   *)
(* only if its word is unlocked and has not changed.                       *)
(*                                                                         *)
(* A removal takes the edge from the grandparent to the parent of the leaf *)
(* and the whole parent, and puts the leaf's sibling in the parent's       *)
(* place.  The parent stays locked for good.  Versions do not wrap here    *)
(* (16 bits in the code): MaxOps bounds them.                              *)
(***************************************************************************)
EXTENDS Integers, Sequences, FiniteSets, SequencesExt

CONSTANTS
    Thread,
    Key,       \* positive
    MaxOps     \* bound: operations of the threads together

BstTkAssumption ==
    /\ IsFiniteSet(Key) /\ Key \subseteq Nat \ {0}
    /\ MaxOps \in Nat

VARIABLES
    nodes,           \* the nodes allocated: [key, leaf, child, lock, freed]
    pc,              \* control points
    op, key,         \* the operation of each thread and its key
    res,             \* its result
    ppred, pred, curr,        \* the last three nodes of its walk
    ppredVer, predVer,        \* the words noted for the first two
    pright, right,            \* the edges it took from them
    left,            \* operations that may still be invoked
    seen             \* history: whether key[t] was in the tree since the call

walkVars == <<ppred, pred, curr, ppredVer, predVer, pright, right>>
vars == <<nodes, pc, op, key, res, walkVars, left, seen>>

Side == {"left", "right"}
Other(s) == IF s = "left" THEN "right" ELSE "left"

Head0 == 1     \* set->head
KeyMin == 0
KeyMax == 1 + CHOOSE m \in Key : \A k \in Key : k <= m

Goto(t, l) == pc' = [pc EXCEPT ![t] = l]

-----------------------------------------------------------------------------
(* The locks: tl_trylock_version, tl_trylock_version_both, tl_unlock, tl_revert *)

Fresh == [s \in Side |-> [version |-> 0, ticket |-> 0]]
Removed == [s \in Side |-> [version |-> 0, ticket |-> -1]]     \* TLN_REMOVED

\* Mutant: the version is not compared with the one that was noted.
CanLock_AnyVersion(n, s, ver) ==
    nodes[n].lock[s].version = nodes[n].lock[s].ticket

CanLock(n, s, ver) == ver[s].version = ver[s].ticket /\ nodes[n].lock[s] = ver[s]

\* Mutant: of a node that is removed only the edge to the leaf has to be unchanged.
CanLockBoth_OneEdge(n, ver, s) == CanLock(n, s, ver)

CanLockBoth(n, ver, s) == CanLock(n, s, ver) /\ CanLock(n, Other(s), ver)

Locked(n, s)   == [nodes EXCEPT ![n].lock[s].ticket = @ + 1]
Unlocked(n, s) == [nodes EXCEPT ![n].lock[s].version = @ + 1]
Reverted(n, s) == [nodes EXCEPT ![n].lock[s].ticket = @ - 1]

-----------------------------------------------------------------------------
(* The tree *)

Leaf(k) ==
    [key |-> k, leaf |-> TRUE, child |-> [s \in Side |-> 0], lock |-> Fresh, freed |-> 0]
Internal(k, l, r) ==
    [key |-> k, leaf |-> FALSE, child |-> [s \in Side |-> IF s = "left" THEN l ELSE r],
     lock |-> Fresh, freed |-> 0]

Toward(n, k) == IF k < n.key THEN "left" ELSE "right"

\* A new leaf for k, and a new node over it and the leaf c, in place of c under node p.
Grown(ns, p, s, c, k) ==
    LET nn == Len(ns) + 1
        nr == IF k < ns[c].key THEN Internal(ns[c].key, nn, c) ELSE Internal(k, c, nn)
    IN [ns EXCEPT ![p].child[s] = nn + 1] \o <<Leaf(k), nr>>

Empty == <<Internal(KeyMax, 2, 3), Leaf(KeyMin), Leaf(KeyMax)>>

\* The tree that insertions of the keys in this order have built.
TreeOf(keys) ==
    LET Add(ns, k) ==
            LET parent[n \in 1..Len(ns)] ==
                    LET c == ns[n].child[Toward(ns[n], k)]
                    IN IF ns[c].leaf THEN n ELSE parent[c]
                p == parent[Head0]
                s == Toward(ns[p], k)
            IN Grown(ns, p, s, ns[p].child[s], k)
    IN FoldLeft(Add, Empty, keys)

\* Node n and those below it.
Subtree(n) ==
    LET under[m \in 1..Len(nodes)] ==
            IF nodes[m].leaf THEN {m}
            ELSE {m} \union under[nodes[m].child["left"]] \union under[nodes[m].child["right"]]
    IN under[n]

\* The nodes in the tree.
Linked == Subtree(Head0)

Contents == {nodes[n].key : n \in {m \in Linked : nodes[m].leaf}} \ {KeyMin, KeyMax}

Init ==
    /\ \E s \in SUBSET Key : \E keys \in SetToSeqs(s) : nodes = TreeOf(keys)
    /\ pc = [t \in Thread |-> "idle"]
    /\ op = [t \in Thread |-> "search"]
    /\ key = [t \in Thread |-> CHOOSE k \in Key : TRUE]
    /\ res = [t \in Thread |-> FALSE]
    /\ ppred = [t \in Thread |-> Head0]
    /\ pred = [t \in Thread |-> Head0]
    /\ curr = [t \in Thread |-> Head0]
    /\ ppredVer = [t \in Thread |-> Fresh]
    /\ predVer = [t \in Thread |-> Fresh]
    /\ pright = [t \in Thread |-> "left"]
    /\ right = [t \in Thread |-> "left"]
    /\ left = MaxOps
    /\ seen = [t \in Thread |-> {}]

Invoke(t) ==
    /\ pc[t] = "idle"
    /\ left > 0
    /\ left' = left - 1
    /\ \E o \in {"search", "insert", "remove"}, k \in Key :
          /\ op' = [op EXCEPT ![t] = o]
          /\ key' = [key EXCEPT ![t] = k]
          /\ seen' = [seen EXCEPT ![t] = {k \in Contents}]
          /\ Goto(t, IF o = "search" THEN "child" ELSE "version")
    /\ UNCHANGED <<nodes, res, walkVars>>

\* The operation has its result; its local variables are forgotten.
Finish(t, result) ==
    /\ Goto(t, "return")
    /\ res' = [res EXCEPT ![t] = result]
    /\ ppred' = [ppred EXCEPT ![t] = Head0]
    /\ pred' = [pred EXCEPT ![t] = Head0]
    /\ curr' = [curr EXCEPT ![t] = Head0]
    /\ ppredVer' = [ppredVer EXCEPT ![t] = Fresh]
    /\ predVer' = [predVer EXCEPT ![t] = Fresh]
    /\ pright' = [pright EXCEPT ![t] = "left"]
    /\ right' = [right EXCEPT ![t] = "left"]

Return(t) ==
    /\ pc[t] = "return"
    /\ Goto(t, "idle")
    /\ op' = [op EXCEPT ![t] = "search"]
    /\ key' = [key EXCEPT ![t] = CHOOSE k \in Key : TRUE]
    /\ res' = [res EXCEPT ![t] = FALSE]
    /\ UNCHANGED <<nodes, walkVars, left, seen>>

-----------------------------------------------------------------------------
(* The walk *)

\* The load of curr->lock.
Version(t) ==
    /\ pc[t] = "version"
    /\ IF op[t] = "remove"
         THEN /\ ppred' = [ppred EXCEPT ![t] = pred[t]]
              /\ ppredVer' = [ppredVer EXCEPT ![t] = predVer[t]]
              /\ pright' = [pright EXCEPT ![t] = right[t]]
         ELSE UNCHANGED <<ppred, ppredVer, pright>>
    /\ pred' = [pred EXCEPT ![t] = curr[t]]
    /\ predVer' = [predVer EXCEPT ![t] = nodes[curr[t]].lock]
    /\ Goto(t, "child")
    /\ UNCHANGED <<nodes, op, key, res, curr, right, left, seen>>

\* A walk that has come to leaf c: a search is done, and so is an update with
\* nothing to do.
AtLeaf(t, c) ==
    LET present == nodes[c].key = key[t]
    IN IF op[t] = "search" \/ present = (op[t] = "insert")
         THEN Finish(t, op[t] = "search" /\ present) /\ seen' = [seen EXCEPT ![t] = {}]
         ELSE /\ curr' = [curr EXCEPT ![t] = c]
              /\ right' = [right EXCEPT ![t] = Toward(nodes[curr[t]], key[t])]
              /\ Goto(t, IF op[t] = "insert" THEN "lock" ELSE "lockppred")
              /\ UNCHANGED <<res, ppred, pred, ppredVer, predVer, pright, seen>>

\* The load of the edge of curr on the way to the key.
Child(t) ==
    /\ pc[t] = "child"
    /\ LET s == Toward(nodes[curr[t]], key[t])
           c == nodes[curr[t]].child[s]
       IN IF nodes[c].leaf
            THEN AtLeaf(t, c)
            ELSE /\ curr' = [curr EXCEPT ![t] = c]
                 /\ IF op[t] = "search"
                      THEN UNCHANGED <<right, pc>>
                      ELSE right' = [right EXCEPT ![t] = s] /\ Goto(t, "version")
                 /\ UNCHANGED <<res, ppred, pred, ppredVer, predVer, pright, seen>>
    /\ UNCHANGED <<nodes, op, key, left>>

\* goto retry: the walk begins again at the head.
Retry(t) ==
    /\ curr' = [curr EXCEPT ![t] = Head0]
    /\ Goto(t, "version")

-----------------------------------------------------------------------------
(* The update *)

LockEdge(t) ==
    /\ pc[t] = "lock"
    /\ IF CanLock(pred[t], right[t], predVer[t])
         THEN /\ nodes' = Locked(pred[t], right[t])
              /\ Goto(t, "link") /\ UNCHANGED curr
         ELSE Retry(t) /\ UNCHANGED nodes
    /\ UNCHANGED <<op, key, res, ppred, pred, ppredVer, predVer, pright, right, left, seen>>

LockPpred(t) ==
    /\ pc[t] = "lockppred"
    /\ IF CanLock(ppred[t], pright[t], ppredVer[t])
         THEN /\ nodes' = Locked(ppred[t], pright[t])
              /\ Goto(t, "lockpred") /\ UNCHANGED curr
         ELSE Retry(t) /\ UNCHANGED nodes
    /\ UNCHANGED <<op, key, res, ppred, pred, ppredVer, predVer, pright, right, left, seen>>

LockPred(t) ==
    /\ pc[t] = "lockpred"
    /\ IF CanLockBoth(pred[t], predVer[t], right[t])
         THEN nodes' = [nodes EXCEPT ![pred[t]].lock = Removed] /\ Goto(t, "unlink")
         ELSE UNCHANGED nodes /\ Goto(t, "revert")
    /\ UNCHANGED <<op, key, res, walkVars, left, seen>>

Revert(t) ==
    /\ pc[t] = "revert"
    /\ nodes' = Reverted(ppred[t], pright[t])
    /\ Retry(t)
    /\ UNCHANGED <<op, key, res, ppred, pred, ppredVer, predVer, pright, right, left, seen>>

\* The operations in progress on the same key see that it is now in the tree, or not.
RecordSeen(t) ==
    seen' = [u \in Thread |->
               IF u = t THEN {}
               ELSE IF key[u] = key[t] /\ seen[u] # {} THEN seen[u] \union {op[t] = "insert"}
               ELSE seen[u]]

\* The new nodes become visible with the store of the edge.
Link(t) ==
    /\ pc[t] = "link"
    /\ nodes' = Grown(nodes, pred[t], right[t], curr[t], key[t])
    /\ RecordSeen(t)
    /\ Goto(t, "unlock")
    /\ UNCHANGED <<op, key, res, walkVars, left>>

Unlink(t) ==
    /\ pc[t] = "unlink"
    /\ nodes' = [nodes EXCEPT ![ppred[t]].child[pright[t]] =
                                 nodes[pred[t]].child[Other(right[t])]]
    /\ RecordSeen(t)
    /\ Goto(t, "unlock")
    /\ UNCHANGED <<op, key, res, walkVars, left>>

\* A removal then gives the leaf and its parent back (ssmem_free).
Unlock(t) ==
    /\ pc[t] = "unlock"
    /\ IF op[t] = "insert"
         THEN nodes' = Unlocked(pred[t], right[t])
         ELSE nodes' = [n \in 1..Len(nodes) |->
                          IF n \in {curr[t], pred[t]} THEN [nodes[n] EXCEPT !.freed = @ + 1]
                          ELSE Unlocked(ppred[t], pright[t])[n]]
    /\ Finish(t, TRUE)
    /\ UNCHANGED <<op, key, left, seen>>

-----------------------------------------------------------------------------
Step(t) ==
    \/ Version(t) \/ Child(t)
    \/ LockEdge(t) \/ LockPpred(t) \/ LockPred(t) \/ Revert(t)
    \/ Link(t) \/ Unlink(t) \/ Unlock(t)
    \/ Return(t)

Next == \E t \in Thread : Invoke(t) \/ Step(t)

Spec == Init /\ [][Next]_vars

\* A thread inside an operation runs on; nobody has to invoke one.
FairSpec == Spec /\ \A t \in Thread : WF_vars(Step(t))

-----------------------------------------------------------------------------
Keys(n) == {nodes[m].key : m \in Subtree(n)}

\* The tree stays a search tree over all its leaves, and an internal node that has
\* been taken out is locked for good: no chain of updates, on edges next to each other
\* and with words noted long ago, drops a subtree or links one under a removed node
\* (bst_tk_insert, bst_tk_delete).
TreeIsWhole ==
    /\ {KeyMin, KeyMax} \subseteq {nodes[n].key : n \in {m \in Linked : nodes[m].leaf}}
    /\ \A n \in Linked : ~nodes[n].leaf =>
          /\ \A k \in Keys(nodes[n].child["left"]) : k < nodes[n].key
          /\ \A k \in Keys(nodes[n].child["right"]) : k >= nodes[n].key
    /\ \A n \in (1..Len(nodes)) \ Linked : ~nodes[n].leaf => nodes[n].lock = Removed

\* Nodes are given back once, and not while the tree leads to them (bst_tk_delete).
FreedOnce ==
    LET linked == Linked
    IN \A n \in 1..Len(nodes) : nodes[n].freed <= (IF n \in linked THEN 0 ELSE 1)

\* A node that has been taken out keeps its edges and its locks: walks that are on it
\* get back to the tree, and nothing is ever linked under it.
RemovedStayed ==
    \A n \in (1..Len(nodes)) \ Linked :
        nodes'[n].child = nodes[n].child /\ nodes'[n].lock = nodes[n].lock
RemovedIsFrozen == [][RemovedStayed]_vars

Phase(t) ==
    IF pc[t] = "idle" THEN "idle"
    ELSE IF pc[t] \in {"unlock", "return"} THEN "done"
    ELSE "pending"

\* The tree is a linearizable set.
Abstract ==
    INSTANCE IntervalSetSpec WITH
        contents <- Contents,
        full <- FALSE,
        phase <- [t \in Thread |-> Phase(t)],
        res <- [t \in Thread |-> IF pc[t] = "unlock" THEN TRUE ELSE res[t]]
ImplementsSet == Abstract!Spec

\* Operations that restart return in the end: of the operations that disturb one
\* another one always gets through.
AllReturn == \A t \in Thread : pc[t] # "idle" ~> pc[t] = "idle"
=============================================================================
