------------------------------- MODULE DLTree -------------------------------
(***************************************************************************)
(* The Dynamic-Layout tree (class layoutTree, in                           *)
(* src/DLTree/src/bst-cohen/layoutTree.hpp): a backbone of nodes with B    *)
(* children each leads to treelets, small search trees that hold the keys  *)
(* and have one lock each (class globalLockTree).  Operations find their   *)
(* treelet in an optimistic read section of the layout lock and work on it *)
(* under its lock; a thread that finds the set has outgrown the backbone   *)
(* rebuilds it, inside a layout change.                                    *)
(*                                                                         *)
(* The layout lock is LayoutLock, with its own control point pc[t]; at[t]  *)
(* is the control point in the tree's code, and an action that calls the   *)
(* lock is the conjunction of the two.  A treelet is its set of keys (what *)
(* its own search tree does with them is the module Treelet), a node its   *)
(* B - 1 separators in order and its B children.                           *)
(***************************************************************************)
EXTENDS LayoutLock, Sequences, SequencesExt, FiniteSets, Integers

CONSTANTS
    Key,           \* the keys, positive: 0 is INVALID_KEY_SMALL
    B,             \* children of a node: 16 in the code
    Flush,         \* 200: what a thread counts before it tells fuzzySize
    EnlargeFirst,  \* the initial enlargeWhen: 16
    Work,          \* Work[t]: the operations thread t may invoke
    MaxOps         \* bound: operations of a thread

ASSUME DLTreeAssumption ==
    /\ Key \subseteq Nat \ {0} /\ IsFiniteSet(Key) /\ Key # {}
    /\ {B, Flush, EnlargeFirst, MaxOps} \subseteq Nat \ {0}
    /\ B > 1
    /\ Work \in [Thread -> SUBSET {"search", "insert", "remove"}]

VARIABLES
    head,         \* the root: a node or a treelet
    nodes,        \* the nodes allocated: [keys, next]
    trees,        \* the treelets allocated: [locked, items]; the first is NULL_TREE
    fuzzySize, enlargeWhen, shrinkWhen, backboneSize, heuristic,
    at,           \* control points
    op, key, res, \* the operation of each thread, its key and its result
    cur, idx,     \* where its walk down the backbone is, and the child chosen
    sz,           \* its local copy of fuzzySize, the argument of enlarge_tree
    limit,        \* its local copy of enlargeWhen or shrinkWhen
    v,            \* the vector of keys a layout change gathers
    todo,         \* what is left of the layout change's loops
    left          \* the operations the thread may still invoke

treeVars   == <<head, nodes, trees>>
sizeVars   == <<fuzzySize, enlargeWhen, shrinkWhen, backboneSize, heuristic>>
opVars     == <<op, key, res, left>>
walkVars   == <<cur, idx>>
countVars  == <<sz, limit>>
changeVars == <<v, todo>>
vars == <<lockVars, treeVars, sizeVars, at, opVars, walkVars, countVars, changeVars>>

Node(n) == <<"node", n>>
Tree(n) == <<"tree", n>>
IsNode(x) == x[1] = "node"      \* type == NORMAL_NODE
NullTree == Tree(1)

Goto(t, l) == at' = [at EXCEPT ![t] = l]

\* An int compared with an unsigned is converted to one.
Word == 2^16
Unsigned(n) == n % Word

Init ==
    /\ LockInit
    /\ head = Tree(2)
    /\ nodes = <<>>
    /\ trees = <<[locked |-> FALSE, items |-> {}], [locked |-> FALSE, items |-> {}]>>
    /\ fuzzySize = 0
    /\ enlargeWhen = EnlargeFirst
    /\ shrinkWhen = -1
    /\ backboneSize = 0
    /\ heuristic = [t \in Thread |-> 0]
    /\ at = [t \in Thread |-> "idle"]
    /\ op = [t \in Thread |-> "search"]
    /\ key = [t \in Thread |-> CHOOSE k \in Key : TRUE]
    /\ res = [t \in Thread |-> FALSE]
    /\ cur = [t \in Thread |-> NullTree]
    /\ idx = [t \in Thread |-> 1]
    /\ sz = [t \in Thread |-> 0]
    /\ limit = [t \in Thread |-> 0]
    /\ v = [t \in Thread |-> <<>>]
    /\ todo = [t \in Thread |-> <<>>]
    /\ left = [t \in Thread |-> MaxOps]

Invoke(t) ==
    /\ at[t] = "idle"
    /\ left[t] > 0
    /\ left' = [left EXCEPT ![t] = @ - 1]
    /\ \E o \in Work[t], k \in Key :
          /\ op' = [op EXCEPT ![t] = o]
          /\ key' = [key EXCEPT ![t] = k]
    /\ Goto(t, "start")
    /\ UNCHANGED <<lockVars, treeVars, sizeVars, res, walkVars, countVars, changeVars>>

-----------------------------------------------------------------------------
(* getTreelet *)

\* startRead, and the load of head.
Start(t) ==
    /\ at[t] = "start"
    /\ startRead(t)
    /\ cur' = [cur EXCEPT ![t] = head]
    /\ Goto(t, "walk")
    /\ UNCHANGED <<treeVars, sizeVars, opVars, idx, countVars, changeVars>>

\* asmsearch: the child is the number of separators smaller than the key.  Its four loads
\* are one step: only a layout change writes separators, and a walk that meets one in
\* progress, whatever mix of separators it has seen, is refused at the end (finishRead).
Child(n, k) == 1 + Cardinality({c \in 1..(B - 1) : k > nodes[n].keys[c]})

Choose(t) ==
    /\ at[t] = "walk"
    /\ IsNode(cur[t])
    /\ idx' = [idx EXCEPT ![t] = Child(cur[t][2], key[t])]
    /\ Goto(t, "hop")
    /\ UNCHANGED <<lockVars, treeVars, sizeVars, opVars, cur, countVars, changeVars>>

Hop(t) ==
    /\ at[t] = "hop"
    /\ cur' = [cur EXCEPT ![t] = nodes[cur[t][2]].next[idx[t]]]
    /\ idx' = [idx EXCEPT ![t] = 1]
    /\ Goto(t, "walk")
    /\ UNCHANGED <<lockVars, treeVars, sizeVars, opVars, countVars, changeVars>>

\* tatas_acquire on treelet x, and the release.
Lock(x)   == ~trees[x[2]].locked /\ trees' = [trees EXCEPT ![x[2]].locked = TRUE]
Unlock(x) == trees' = [trees EXCEPT ![x[2]].locked = FALSE]

Acquire(t) ==
    /\ at[t] = "walk"
    /\ ~IsNode(cur[t])
    /\ Lock(cur[t])
    /\ Goto(t, "held")
    /\ UNCHANGED <<lockVars, head, nodes, sizeVars, opVars, walkVars, countVars, changeVars>>

\* Mutant: the verdict of finishRead is ignored.
Accept_Always(t) ==
    /\ at[t] = "held"
    /\ pc[t] = "reading"
    /\ pc' = [pc EXCEPT ![t] = "idle"]
    /\ UNCHANGED <<state, dirty, i>>
    /\ Goto(t, "own")
    /\ UNCHANGED <<treeVars, sizeVars, opVars, walkVars, countVars, changeVars>>

Accept(t) ==
    /\ at[t] = "held"
    /\ finishReadTrue(t)
    /\ Goto(t, "own")
    /\ UNCHANGED <<treeVars, sizeVars, opVars, walkVars, countVars, changeVars>>

Refuse(t) ==
    /\ at[t] = "held"
    /\ finishReadFalse(t)
    /\ UNCHANGED <<at, treeVars, sizeVars, opVars, walkVars, countVars, changeVars>>

\* Mutant: the treelet is not released.
Retry_KeepsLock(t) ==
    /\ at[t] = "held"
    /\ pc[t] = "again"
    /\ cur' = [cur EXCEPT ![t] = NullTree]
    /\ Goto(t, "start")
    /\ UNCHANGED <<lockVars, treeVars, sizeVars, opVars, idx, countVars, changeVars>>

\* finishRead has reset the flag and returned false: release and start over.
Retry(t) ==
    /\ at[t] = "held"
    /\ pc[t] = "again"
    /\ Unlock(cur[t])
    /\ cur' = [cur EXCEPT ![t] = NullTree]
    /\ Goto(t, "start")
    /\ UNCHANGED <<lockVars, head, nodes, sizeVars, opVars, idx, countVars, changeVars>>

-----------------------------------------------------------------------------
(* The operation on the treelet, and the count of what it did *)

Items(x) == trees[x[2]].items
SetItems(x, s) == trees' = [trees EXCEPT ![x[2]].items = s]

\* globalLockTree's search, insert and remove, up to their release.
Operate(t) ==
    /\ at[t] = "own"
    /\ LET x == cur[t]
           present == key[t] \in Items(x)
       IN \/ /\ op[t] = "search"
             /\ res' = [res EXCEPT ![t] = present]
             /\ UNCHANGED trees
          \/ /\ op[t] = "insert"
             /\ res' = [res EXCEPT ![t] = ~present]
             /\ SetItems(x, Items(x) \union {key[t]})
          \/ /\ op[t] = "remove"
             /\ res' = [res EXCEPT ![t] = present]
             /\ SetItems(x, Items(x) \ {key[t]})
    /\ Goto(t, "release")
    /\ UNCHANGED <<lockVars, head, nodes, sizeVars, op, key, left, walkVars, countVars, changeVars>>

\* The operation returns.
Return(t) ==
    /\ Goto(t, "idle")
    /\ res' = [res EXCEPT ![t] = FALSE]
    /\ UNCHANGED <<op, key, left>>

Gain(t) ==
    IF ~res[t] THEN 0
    ELSE CASE op[t] = "insert" -> 1 [] op[t] = "remove" -> -1 [] op[t] = "search" -> 0

\* tatas_release; then insert and remove count, and flush the count when it is due.
Release(t) ==
    /\ at[t] = "release"
    /\ Unlock(cur[t])
    /\ cur' = [cur EXCEPT ![t] = NullTree]
    /\ heuristic' = [heuristic EXCEPT ![t] = @ + Gain(t)]
    /\ IF \/ op[t] = "insert" /\ heuristic'[t] >= Flush
          \/ op[t] = "remove" /\ heuristic'[t] < -Flush
         THEN Goto(t, "flush") /\ UNCHANGED opVars
         ELSE Return(t)
    /\ UNCHANGED <<lockVars, head, nodes, fuzzySize, enlargeWhen, shrinkWhen, backboneSize,
                   idx, countVars, changeVars>>

FlushCount(t) ==
    /\ at[t] = "flush"
    /\ fuzzySize' = fuzzySize + heuristic[t]
    /\ sz' = [sz EXCEPT ![t] = fuzzySize']
    /\ Goto(t, "limit")
    /\ UNCHANGED <<lockVars, treeVars, enlargeWhen, shrinkWhen, backboneSize, heuristic,
                   opVars, walkVars, limit, changeVars>>

\* startRead, and the load of enlargeWhen or shrinkWhen.
ReadLimit(t) ==
    /\ at[t] = "limit"
    /\ startRead(t)
    /\ limit' = [limit EXCEPT ![t] = IF op[t] = "insert" THEN enlargeWhen ELSE shrinkWhen]
    /\ Goto(t, "limited")
    /\ UNCHANGED <<treeVars, sizeVars, opVars, walkVars, sz, changeVars>>

\* Mutant: the count that was flushed stays, to be flushed again.
FinishCount_KeepsCount(t) ==
    /\ sz' = [sz EXCEPT ![t] = 0]
    /\ limit' = [limit EXCEPT ![t] = 0]
    /\ Return(t)
    /\ UNCHANGED sizeVars

\* The flushed count is reset and the operation returns.
FinishCount(t) ==
    /\ heuristic' = [heuristic EXCEPT ![t] = 0]
    /\ sz' = [sz EXCEPT ![t] = 0]
    /\ limit' = [limit EXCEPT ![t] = 0]
    /\ Return(t)
    /\ UNCHANGED <<fuzzySize, enlargeWhen, shrinkWhen, backboneSize>>

LimitRefused(t) ==
    /\ at[t] = "limited"
    /\ \/ finishReadFalse(t) /\ UNCHANGED at
       \/ pc[t] = "again" /\ Goto(t, "limit") /\ UNCHANGED lockVars
    /\ UNCHANGED <<treeVars, sizeVars, opVars, walkVars, countVars, changeVars>>

LimitAccepted(t) ==
    /\ at[t] = "limited"
    /\ finishReadTrue(t)
    /\ IF op[t] = "insert" /\ sz[t] >= limit[t]
         THEN Goto(t, "enlarge") /\ UNCHANGED <<sizeVars, opVars, countVars>>
       ELSE IF op[t] = "remove" /\ sz[t] <= limit[t]
         THEN Goto(t, "shrink") /\ UNCHANGED <<sizeVars, opVars, countVars>>
       ELSE FinishCount(t)
    /\ UNCHANGED <<treeVars, walkVars, changeVars>>
-----------------------------------------------------------------------------
(* enlarge_tree and shrink_tree: the layout change and what decides on it *)

EnterChange(t) ==
    /\ at[t] \in {"enlarge", "shrink"}
    /\ startLayoutChange(t)
    /\ Goto(t, IF at[t] = "enlarge" THEN "enlarging" ELSE "shrinking")
    /\ UNCHANGED <<treeVars, sizeVars, opVars, walkVars, countVars, changeVars>>

\* Another thread has enlarged the tree, or it has grown, in the meantime.
EnlargeNotNeeded(t) == Unsigned(sz[t]) < Unsigned(enlargeWhen)
ShrinkNotNeeded(t)  == Unsigned(sz[t]) > Unsigned(shrinkWhen)

LeaveEarly(t) ==
    /\ \/ at[t] = "enlarging" /\ EnlargeNotNeeded(t)
       \/ at[t] = "shrinking" /\ ShrinkNotNeeded(t)
    /\ finishLayoutChange(t)
    /\ Goto(t, "leaving")
    /\ UNCHANGED <<treeVars, sizeVars, opVars, walkVars, countVars, changeVars>>

\* shrink_tree calls enlarge_tree with the layout lock held: write_lock starts
\* over from the first slot, which the thread itself holds.
ShrinkByEnlarge(t) ==
    /\ at[t] = "shrinking"
    /\ pc[t] = "changing"
    /\ ~ShrinkNotNeeded(t)
    /\ sz' = [sz EXCEPT ![t] = Unsigned(@) \div B]
    /\ pc' = [pc EXCEPT ![t] = "wlock"]
    /\ i' = [i EXCEPT ![t] = 1]
    /\ Goto(t, "enlarging")
    /\ UNCHANGED <<state, dirty, treeVars, sizeVars, opVars, walkVars, limit, changeVars>>

\* What is left to do for node n: all of it (child 0), or its child c.  In buildFromV the
\* len keys after the first ones are for it.
Task(n, c, first, len) == [node |-> n, child |-> c, first |-> first, len |-> len]

\* Where child c (from 0) of the len keys after the first ones begins.
Begin(first, len, c) == first + (c * len) \div B

\* Mutant: the last child of a leaf is forgotten.
LeafTasks_Short(k) == [c \in 1..(B - 1) |-> Task(k.node, c, k.first, k.len)]

LeafTasks(k) == [c \in 1..B |-> Task(k.node, c, k.first, k.len)]

\* What gatherAll and buildFromV do below node k: the calls for its children, or the loop
\* over the treelets of a leaf.
Below(k) ==
    IF IsNode(nodes[k.node].next[1])
      THEN [c \in 1..B |-> Task(nodes[k.node].next[c][2], 0, Begin(k.first, k.len, c - 1),
                               Begin(k.first, k.len, c) - Begin(k.first, k.len, c - 1))]
      ELSE LeafTasks(k)

\* The new sizes; then consolidateAllOptimal starts on the root or on the leaves.
Enlarge(t) ==
    /\ at[t] = "enlarging"
    /\ pc[t] = "changing"
    /\ ~EnlargeNotNeeded(t)
    /\ backboneSize' = IF backboneSize = 0 THEN B - 1 ELSE backboneSize * B
    /\ enlargeWhen' = backboneSize' * B
    /\ shrinkWhen' = backboneSize' \div 4
    /\ IF IsNode(head)
         THEN Goto(t, "gather") /\ todo' = [todo EXCEPT ![t] = <<Task(head[2], 0, 0, 0)>>]
         ELSE Goto(t, "root") /\ UNCHANGED todo
    /\ UNCHANGED <<lockVars, treeVars, fuzzySize, heuristic, opVars, walkVars, countVars, v>>

-----------------------------------------------------------------------------
(* The vector of keys and how it is divided among B children *)

\* addItems: the keys of a treelet in order.
InOrder(s) ==
    CHOOSE w \in [1..Cardinality(s) -> s] :
        \A j, l \in 1..Cardinality(s) : j < l => w[j] < w[l]

\* Mutant: a part begins with the last key of the one before.
Part_Overlap(w, first, len, c) ==
    SubSeq(w, IF Begin(first, len, c) = 0 THEN 1 ELSE Begin(first, len, c), Begin(first, len, c + 1))

Part(w, first, len, c) == SubSeq(w, Begin(first, len, c) + 1, Begin(first, len, c + 1))

\* Mutant: the separator is the first key of the right part, not the last of the left.
Separators_Right(w, first, len) ==
    [c \in 1..(B - 1) |->
       IF Begin(first, len, c) >= Len(w) THEN 0 ELSE w[Begin(first, len, c) + 1]]

\* constructBigNode: the separator before child c is the last key to its left.
Separators(w, first, len) ==
    [c \in 1..(B - 1) |->
       IF Begin(first, len, c) <= 0 THEN 0 ELSE w[Begin(first, len, c)]]

\* A new node over the keys w[first + 1 .. first + len], with new treelets.
NewNode(w, first, len) ==
    [keys |-> Separators(w, first, len),
     next |-> [c \in 1..B |-> Tree(Len(trees) + c)]]

NewTrees(w, first, len) ==
    [c \in 1..B |-> [locked |-> FALSE, items |-> Range(Part(w, first, len, c - 1))]]

\* free_treelet destroys the two subtrees; the key in the root of x stays.
FreeTreelet(x) ==
    \E s \in IF Items(x) = {} THEN {{}} ELSE {{k} : k \in Items(x)} :
        trees' = [trees EXCEPT ![x[2]] = [locked |-> FALSE, items |-> s]]

-----------------------------------------------------------------------------
(* consolidateRoot: the tree is still one treelet *)

RootAcquire(t) ==
    /\ at[t] = "root"
    /\ Lock(head)
    /\ cur' = [cur EXCEPT ![t] = head]
    /\ v' = [v EXCEPT ![t] = InOrder(Items(head))]
    /\ Goto(t, "newroot")
    /\ UNCHANGED <<lockVars, head, nodes, sizeVars, opVars, idx, countVars, todo>>

RootReplace(t) ==
    /\ at[t] = "newroot"
    /\ nodes' = Append(nodes, NewNode(v[t], 0, Len(v[t])))
    /\ trees' = trees \o NewTrees(v[t], 0, Len(v[t]))
    /\ head' = Node(Len(nodes) + 1)
    /\ Goto(t, "oldroot")
    /\ UNCHANGED <<lockVars, sizeVars, opVars, walkVars, countVars, changeVars>>

RootFree(t) ==
    /\ at[t] = "oldroot"
    /\ FreeTreelet(cur[t])
    /\ cur' = [cur EXCEPT ![t] = NullTree]
    /\ Goto(t, "build")
    /\ UNCHANGED <<lockVars, head, nodes, sizeVars, opVars, idx, countVars, changeVars>>

-----------------------------------------------------------------------------
(* gatherAll, then buildFromV *)

GatherNode(t) ==
    /\ at[t] = "gather"
    /\ Head(todo[t]).child = 0
    /\ todo' = [todo EXCEPT ![t] = Below(Head(@)) \o Tail(@)]
    /\ UNCHANGED <<lockVars, treeVars, sizeVars, at, opVars, walkVars, countVars, v>>

GatherAcquire(t) ==
    /\ at[t] = "gather"
    /\ LET k == Head(todo[t])
           x == nodes[k.node].next[k.child]
       IN k.child > 0 /\ Lock(x) /\ cur' = [cur EXCEPT ![t] = x]
    /\ Goto(t, "take")
    /\ UNCHANGED <<lockVars, head, nodes, sizeVars, opVars, idx, countVars, changeVars>>

GatherTake(t) ==
    /\ at[t] = "take"
    /\ v' = [v EXCEPT ![t] = @ \o InOrder(Items(cur[t]))]
    /\ LET k == Head(todo[t])
       IN nodes' = [nodes EXCEPT ![k.node].next[k.child] = NullTree]
    /\ Goto(t, "drop")
    /\ UNCHANGED <<lockVars, head, trees, sizeVars, opVars, walkVars, countVars, todo>>

GatherFree(t) ==
    /\ at[t] = "drop"
    /\ FreeTreelet(cur[t])
    /\ cur' = [cur EXCEPT ![t] = NullTree]
    /\ IF Len(todo[t]) > 1
         THEN todo' = [todo EXCEPT ![t] = Tail(@)] /\ Goto(t, "gather")
         ELSE todo' = [todo EXCEPT ![t] = <<Task(head[2], 0, 0, Len(v[t]))>>] /\ Goto(t, "build")
    /\ UNCHANGED <<lockVars, head, nodes, sizeVars, opVars, idx, countVars, v>>

\* constructBigNode on a node of the old backbone, and what is to do below it.  The stores
\* of its separators are one step: changes run alone, and the readers that may see some of
\* them are marked already.
BuildNode(t) ==
    /\ at[t] = "build"
    /\ todo[t] # <<>>
    /\ LET k == Head(todo[t])
       IN /\ k.child = 0
          /\ nodes' = [nodes EXCEPT ![k.node].keys = Separators(v[t], k.first, k.len)]
          /\ todo' = [todo EXCEPT ![t] = Below(k) \o Tail(@)]
    /\ UNCHANGED <<lockVars, head, trees, sizeVars, at, opVars, walkVars, countVars, v>>

\* expandLeafBigNode: a child of a leaf is made a node with treelets of its own.
BuildChild(t) ==
    /\ at[t] = "build"
    /\ todo[t] # <<>>
    /\ LET k == Head(todo[t])
           first == Begin(k.first, k.len, k.child - 1)
           len == Begin(k.first, k.len, k.child) - first
       IN /\ k.child > 0
          /\ nodes' = Append([nodes EXCEPT ![k.node].next[k.child] = Node(Len(nodes) + 1)],
                             NewNode(v[t], first, len))
          /\ trees' = trees \o NewTrees(v[t], first, len)
    /\ todo' = [todo EXCEPT ![t] = Tail(@)]
    /\ UNCHANGED <<lockVars, head, sizeVars, at, opVars, walkVars, countVars, v>>

LeaveChange(t) ==
    /\ at[t] = "build"
    /\ todo[t] = <<>>
    /\ finishLayoutChange(t)
    /\ v' = [v EXCEPT ![t] = <<>>]
    /\ Goto(t, "leaving")
    /\ UNCHANGED <<treeVars, sizeVars, opVars, walkVars, countVars, todo>>

\* The layout lock is released; the count is reset and the operation returns.
Left(t) ==
    /\ at[t] = "leaving"
    /\ pc[t] = "idle"
    /\ FinishCount(t)
    /\ UNCHANGED <<lockVars, treeVars, walkVars, changeVars>>

-----------------------------------------------------------------------------
InsideLock(t) ==
    /\ Inside(t)
    /\ UNCHANGED <<treeVars, sizeVars, at, opVars, walkVars, countVars, changeVars>>

Lookup(t) ==
    \/ Start(t) \/ Choose(t) \/ Hop(t) \/ Acquire(t)
    \/ Accept(t) \/ Refuse(t) \/ Retry(t) \/ Operate(t) \/ Release(t)

Count(t) == FlushCount(t) \/ ReadLimit(t) \/ LimitRefused(t) \/ LimitAccepted(t)

Change(t) ==
    \/ EnterChange(t) \/ LeaveEarly(t) \/ ShrinkByEnlarge(t) \/ Enlarge(t)
    \/ RootAcquire(t) \/ RootReplace(t) \/ RootFree(t)
    \/ GatherNode(t) \/ GatherAcquire(t) \/ GatherTake(t) \/ GatherFree(t)
    \/ BuildNode(t) \/ BuildChild(t) \/ LeaveChange(t) \/ Left(t)

Step(t) == Lookup(t) \/ Count(t) \/ Change(t) \/ InsideLock(t)

Next == \E t \in Thread : Invoke(t) \/ Step(t)

Spec == Init /\ [][Next]_vars

\* A thread that is inside an operation runs on, and it invokes all it may.  Nothing is
\* assumed of the test-and-set locks of the treelets: whoever waits for one gets it only
\* if it stays free.
FairSpec == Spec /\ \A t \in Thread : WF_vars(Invoke(t) \/ Step(t))

-----------------------------------------------------------------------------
(* Properties *)

\* The objects reachable from x, and the treelet the backbone leads key k to.
ReachableFrom(x) ==
    LET level[d \in 0..Len(nodes)] ==
          IF d = 0 THEN {x}
          ELSE UNION {Range(nodes[y[2]].next) : y \in {z \in level[d - 1] : IsNode(z)}}
    IN UNION {level[d] : d \in 0..Len(nodes)}

Reachable == ReachableFrom(head)
LiveTrees == {x \in Reachable : ~IsNode(x)}

Route(k) ==
    LET walk[d \in 0..Len(nodes)] ==
          IF d = 0 THEN head
          ELSE LET x == walk[d - 1]
               IN IF IsNode(x)
                    THEN nodes[x[2]].next[Child(x[2], k)]
                    ELSE x
    IN walk[Len(nodes)]

ControlPoints ==
    {"idle", "start", "walk", "hop", "held", "own", "release", "flush", "limit", "limited",
     "enlarge", "enlarging", "shrink", "shrinking", "root", "newroot", "oldroot",
     "gather", "take", "drop", "build", "leaving"}

Object == ({"node"} \X (1..Len(nodes))) \union ({"tree"} \X (1..Len(trees)))
Tasks == [node : 1..Len(nodes), child : 0..B, first : Nat, len : Nat]

TypeOK ==
    /\ state \in [Thread -> SlotStates] /\ dirty \in [Thread -> {0, 1}]
    /\ pc \in [Thread -> PCs] /\ i \in [Thread -> Thread]
    /\ head \in Object
    /\ nodes \in Seq([keys : [1..(B - 1) -> Key \union {0}], next : [1..B -> Object]])
    /\ trees \in Seq([locked : BOOLEAN, items : SUBSET Key]) /\ Len(trees) > 1
    /\ {fuzzySize, enlargeWhen, shrinkWhen, backboneSize} \subseteq Int
    /\ heuristic \in [Thread -> (-(Flush + 1))..Flush]
    /\ at \in [Thread -> ControlPoints]
    /\ op \in [Thread -> {"search", "insert", "remove"}]
    /\ key \in [Thread -> Key] /\ res \in [Thread -> BOOLEAN]
    /\ cur \in [Thread -> Object] /\ idx \in [Thread -> 1..B]
    /\ sz \in [Thread -> Int] /\ limit \in [Thread -> Int]
    /\ v \in [Thread -> Seq(Key)] /\ todo \in [Thread -> Seq(Tasks)]
    /\ left \in [Thread -> 0..MaxOps]

\* The tree is a linearizable set: every key is in the tree or in the vector of
\* the thread that is rebuilding it, and an operation takes effect in its treelet.
Contents ==
    UNION ({Items(x) : x \in LiveTrees} \union {Range(v[t]) : t \in Thread})

Phase(t) ==
    IF at[t] = "idle" THEN "idle"
    ELSE IF at[t] \in {"start", "walk", "hop", "held", "own"} THEN "pending"
    ELSE "done"

Abstract == INSTANCE SetSpec WITH contents <- Contents, phase <- [t \in Thread |-> Phase(t)]
ImplementsSet == Abstract!Spec

\* A thread that got its treelet through getTreelet has the treelet its key belongs
\* to, and that treelet is still part of the tree, even while the layout changes.
OwnsLiveTreelet ==
    \A t \in Thread :
        at[t] = "own" => /\ cur[t] \in LiveTrees /\ cur[t] # NullTree
                         /\ trees[cur[t][2]].locked

\* While the layout is being changed.
Rebuilds(t) == at[t] \in {"root", "newroot", "oldroot", "gather", "take", "drop", "build"}
Rebuilding == \E t \in Thread : Rebuilds(t)

\* Otherwise every key is in the treelet the backbone leads to, and NULL_TREE
\* is nowhere in the tree (constructBigNode, buildFromV, gatherAll).
KeysAreRouted ==
    ~Rebuilding =>
        /\ NullTree \notin Reachable
        /\ \A x \in LiveTrees : \A k \in Items(x) : Route(k) = x

\* backboneSize tells the number of treelets, outside a layout change.
BackboneIsFull ==
    ~Rebuilding =>
        Cardinality(LiveTrees) = IF backboneSize = 0 THEN 1
                                 ELSE (backboneSize \div (B - 1)) * B

\* What a thread has counted and not told fuzzySize yet.
Untold(t) == IF at[t] \in {"limit", "limited", "enlarge", "enlarging", "shrink", "shrinking",
                           "root", "newroot", "oldroot", "gather", "take", "drop", "build",
                           "leaving"}
               THEN 0
             ELSE IF at[t] = "release" THEN heuristic[t] + Gain(t)
             ELSE heuristic[t]

\* fuzzySize and the threads' counts together are the size of the set: no gain is
\* lost or told twice, however flushes and layout changes interleave.
CountIsExact ==
    Cardinality(Contents) = fuzzySize + FoldFunction(LAMBDA a, b : a + b, 0, [t \in Thread |-> Untold(t)])

\* The treelet that a layout change waits for.
Awaits(c, x) ==
    \/ at[c] = "root" /\ x = head
    \/ at[c] = "gather" /\ Head(todo[c]).child > 0
       /\ x = nodes[Head(todo[c]).node].next[Head(todo[c]).child]

\* Thread c waits for ever for a treelet, and reader u takes it, is refused and gives it
\* back again and again.
Starves(c, u) ==
    /\ <>[](at[c] \in {"root", "gather"})
    /\ []<>(at[u] = "held" /\ pc[u] = "again" /\ Awaits(c, cur[u]))

\* Every operation of a finite workload returns, unless it is for a layout change that the
\* readers it refuses keep out of a treelet (getTreelet takes the treelet's lock before it
\* asks finishRead, and the lock has no queue): otherwise retries end, locks are released
\* and layout changes get through.
AllReturn ==
    \/ <>(\A t \in Thread : at[t] = "idle" /\ left[t] = 0)
    \/ \E c, u \in Thread : Starves(c, u)

\* shrink_tree has called enlarge_tree and waits for a slot of its own.
Stuck(t) == at[t] = "enlarging" /\ pc[t] = "wlock" /\ op[t] = "remove"

\* With removals: the same, but for the change that waits for itself.  There is no third
\* way for an operation not to return.
AllReturnOrStuck == AllReturn \/ \E c \in Thread : <>[]Stuck(c)

-----------------------------------------------------------------------------
(* The inductive invariant behind OwnsLiveTreelet, KeysAreRouted, CountIsExact and ImplementsSet *)

\* Where in the lock's code a thread can be, by its place in the tree's.
Control(t) ==
    /\ at[t] \in {"idle", "own", "release", "flush", "enlarge", "shrink"} => pc[t] = "idle"
    /\ at[t] \in {"start", "limit"} => pc[t] \in {"idle", "again"}
    /\ at[t] \in {"walk", "hop"} => pc[t] = "reading"
    /\ at[t] \in {"held", "limited"} =>
         pc[t] \in {"reading", "reset", "clear", "recheck", "redirty", "again"}
    /\ at[t] \in {"enlarging", "shrinking"} => pc[t] \in {"wlock", "dirtying", "changing"}
    /\ Rebuilds(t) => pc[t] = "changing"
    /\ at[t] = "leaving" => pc[t] \in {"wunlock", "idle"}
    /\ pc[t] = "changing" => i[t] = 1
    /\ at[t] = "enlarge" => op[t] = "insert"
    /\ at[t] \in {"shrink", "shrinking"} => op[t] = "remove"

ControlInv == \A t \in Thread : Control(t)

\* A count that is due is flushed before the next operation.
Counted ==
    \A t \in Thread :
        at[t] \in {"idle", "start", "walk", "hop", "held", "own", "release"} =>
            heuristic[t] \in (-Flush)..(Flush - 1)

\* Thread w has slot s, for its layout change.
Holds(w, s) ==
    \/ Stuck(w)
    \/ pc[w] = "wlock" /\ s < i[w]
    \/ pc[w] \in {"dirtying", "changing"}
    \/ pc[w] = "wunlock" /\ s >= i[w]

\* Slots have one holder, and while one changes the layout every flag is set, or about
\* to be set again.
SlotInv ==
    /\ \A w, s \in Thread : Holds(w, s) => state[s] = "WriterActive"
    /\ \A u, w, s \in Thread : Holds(u, s) /\ Holds(w, s) => u = w
    /\ \A w \in Thread : Stuck(w) => i[w] = 1
    /\ \A w, s \in Thread :
         pc[w] = "changing" \/ (pc[w] = "dirtying" /\ s < i[w])
           => dirty[s] = 1 \/ pc[s] \in {"recheck", "redirty"}

\* A treelet's lock is taken while a thread has it, by one thread.
Has(t) == at[t] \in {"held", "own", "release", "newroot", "oldroot", "take", "drop"}
TreeletInv ==
    /\ \A t \in Thread : Has(t) => ~IsNode(cur[t]) /\ trees[cur[t][2]].locked
    /\ \A t, u \in Thread : Has(t) /\ Has(u) /\ cur[t] = cur[u] => t = u
    /\ trees[1].items = {}

-----------------------------------------------------------------------------
(* The shape of the backbone *)

Slots == (1..Len(nodes)) \X (1..B)
Link(e) == nodes[e[1]].next[e[2]]     \* the child in slot e
Empty(e) == Link(e) = NullTree
Filled(e) == ~IsNode(Link(e)) /\ ~Empty(e)

Gathers(t) == at[t] \in {"gather", "take", "drop"}
Building == \E t \in Thread : at[t] = "build"

\* The slot a task is about, or the node and 0.
Place(k) == <<k.node, k.child>>
Places(t) == {Place(todo[t][j]) : j \in 1..Len(todo[t])}

\* Parents are older than their children; nothing but NULL_TREE is linked twice.
LinkInv ==
    /\ head = IF nodes = <<>> THEN Tree(2) ELSE Node(1)
    /\ \A n \in 2..Len(nodes) : \E e \in Slots : Link(e) = Node(n)
    /\ \A e \in Slots : IsNode(Link(e)) => e[1] < Link(e)[2]
    /\ \A e, f \in Slots : Link(e) = Link(f) /\ ~Empty(e) => e = f

\* The children of a node are all nodes or all treelets, and while the leaves are expanded
\* all new treelets or none.  NULL_TREE is linked during layout changes only.
LeafInv ==
    /\ \A n \in 1..Len(nodes) :
         IF Building
         THEN (\A c \in 1..B : Filled(<<n, c>>)) \/ (\A c \in 1..B : ~Filled(<<n, c>>))
         ELSE (\A c \in 1..B : ~IsNode(Link(<<n, c>>))) \/ (\A c \in 1..B : IsNode(Link(<<n, c>>)))
    /\ (\E e \in Slots : Empty(e)) => \E t \in Thread : Gathers(t) \/ at[t] = "build"

\* What a layout change has in its hands.
ChangeOf(t) ==
    /\ at[t] \in {"root", "newroot"} => nodes = <<>>
    /\ at[t] = "newroot" => cur[t] = head /\ v[t] = InOrder(Items(head))
    /\ at[t] = "oldroot" => Len(nodes) = 1
    /\ at[t] \in {"oldroot", "drop"} => \A e \in Slots : Link(e) # cur[t]
    /\ Gathers(t) => nodes # <<>> /\ todo[t] # <<>>
    /\ at[t] \in {"take", "drop"} => Head(todo[t]).child > 0
    /\ at[t] = "take" => cur[t] = Link(Place(Head(todo[t])))
    /\ at[t] = "build" => nodes # <<>>
    /\ ~Gathers(t) /\ at[t] # "build" => todo[t] = <<>>
    /\ ~Gathers(t) /\ at[t] \notin {"newroot", "oldroot", "build"} => v[t] = <<>>
    /\ \A j, l \in 1..Len(v[t]) : j < l => v[t][j] < v[t][l]
    /\ at[t] \in {"newroot", "oldroot", "build"} => \A u \in Thread : at[u] # "own"

ChangeInv == \A t \in Thread : ChangeOf(t)

\* U are the nodes that the recursion of thread t has still to come to: those to be visited
\* and all below them.  A slot with work is one of theirs, or to be visited itself.
CoverOf(t, U) ==
    /\ \A j, l \in 1..Len(todo[t]) : Place(todo[t][j]) = Place(todo[t][l]) => j = l
    /\ \A n \in U : <<n, 0>> \in Places(t) \/ \E e \in Slots : e[1] \in U /\ Link(e) = Node(n)
    /\ \A p \in Places(t) :
         IF p[2] = 0 THEN p[1] \in U /\ \A e \in Slots : e[1] \in U => Link(e) # Node(p[1])
         ELSE p[1] \notin U
    /\ \A e \in Slots : e[1] \in U /\ IsNode(Link(e)) => Link(e)[2] \in U
    /\ \A n \in U : (\A c \in 1..B : ~IsNode(Link(<<n, c>>))) \/ (\A c \in 1..B : IsNode(Link(<<n, c>>)))
    /\ \A e \in Slots :
         IF at[t] = "build"
         THEN /\ Empty(e) => e[1] \in U \/ e \in Places(t)
              /\ Filled(e) => e[1] \notin U
              /\ e \in Places(t) => Empty(e)
         ELSE /\ Filled(e) => e[1] \in U \/ e \in Places(t)
              /\ Empty(e) => e[1] \notin U
              /\ e \in Places(t) => IF at[t] = "drop" /\ e = Place(Head(todo[t])) THEN Empty(e)
                                    ELSE Filled(e)

CoverInv(U) ==
    /\ \A t \in Thread : Gathers(t) \/ at[t] = "build" => CoverOf(t, U)
    /\ U # {} => \E t \in Thread : Gathers(t) \/ at[t] = "build"

-----------------------------------------------------------------------------
(* Where the keys are *)

\* The keys whose walk comes to node n (slot <<n, 0>>), or goes on from it to child c, where
\* K[n] are those that come to n.
KeysOf(K, e) == IF e[2] = 0 THEN K[e[1]] ELSE {k \in K[e[1]] : Child(e[1], k) = e[2]}

\* The nodes that have their separators: all but those to be built.
Ready(U) == IF Building THEN (1..Len(nodes)) \ U ELSE 1..Len(nodes)

\* Nodes and slots that between them get all keys.
Frontier(U) ==
    {e \in Slots : e[1] \in Ready(U) /\ ~IsNode(Link(e))}
    \union UNION {{p \in Places(t) : p[2] = 0} : t \in {u \in Thread : at[u] = "build"}}

\* A walk leads from a node to the child for its key; keys are in the treelet at the end.
KeyInv(U, K) ==
    /\ nodes # <<>> => K[1] = Key
    /\ \A e \in Slots : e[1] \in Ready(U) =>
         IF IsNode(Link(e)) THEN K[Link(e)[2]] = KeysOf(K, e) ELSE Items(Link(e)) \subseteq KeysOf(K, e)
    /\ \A e, f \in Frontier(U) : e # f => KeysOf(K, e) \intersect KeysOf(K, f) = {}

\* What is gathered comes from slots that are empty now, and before what is not.
GatherOf(t, K) ==
    /\ \A k \in Range(v[t]) : \E e \in Slots : Empty(e) /\ k \in KeysOf(K, e)
    /\ \A j \in 1..Len(todo[t]) : j > 1 \/ at[t] # "drop" =>
         \A k \in Range(v[t]), m \in KeysOf(K, Place(todo[t][j])) : k < m
    /\ \A j, l \in 1..Len(todo[t]) : j < l =>
         \A k \in KeysOf(K, Place(todo[t][j])), m \in KeysOf(K, Place(todo[t][l])) : k < m

GatherInv(K) == \A t \in Thread : Gathers(t) => GatherOf(t, K)

\* The part of the vector that is for task k.
From(k) == IF k.child = 0 THEN k.first ELSE Begin(k.first, k.len, k.child - 1)
To(k)   == IF k.child = 0 THEN k.first + k.len ELSE Begin(k.first, k.len, k.child)

\* Every key of the vector is in a treelet or in the part of a task, to which walks lead it.
BuildOf(t, K) ==
    /\ \A j \in 1..Len(todo[t]) :
         /\ todo[t][j].first + todo[t][j].len <= Len(v[t])
         /\ \A l \in (From(todo[t][j]) + 1)..To(todo[t][j]) : v[t][l] \in KeysOf(K, Place(todo[t][j]))
    /\ \A l \in 1..Len(v[t]) :
         \/ \E e \in Slots : ~IsNode(Link(e)) /\ v[t][l] \in Items(Link(e))
         \/ \E j \in 1..Len(todo[t]) : l \in (From(todo[t][j]) + 1)..To(todo[t][j])

BuildInv(K) == \A t \in Thread : at[t] \in {"oldroot", "build"} => BuildOf(t, K)

\* The walk of key k comes to object x.
Leads(K, x, k) ==
    \/ nodes = <<>> /\ x = head
    \/ \E n \in 1..Len(nodes) : x = Node(n) /\ k \in K[n]
    \/ \E e \in Slots : x = Link(e) /\ Filled(e) /\ k \in KeysOf(K, e)

\* A walk that will be accepted, and a thread that has been, is where its key leads.
WalkInv(K) ==
    \A t \in Thread :
        /\ \/ at[t] \in {"walk", "hop", "held"} /\ pc[t] = "reading" /\ dirty[t] = 0
           \/ at[t] = "own"
           => Leads(K, cur[t], key[t])
        /\ at[t] = "hop" => IsNode(cur[t])
        /\ at[t] = "hop" /\ dirty[t] = 0 => idx[t] = Child(cur[t][2], key[t])

PlaceInv(U, K) == KeyInv(U, K) /\ GatherInv(K) /\ BuildInv(K) /\ WalkInv(K)

\* The lock, the counts and the treelets' locks are as the code leaves them, and there are
\* nodes still to come to and keys for each node for which the shape and the walks are right.
IInv ==
    /\ TypeOK /\ ControlInv /\ Counted /\ SlotInv /\ TreeletInv
    /\ LinkInv /\ LeafInv /\ ChangeInv
    /\ \E U \in SUBSET (1..Len(nodes)) :
         CoverInv(U) /\ \E K \in [1..Len(nodes) -> SUBSET Key] : PlaceInv(U, K)
=============================================================================
