------------------------------- MODULE SkipList -------------------------------
(***************************************************************************)
(* The skip list with locks of Herlihy, Lev, Luchangco and Shavit          *)
(* (src/DLTree/src/skiplist-herlihy_lb/herlihy.c).  A node is in the lists *)
(* of the levels 1 to its height.  Updates search without locks, from the  *)
(* top level down, noting the predecessor and the successor at each level; *)
(* then they lock the predecessors from level 1 up and look whether all is *)
(* still as noted.  An insertion links its node from level 1 up and then   *)
(* says that it is fully linked, which is when it takes effect; a removal  *)
(* takes effect when it marks its node, keeps it locked, and then unlinks  *)
(* it from its top level down.                                             *)
(*                                                                         *)
(* Each load and store is a step; but the acquisition of a lock is one     *)
(* with the loads that follow it, of fields that the lock protects and of  *)
(* one other, and locks are given back together: no thread can tell.       *)
(***************************************************************************)
EXTENDS Integers, Sequences, FiniteSets, SequencesExt

CONSTANTS
    Thread,
    Key,       \* positive; KEY_MIN and KEY_MAX bound them
    MaxOps,    \* bound: operations of the threads together
    LevelMax   \* levelmax

SkipListAssumption ==
    /\ IsFiniteSet(Key) /\ Key \subseteq Nat \ {0}
    /\ MaxOps \in Nat /\ LevelMax \in Nat \ {0}

VARIABLES
    nodes,          \* the nodes allocated: [key, next, marked, full, freed]
    locks,          \* locks[t]: the nodes that thread t has locked
    pc,             \* control points
    op, key,        \* the operation of each thread and its key
    res,            \* its result, from the instant at which it takes effect
    level,          \* the level its search, its locking or its linking is at
    pred,           \* where its search is
    preds, succs,   \* what it has noted at each level
    found,          \* the highest level at which it has found the key, or 0
    victim,         \* the node it has linked, or marked in order to remove it, or 0
    height,         \* toplevel: of that node
    left,           \* operations that may still be invoked
    seen            \* history: whether key[t] was in the list since the call

walkVars == <<level, pred, preds, succs, found>>
localVars == <<walkVars, victim, height>>
vars == <<nodes, locks, pc, op, key, res, localVars, left, seen>>

Hd  == 1     \* set->head
End == 2

KeyMin == 0
KeyMax == 1 + CHOOSE m \in Key : \A k \in Key : k <= m

Level == 1..LevelMax
Top(n) == Len(nodes[n].next)
Goto(t, l) == pc' = [pc EXCEPT ![t] = l]

-----------------------------------------------------------------------------
\* The nodes on the way from the head at level i (the last one points to itself here).
Linked(i) ==
    LET walk[d \in 0..Len(nodes)] == IF d = 0 THEN Hd ELSE nodes[walk[d - 1]].next[i]
    IN {walk[d] : d \in 0..Len(nodes)}

Contents ==
    {nodes[n].key : n \in {m \in Linked(1) \ {Hd, End} : nodes[m].full /\ ~nodes[m].marked}}

Node(k, next, full) == [key |-> k, next |-> next, marked |-> FALSE, full |-> full, freed |-> 0]

\* A list that earlier insertions have built; h gives the heights.
ListOf(s, h) ==
    LET keys == SetToSortSeq(s, LAMBDA a, b : a < b)
        succ(j, i) ==
            LET on == {m \in j + 1..Len(keys) : h[keys[m]] >= i}
            IN IF on = {} THEN End ELSE 2 + CHOOSE m \in on : \A o \in on : m <= o
    IN <<Node(KeyMin, [i \in Level |-> succ(0, i)], TRUE),
         Node(KeyMax, [i \in Level |-> End], TRUE)>>
       \o [j \in 1..Len(keys) |->
             Node(keys[j], [i \in 1..h[keys[j]] |-> succ(j, i)], TRUE)]

Init ==
    /\ \E s \in SUBSET Key : \E h \in [s -> Level] : nodes = ListOf(s, h)
    /\ locks = [t \in Thread |-> {}]
    /\ pc = [t \in Thread |-> "idle"]
    /\ op = [t \in Thread |-> "search"]
    /\ key = [t \in Thread |-> CHOOSE k \in Key : TRUE]
    /\ res = [t \in Thread |-> FALSE]
    /\ level = [t \in Thread |-> LevelMax]
    /\ pred = [t \in Thread |-> Hd]
    /\ preds = [t \in Thread |-> <<>>]
    /\ succs = [t \in Thread |-> <<>>]
    /\ found = [t \in Thread |-> 0]
    /\ victim = [t \in Thread |-> 0]
    /\ height = [t \in Thread |-> 0]
    /\ left = MaxOps
    /\ seen = [t \in Thread |-> {}]

Phase(t) ==
    CASE pc[t] = "idle" -> "idle"
      [] pc[t] = "return" \/ res[t] -> "done"
      [] OTHER -> "pending"

\* The search begins at the head; preds and succs are in order of the levels.
Restart(t) ==
    /\ Goto(t, "walk")
    /\ level' = [level EXCEPT ![t] = LevelMax]
    /\ pred' = [pred EXCEPT ![t] = Hd]
    /\ preds' = [preds EXCEPT ![t] = <<>>]
    /\ succs' = [succs EXCEPT ![t] = <<>>]
    /\ found' = [found EXCEPT ![t] = 0]

\* An insertion draws the height of its node (get_rand_level).
Invoke(t) ==
    /\ pc[t] = "idle"
    /\ left > 0
    /\ left' = left - 1
    /\ \E o \in {"search", "insert", "remove"}, k \in Key, h \in Level :
          /\ op' = [op EXCEPT ![t] = o]
          /\ key' = [key EXCEPT ![t] = k]
          /\ height' = [height EXCEPT ![t] = IF o = "insert" THEN h ELSE 0]
          /\ seen' = [seen EXCEPT ![t] = {k \in Contents}]
    /\ Restart(t)
    /\ UNCHANGED <<nodes, locks, res, victim>>

\* The operation returns; its local variables are forgotten.
Finish(t, result) ==
    /\ Goto(t, "return")
    /\ res' = [res EXCEPT ![t] = result]
    /\ level' = [level EXCEPT ![t] = LevelMax]
    /\ pred' = [pred EXCEPT ![t] = Hd]
    /\ preds' = [preds EXCEPT ![t] = <<>>]
    /\ succs' = [succs EXCEPT ![t] = <<>>]
    /\ found' = [found EXCEPT ![t] = 0]
    /\ victim' = [victim EXCEPT ![t] = 0]
    /\ height' = [height EXCEPT ![t] = 0]

Return(t) ==
    /\ pc[t] = "return"
    /\ Goto(t, "idle")
    /\ op' = [op EXCEPT ![t] = "search"]
    /\ key' = [key EXCEPT ![t] = CHOOSE k \in Key : TRUE]
    /\ res' = [res EXCEPT ![t] = FALSE]
    /\ seen' = [seen EXCEPT ![t] = {}]
    /\ UNCHANGED <<nodes, locks, localVars, left>>

-----------------------------------------------------------------------------
(* optimistic_search, optimistic_left_search *)

\* The load of the next node of the level.
Walk(t) ==
    /\ pc[t] = "walk"
    /\ LET n == nodes[pred[t]].next[level[t]]
       IN CASE nodes[n].key < key[t] ->
                 /\ pred' = [pred EXCEPT ![t] = n]
                 /\ UNCHANGED <<pc, res, level, preds, succs, found, victim, height>>
            [] nodes[n].key >= key[t] /\ op[t] # "search" ->
                 /\ preds' = [preds EXCEPT ![t] = <<pred[t]>> \o @]
                 /\ succs' = [succs EXCEPT ![t] = <<n>> \o @]
                 /\ Goto(t, "marked")
                 /\ UNCHANGED <<res, level, pred, found, victim, height>>
            [] nodes[n].key = key[t] /\ op[t] = "search" ->
                 /\ pred' = [pred EXCEPT ![t] = n]
                 /\ Goto(t, "look")
                 /\ UNCHANGED <<res, level, preds, succs, found, victim, height>>
            [] nodes[n].key > key[t] /\ op[t] = "search" ->
                 IF level[t] = 1 THEN Finish(t, FALSE)
                 ELSE /\ level' = [level EXCEPT ![t] = @ - 1]
                      /\ UNCHANGED <<pc, res, pred, preds, succs, found, victim, height>>
    /\ UNCHANGED <<nodes, locks, op, key, left, seen>>

\* Whether the predecessor is being removed; if not, one level down.
Marked(t) ==
    /\ pc[t] = "marked"
    /\ IF nodes[pred[t]].marked
         THEN Restart(t)
         ELSE /\ found' = [found EXCEPT ![t] =
                             IF @ = 0 /\ nodes[Head(succs[t])].key = key[t] THEN level[t] ELSE @]
              /\ IF level[t] = 1
                   THEN Goto(t, "found") /\ UNCHANGED level
                   ELSE Goto(t, "walk") /\ level' = [level EXCEPT ![t] = @ - 1]
              /\ UNCHANGED <<pred, preds, succs>>
    /\ UNCHANGED <<nodes, locks, op, key, res, victim, height, left, seen>>

\* optimistic_find: the node must not be marked, and it must be fully linked.
Look(t) ==
    /\ pc[t] = "look"
    /\ IF nodes[pred[t]].marked
         THEN Finish(t, FALSE)
         ELSE Goto(t, "full") /\ UNCHANGED <<res, localVars>>
    /\ UNCHANGED <<nodes, locks, op, key, left, seen>>

LookFull(t) ==
    /\ pc[t] = "full"
    /\ Finish(t, nodes[pred[t]].full)
    /\ UNCHANGED <<nodes, locks, op, key, left, seen>>

-----------------------------------------------------------------------------
(* What the search has found *)

\* An insertion of a key that is there waits until it is fully linked.
FoundInsert(t) ==
    /\ pc[t] = "found" /\ op[t] = "insert"
    /\ CASE found[t] = 0 -> Goto(t, "lock") /\ UNCHANGED walkVars
         [] found[t] # 0 /\ nodes[succs[t][found[t]]].marked -> Restart(t)
         [] OTHER -> Goto(t, "await") /\ UNCHANGED walkVars
    /\ UNCHANGED <<nodes, locks, op, key, res, victim, height, left, seen>>

Await(t) ==
    /\ pc[t] = "await"
    /\ nodes[succs[t][found[t]]].full
    /\ Finish(t, FALSE)
    /\ UNCHANGED <<nodes, locks, op, key, left, seen>>

\* Mutant: a node is removed while it is being linked.
ok_to_delete_Linking(n, i) == Top(n) = i /\ ~nodes[n].marked

ok_to_delete(n, i) == nodes[n].full /\ Top(n) = i /\ ~nodes[n].marked

FoundRemove(t) ==
    /\ pc[t] = "found" /\ op[t] = "remove"
    /\ IF victim[t] # 0 \/ (found[t] # 0 /\ ok_to_delete(succs[t][found[t]], found[t]))
         THEN /\ Goto(t, IF victim[t] = 0 THEN "mark" ELSE "lock")
              /\ UNCHANGED <<res, localVars>>
         ELSE Finish(t, FALSE)
    /\ UNCHANGED <<nodes, locks, op, key, left, seen>>

IsLocked(n) == \E u \in Thread : n \in locks[u]

\* The operations in progress on the same key see that it is now in the list, or not.
RecordSeen(t) ==
    seen' = [u \in Thread |->
               IF u # t /\ key[u] = key[t] /\ Phase(u) = "pending"
                 THEN seen[u] \union {op[t] = "insert"}
               ELSE seen[u]]

\* A removal locks its node and, unless another one has, marks it.
Mark(t) ==
    /\ pc[t] = "mark"
    /\ LET n == succs[t][found[t]]
       IN /\ ~IsLocked(n)
          /\ IF nodes[n].marked
               THEN Finish(t, FALSE) /\ UNCHANGED <<nodes, locks, seen>>
               ELSE /\ nodes' = [nodes EXCEPT ![n].marked = TRUE]
                    /\ locks' = [locks EXCEPT ![t] = {n}]
                    /\ victim' = [victim EXCEPT ![t] = n]
                    /\ height' = [height EXCEPT ![t] = Top(n)]
                    /\ res' = [res EXCEPT ![t] = TRUE]
                    /\ RecordSeen(t)
                    /\ Goto(t, "lock")
                    /\ UNCHANGED walkVars
    /\ UNCHANGED <<op, key, left>>

-----------------------------------------------------------------------------
(* Locking and validation *)

\* Mutant: the predecessor may have been marked.
Valid_AnyPredecessor(t, p, n, i) ==
    /\ op[t] = "insert" => ~nodes[n].marked
    /\ nodes[p].next[i] = n

Valid(t, p, n, i) ==
    /\ ~nodes[p].marked
    /\ op[t] = "insert" => ~nodes[n].marked
    /\ nodes[p].next[i] = n

\* The predecessor at the level, unless it is the one of the level below.  If it is
\* not as noted, unlock_levels, and the search begins again.
Lock(t) ==
    /\ pc[t] = "lock"
    /\ LET i == level[t]
           p == preds[t][i]
       IN /\ p \notin locks[t] => ~IsLocked(p)
          /\ IF Valid(t, p, succs[t][i], i)
               THEN /\ locks' = [locks EXCEPT ![t] = @ \union {p}]
                    /\ IF i < height[t]
                         THEN level' = [level EXCEPT ![t] = i + 1] /\ UNCHANGED pc
                         ELSE /\ level' = [level EXCEPT ![t] = IF op[t] = "insert" THEN 1 ELSE i]
                              /\ Goto(t, IF op[t] = "insert" THEN "link" ELSE "unlink")
                    /\ UNCHANGED <<pred, preds, succs, found>>
               ELSE /\ locks' = [locks EXCEPT ![t] = @ \intersect {victim[t]}]
                    /\ Restart(t)
    /\ UNCHANGED <<nodes, op, key, res, victim, height, left, seen>>

-----------------------------------------------------------------------------
(* The update *)

\* The new node becomes visible with the store at the first level.
Link(t) ==
    /\ pc[t] = "link"
    /\ LET i == level[t]
           new == IF i = 1 THEN Len(nodes) + 1 ELSE victim[t]
           made == IF i = 1
                     THEN Append(nodes, Node(key[t], [j \in 1..height[t] |-> succs[t][j]], FALSE))
                     ELSE nodes
       IN /\ nodes' = [made EXCEPT ![preds[t][i]].next[i] = new]
          /\ victim' = [victim EXCEPT ![t] = new]
          /\ IF i < height[t] THEN level' = [level EXCEPT ![t] = i + 1] /\ UNCHANGED pc
                              ELSE UNCHANGED level /\ Goto(t, "linked")
    /\ UNCHANGED <<locks, op, key, res, pred, preds, succs, found, height, left, seen>>

FullyLinked(t) ==
    /\ pc[t] = "linked"
    /\ nodes' = [nodes EXCEPT ![victim[t]].full = TRUE]
    /\ res' = [res EXCEPT ![t] = TRUE]
    /\ RecordSeen(t)
    /\ Goto(t, "unlock")
    /\ UNCHANGED <<locks, op, key, localVars, left>>

\* Mutant: unlinked from level 1 up.
Unlink_Up(t) ==
    /\ pc[t] = "unlink"
    /\ LET i == height[t] + 1 - level[t]
       IN nodes' = [nodes EXCEPT ![preds[t][i]].next[i] = nodes[victim[t]].next[i]]
    /\ IF level[t] > 1 THEN level' = [level EXCEPT ![t] = @ - 1] /\ UNCHANGED pc
                       ELSE UNCHANGED level /\ Goto(t, "unlock")
    /\ UNCHANGED <<locks, op, key, res, pred, preds, succs, found, victim, height, left, seen>>

Unlink(t) ==
    /\ pc[t] = "unlink"
    /\ LET i == level[t]
       IN nodes' = [nodes EXCEPT ![preds[t][i]].next[i] = nodes[victim[t]].next[i]]
    /\ IF level[t] > 1 THEN level' = [level EXCEPT ![t] = @ - 1] /\ UNCHANGED pc
                       ELSE UNCHANGED level /\ Goto(t, "unlock")
    /\ UNCHANGED <<locks, op, key, res, pred, preds, succs, found, victim, height, left, seen>>

\* A removal gives its node back first (ssmem_free).
Unlock(t) ==
    /\ pc[t] = "unlock"
    /\ nodes' = IF op[t] = "remove" THEN [nodes EXCEPT ![victim[t]].freed = @ + 1] ELSE nodes
    /\ locks' = [locks EXCEPT ![t] = {}]
    /\ Finish(t, TRUE)
    /\ UNCHANGED <<op, key, left, seen>>

-----------------------------------------------------------------------------
Step(t) ==
    \/ Walk(t) \/ Marked(t) \/ Look(t) \/ LookFull(t)
    \/ FoundInsert(t) \/ Await(t) \/ FoundRemove(t) \/ Mark(t)
    \/ Lock(t) \/ Link(t) \/ FullyLinked(t) \/ Unlink(t) \/ Unlock(t)
    \/ Return(t)

Next == \E t \in Thread : Invoke(t) \/ Step(t)

Spec == Init /\ [][Next]_vars

\* A thread inside an operation runs on; nobody has to invoke one.
FairSpec == Spec /\ \A t \in Thread : WF_vars(Step(t))

-----------------------------------------------------------------------------
\* Every level is sorted and part of the one below, a node that is in use is in the
\* lists of all its levels, and none is left out of level 1 that has not been marked: no
\* update works with predecessors that another one has changed or removed
\* (optimistic_insert, optimistic_delete).
ListIsWhole ==
    LET linked == [i \in Level |-> Linked(i)]
    IN /\ \A i \in Level :
             /\ End \in linked[i]
             /\ \A n \in linked[i] \ {End} : nodes[n].key < nodes[nodes[n].next[i]].key
             /\ i > 1 => linked[i] \subseteq linked[i - 1]
       /\ \A n \in 1..Len(nodes) :
             nodes[n].full /\ ~nodes[n].marked => \A i \in 1..Top(n) : n \in linked[i]
       /\ \A n \in (1..Len(nodes)) \ linked[1] : nodes[n].marked

\* Nodes are given back once, and not while a level leads to them (optimistic_delete).
FreedOnce ==
    LET linked == UNION {Linked(i) : i \in Level}
    IN \A n \in 1..Len(nodes) : nodes[n].freed <= (IF n \in linked THEN 0 ELSE 1)

\* A node that has been unlinked keeps its pointers: walks that are on it get back to
\* the list, and nothing is linked behind it.
RemovedStayed ==
    \A n \in (1..Len(nodes)) \ Linked(1) : nodes'[n].next = nodes[n].next
RemovedIsFrozen == [][RemovedStayed]_vars

\* The list is a linearizable set.
Abstract ==
    INSTANCE IntervalSetSpec WITH
        contents <- Contents,
        full <- FALSE,
        phase <- [t \in Thread |-> Phase(t)],
        seen <- [t \in Thread |-> IF Phase(t) = "pending" THEN seen[t] ELSE {}]
ImplementsSet == Abstract!Spec

\* Operations that restart or wait return in the end.
AllReturn == \A t \in Thread : pc[t] # "idle" ~> pc[t] = "idle"
=============================================================================
