------------------------------ MODULE MarkedList ------------------------------
(***************************************************************************)
(* The lock-free sorted lists: Harris's (linkedlist-harris/harris.c),      *)
(* Michael's (linkedlist-michael/michael.c) and the optimized one of       *)
(* linkedlist-harris_opt/harris_opt.c, all under src/DLTree/src.  A node   *)
(* is removed in two steps: a CAS marks its pointer, which freezes it, and *)
(* a CAS of its predecessor's pointer unlinks it.  Operations that meet a  *)
(* marked node unlink it on their way.                                     *)
(*                                                                         *)
(* Every load, store and CAS of a pointer is a step; a pointer's mark is   *)
(* read and written with it.  A search of Harris's list remembers the last *)
(* unmarked pointer it has followed (pred, after) and unlinks all marked   *)
(* nodes between it and the node it ends at (curr) at once; the others     *)
(* unlink one node at a time.                                              *)
(***************************************************************************)
EXTENDS Integers, Sequences, FiniteSets, SequencesExt

CONSTANTS
    Thread,
    Key,       \* positive; KEY_MIN and KEY_MAX bound them
    MaxOps,    \* bound: operations of the threads together
    Builds     \* of {"harris", "michael", "harris_opt"}

MarkedListAssumption ==
    /\ IsFiniteSet(Key) /\ Key \subseteq Nat \ {0}
    /\ MaxOps \in Nat
    /\ Builds \subseteq {"harris", "michael", "harris_opt"}

VARIABLES
    build,
    nodes,       \* the nodes allocated: [key, next, marked, freed]; the ends first
    pc,          \* control points
    op, key,     \* the operation of each thread and its key
    res,         \* its result
    pred, curr,  \* left_node, and right_node or the node the walk is at
    after,       \* Harris: left_node_next
    cnxt, mark,  \* the pointer read last, and its mark
    left,        \* operations that may still be invoked
    seen         \* history: whether key[t] was in the list since the call

walkVars == <<pred, curr, after, cnxt, mark>>
vars == <<build, nodes, pc, op, key, res, walkVars, left, seen>>

Hd  == 1     \* set->head
End == 2

KeyMin == 0
KeyMax == 1 + CHOOSE m \in Key : \A k \in Key : k <= m

Goto(t, l) == pc' = [pc EXCEPT ![t] = l]

-----------------------------------------------------------------------------
\* The nodes on the way from the head (the last one points to itself here), and the
\* keys in the list.
Linked ==
    LET walk[d \in 0..Len(nodes)] == IF d = 0 THEN Hd ELSE nodes[walk[d - 1]].next
    IN {walk[d] : d \in 0..Len(nodes)}

Contents == {nodes[n].key : n \in {m \in Linked \ {Hd, End} : ~nodes[m].marked}}

Node(k, n) == [key |-> k, next |-> n, marked |-> FALSE, freed |-> 0]

\* A list that earlier insertions have built.
ListOf(s) ==
    LET keys == SetToSortSeq(s, LAMBDA a, b : a < b)
        succ(j) == IF j < Len(keys) THEN j + 3 ELSE End
    IN <<Node(KeyMin, succ(0)), Node(KeyMax, End)>>
       \o [j \in 1..Len(keys) |-> Node(keys[j], succ(j))]

Init ==
    /\ build \in Builds
    /\ \E s \in SUBSET Key : nodes = ListOf(s)
    /\ pc = [t \in Thread |-> "idle"]
    /\ op = [t \in Thread |-> "search"]
    /\ key = [t \in Thread |-> CHOOSE k \in Key : TRUE]
    /\ res = [t \in Thread |-> FALSE]
    /\ pred = [t \in Thread |-> Hd]
    /\ curr = [t \in Thread |-> Hd]
    /\ after = [t \in Thread |-> Hd]
    /\ cnxt = [t \in Thread |-> Hd]
    /\ mark = [t \in Thread |-> FALSE]
    /\ left = MaxOps
    /\ seen = [t \in Thread |-> {}]

Invoke(t) ==
    /\ pc[t] = "idle"
    /\ left > 0
    /\ left' = left - 1
    /\ \E o \in {"search", "insert", "remove"}, k \in Key :
          /\ op' = [op EXCEPT ![t] = o]
          /\ key' = [key EXCEPT ![t] = k]
          /\ seen' = [seen EXCEPT ![t] = {k \in Contents}]
    /\ Goto(t, "start")
    /\ UNCHANGED <<build, nodes, res, walkVars>>

\* The local variables are forgotten.
Forget(t) ==
    /\ pred' = [pred EXCEPT ![t] = Hd]
    /\ curr' = [curr EXCEPT ![t] = Hd]
    /\ after' = [after EXCEPT ![t] = Hd]
    /\ cnxt' = [cnxt EXCEPT ![t] = Hd]
    /\ mark' = [mark EXCEPT ![t] = FALSE]

\* An operation that changes nothing has its result.
Finish(t, result) ==
    /\ Goto(t, "return")
    /\ res' = [res EXCEPT ![t] = result]
    /\ seen' = [seen EXCEPT ![t] = {}]
    /\ Forget(t)

Return(t) ==
    /\ pc[t] = "return"
    /\ Goto(t, "idle")
    /\ op' = [op EXCEPT ![t] = "search"]
    /\ key' = [key EXCEPT ![t] = CHOOSE k \in Key : TRUE]
    /\ res' = [res EXCEPT ![t] = FALSE]
    /\ UNCHANGED <<build, nodes, walkVars, left, seen>>

\* The operations in progress on the same key see that it is now in the list, or not.
RecordSeen(t) ==
    seen' = [u \in Thread |->
               IF u = t THEN {}
               ELSE IF key[u] = key[t] /\ seen[u] # {} THEN seen[u] \union {op[t] = "insert"}
               ELSE seen[u]]

\* The search has ended at node n: what each operation does next.
Found(t, n) ==
    IF res[t] THEN Goto(t, "return") /\ Forget(t) /\ UNCHANGED <<res, seen>>
    ELSE IF op[t] = "search" /\ (build = "harris" \/ nodes[n].key # key[t])
      THEN Finish(t, nodes[n].key = key[t])
    ELSE IF op[t] = "insert" /\ nodes[n].key = key[t] THEN Finish(t, FALSE)
    ELSE IF op[t] = "remove" /\ nodes[n].key # key[t] THEN Finish(t, FALSE)
    ELSE /\ Goto(t, CASE op[t] = "search" -> "found"
                      [] op[t] = "insert" -> "link"
                      [] op[t] = "remove" -> "load")
         /\ UNCHANGED <<res, pred, curr, after, cnxt, mark, seen>>

-----------------------------------------------------------------------------
(* The search *)

\* A CAS of the unmarked pointer from node l to node n succeeds.
PointsTo(l, n) == nodes[l].next = n /\ ~nodes[l].marked

\* The pointer of the head, which is never marked.
Start(t) ==
    /\ pc[t] = "start"
    /\ pred' = [pred EXCEPT ![t] = Hd]
    /\ LET n == nodes[Hd].next
       IN IF build = "harris"
            THEN /\ curr' = [curr EXCEPT ![t] = Hd]
                 /\ cnxt' = [cnxt EXCEPT ![t] = n]
                 /\ mark' = [mark EXCEPT ![t] = FALSE]
                 /\ Goto(t, "walk")
            ELSE /\ curr' = [curr EXCEPT ![t] = n]
                 /\ UNCHANGED <<cnxt, mark>>
                 /\ Goto(t, IF build = "michael" THEN "adjacent"
                            ELSE IF op[t] = "search" THEN "pass"
                            ELSE "look")
    /\ UNCHANGED <<build, nodes, op, key, res, after, left, seen>>

\* Harris: the walk goes on while the pointer of the node it is at is marked or its key
\* is smaller.
Walk(t) ==
    /\ pc[t] = "walk"
    /\ LET n == cnxt[t]
       IN /\ pred' = [pred EXCEPT ![t] = IF mark[t] THEN @ ELSE curr[t]]
          /\ after' = [after EXCEPT ![t] = IF mark[t] THEN @ ELSE n]
          /\ curr' = [curr EXCEPT ![t] = n]
          /\ cnxt' = [cnxt EXCEPT ![t] = nodes[n].next]
          /\ mark' = [mark EXCEPT ![t] = nodes[n].marked]
          /\ Goto(t, IF n # End /\ (nodes[n].marked \/ nodes[n].key < key[t])
                       THEN "walk"
                     ELSE IF after'[t] = n THEN "check" ELSE "sweep")
    /\ UNCHANGED <<build, nodes, op, key, res, left, seen>>

\* Harris: the search begins again if its last node is marked by now.
Check(t) ==
    /\ pc[t] = "check"
    /\ IF nodes[curr[t]].marked THEN Goto(t, "start") /\ UNCHANGED <<res, walkVars, seen>>
                                ELSE Found(t, curr[t])
    /\ UNCHANGED <<build, nodes, op, key, left>>

\* The nodes from n on up to the end m, which is not among them.
Chain(n, m) ==
    LET onward(i) == IF i = m THEN m ELSE nodes[i].next
        walk[d \in 0..Len(nodes)] == IF d = 0 THEN n ELSE onward(walk[d - 1])
    IN {walk[d] : d \in 0..Len(nodes)} \ {m}

Freed(s, ns) ==
    [n \in DOMAIN ns |-> IF n \in s THEN [ns[n] EXCEPT !.freed = @ + 1] ELSE ns[n]]

\* Harris: the CAS that unlinks the marked nodes before curr, which are then freed.
Sweep(t) ==
    /\ pc[t] = "sweep"
    /\ IF PointsTo(pred[t], after[t])
         THEN /\ nodes' = Freed(Chain(after[t], curr[t]),
                                [nodes EXCEPT ![pred[t]].next = curr[t]])
              /\ Goto(t, "check")
         ELSE UNCHANGED nodes /\ Goto(t, "start")
    /\ UNCHANGED <<build, op, key, res, walkVars, left, seen>>

\* Michael: left_node->next != right_node begins again.
Adjacent(t) ==
    /\ pc[t] = "adjacent"
    /\ Goto(t, IF PointsTo(pred[t], curr[t])
                 THEN "look" ELSE "start")
    /\ UNCHANGED <<build, nodes, op, key, res, walkVars, left, seen>>

\* Michael, harris_opt: the mark of the node the walk is at.
Look(t) ==
    /\ pc[t] = "look"
    /\ IF nodes[curr[t]].marked THEN Goto(t, "unlink") /\ UNCHANGED <<res, walkVars, seen>>
       ELSE IF nodes[curr[t]].key >= key[t] THEN Found(t, curr[t])
       ELSE /\ pred' = [pred EXCEPT ![t] = curr[t]]
            /\ Goto(t, "pass")
            /\ UNCHANGED <<res, curr, after, cnxt, mark, seen>>
    /\ UNCHANGED <<build, nodes, op, key, left>>

\* physical_delete_right of a marked node: its pointer, which is frozen, and the CAS.
RightRemoved(l, r) ==
    IF PointsTo(l, r)
      THEN Freed({r}, [nodes EXCEPT ![l].next = nodes[r].next])
      ELSE nodes

Unlink(t) ==
    /\ pc[t] = "unlink"
    /\ nodes' = RightRemoved(pred[t], curr[t])
    /\ Goto(t, IF build = "michael" /\ nodes' = nodes THEN "start" ELSE "pass")
    /\ UNCHANGED <<build, op, key, res, walkVars, left, seen>>

\* On to the next node.  harris_find of harris_opt passes marked nodes, too.
Pass(t) ==
    /\ pc[t] = "pass"
    /\ IF build = "harris_opt" /\ op[t] = "search" /\ nodes[curr[t]].key >= key[t]
         THEN Found(t, curr[t])
         ELSE /\ curr' = [curr EXCEPT ![t] = nodes[curr[t]].next]
              /\ Goto(t, CASE build = "michael" -> "adjacent"
                           [] op[t] = "search" -> "pass"
                           [] OTHER -> "look")
              /\ UNCHANGED <<res, pred, after, cnxt, mark, seen>>
    /\ UNCHANGED <<build, nodes, op, key, left>>

\* michael_find, harris_find of harris_opt: the node with the key is not marked.
FoundUnmarked(t) ==
    /\ pc[t] = "found"
    /\ Finish(t, ~nodes[curr[t]].marked)
    /\ UNCHANGED <<build, nodes, op, key, left>>

-----------------------------------------------------------------------------
(* Insertion and removal *)

\* Mutant: the mark is not compared, and a node is linked behind a removed one.
Link_AnyMark(t) ==
    /\ pc[t] = "link"
    /\ IF nodes[pred[t]].next = curr[t]
         THEN /\ nodes' = Append([nodes EXCEPT ![pred[t]].next = Len(nodes) + 1],
                                 Node(key[t], curr[t]))
              /\ RecordSeen(t)
              /\ res' = [res EXCEPT ![t] = TRUE]
              /\ Goto(t, "return")
              /\ Forget(t)
         ELSE UNCHANGED <<nodes, res, walkVars, seen>> /\ Goto(t, "start")
    /\ UNCHANGED <<build, op, key, left>>

\* The CAS that links the new node.
Link(t) ==
    /\ pc[t] = "link"
    /\ IF PointsTo(pred[t], curr[t])
         THEN /\ nodes' = Append([nodes EXCEPT ![pred[t]].next = Len(nodes) + 1],
                                 Node(key[t], curr[t]))
              /\ RecordSeen(t)
              /\ res' = [res EXCEPT ![t] = TRUE]
              /\ Goto(t, "return")
              /\ Forget(t)
         ELSE UNCHANGED <<nodes, res, walkVars, seen>> /\ Goto(t, "start")
    /\ UNCHANGED <<build, op, key, left>>

\* right_node->next; harris_delete begins again if it is marked, the others leave that
\* to the CAS.
Load(t) ==
    /\ pc[t] = "load"
    /\ cnxt' = [cnxt EXCEPT ![t] = nodes[curr[t]].next]
    /\ Goto(t, IF build = "harris" /\ nodes[curr[t]].marked THEN "start" ELSE "mark")
    /\ UNCHANGED <<build, nodes, op, key, res, pred, curr, after, mark, left, seen>>

\* Mutant: what is marked is not compared, and a new successor is lost with it.
Mark_Store(t) ==
    /\ pc[t] = "mark"
    /\ nodes' = [nodes EXCEPT ![curr[t]].next = cnxt[t], ![curr[t]].marked = TRUE]
    /\ RecordSeen(t)
    /\ res' = [res EXCEPT ![t] = TRUE]
    /\ Goto(t, "unlinkown")
    /\ UNCHANGED <<build, op, key, walkVars, left>>

\* The CAS that marks the node, and so removes its key.
Mark(t) ==
    /\ pc[t] = "mark"
    /\ IF PointsTo(curr[t], cnxt[t])
         THEN /\ nodes' = [nodes EXCEPT ![curr[t]].marked = TRUE]
              /\ RecordSeen(t)
              /\ res' = [res EXCEPT ![t] = TRUE]
              /\ Goto(t, "unlinkown")
         ELSE UNCHANGED <<nodes, res, seen>> /\ Goto(t, "start")
    /\ UNCHANGED <<build, op, key, walkVars, left>>

\* Mutant: the node is freed even if another thread has unlinked it.
UnlinkOwn_AlwaysFrees(t) ==
    /\ pc[t] = "unlinkown"
    /\ nodes' = Freed({curr[t]}, [nodes EXCEPT ![pred[t]] =
                        IF @.next = curr[t] /\ ~@.marked THEN [@ EXCEPT !.next = cnxt[t]] ELSE @])
    /\ Goto(t, "return") /\ Forget(t)
    /\ UNCHANGED <<build, op, key, res, left, seen>>

\* The CAS that unlinks the node.  If that fails, harris_delete searches once more, so
\* that it is unlinked; the others leave it to later operations.
UnlinkOwn(t) ==
    /\ pc[t] = "unlinkown"
    /\ nodes' = RightRemoved(pred[t], curr[t])
    /\ IF build = "harris" /\ nodes' = nodes
         THEN Goto(t, "start") /\ UNCHANGED walkVars
         ELSE Goto(t, "return") /\ Forget(t)
    /\ UNCHANGED <<build, op, key, res, left, seen>>

-----------------------------------------------------------------------------
Step(t) ==
    \/ Start(t) \/ Walk(t) \/ Check(t) \/ Sweep(t)
    \/ Adjacent(t) \/ Look(t) \/ Unlink(t) \/ Pass(t) \/ FoundUnmarked(t)
    \/ Link(t) \/ Load(t) \/ Mark(t) \/ UnlinkOwn(t) \/ Return(t)

Next == \E t \in Thread : Invoke(t) \/ Step(t)

Spec == Init /\ [][Next]_vars

\* A thread inside an operation runs on; nobody has to invoke one.
FairSpec == Spec /\ \A t \in Thread : WF_vars(Step(t))

-----------------------------------------------------------------------------
\* The list is sorted up to KEY_MAX, and every node that has been unlinked is marked:
\* no race of insertions, removals and helpers loses a node.
ListIsWhole ==
    /\ End \in Linked
    /\ \A n \in Linked \ {End} : nodes[n].key < nodes[nodes[n].next].key
    /\ \A n \in (1..Len(nodes)) \ Linked : nodes[n].marked

\* A node is given back once, by whoever unlinks it (a chain, the deletion itself, or a
\* helper), and never while the list leads to it.
FreedOnce ==
    \A n \in 1..Len(nodes) : nodes[n].freed = IF n \in Linked THEN 0 ELSE 1

\* A marked pointer never changes: nothing is linked behind a removed node, and walks
\* that are on it get back to the list.
RemovedStayed ==
    \A n \in 1..Len(nodes) :
      nodes[n].marked => nodes'[n].marked /\ nodes'[n].next = nodes[n].next
RemovedIsFrozen == [][RemovedStayed]_vars

Phase(t) ==
    IF pc[t] = "idle" THEN "idle"
    ELSE IF pc[t] = "return" \/ res[t] THEN "done"
    ELSE "pending"

\* The list is a linearizable set.
Abstract ==
    INSTANCE IntervalSetSpec WITH
        contents <- Contents,
        full <- FALSE,
        phase <- [t \in Thread |-> Phase(t)]
ImplementsSet == Abstract!Spec

\* Every operation returns: a search that begins again does so because another
\* operation got on.
AllReturn == \A t \in Thread : pc[t] # "idle" ~> pc[t] = "idle"
=============================================================================
