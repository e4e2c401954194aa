------------------------------ MODULE FraserSkip ------------------------------
(***************************************************************************)
(* The lock-free skip lists, all under src/DLTree/src:                     *)
(*   "fraser"       skiplist-fraser/fraser.c, after Fraser                 *)
(*   "herlihy"      skiplist-herlihy_lf/herlihy.c, whose operations search *)
(*                  without unlinking anything                             *)
(*   "lotanshavit"  priorityqueue-lotanshavit_lf/lotanshavit_lf.c, the     *)
(*                  same as a priority queue of Lotan and Shavit           *)
(* A node has a pointer for each level up to its height, and each pointer  *)
(* a mark.  An insertion links its node at level 1, where it takes effect, *)
(* and then level by level; a removal marks the pointers from the top down *)
(* and searches once more, which unlinks marked nodes on its way.  It takes *)
(* effect when it marks level 1 or, in the first list, when it sets the    *)
(* field deleted before.                                                   *)
(*                                                                         *)
(* Each load and each CAS of a pointer is a step.  A load and the CAS that *)
(* marks what it has loaded are one step, as a failed attempt changes      *)
(* nothing.  Levels run from 1 here and from 0 in the code.                *)
(***************************************************************************)
EXTENDS Integers, Sequences, FiniteSets, SequencesExt

CONSTANTS
    Thread,
    Key,       \* positive; KEY_MIN and KEY_MAX bound them
    Builds,    \* the programs
    MaxOps,    \* bound: operations of the threads together
    LevelMax   \* levelmax

FraserAssumption ==
    /\ IsFiniteSet(Key) /\ Key \subseteq Nat \ {0}
    /\ Builds \subseteq {"fraser", "herlihy", "lotanshavit"}
    /\ MaxOps \in Nat /\ LevelMax \in Nat \ {0}

VARIABLES
    build,
    nodes,          \* the nodes allocated: [key, next, marked, deleted, freed]
    pc,             \* control points
    op, key,        \* the operation of each thread and its key
    res,            \* its result, from the instant at which it takes effect
    level,          \* the level its search or its marking is at
    pred, curr,     \* left and right of its search
    after,          \* left_next
    preds, succs,   \* what an insertion has noted at each level
    victim,         \* the node it has linked, or is marking, or 0
    height,         \* the level at which it links its node
    left,           \* operations that may still be invoked
    seen,           \* history: whether key[t] was in the list since the call
    still           \* history of a deletion of the smallest key: keys in the list since the call

searchVars == <<level, pred, curr, after, preds, succs>>
localVars == <<searchVars, victim, height>>
vars == <<build, nodes, pc, op, key, res, localVars, left, seen, still>>

Hd  == 1     \* set->head
End == 2

KeyMin == 0
KeyMax == 1 + CHOOSE m \in Key : \A k \in Key : k <= m

Level == 1..LevelMax
Top(n) == Len(nodes[n].next)
Goto(t, l) == pc' = [pc EXCEPT ![t] = l]

-----------------------------------------------------------------------------
\* The nodes on the way from the head at level i (the last one points to itself here).
Linked(i) ==
    LET walk[d \in 0..Len(nodes)] == IF d = 0 THEN Hd ELSE nodes[walk[d - 1]].next[i]
    IN {walk[d] : d \in 0..Len(nodes)}

IsRemoved(n) == IF build = "fraser" THEN nodes[n].deleted ELSE nodes[n].marked[1]

Contents == {nodes[n].key : n \in {m \in Linked(1) \ {Hd, End} : ~IsRemoved(m)}}

Node(k, next) ==
    [key |-> k, next |-> next, marked |-> [i \in DOMAIN next |-> FALSE],
     deleted |-> FALSE, freed |-> 0]

\* A list that earlier insertions have built; h gives the heights.
ListOf(s, h) ==
    LET keys == SetToSortSeq(s, LAMBDA a, b : a < b)
        succ(j, i) ==
            LET on == {m \in j + 1..Len(keys) : h[keys[m]] >= i}
            IN IF on = {} THEN End ELSE 2 + CHOOSE m \in on : \A o \in on : m <= o
    IN <<Node(KeyMin, [i \in Level |-> succ(0, i)]), Node(KeyMax, [i \in Level |-> End])>>
       \o [j \in 1..Len(keys) |-> Node(keys[j], [i \in 1..h[keys[j]] |-> succ(j, i)])]

Init ==
    /\ build \in Builds
    /\ \E s \in SUBSET Key : \E h \in [s -> Level] : nodes = ListOf(s, h)
    /\ pc = [t \in Thread |-> "idle"]
    /\ op = [t \in Thread |-> "search"]
    /\ key = [t \in Thread |-> CHOOSE k \in Key : TRUE]
    /\ res = [t \in Thread |-> FALSE]
    /\ level = [t \in Thread |-> LevelMax]
    /\ pred = [t \in Thread |-> Hd]
    /\ curr = [t \in Thread |-> Hd]
    /\ after = [t \in Thread |-> Hd]
    /\ preds = [t \in Thread |-> <<>>]
    /\ succs = [t \in Thread |-> <<>>]
    /\ victim = [t \in Thread |-> 0]
    /\ height = [t \in Thread |-> 1]
    /\ left = MaxOps
    /\ seen = [t \in Thread |-> {}]
    /\ still = [t \in Thread |-> {}]

Phase(t) ==
    CASE pc[t] = "idle" -> "idle"
      [] pc[t] = "return" \/ res[t] -> "done"
      [] OTHER -> "pending"

\* fraser_search, and the searches that unlink nothing, begin at the head.  Whoever has
\* taken effect searches with fraser_search.
Unlinks(t) == build = "fraser" \/ res[t]

Restart(t, unlinks) ==
    /\ Goto(t, IF unlinks THEN "first" ELSE "load")
    /\ level' = [level EXCEPT ![t] = LevelMax]
    /\ pred' = [pred EXCEPT ![t] = Hd]
    /\ curr' = [curr EXCEPT ![t] = Hd]
    /\ after' = [after EXCEPT ![t] = Hd]
    /\ preds' = [preds EXCEPT ![t] = <<>>]
    /\ succs' = [succs EXCEPT ![t] = <<>>]

Ops == IF build = "lotanshavit" THEN {"insert", "removeMin"} ELSE {"search", "insert", "remove"}

Invoke(t) ==
    /\ pc[t] = "idle"
    /\ left > 0
    /\ left' = left - 1
    /\ \E o \in Ops, k \in Key :
          /\ op' = [op EXCEPT ![t] = o]
          /\ IF o = "removeMin"
               THEN /\ still' = [still EXCEPT ![t] = Contents]
                    /\ Goto(t, "minfirst")
                    /\ UNCHANGED <<key, searchVars, seen>>
               ELSE /\ key' = [key EXCEPT ![t] = k]
                    /\ seen' = [seen EXCEPT ![t] = {k \in Contents}]
                    /\ Restart(t, build = "fraser")
                    /\ UNCHANGED still
    /\ UNCHANGED <<build, nodes, res, victim, height>>

\* The operation returns; its local variables are forgotten.
Finish(t, result) ==
    /\ Goto(t, "return")
    /\ res' = [res EXCEPT ![t] = result]
    /\ level' = [level EXCEPT ![t] = LevelMax]
    /\ pred' = [pred EXCEPT ![t] = Hd]
    /\ curr' = [curr EXCEPT ![t] = Hd]
    /\ after' = [after EXCEPT ![t] = Hd]
    /\ preds' = [preds EXCEPT ![t] = <<>>]
    /\ succs' = [succs EXCEPT ![t] = <<>>]
    /\ victim' = [victim EXCEPT ![t] = 0]
    /\ height' = [height EXCEPT ![t] = 1]

Return(t) ==
    /\ pc[t] = "return"
    /\ Goto(t, "idle")
    /\ op' = [op EXCEPT ![t] = "search"]
    /\ key' = [key EXCEPT ![t] = CHOOSE k \in Key : TRUE]
    /\ res' = [res EXCEPT ![t] = FALSE]
    /\ seen' = [seen EXCEPT ![t] = {}]
    /\ still' = [still EXCEPT ![t] = {}]
    /\ UNCHANGED <<build, nodes, localVars, left>>

\* An insertion or a removal of key k takes effect: the operations in progress see it.
TakeEffect(t, k, inserted) ==
    /\ res' = [res EXCEPT ![t] = TRUE]
    /\ key' = [key EXCEPT ![t] = k]
    /\ seen' = [u \in Thread |->
                  IF u = t THEN {}
                  ELSE IF key[u] = k /\ seen[u] # {} THEN seen[u] \union {inserted}
                  ELSE seen[u]]
    /\ still' = [u \in Thread |->
                   IF u = t THEN {} ELSE IF inserted THEN still[u] ELSE still[u] \ {k}]

NoEffect == UNCHANGED <<key, seen, still>>

-----------------------------------------------------------------------------
(* The searches *)

Note(t, n) ==
    IF op[t] = "insert"
      THEN /\ preds' = [preds EXCEPT ![t] = <<pred[t]>> \o @]
           /\ succs' = [succs EXCEPT ![t] = <<n>> \o @]
      ELSE UNCHANGED <<preds, succs>>

\* The search has ended at node n of level 1.  A removal of "herlihy" that has taken
\* effect gives its node back (ssmem_free).  ns is what the nodes are by then.
Ended(t, n, ns) ==
    LET there == nodes[n].key = key[t]
        finished == CASE res[t] -> op[t] # "insert"
                      [] ~res[t] /\ op[t] = "insert" -> there /\ build # "fraser"
                      [] ~res[t] /\ op[t] # "insert" -> ~there
        next == CASE res[t] -> "tower"
                  [] ~res[t] /\ op[t] = "insert" /\ ~there -> "link"
                  [] ~res[t] /\ there -> IF build = "fraser" THEN "look" ELSE "mark"
    IN IF finished
         THEN /\ Finish(t, res[t])
              /\ nodes' = IF res[t] /\ build = "herlihy"
                            THEN [ns EXCEPT ![victim[t]].freed = @ + 1] ELSE ns
         ELSE /\ Goto(t, next)
              /\ nodes' = ns
              /\ victim' = [victim EXCEPT ![t] = IF next \in {"look", "mark"} THEN n ELSE @]
              /\ level' = [level EXCEPT ![t] = IF next = "mark" THEN Top(n) ELSE LevelMax]
              /\ pred' = [pred EXCEPT ![t] = Hd]
              /\ curr' = [curr EXCEPT ![t] = Hd]
              /\ after' = [after EXCEPT ![t] = Hd]
              /\ Note(t, n)
              /\ UNCHANGED <<res, height>>

\* The search has ended at node n of its level.
LevelEnded(t, n, ns) ==
    IF level[t] = 1 THEN Ended(t, n, ns)
    ELSE /\ Goto(t, IF Unlinks(t) THEN "first" ELSE "load")
         /\ nodes' = ns
         /\ level' = [level EXCEPT ![t] = @ - 1]
         /\ curr' = [curr EXCEPT ![t] = Hd]
         /\ after' = [after EXCEPT ![t] = Hd]
         /\ Note(t, n)
         /\ UNCHANGED <<res, pred, victim, height>>

\* fraser_search: left->next[i]; the search begins again if it is marked.
First(t) ==
    /\ pc[t] = "first"
    /\ LET l == nodes[pred[t]]
       IN IF l.marked[level[t]] THEN Restart(t, TRUE)
          ELSE /\ curr' = [curr EXCEPT ![t] = l.next[level[t]]]
               /\ after' = [after EXCEPT ![t] = l.next[level[t]]]
               /\ Goto(t, "right")
               /\ UNCHANGED <<level, pred, preds, succs>>
    /\ NoEffect /\ UNCHANGED <<build, nodes, op, res, victim, height, left>>

\* right->next[i]: marked nodes are passed, and left moves on to smaller ones.
Right(t) ==
    /\ pc[t] = "right"
    /\ LET n == curr[t]
           on == nodes[n].next[level[t]]
       IN CASE nodes[n].marked[level[t]] ->
                 /\ curr' = [curr EXCEPT ![t] = on]
                 /\ UNCHANGED <<nodes, pc, res, level, pred, after, preds, succs, victim, height>>
            [] ~nodes[n].marked[level[t]] /\ nodes[n].key < key[t] ->
                 /\ curr' = [curr EXCEPT ![t] = on]
                 /\ pred' = [pred EXCEPT ![t] = n]
                 /\ after' = [after EXCEPT ![t] = on]
                 /\ UNCHANGED <<nodes, pc, res, level, preds, succs, victim, height>>
            [] OTHER ->
                 IF after[t] = n THEN LevelEnded(t, n, nodes)
                 ELSE Goto(t, "unlink") /\ UNCHANGED <<nodes, res, localVars>>
    /\ NoEffect /\ UNCHANGED <<build, op, left>>

\* A pointer leads to node n, and is not marked: a CAS of what a thread has read succeeds.
PointsTo(l, i, n) == nodes[l].next[i] = n /\ ~nodes[l].marked[i]

\* The CAS that unlinks the marked nodes between left and right.
Unlink(t) ==
    /\ pc[t] = "unlink"
    /\ LET l == pred[t]
           i == level[t]
       IN IF PointsTo(l, i, after[t])
            THEN LevelEnded(t, curr[t], [nodes EXCEPT ![l].next[i] = curr[t]])
            ELSE Restart(t, TRUE) /\ UNCHANGED <<nodes, res, victim, height>>
    /\ NoEffect /\ UNCHANGED <<build, op, left>>

\* The searches of "herlihy" that unlink nothing: the first node of the level,
Load(t) ==
    /\ pc[t] = "load"
    /\ curr' = [curr EXCEPT ![t] = nodes[pred[t]].next[level[t]]]
    /\ Goto(t, "look_mark")
    /\ NoEffect
    /\ UNCHANGED <<build, nodes, op, res, level, pred, after, preds, succs, victim, height, left>>

\* whether the node is marked (fraser_find ends at an unmarked node with its key, at
\* whatever level),
LookMark(t) ==
    /\ pc[t] = "look_mark"
    /\ LET n == curr[t]
           unmarked == ~nodes[n].marked[level[t]]
       IN IF unmarked /\ nodes[n].key >= key[t]
            THEN IF op[t] = "search" /\ nodes[n].key = key[t]
                   THEN Finish(t, TRUE) /\ UNCHANGED nodes
                   ELSE LevelEnded(t, n, nodes)
            ELSE /\ pred' = [pred EXCEPT ![t] = IF unmarked THEN n ELSE @]
                 /\ Goto(t, "pass")
                 /\ UNCHANGED <<nodes, res, level, curr, after, preds, succs, victim, height>>
    /\ NoEffect /\ UNCHANGED <<build, op, left>>

\* and the next one, which is another load of the same pointer.
Pass(t) ==
    /\ pc[t] = "pass"
    /\ curr' = [curr EXCEPT ![t] = nodes[@].next[level[t]]]
    /\ Goto(t, "look_mark")
    /\ NoEffect
    /\ UNCHANGED <<build, nodes, op, res, level, pred, after, preds, succs, victim, height, left>>

-----------------------------------------------------------------------------
(* Removal *)

\* "fraser": the field deleted of the node the search has found.
Look(t) ==
    /\ pc[t] = "look"
    /\ LET deleted == nodes[victim[t]].deleted
       IN IF op[t] = "remove" /\ ~deleted
            THEN Goto(t, "claim") /\ UNCHANGED <<res, localVars>>
          ELSE IF op[t] = "insert" /\ deleted
            THEN /\ Goto(t, "mark")
                 /\ level' = [level EXCEPT ![t] = Top(victim[t])]
                 /\ UNCHANGED <<res, pred, curr, after, preds, succs, victim, height>>
          ELSE Finish(t, op[t] = "search" /\ ~deleted)
    /\ NoEffect /\ UNCHANGED <<build, nodes, op, left>>

\* Mutant: deleted is stored, and two removals take the same node.
Claim_Store(t) ==
    /\ pc[t] = "claim"
    /\ nodes' = [nodes EXCEPT ![victim[t]].deleted = TRUE]
    /\ TakeEffect(t, key[t], FALSE)
    /\ Goto(t, "mark")
    /\ level' = [level EXCEPT ![t] = Top(victim[t])]
    /\ UNCHANGED <<pred, curr, after, preds, succs, victim, height>>
    /\ UNCHANGED <<build, op, left>>

\* "fraser": the increment of deleted, whose winner removes the key.
Claim(t) ==
    /\ pc[t] = "claim"
    /\ IF nodes[victim[t]].deleted
         THEN Finish(t, FALSE) /\ NoEffect /\ UNCHANGED nodes
         ELSE /\ nodes' = [nodes EXCEPT ![victim[t]].deleted = TRUE]
              /\ TakeEffect(t, key[t], FALSE)
              /\ Goto(t, "mark")
              /\ level' = [level EXCEPT ![t] = Top(victim[t])]
              /\ UNCHANGED <<pred, curr, after, preds, succs, victim, height>>
    /\ UNCHANGED <<build, op, left>>

\* Mutant: what a higher level said is not reset, and two removals take the same node.
Mine_NotReset(n, i) == ~nodes[n].marked[i] \/ i < Top(n)

\* Whether it is this thread that marks the level.
Mine(n, i) == ~nodes[n].marked[i]

\* mark_node_ptrs, one level.  After the last one, removals of "fraser" free the node and
\* search, insertions that have helped begin again; elsewhere whoever has marked level 1
\* has removed the key, and the others have not.
Mark(t) ==
    /\ pc[t] = "mark"
    /\ LET n == victim[t]
           i == level[t]
           marked == [nodes EXCEPT ![n].marked[i] = TRUE]
       IN CASE i > 1 ->
                 /\ nodes' = marked
                 /\ level' = [level EXCEPT ![t] = i - 1]
                 /\ NoEffect
                 /\ UNCHANGED <<pc, res, pred, curr, after, preds, succs, victim, height>>
            [] i = 1 /\ build = "fraser" ->
                 /\ nodes' = IF res[t] THEN [marked EXCEPT ![n].freed = @ + 1] ELSE marked
                 /\ Restart(t, TRUE)
                 /\ victim' = [victim EXCEPT ![t] = 0]
                 /\ NoEffect /\ UNCHANGED <<res, height>>
            [] i = 1 /\ build # "fraser" /\ Mine(n, i) ->
                 /\ nodes' = marked
                 /\ TakeEffect(t, nodes[n].key, FALSE)
                 /\ Restart(t, TRUE)
                 /\ UNCHANGED <<victim, height>>
            [] i = 1 /\ build # "fraser" /\ ~Mine(n, i) ->
                 /\ UNCHANGED nodes
                 /\ IF op[t] = "remove" THEN Finish(t, FALSE)
                    ELSE /\ Goto(t, "minnext")
                         /\ curr' = [curr EXCEPT ![t] = n]
                         /\ victim' = [victim EXCEPT ![t] = 0]
                         /\ level' = [level EXCEPT ![t] = LevelMax]
                         /\ UNCHANGED <<res, pred, after, preds, succs, height>>
                 /\ NoEffect
    /\ UNCHANGED <<build, op, left>>

\* prioritySL_deleteMin: the first node of level 1,
MinFirst(t) ==
    /\ pc[t] = "minfirst"
    /\ curr' = [curr EXCEPT ![t] = nodes[Hd].next[1]]
    /\ Goto(t, "minlook")
    /\ NoEffect
    /\ UNCHANGED <<build, nodes, op, res, level, pred, after, preds, succs, victim, height, left>>

\* which it marks, unless it is marked at its top level,
MinLook(t) ==
    /\ pc[t] = "minlook"
    /\ LET n == curr[t]
       IN IF n = End THEN Finish(t, FALSE)
          ELSE IF nodes[n].marked[Top(n)] THEN Goto(t, "minnext") /\ UNCHANGED <<res, localVars>>
          ELSE /\ Goto(t, "mark")
               /\ victim' = [victim EXCEPT ![t] = n]
               /\ level' = [level EXCEPT ![t] = Top(n)]
               /\ curr' = [curr EXCEPT ![t] = Hd]
               /\ UNCHANGED <<res, pred, after, preds, succs, height>>
    /\ NoEffect /\ UNCHANGED <<build, nodes, op, left>>

\* and the next one.
MinNext(t) ==
    /\ pc[t] = "minnext"
    /\ curr' = [curr EXCEPT ![t] = nodes[@].next[1]]
    /\ Goto(t, "minlook")
    /\ NoEffect
    /\ UNCHANGED <<build, nodes, op, res, level, pred, after, preds, succs, victim, height, left>>

-----------------------------------------------------------------------------
(* Insertion *)

\* Mutant: the mark is not compared, and the node is linked behind a removed one.
CanLink_AnyMark(l, i, n) == nodes[l].next[i] = n

CanLink(l, i, n) == PointsTo(l, i, n)

\* The CAS at level 1 that makes the new node visible; its height is drawn by now
\* (get_rand_level).  If it fails, the search begins again.
Link(t) ==
    /\ pc[t] = "link"
    /\ LET new == Len(nodes) + 1
       IN IF CanLink(preds[t][1], 1, succs[t][1])
            THEN \E h \in Level :
                   /\ nodes' = Append([nodes EXCEPT ![preds[t][1]].next[1] = new],
                                      Node(key[t], [i \in 1..h |-> succs[t][i]]))
                   /\ TakeEffect(t, key[t], TRUE)
                   /\ IF h = 1
                        THEN /\ Goto(t, "return")
                             /\ preds' = [preds EXCEPT ![t] = <<>>]
                             /\ succs' = [succs EXCEPT ![t] = <<>>]
                             /\ UNCHANGED <<victim, height>>
                        ELSE /\ Goto(t, "tower")
                             /\ victim' = [victim EXCEPT ![t] = new]
                             /\ height' = [height EXCEPT ![t] = 2]
                             /\ UNCHANGED <<preds, succs>>
                   /\ UNCHANGED <<level, pred, curr, after>>
            ELSE Restart(t, build = "fraser") /\ NoEffect /\ UNCHANGED <<nodes, res, victim, height>>
    /\ UNCHANGED <<build, op, left>>

\* Mutant: the node keeps the successor it was made with.
Adapted_Not(n, i, s) == nodes

\* "fraser" makes the node's own pointer lead to what the search has found last.
Adapted(n, i, s) == IF build = "fraser" THEN [nodes EXCEPT ![n].next[i] = s] ELSE nodes

\* The next level: nothing more is linked if the node is being removed.
Tower(t) ==
    /\ pc[t] = "tower"
    /\ LET n == victim[t]
           i == height[t]
       IN IF nodes[n].marked[i] THEN Finish(t, TRUE) /\ UNCHANGED nodes
          ELSE /\ nodes' = Adapted(n, i, succs[t][i])
               /\ Goto(t, "raise")
               /\ UNCHANGED <<res, localVars>>
    /\ NoEffect /\ UNCHANGED <<build, op, left>>

\* The CAS that links the node at the level.  "fraser" searches again if its successor
\* there has the same key: what it computes from that one, succ->next without an index, is
\* no node, and its CAS fails.
Raise(t) ==
    /\ pc[t] = "raise"
    /\ LET i == height[t]
           p == preds[t][i]
           s == succs[t][i]
       IN IF CanLink(p, i, s) /\ ~(build = "fraser" /\ nodes[s].key = key[t])
            THEN /\ nodes' = [nodes EXCEPT ![p].next[i] = victim[t]]
                 /\ IF i < Top(victim[t])
                      THEN /\ height' = [height EXCEPT ![t] = i + 1]
                           /\ Goto(t, "tower")
                           /\ UNCHANGED <<res, searchVars, victim>>
                      ELSE Finish(t, TRUE)
            ELSE Restart(t, TRUE) /\ UNCHANGED <<nodes, res, victim, height>>
    /\ NoEffect /\ UNCHANGED <<build, op, left>>

-----------------------------------------------------------------------------
Step(t) ==
    \/ First(t) \/ Right(t) \/ Unlink(t) \/ Load(t) \/ LookMark(t) \/ Pass(t)
    \/ Look(t) \/ Claim(t) \/ Mark(t) \/ MinFirst(t) \/ MinLook(t) \/ MinNext(t)
    \/ Link(t) \/ Tower(t) \/ Raise(t) \/ Return(t)

Next == \E t \in Thread : Invoke(t) \/ Step(t)

Spec == Init /\ [][Next]_vars

\* A thread inside an operation runs on; nobody has to invoke one.
FairSpec == Spec /\ \A t \in Thread : WF_vars(Step(t))

-----------------------------------------------------------------------------
\* Level 1 is sorted, and a node that is not in it is marked there; the other levels lead
\* to the end, keep the order, and have no node in use that level 1 has not: no race of
\* insertions, removals and helpers loses a key.
ListIsWhole ==
    LET linked == [i \in Level |-> Linked(i)]
    IN /\ \A i \in Level : End \in linked[i]
       /\ \A n \in linked[1] \ {End} : nodes[n].key < nodes[nodes[n].next[1]].key
       /\ \A n \in (1..Len(nodes)) \ linked[1] : nodes[n].marked[1]
       /\ \A i \in Level : \A n \in linked[i] \ {End} :
             /\ nodes[n].key <= nodes[nodes[n].next[i]].key
             /\ n \notin linked[1] => nodes[n].marked[i]

\* A node is given back once, by whoever has removed its key, and by "herlihy" not while
\* level 1 leads to it (fraser_remove).
FreedOnce ==
    /\ \A n \in 1..Len(nodes) : nodes[n].freed <= (IF nodes[n].marked[1] THEN 1 ELSE 0)
    /\ build = "herlihy" => \A n \in Linked(1) : nodes[n].freed = 0

\* When nothing is in progress, a search has removed what has been given back ("Mark
\* forward pointers, then search will remove the node"): no level leads to it.
FreedIsUnlinked ==
    (\A t \in Thread : pc[t] = "idle") =>
      \A i \in Level : \A n \in Linked(i) : nodes[n].freed = 0

\* A marked pointer stays as it is; and in "fraser" no level loses a node whose pointer
\* is not marked, whatever is linked next to it.
RemovedStayed ==
    \A n \in 1..Len(nodes) : \A i \in 1..Top(n) :
      /\ nodes[n].marked[i] => nodes'[n].marked[i] /\ nodes'[n].next[i] = nodes[n].next[i]
      /\ build = "fraser" /\ n \in Linked(i) /\ ~nodes'[n].marked[i] => n \in Linked(i)'
RemovedIsFrozen == [][RemovedStayed]_vars

IsQueue == build = "lotanshavit"
Seen(t) == IF Phase(t) = "pending" THEN seen[t] ELSE {}
Still(t) == IF Phase(t) = "pending" THEN still[t] ELSE {}

\* The list is a linearizable set.
Abstract ==
    INSTANCE IntervalSetSpec WITH
        contents <- IF IsQueue THEN {} ELSE Contents,
        full <- FALSE,
        phase <- [t \in Thread |-> IF IsQueue THEN "idle" ELSE Phase(t)],
        op <- [t \in Thread |-> IF IsQueue THEN "search" ELSE op[t]],
        key <- [t \in Thread |-> IF IsQueue THEN CHOOSE k \in Key : TRUE ELSE key[t]],
        res <- [t \in Thread |-> ~IsQueue /\ res[t]],
        seen <- [t \in Thread |-> IF IsQueue THEN {} ELSE Seen(t)]
ImplementsSet == Abstract!Spec

\* The queue of Lotan and Shavit: a deletion takes the smallest key, but for those that
\* other deletions have claimed (prioritySL_deleteMin).
Priority ==
    INSTANCE PrioritySpec WITH
        contents <- IF IsQueue THEN Contents ELSE {},
        phase <- [t \in Thread |-> IF IsQueue THEN Phase(t) ELSE "idle"],
        op <- [t \in Thread |-> IF IsQueue /\ op[t] # "search" THEN op[t] ELSE "insert"],
        key <- [t \in Thread |-> IF IsQueue THEN key[t] ELSE CHOOSE k \in Key : TRUE],
        res <- [t \in Thread |-> IsQueue /\ res[t]],
        seen <- [t \in Thread |-> IF IsQueue THEN Seen(t) ELSE {}],
        still <- [t \in Thread |-> IF IsQueue THEN Still(t) ELSE {}]
ImplementsPriorityQueue == Priority!Spec

\* Operations that begin again return in the end.
AllReturn == \A t \in Thread : pc[t] # "idle" ~> pc[t] = "idle"
=============================================================================
