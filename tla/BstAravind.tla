------------------------------ MODULE BstAravind ------------------------------
(***************************************************************************)
(* The lock-free external search tree of Natarajan and Mittal              *)
(* (src/DLTree/src/bst-aravind/bst-aravind.c).  Keys are in the leaves.    *)
(* Two bits of an edge freeze it: the flag says that the leaf it leads to  *)
(* is being removed, the tag that the node it comes from is.  A removal    *)
(* flags the edge to its leaf, tags the edge to the leaf's sibling and     *)
(* then swings the last untagged edge above them to the sibling, which     *)
(* takes out all nodes between.  An update that meets a frozen edge helps. *)
(*                                                                         *)
(* Every load and CAS of an edge is a step, but for the loop that sets the *)
(* tag, which is one step: a turn that fails changes nothing.  The root's  *)
(* edge to S never changes, and S's edge on the left is never tagged, as   *)
(* TreeIsWhole says; they are loaded in one step.                          *)
(***************************************************************************)
EXTENDS Integers, Sequences, FiniteSets, SequencesExt

CONSTANTS
    Thread,
    Key,       \* positive, smaller than INF0
    MaxOps     \* bound: operations of the threads together

BstAravindAssumption ==
    /\ IsFiniteSet(Key) /\ Key \subseteq Nat \ {0}
    /\ MaxOps \in Nat

VARIABLES
    nodes,       \* the nodes allocated: [key, child, freed]
    pc,          \* control points
    op, key,     \* the operation of each thread and its key
    res,         \* its result; of a removal, whether its leaf has been taken out
    ancestor, successor, parent, leaf,    \* its seek record
    tag,         \* bst_seek: the tag of the edge to leaf (parent_field)
    mine,        \* bst_remove: the leaf that it has flagged, once it has (0 before)
    frozen,      \* bst_cleanup: the side of the edge that is tagged, and moved up
    left,        \* operations that may still be invoked
    seen         \* history: whether key[t] was in the tree since the call

seekVars == <<ancestor, successor, parent, leaf, tag>>
localVars == <<seekVars, mine, frozen>>
vars == <<nodes, pc, op, key, res, localVars, left, seen>>

Side == {"left", "right"}
Other(s) == IF s = "left" THEN "right" ELSE "left"

Root == 1
S    == 2

KeyMax == CHOOSE m \in Key : \A k \in Key : k <= m
INF0 == KeyMax + 1
INF1 == KeyMax + 2
INF2 == KeyMax + 3

Goto(t, l) == pc' = [pc EXCEPT ![t] = l]

-----------------------------------------------------------------------------
(* The tree *)

Edge(n) == [to |-> n, flag |-> FALSE, tag |-> FALSE]

Node(k, l, r) ==
    [key |-> k, child |-> [s \in Side |-> Edge(IF s = "left" THEN l ELSE r)], freed |-> 0]
Leaf(k) == Node(k, 0, 0)
IsLeaf(n) == n.child["left"].to = 0

Toward(n, k) == IF k < n.key THEN "left" ELSE "right"

\* Mutant: the new node sends the smaller of the two keys to its right.
Grown_Swapped(ns, p, s, c, k) ==
    LET nn == Len(ns) + 1
        big == IF k < ns[c].key THEN ns[c].key ELSE k
        nr == Node(big, c, nn)
    IN [ns EXCEPT ![p].child[s] = Edge(nn + 1)] \o <<Leaf(k), nr>>

\* A new leaf for k, and a new node over it and the leaf c, in place of c under node p.
Grown(ns, p, s, c, k) ==
    LET nn == Len(ns) + 1
        nr == IF k < ns[c].key THEN Node(ns[c].key, nn, c) ELSE Node(k, c, nn)
    IN [ns EXCEPT ![p].child[s] = Edge(nn + 1)] \o <<Leaf(k), nr>>

\* initialize_tree
Empty == <<Node(INF2, S, 5), Node(INF1, 3, 4), Leaf(INF0), Leaf(INF1), Leaf(INF2)>>

\* The tree that insertions of the keys in this order have built.
TreeOf(keys) ==
    LET Add(ns, k) ==
            LET over[n \in 1..Len(ns)] ==
                    LET c == ns[n].child[Toward(ns[n], k)].to
                    IN IF IsLeaf(ns[c]) THEN n ELSE over[c]
                p == over[Root]
                s == Toward(ns[p], k)
            IN Grown(ns, p, s, ns[p].child[s].to, k)
    IN FoldLeft(Add, Empty, keys)

\* Node n of the tree ns and those below it.
Subtree(ns, n) ==
    LET under[m \in 1..Len(ns)] ==
            IF IsLeaf(ns[m]) THEN {m}
            ELSE {m} \union under[ns[m].child["left"].to] \union under[ns[m].child["right"].to]
    IN under[n]

\* The nodes in the tree.
Linked == Subtree(nodes, Root)

Contents == {nodes[n].key : n \in {m \in Linked : IsLeaf(nodes[m])}} \ {INF0, INF1, INF2}

Init ==
    /\ \E s \in SUBSET Key : \E keys \in SetToSeqs(s) : nodes = TreeOf(keys)
    /\ pc = [t \in Thread |-> "idle"]
    /\ op = [t \in Thread |-> "search"]
    /\ key = [t \in Thread |-> CHOOSE k \in Key : TRUE]
    /\ res = [t \in Thread |-> FALSE]
    /\ ancestor = [t \in Thread |-> Root]
    /\ successor = [t \in Thread |-> S]
    /\ parent = [t \in Thread |-> S]
    /\ leaf = [t \in Thread |-> S]
    /\ tag = [t \in Thread |-> FALSE]
    /\ mine = [t \in Thread |-> 0]
    /\ frozen = [t \in Thread |-> "left"]
    /\ left = MaxOps
    /\ seen = [t \in Thread |-> {}]

Invoke(t) ==
    /\ pc[t] = "idle"
    /\ left > 0
    /\ left' = left - 1
    /\ \E o \in {"search", "insert", "remove"}, k \in Key :
          /\ op' = [op EXCEPT ![t] = o]
          /\ key' = [key EXCEPT ![t] = k]
          /\ seen' = [seen EXCEPT ![t] = {k \in Contents}]
    /\ Goto(t, "start")
    /\ UNCHANGED <<nodes, res, localVars>>

\* The operation has its result.
Finish(t, result) ==
    /\ Goto(t, "return")
    /\ res' = [res EXCEPT ![t] = result]

\* The local variables are forgotten.
Return(t) ==
    /\ pc[t] = "return"
    /\ Goto(t, "idle")
    /\ op' = [op EXCEPT ![t] = "search"]
    /\ key' = [key EXCEPT ![t] = CHOOSE k \in Key : TRUE]
    /\ res' = [res EXCEPT ![t] = FALSE]
    /\ ancestor' = [ancestor EXCEPT ![t] = Root]
    /\ successor' = [successor EXCEPT ![t] = S]
    /\ parent' = [parent EXCEPT ![t] = S]
    /\ leaf' = [leaf EXCEPT ![t] = S]
    /\ tag' = [tag EXCEPT ![t] = FALSE]
    /\ mine' = [mine EXCEPT ![t] = 0]
    /\ frozen' = [frozen EXCEPT ![t] = "left"]
    /\ UNCHANGED <<nodes, left, seen>>

-----------------------------------------------------------------------------
(* bst_seek *)

Start(t) ==
    /\ pc[t] = "start"
    /\ ancestor' = [ancestor EXCEPT ![t] = Root]
    /\ successor' = [successor EXCEPT ![t] = nodes[Root].child["left"].to]
    /\ parent' = [parent EXCEPT ![t] = nodes[Root].child["left"].to]
    /\ leaf' = [leaf EXCEPT ![t] = nodes[S].child["left"].to]
    /\ tag' = [tag EXCEPT ![t] = nodes[S].child["left"].tag]
    /\ Goto(t, "seek")
    /\ UNCHANGED <<nodes, op, key, res, mine, frozen, left, seen>>

\* The load of the edge below.  The last untagged edge on the way, from ancestor to
\* successor, is kept.  The child of S has the key INF0 (TreeIsWhole): every key goes
\* left there, as the code does without comparing.
Seek(t) ==
    /\ pc[t] = "seek"
    /\ LET n == leaf[t]
           e == nodes[n].child[Toward(nodes[n], key[t])]
       IN /\ e.to # 0
          /\ IF tag[t]
               THEN UNCHANGED <<ancestor, successor>>
               ELSE /\ ancestor' = [ancestor EXCEPT ![t] = parent[t]]
                    /\ successor' = [successor EXCEPT ![t] = n]
          /\ parent' = [parent EXCEPT ![t] = n]
          /\ leaf' = [leaf EXCEPT ![t] = e.to]
          /\ tag' = [tag EXCEPT ![t] = e.tag]
    /\ UNCHANGED <<nodes, pc, op, key, res, mine, frozen, left, seen>>

\* The seek has come to a leaf: what each operation does next.
Found(t) ==
    /\ pc[t] = "seek"
    /\ IsLeaf(nodes[leaf[t]])
    /\ LET present == nodes[leaf[t]].key = key[t]
       IN CASE mine[t] # 0 /\ leaf[t] # mine[t] -> Goto(t, "return") /\ UNCHANGED <<res, seen>>
            [] mine[t] # 0 /\ leaf[t] = mine[t] -> Goto(t, "cleanup") /\ UNCHANGED <<res, seen>>
            [] mine[t] = 0 /\ (op[t] = "search" \/ present = (op[t] = "insert")) ->
                 /\ Finish(t, op[t] = "search" /\ present)
                 /\ seen' = [seen EXCEPT ![t] = {}]
            [] OTHER -> Goto(t, "cas") /\ UNCHANGED <<res, seen>>
    /\ UNCHANGED <<nodes, op, key, localVars, left>>

-----------------------------------------------------------------------------
(* bst_insert, bst_remove *)

\* The edge from the parent to the leaf.
side(t) == Toward(nodes[parent[t]], key[t])
Down(t) == nodes[parent[t]].child[side(t)]

\* These leaves have been taken out: the removals that flagged them have taken effect,
\* and the other operations in progress on their keys see it.
RecordGone(leaves) ==
    LET Gone(u) == \E n \in leaves : nodes[n].key = key[u]
    IN /\ res' = [u \in Thread |-> res[u] \/ mine[u] \in leaves]
       /\ seen' = [u \in Thread |->
                     IF mine[u] \in leaves THEN {}
                     ELSE IF seen[u] # {} /\ Gone(u) THEN seen[u] \union {FALSE}
                     ELSE seen[u]]

RecordInserted(t) ==
    seen' = [u \in Thread |->
               IF u = t THEN {}
               ELSE IF key[u] = key[t] /\ seen[u] # {} THEN seen[u] \union {TRUE}
               ELSE seen[u]]

\* The CAS of the edge to the leaf fails if the edge has changed or is frozen.
Insert(t) ==
    /\ pc[t] = "cas" /\ op[t] = "insert"
    /\ IF Down(t) = Edge(leaf[t])
         THEN /\ nodes' = Grown(nodes, parent[t], side(t), leaf[t], key[t])
              /\ RecordInserted(t)
              /\ Finish(t, TRUE)
         ELSE Goto(t, "failed") /\ UNCHANGED <<nodes, res, seen>>
    /\ UNCHANGED <<op, key, localVars, left>>

\* Mutant: an edge that is tagged is flagged too.
Flag_Tagged(t) ==
    /\ pc[t] = "cas" /\ op[t] = "remove"
    /\ IF Down(t).to = leaf[t] /\ ~Down(t).flag
         THEN /\ nodes' = [nodes EXCEPT ![parent[t]].child[side(t)].flag = TRUE]
              /\ mine' = [mine EXCEPT ![t] = leaf[t]]
              /\ Goto(t, "cleanup")
         ELSE Goto(t, "failed") /\ UNCHANGED <<nodes, mine>>
    /\ UNCHANGED <<op, key, res, seekVars, frozen, left, seen>>

Flag(t) ==
    /\ pc[t] = "cas" /\ op[t] = "remove"
    /\ IF Down(t) = Edge(leaf[t])
         THEN /\ nodes' = [nodes EXCEPT ![parent[t]].child[side(t)].flag = TRUE]
              /\ mine' = [mine EXCEPT ![t] = leaf[t]]
              /\ Goto(t, "cleanup")
         ELSE Goto(t, "failed") /\ UNCHANGED <<nodes, mine>>
    /\ UNCHANGED <<op, key, res, seekVars, frozen, left, seen>>

\* An edge that still leads to the leaf is frozen: help the removal that froze it.
Failed(t) ==
    /\ pc[t] = "failed"
    /\ Goto(t, IF Down(t).to = leaf[t] /\ (Down(t).flag \/ Down(t).tag)
                 THEN "cleanup" ELSE "start")
    /\ UNCHANGED <<nodes, op, key, res, localVars, left, seen>>

-----------------------------------------------------------------------------
(* bst_cleanup *)

\* If the edge on the way to the key is not flagged, it is its sibling that is.
Cleanup(t) ==
    /\ pc[t] = "cleanup"
    /\ frozen' = [frozen EXCEPT ![t] = IF Down(t).flag THEN Other(side(t)) ELSE side(t)]
    /\ Goto(t, "tag")
    /\ UNCHANGED <<nodes, op, key, res, seekVars, mine, left, seen>>

\* Mutant: the edge that will be moved up is not frozen.
Tag_Skipped(t) ==
    /\ pc[t] = "tag"
    /\ Goto(t, "swing")
    /\ UNCHANGED <<nodes, op, key, res, localVars, left, seen>>

Tag(t) ==
    /\ pc[t] = "tag"
    /\ nodes' = [nodes EXCEPT ![parent[t]].child[frozen[t]].tag = TRUE]
    /\ Goto(t, "swing")
    /\ UNCHANGED <<op, key, res, localVars, left, seen>>

\* The CAS of the edge above all nodes that are being removed.  What is moved up keeps
\* its flag.  The leaf and the uppermost of those nodes are given back (ssmem_free);
\* others between them are not.
Swing(t) ==
    /\ pc[t] = "swing"
    /\ LET p == nodes[parent[t]]
           a == Toward(nodes[ancestor[t]], key[t])
           up == [p.child[frozen[t]] EXCEPT !.tag = FALSE]
           moved == [nodes EXCEPT ![ancestor[t]].child[a] = up]
       IN IF nodes[ancestor[t]].child[a] = Edge(successor[t])
            THEN /\ nodes' = [n \in 1..Len(nodes) |->
                                IF n \in {p.child[Other(frozen[t])].to, successor[t]}
                                  THEN [moved[n] EXCEPT !.freed = @ + 1] ELSE moved[n]]
                 /\ RecordGone({n \in Linked \ Subtree(moved, Root) : IsLeaf(nodes[n])})
                 /\ Goto(t, IF mine[t] # 0 THEN "return" ELSE "start")
            ELSE Goto(t, "start") /\ UNCHANGED <<nodes, res, seen>>
    /\ UNCHANGED <<op, key, localVars, left>>

-----------------------------------------------------------------------------
Step(t) ==
    \/ Start(t) \/ Seek(t) \/ Found(t)
    \/ Insert(t) \/ Flag(t) \/ Failed(t)
    \/ Cleanup(t) \/ Tag(t) \/ Swing(t)
    \/ Return(t)

Next == \E t \in Thread : Invoke(t) \/ Step(t)

Spec == Init /\ [][Next]_vars

\* A thread inside an operation runs on; nobody has to invoke one.
FairSpec == Spec /\ \A t \in Thread : WF_vars(Step(t))

-----------------------------------------------------------------------------
Keys(n) == {nodes[m].key : m \in Subtree(nodes, n)}

\* The tree stays a search tree over all its leaves, the two edges that are loaded in
\* one step are as that takes them to be, and every node that has been taken out is
\* frozen: no race of insertions, removals and helpers drops a subtree that is in use
\* or links one under a removed node (bst_insert, bst_remove, bst_cleanup).
TreeIsWhole ==
    /\ nodes[Root].child["left"] = Edge(S) /\ ~nodes[S].child["left"].tag
    /\ nodes[nodes[S].child["left"].to].key = INF0
    /\ {INF0, INF1, INF2} \subseteq Keys(Root)
    /\ \A n \in Linked : ~IsLeaf(nodes[n]) =>
          /\ \A k \in Keys(nodes[n].child["left"].to) : k < nodes[n].key
          /\ \A k \in Keys(nodes[n].child["right"].to) : k >= nodes[n].key
    /\ \A n \in (1..Len(nodes)) \ Linked : ~IsLeaf(nodes[n]) =>
          \A s \in Side : nodes[n].child[s].flag \/ nodes[n].child[s].tag

\* Nodes are given back once, and not while the tree leads to them (bst_cleanup).
FreedOnce ==
    LET linked == Linked
    IN \A n \in 1..Len(nodes) : nodes[n].freed <= (IF n \in linked THEN 0 ELSE 1)

\* A node that has been taken out keeps what it leads to: seeks that are on it get
\* back to the tree, and nothing is ever linked under it.
RemovedStayed ==
    \A n \in (1..Len(nodes)) \ Linked : \A s \in Side :
        nodes'[n].child[s].to = nodes[n].child[s].to
RemovedIsFrozen == [][RemovedStayed]_vars

Phase(t) ==
    IF pc[t] = "idle" THEN "idle"
    ELSE IF pc[t] = "return" \/ res[t] THEN "done"
    ELSE "pending"

\* The tree is a linearizable set; that a removal succeeds shows here in its effect.
Abstract ==
    INSTANCE IntervalSetSpec WITH
        contents <- Contents,
        full <- FALSE,
        phase <- [t \in Thread |-> Phase(t)]
ImplementsSet == Abstract!Spec

\* Operations that restart return in the end: of the operations that disturb one
\* another one always gets through.
AllReturn == \A t \in Thread : pc[t] # "idle" ~> pc[t] = "idle"

\* bst_remove returns the value of the leaf it ended at, and 0 stands for a key that
\* was not there: a removal that has taken its key out does not end at a leaf without
\* a value, which only the leaves that bound the tree are.
RemovalIsReported ==
    \A t \in Thread : pc[t] = "return" /\ mine[t] # 0 => nodes[leaf[t]].key \in Key
=============================================================================
