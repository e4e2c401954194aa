------------------------------- MODULE BstEllen -------------------------------
(***************************************************************************)
(* The lock-free external search tree of Ellen, Fatourou, Ruppert and van  *)
(* Breugel (src/DLTree/src/bst-ellen/bst_ellen.c).  Keys are in the        *)
(* leaves.  An inner node has an update word: a state, and the record of   *)
(* the operation that put it there.  An insertion flags the parent of its  *)
(* leaf (IFLAG); a removal flags the grandparent (DFLAG) and marks the     *)
(* parent (MARK), or takes its flag back when the parent has changed.      *)
(* Whoever meets a word that is not clean finishes that operation from its *)
(* record, and what is in the way of that one before.                      *)
(*                                                                         *)
(* Every load of a word or a child and every CAS is a step.  The children  *)
(* of a marked node do not change (RemovedIsFrozen): they are read in the  *)
(* step that moves one of them up.                                         *)
(***************************************************************************)
EXTENDS Integers, Sequences, FiniteSets, SequencesExt

CONSTANTS
    Thread,
    Key,       \* positive, smaller than INF1
    MaxOps     \* bound: operations of the threads together

BstEllenAssumption ==
    /\ IsFiniteSet(Key) /\ Key \subseteq Nat \ {0}
    /\ MaxOps \in Nat

VARIABLES
    nodes,       \* the nodes allocated: [key, child, update, freed]
    infos,       \* the records of operations: [by, gp, p, l, new, pupdate, freed]
    pc,          \* control points
    op, key,     \* the operation of each thread and its key
    res,         \* its result, from the instant at which it takes effect
    gp, p, l, gpupdate, pupdate,    \* its search_result_t
    mine,        \* the record that it has put in place (0 if none)
    stack,       \* bst_help and what it calls: what is left to do, for which record
    left,        \* operations that may still be invoked
    seen         \* history: whether key[t] was in the tree since the call

searchVars == <<gp, p, l, gpupdate, pupdate>>
localVars == <<searchVars, mine, stack>>
vars == <<nodes, infos, pc, op, key, res, localVars, left, seen>>

Side == {"left", "right"}
NULL == 0
Root == 1

KeyMax == CHOOSE m \in Key : \A k \in Key : k <= m
INF1 == KeyMax + 1
INF2 == KeyMax + 2

Word(state, i) == [state |-> state, info |-> i]
NoUpdate == Word("CLEAN", NULL)

-----------------------------------------------------------------------------
(* The tree *)

Node(k, lc, rc) ==
    [key |-> k, child |-> [s \in Side |-> IF s = "left" THEN lc ELSE rc],
     update |-> NoUpdate, freed |-> 0]
Leaf(k) == Node(k, NULL, NULL)
IsLeaf(n) == n.child["left"] = NULL

Toward(n, k) == IF k < n.key THEN "left" ELSE "right"

\* What an insertion of k at leaf m makes: its leaf, a copy of m, and a node over them.
Grown(ns, m, k) ==
    LET n == Len(ns) + 1
    IN <<Leaf(k), Leaf(ns[m].key),
         IF k < ns[m].key THEN Node(ns[m].key, n, n + 1) ELSE Node(k, n + 1, n)>>

\* bst_initialize
Empty == <<Node(INF2, 2, 3), Leaf(INF1), Leaf(INF2)>>

\* The tree that insertions of the keys in this order have built.
TreeOf(keys) ==
    LET Add(ns, k) ==
            LET over[n \in 1..Len(ns)] ==
                    LET c == ns[n].child[Toward(ns[n], k)] IN IF IsLeaf(ns[c]) THEN n ELSE over[c]
                n == over[Root]
                m == ns[n].child[Toward(ns[n], k)]
            IN [ns EXCEPT ![n].child[Toward(ns[n], k)] = Len(ns) + 3, ![m].freed = 1]
                   \o Grown(ns, m, k)
    IN FoldLeft(Add, Empty, keys)

\* Node n of the tree ns and those below it.
Subtree(ns, n) ==
    LET under[m \in 1..Len(ns)] ==
            IF IsLeaf(ns[m]) THEN {m}
            ELSE {m} \union under[ns[m].child["left"]] \union under[ns[m].child["right"]]
    IN under[n]

Linked == Subtree(nodes, Root)

Contents == {nodes[n].key : n \in {m \in Linked : IsLeaf(nodes[m])}} \ {INF1, INF2}

Init ==
    /\ \E s \in SUBSET Key : \E keys \in SetToSeqs(s) : nodes = TreeOf(keys)
    /\ infos = <<>>
    /\ pc = [t \in Thread |-> "idle"]
    /\ op = [t \in Thread |-> "search"]
    /\ key = [t \in Thread |-> CHOOSE k \in Key : TRUE]
    /\ res = [t \in Thread |-> FALSE]
    /\ gp = [t \in Thread |-> NULL]
    /\ p = [t \in Thread |-> NULL]
    /\ l = [t \in Thread |-> Root]
    /\ gpupdate = [t \in Thread |-> NoUpdate]
    /\ pupdate = [t \in Thread |-> NoUpdate]
    /\ mine = [t \in Thread |-> NULL]
    /\ stack = [t \in Thread |-> <<>>]
    /\ left = MaxOps
    /\ seen = [t \in Thread |-> {}]

Phase(t) ==
    CASE pc[t] = "idle" -> "idle"
      [] pc[t] = "return" \/ res[t] -> "done"
      [] OTHER -> "pending"

Goto(t, c) == pc' = [pc EXCEPT ![t] = c]

\* The local variables at the start of a search, or of no use any more.
Forget(t) ==
    /\ gp' = [gp EXCEPT ![t] = NULL]
    /\ p' = [p EXCEPT ![t] = NULL]
    /\ l' = [l EXCEPT ![t] = Root]
    /\ gpupdate' = [gpupdate EXCEPT ![t] = NoUpdate]
    /\ pupdate' = [pupdate EXCEPT ![t] = NoUpdate]
    /\ mine' = [mine EXCEPT ![t] = NULL]

Invoke(t) ==
    /\ pc[t] = "idle"
    /\ left > 0
    /\ left' = left - 1
    /\ \E o \in {"search", "insert", "remove"}, k \in Key :
          /\ op' = [op EXCEPT ![t] = o]
          /\ key' = [key EXCEPT ![t] = k]
          /\ seen' = [seen EXCEPT ![t] = {k \in Contents}]
    /\ Goto(t, "seek")
    /\ UNCHANGED <<nodes, infos, res, localVars>>

\* The operation has its result.
Finish(t, result) ==
    /\ Goto(t, "return")
    /\ res' = [res EXCEPT ![t] = result]
    /\ stack' = [stack EXCEPT ![t] = <<>>]
    /\ Forget(t)

Return(t) ==
    /\ pc[t] = "return"
    /\ Goto(t, "idle")
    /\ op' = [op EXCEPT ![t] = "search"]
    /\ key' = [key EXCEPT ![t] = CHOOSE k \in Key : TRUE]
    /\ res' = [res EXCEPT ![t] = FALSE]
    /\ seen' = [seen EXCEPT ![t] = {}]
    /\ UNCHANGED <<nodes, infos, localVars, left>>

-----------------------------------------------------------------------------
(* bst_search *)

\* A level down: the word of the node ...
Descend(t) ==
    /\ pc[t] = "seek" /\ ~IsLeaf(nodes[l[t]])
    /\ gp' = [gp EXCEPT ![t] = p[t]]
    /\ p' = [p EXCEPT ![t] = l[t]]
    /\ gpupdate' = [gpupdate EXCEPT ![t] = pupdate[t]]
    /\ pupdate' = [pupdate EXCEPT ![t] = nodes[l[t]].update]
    /\ Goto(t, "child")
    /\ UNCHANGED <<nodes, infos, op, key, res, l, mine, stack, left, seen>>

\* ... and then the child on the way to the key.
Child(t) ==
    /\ pc[t] = "child"
    /\ l' = [l EXCEPT ![t] = nodes[p[t]].child[Toward(nodes[p[t]], key[t])]]
    /\ Goto(t, "seek")
    /\ UNCHANGED <<nodes, infos, op, key, res, gp, p, gpupdate, pupdate, mine, stack, left, seen>>

AtLeaf(t) == pc[t] = "seek" /\ IsLeaf(nodes[l[t]])
Found(t) == nodes[l[t]].key = key[t]

\* bst_find, or an update that has nothing to do.
Settle(t) ==
    /\ AtLeaf(t)
    /\ op[t] = "search" \/ Found(t) = (op[t] = "insert")
    /\ Finish(t, op[t] = "search" /\ Found(t))
    /\ UNCHANGED <<nodes, infos, op, key, left, seen>>

-----------------------------------------------------------------------------
(* bst_help: what is done about an operation whose word has been met *)

Frame(todo, i) == [todo |-> todo, info |-> i]

HelpFor(u) ==
    CASE u.state = "IFLAG" -> <<Frame("link", u.info)>>
      [] u.state = "DFLAG" -> <<Frame("mark", u.info)>>
      [] u.state = "MARK" -> <<Frame("splice", u.info)>>
      [] u.state = "CLEAN" -> <<>>

\* Help with the word u, and then search again.
Help(t, u) ==
    /\ stack' = [stack EXCEPT ![t] = HelpFor(u)]
    /\ Goto(t, IF HelpFor(u) = <<>> THEN "seek" ELSE "help")
    /\ Forget(t)

Update(t) == AtLeaf(t) /\ op[t] # "search" /\ Found(t) = (op[t] = "remove")

\* Of the words noted by the search, the first one that has to be clean and is not.
InTheWay(t) ==
    IF op[t] = "remove" /\ gpupdate[t].state # "CLEAN" THEN gpupdate[t] ELSE pupdate[t]

HelpOther(t) ==
    /\ Update(t) /\ InTheWay(t).state # "CLEAN"
    /\ Help(t, InTheWay(t))
    /\ UNCHANGED <<nodes, infos, op, key, res, left, seen>>

\* The thread's own record is in place: go on with it.
Begin(t, todo) ==
    /\ stack' = [stack EXCEPT ![t] = <<Frame(todo, Len(infos) + 1)>>]
    /\ mine' = [mine EXCEPT ![t] = Len(infos) + 1]
    /\ Goto(t, "help")
    /\ gp' = [gp EXCEPT ![t] = NULL]
    /\ p' = [p EXCEPT ![t] = NULL]
    /\ l' = [l EXCEPT ![t] = Root]

Info(t, new) ==
    [by |-> t, gp |-> gp[t], p |-> p[t], l |-> l[t], new |-> new, pupdate |-> pupdate[t],
     freed |-> 0]

\* bst_insert: the CAS of the parent's word.
FlagInsert(t) ==
    /\ Update(t) /\ op[t] = "insert" /\ InTheWay(t).state = "CLEAN"
    /\ IF nodes[p[t]].update = pupdate[t]
         THEN /\ nodes' = [nodes EXCEPT ![p[t]].update = Word("IFLAG", Len(infos) + 1)]
                              \o Grown(nodes, l[t], key[t])
              /\ infos' = Append(infos, [Info(t, Len(nodes) + 3) EXCEPT !.gp = NULL])
              /\ Begin(t, "link")
              /\ UNCHANGED <<gpupdate, pupdate>>
         ELSE Help(t, nodes[p[t]].update) /\ UNCHANGED <<nodes, infos>>
    /\ UNCHANGED <<op, key, res, left, seen>>

\* bst_delete: the CAS of the grandparent's word.
FlagRemove(t) ==
    /\ Update(t) /\ op[t] = "remove" /\ InTheWay(t).state = "CLEAN"
    /\ IF nodes[gp[t]].update = gpupdate[t]
         THEN /\ nodes' = [nodes EXCEPT ![gp[t]].update = Word("DFLAG", Len(infos) + 1)]
              /\ infos' = Append(infos, Info(t, NULL))
              /\ Begin(t, "mark")
              /\ UNCHANGED <<gpupdate, pupdate>>
         ELSE Help(t, nodes[gp[t]].update) /\ UNCHANGED <<nodes, infos>>
    /\ UNCHANGED <<op, key, res, left, seen>>

-----------------------------------------------------------------------------
(* bst_help_insert, bst_help_delete, bst_help_marked *)

Top(t) == Last(stack[t])
At(t, todo) == pc[t] = "help" /\ Top(t).todo = todo
i(t) == Top(t).info
o(t) == infos[i(t)]

Then(t, frames) == stack' = [stack EXCEPT ![t] = Front(@) \o frames]

\* bst_cas_child
CasChild(parent, old, new) ==
    nodes[parent].child[Toward(nodes[parent], nodes[new].key)] = old
WithChild(parent, new) ==
    [nodes EXCEPT ![parent].child[Toward(nodes[parent], nodes[new].key)] = new]

GiveBack(ns, ms) == [n \in DOMAIN ns |-> IF n \in ms THEN [ns[n] EXCEPT !.freed = @ + 1] ELSE ns[n]]

\* The operation of that record takes effect; the ones in progress on its key see it.
TakesEffect(u, inserted) ==
    /\ res' = [res EXCEPT ![u] = TRUE]
    /\ seen' = [v \in Thread |->
                  IF v # u /\ Phase(v) = "pending" /\ key[v] = key[u]
                    THEN seen[v] \union {inserted} ELSE seen[v]]

LinkNew(t) ==
    /\ At(t, "link")
    /\ IF CasChild(o(t).p, o(t).l, o(t).new)
         THEN /\ nodes' = GiveBack(WithChild(o(t).p, o(t).new), {o(t).l})
              /\ TakesEffect(o(t).by, TRUE)
         ELSE UNCHANGED <<nodes, res, seen>>
    /\ Then(t, <<Frame("clean", i(t))>>)
    /\ UNCHANGED <<infos, pc, op, key, searchVars, mine, left>>

FreeInfo(is, j) == IF j = NULL THEN is ELSE [is EXCEPT ![j].freed = @ + 1]

\* Mutant: the parent is marked though it has changed.
Mark_Changed(t) ==
    /\ At(t, "mark")
    /\ LET u == nodes[o(t).p].update
           marked == Word("MARK", i(t))
       IN IF u \in {o(t).pupdate, marked} \/ u.state = "CLEAN"
            THEN /\ nodes' = [nodes EXCEPT ![o(t).p].update = marked]
                 /\ infos' = IF u = marked THEN infos ELSE FreeInfo(infos, u.info)
                 /\ Then(t, <<Frame("splice", i(t))>>)
            ELSE /\ Then(t, <<Frame("undo", i(t))>> \o HelpFor(u))
                 /\ UNCHANGED <<nodes, infos>>
    /\ UNCHANGED <<pc, op, key, res, searchVars, mine, left, seen>>

\* The CAS of the parent's word.  If that is another one than the search has noted, help
\* with it, and take the flag back.
Mark(t) ==
    /\ At(t, "mark")
    /\ LET u == nodes[o(t).p].update
           marked == Word("MARK", i(t))
       IN IF u \in {o(t).pupdate, marked}
            THEN /\ nodes' = [nodes EXCEPT ![o(t).p].update = marked]
                 /\ infos' = IF u = marked THEN infos ELSE FreeInfo(infos, u.info)
                 /\ Then(t, <<Frame("splice", i(t))>>)
            ELSE /\ Then(t, <<Frame("undo", i(t))>> \o HelpFor(u))
                 /\ UNCHANGED <<nodes, infos>>
    /\ UNCHANGED <<pc, op, key, res, searchVars, mine, left, seen>>

\* The other child of the parent moves up to the grandparent.
Splice(t) ==
    /\ At(t, "splice")
    /\ LET n == nodes[o(t).p]
           other == IF n.child["right"] = o(t).l THEN n.child["left"] ELSE n.child["right"]
       IN IF CasChild(o(t).gp, o(t).p, other)
            THEN /\ nodes' = GiveBack(WithChild(o(t).gp, other), {o(t).l, o(t).p})
                 /\ TakesEffect(o(t).by, FALSE)
            ELSE UNCHANGED <<nodes, res, seen>>
    /\ Then(t, <<Frame("clean", i(t))>>)
    /\ UNCHANGED <<infos, pc, op, key, searchVars, mine, left>>

\* The thread's own operation is done, and the record that it has replaced is given back.
Succeed(t) ==
    /\ infos' = FreeInfo(infos, IF op[t] = "insert" THEN pupdate[t].info ELSE gpupdate[t].info)
    /\ Finish(t, TRUE)

Back(t) ==
    IF Len(stack[t]) > 1 THEN Then(t, <<>>) /\ UNCHANGED <<infos, pc, res, searchVars, mine>>
    ELSE IF mine[t] # NULL /\ Top(t).todo = "clean" THEN Succeed(t)
    ELSE Help(t, NoUpdate) /\ UNCHANGED <<infos, res>>

\* Mutant: the flag of a removal that could not mark the parent stays.
Clean_NotUndone(t) ==
    /\ pc[t] = "help" /\ Top(t).todo \in {"clean", "undo"}
    /\ LET flagged == IF o(t).new # NULL THEN o(t).p ELSE o(t).gp
           flag == Word(IF o(t).new # NULL THEN "IFLAG" ELSE "DFLAG", i(t))
       IN nodes' = IF nodes[flagged].update = flag /\ Top(t).todo = "clean"
                     THEN [nodes EXCEPT ![flagged].update.state = "CLEAN"] ELSE nodes
    /\ Back(t)
    /\ UNCHANGED <<op, key, left, seen>>

\* The CAS that takes the flag away.
Clean(t) ==
    /\ pc[t] = "help" /\ Top(t).todo \in {"clean", "undo"}
    /\ LET flagged == IF o(t).new # NULL THEN o(t).p ELSE o(t).gp
           flag == Word(IF o(t).new # NULL THEN "IFLAG" ELSE "DFLAG", i(t))
       IN nodes' = IF nodes[flagged].update = flag
                     THEN [nodes EXCEPT ![flagged].update.state = "CLEAN"] ELSE nodes
    /\ Back(t)
    /\ UNCHANGED <<op, key, left, seen>>

-----------------------------------------------------------------------------
Step(t) ==
    \/ Descend(t) \/ Child(t) \/ Settle(t) \/ HelpOther(t) \/ FlagInsert(t) \/ FlagRemove(t)
    \/ LinkNew(t) \/ Mark(t) \/ Splice(t) \/ Clean(t)
    \/ Return(t)

Next == \E t \in Thread : Invoke(t) \/ Step(t)

Spec == Init /\ [][Next]_vars

\* A thread inside an operation runs on; nobody has to invoke one.
FairSpec == Spec /\ \A t \in Thread : WF_vars(Step(t))

-----------------------------------------------------------------------------
Keys(n) == {nodes[m].key : m \in Subtree(nodes, n)}

\* The tree stays a search tree that ends in its two sentinels, and whatever has been
\* taken out of it is marked: no removal takes a node whose child an insertion is about
\* to replace, or moves a node up that is going away (bst_insert, bst_delete and helpers).
TreeIsWhole ==
    LET linked == Linked
    IN /\ {INF1, INF2} \subseteq Keys(Root)
       /\ \A n \in linked : ~IsLeaf(nodes[n]) =>
             /\ \A k \in Keys(nodes[n].child["left"]) : k < nodes[n].key
             /\ \A k \in Keys(nodes[n].child["right"]) : k >= nodes[n].key
       /\ \A n \in DOMAIN nodes : ~IsLeaf(nodes[n]) /\ nodes[n].freed > 0 =>
             n \notin linked /\ nodes[n].update.state = "MARK"

\* Nodes are given back once, and not while the tree leads to them; so are the records,
\* and not while the word of a node in the tree holds them (bst_help_insert,
\* bst_help_delete, bst_help_marked, bst_insert, bst_delete).
FreedOnce ==
    LET linked == Linked
    IN /\ \A n \in DOMAIN nodes : nodes[n].freed <= (IF n \in linked THEN 0 ELSE 1)
       /\ \A j \in DOMAIN infos :
             infos[j].freed <= (IF \E n \in linked : nodes[n].update.info = j THEN 0 ELSE 1)

\* A node that is marked or has been taken out keeps its children, and its mark.
RemovedStayed ==
    \A n \in DOMAIN nodes : n \notin Linked \/ nodes[n].update.state = "MARK" =>
        nodes'[n].child = nodes[n].child /\ nodes'[n].update = nodes[n].update
RemovedIsFrozen == [][RemovedStayed]_vars

\* The tree is a linearizable set, whoever finishes an operation.
Abstract ==
    INSTANCE IntervalSetSpec WITH
        contents <- Contents,
        full <- FALSE,
        phase <- [t \in Thread |-> Phase(t)],
        seen <- [t \in Thread |-> IF Phase(t) = "pending" THEN seen[t] ELSE {}]
ImplementsSet == Abstract!Spec

\* Operations that begin again return in the end: a flag that is in the way is taken
\* away by whoever meets it.
AllReturn == \A t \in Thread : pc[t] # "idle" ~> pc[t] = "idle"
=============================================================================
