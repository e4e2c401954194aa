------------------------------ MODULE OptikList ------------------------------
(***************************************************************************)
(* The sorted linked list with OPTIK locks                                 *)
(* (src/DLTree/src/linkedlist-optik/linkedlist-optik.c, on the integer     *)
(* version of the locks in src/DLTree/include/optik.h).  A node's lock is  *)
(* a version, odd while it is locked.  Operations walk the list without    *)
(* locks and note the version of each node before they follow its pointer; *)
(* an update then locks a node only if it still has that version.  A       *)
(* removed node stays locked for good, and keeps its pointer, so that      *)
(* walks that are on it go on.                                             *)
(*                                                                         *)
(* The load and the CAS of optik_trylock_version are one step: a load that *)
(* sees another version fails as the CAS would have at that moment.        *)
(***************************************************************************)
EXTENDS Integers, Sequences, FiniteSets, SequencesExt

CONSTANTS
    Thread,
    Key,       \* positive; KEY_MIN and KEY_MAX bound them
    MaxOps     \* bound: operations of the threads together

OptikListAssumption ==
    /\ IsFiniteSet(Key) /\ Key \subseteq Nat \ {0}
    /\ MaxOps \in Nat

VARIABLES
    nodes,       \* the nodes allocated: [key, next, lock]; KEY_MIN, KEY_MAX first
    pc,          \* control points
    op, key,     \* the operation of each thread and its key
    res,         \* its result
    pred, curr,  \* where its walk is
    predVer, currVer,   \* the versions noted for them
    cnxt,        \* delete: what comes after curr
    left,        \* operations that may still be invoked
    seen         \* history: whether key[t] was in the list since the call

walkVars == <<pred, curr, predVer, currVer, cnxt>>
vars == <<nodes, pc, op, key, res, walkVars, left, seen>>

Hd  == 1     \* set->head
End == 2

KeyMin == 0
KeyMax == 1 + CHOOSE m \in Key : \A k \in Key : k <= m

Goto(t, l) == pc' = [pc EXCEPT ![t] = l]

-----------------------------------------------------------------------------
(* OPTIK locks: optik_is_locked, optik_trylock_version, optik_unlock, optik_revert *)

IsLocked(ver) == ver % 2 = 1

\* Mutant: the version is not compared, only whether the node is locked now.
CanLock_AnyVersion(n, ver) == ~IsLocked(nodes[n].lock)

CanLock(n, ver) == ~IsLocked(ver) /\ nodes[n].lock = ver

Locked(n)   == [nodes EXCEPT ![n].lock = @ + 1]
Unlocked(n) == [nodes EXCEPT ![n].lock = @ + 1]

\* Mutant: the predecessor stays locked when its successor cannot be.
Reverted_Forgets(n) == nodes

Reverted(n) == [nodes EXCEPT ![n].lock = @ - 1]

-----------------------------------------------------------------------------
\* The nodes on the way from the head (the last one points to itself here), and the
\* keys in the list.
Linked ==
    LET walk[d \in 0..Len(nodes)] == IF d = 0 THEN Hd ELSE nodes[walk[d - 1]].next
    IN {walk[d] : d \in 0..Len(nodes)}

Contents == {nodes[n].key : n \in Linked \ {Hd, End}}

\* A list that earlier insertions have built.
ListOf(s) ==
    LET keys == SetToSortSeq(s, LAMBDA a, b : a < b)
        succ(j) == IF j < Len(keys) THEN j + 3 ELSE End
    IN <<[key |-> KeyMin, next |-> succ(0), lock |-> 0],
         [key |-> KeyMax, next |-> End, lock |-> 0]>>
       \o [j \in 1..Len(keys) |-> [key |-> keys[j], next |-> succ(j), lock |-> 0]]

Init ==
    /\ \E s \in SUBSET Key : nodes = ListOf(s)
    /\ pc = [t \in Thread |-> "idle"]
    /\ op = [t \in Thread |-> "search"]
    /\ key = [t \in Thread |-> CHOOSE k \in Key : TRUE]
    /\ res = [t \in Thread |-> FALSE]
    /\ pred = [t \in Thread |-> Hd]
    /\ curr = [t \in Thread |-> Hd]
    /\ predVer = [t \in Thread |-> 0]
    /\ currVer = [t \in Thread |-> 0]
    /\ cnxt = [t \in Thread |-> Hd]
    /\ left = MaxOps
    /\ seen = [t \in Thread |-> {}]

Invoke(t) ==
    /\ pc[t] = "idle"
    /\ left > 0
    /\ left' = left - 1
    /\ \E o \in {"search", "insert", "remove"}, k \in Key :
          /\ op' = [op EXCEPT ![t] = o]
          /\ key' = [key EXCEPT ![t] = k]
          /\ seen' = [seen EXCEPT ![t] = {k \in Contents}]
    /\ Goto(t, "start")
    /\ UNCHANGED <<nodes, res, walkVars>>

\* The operation has its result; its local variables are forgotten.
Finish(t, result) ==
    /\ Goto(t, "return")
    /\ res' = [res EXCEPT ![t] = result]
    /\ pred' = [pred EXCEPT ![t] = Hd]
    /\ curr' = [curr EXCEPT ![t] = Hd]
    /\ predVer' = [predVer EXCEPT ![t] = 0]
    /\ currVer' = [currVer EXCEPT ![t] = 0]
    /\ cnxt' = [cnxt EXCEPT ![t] = Hd]

Return(t) ==
    /\ pc[t] = "return"
    /\ Goto(t, "idle")
    /\ op' = [op EXCEPT ![t] = "search"]
    /\ key' = [key EXCEPT ![t] = CHOOSE k \in Key : TRUE]
    /\ res' = [res EXCEPT ![t] = FALSE]
    /\ UNCHANGED <<nodes, walkVars, left, seen>>

-----------------------------------------------------------------------------
(* The walk *)

Start(t) ==
    /\ pc[t] = "start"
    /\ curr' = [curr EXCEPT ![t] = Hd]
    /\ Goto(t, IF op[t] = "search" THEN "next" ELSE "version")
    /\ UNCHANGED <<nodes, op, key, res, pred, predVer, currVer, cnxt, left, seen>>

\* A search follows the pointers up to the first key that is not smaller.
FindNext(t) ==
    /\ pc[t] = "next" /\ op[t] = "search"
    /\ LET c == nodes[curr[t]].next
       IN IF nodes[c].key < key[t]
            THEN /\ curr' = [curr EXCEPT ![t] = c]
                 /\ UNCHANGED <<pc, res, pred, predVer, currVer, cnxt, seen>>
            ELSE /\ Finish(t, nodes[c].key = key[t])
                 /\ seen' = [seen EXCEPT ![t] = {}]
    /\ UNCHANGED <<nodes, op, key, left>>

\* An update keeps the node it comes from, and its version.  An insertion ends at
\* the first key that is not smaller; a removal loads that node's lock first.
WalkNext(t) ==
    /\ pc[t] = "next" /\ op[t] # "search"
    /\ LET c == nodes[curr[t]].next
           k == nodes[c].key
       IN IF op[t] = "insert" /\ k = key[t]
            THEN Finish(t, FALSE) /\ seen' = [seen EXCEPT ![t] = {}]
            ELSE /\ pred' = [pred EXCEPT ![t] = curr[t]]
                 /\ predVer' = [predVer EXCEPT ![t] = currVer[t]]
                 /\ curr' = [curr EXCEPT ![t] = c]
                 /\ Goto(t, IF op[t] = "insert" /\ k > key[t] THEN "lock" ELSE "version")
                 /\ UNCHANGED <<res, currVer, cnxt, seen>>
    /\ UNCHANGED <<nodes, op, key, left>>

\* The load of curr->lock; a removal stops after it.
Version(t) ==
    /\ pc[t] = "version"
    /\ LET k == nodes[curr[t]].key
       IN IF op[t] = "remove" /\ k > key[t]
            THEN Finish(t, FALSE) /\ seen' = [seen EXCEPT ![t] = {}]
            ELSE /\ currVer' = [currVer EXCEPT ![t] = nodes[curr[t]].lock]
                 /\ Goto(t, IF k = key[t] THEN "after" ELSE "next")
                 /\ UNCHANGED <<res, pred, curr, predVer, cnxt, seen>>
    /\ UNCHANGED <<nodes, op, key, left>>

After(t) ==
    /\ pc[t] = "after"
    /\ cnxt' = [cnxt EXCEPT ![t] = nodes[curr[t]].next]
    /\ Goto(t, "lock")
    /\ UNCHANGED <<nodes, op, key, res, pred, curr, predVer, currVer, left, seen>>

-----------------------------------------------------------------------------
(* The update *)

LockPred(t) ==
    /\ pc[t] = "lock"
    /\ IF CanLock(pred[t], predVer[t])
         THEN nodes' = Locked(pred[t]) /\ Goto(t, IF op[t] = "insert" THEN "link" ELSE "lockcurr")
         ELSE UNCHANGED nodes /\ Goto(t, "start")
    /\ UNCHANGED <<op, key, res, walkVars, left, seen>>

\* Mutant: the node to be removed is not locked.
LockCurr_Skipped(t) ==
    /\ pc[t] = "lockcurr"
    /\ Goto(t, "unlink")
    /\ UNCHANGED <<nodes, op, key, res, walkVars, left, seen>>

LockCurr(t) ==
    /\ pc[t] = "lockcurr"
    /\ IF CanLock(curr[t], currVer[t])
         THEN nodes' = Locked(curr[t]) /\ Goto(t, "unlink")
         ELSE UNCHANGED nodes /\ Goto(t, "revert")
    /\ UNCHANGED <<op, key, res, walkVars, left, seen>>

Revert(t) ==
    /\ pc[t] = "revert"
    /\ nodes' = Reverted(pred[t])
    /\ Goto(t, "start")
    /\ UNCHANGED <<op, key, res, walkVars, left, seen>>

\* The operations in progress on the same key see that it is now in the list, or not.
RecordSeen(t) ==
    seen' = [u \in Thread |->
               IF u = t THEN {}
               ELSE IF key[u] = key[t] /\ seen[u] # {} THEN seen[u] \union {op[t] = "insert"}
               ELSE seen[u]]

\* The new node becomes visible with the store that links it.
Link(t) ==
    /\ pc[t] = "link"
    /\ nodes' = Append([nodes EXCEPT ![pred[t]].next = Len(nodes) + 1],
                       [key |-> key[t], next |-> curr[t], lock |-> 0])
    /\ RecordSeen(t)
    /\ Goto(t, "unlock")
    /\ UNCHANGED <<op, key, res, walkVars, left>>

Unlink(t) ==
    /\ pc[t] = "unlink"
    /\ nodes' = [nodes EXCEPT ![pred[t]].next = cnxt[t]]
    /\ RecordSeen(t)
    /\ Goto(t, "unlock")
    /\ UNCHANGED <<op, key, res, walkVars, left>>

Unlock(t) ==
    /\ pc[t] = "unlock"
    /\ nodes' = Unlocked(pred[t])
    /\ Finish(t, TRUE)
    /\ UNCHANGED <<op, key, left, seen>>

-----------------------------------------------------------------------------
Step(t) ==
    \/ Start(t) \/ FindNext(t) \/ WalkNext(t) \/ Version(t) \/ After(t)
    \/ LockPred(t) \/ LockCurr(t) \/ Revert(t) \/ Link(t) \/ Unlink(t) \/ Unlock(t)
    \/ Return(t)

Next == \E t \in Thread : Invoke(t) \/ Step(t)

Spec == Init /\ [][Next]_vars

\* A thread inside an operation runs on; nobody has to invoke one.
FairSpec == Spec /\ \A t \in Thread : WF_vars(Step(t))

-----------------------------------------------------------------------------
\* The list is sorted up to KEY_MAX, and every node that is not in it is locked,
\* hence removed: no chain of optimistic updates, with their stale predecessors and
\* versions, loses a node or links a removed one (optik_insert, optik_delete).
ListIsWhole ==
    /\ End \in Linked
    /\ \A n \in Linked \ {End} : nodes[n].key < nodes[nodes[n].next].key
    /\ \A n \in (1..Len(nodes)) \ Linked : IsLocked(nodes[n].lock)

\* A node that is no longer linked keeps its pointer and its lock: walks that are on
\* it get back to the list, and nothing is ever linked behind it.
RemovedStayed ==
    \A n \in (1..Len(nodes)) \ Linked : nodes'[n] = nodes[n]
RemovedIsFrozen == [][RemovedStayed]_vars

Phase(t) ==
    IF pc[t] = "idle" THEN "idle"
    ELSE IF pc[t] \in {"unlock", "return"} THEN "done"
    ELSE "pending"

\* The list is a linearizable set.
Abstract ==
    INSTANCE IntervalSetSpec WITH
        contents <- Contents,
        full <- FALSE,
        phase <- [t \in Thread |-> Phase(t)],
        res <- [t \in Thread |-> IF pc[t] = "unlock" THEN TRUE ELSE res[t]]
ImplementsSet == Abstract!Spec

\* Operations that restart, because a lock or a version was in their way, return in
\* the end: of the operations that disturb one another one always gets through.
AllReturn == \A t \in Thread : pc[t] # "idle" ~> pc[t] = "idle"
=============================================================================
