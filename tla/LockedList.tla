------------------------------ MODULE LockedList ------------------------------
(***************************************************************************)
(* The sorted lists with locks, all under src/DLTree/src:                  *)
(*                                                                         *)
(*   "lazy"      linkedlist-lazy: walks without locks, then locks the two  *)
(*               nodes, checks that they are as it found them; removed     *)
(*               nodes are marked (LAZY_RO_FAIL is 1)                      *)
(*   "lazy_sp"   linkedlist-lazy_sp: the same, also without locks for what *)
(*               changes nothing, with less to check under the locks       *)
(*   "pugh"      linkedlist-pugh with PUGH_RO_FAIL 0: walks on from the    *)
(*               node it has locked; removed nodes point back              *)
(*   "pugh_ro"   the same with PUGH_RO_FAIL 1, the default: looks before   *)
(*               it locks                                                  *)
(*   "coupling"  linkedlist-coupling: holds two neighbours on its way      *)
(*   "gl_opt"    linkedlist-gl_opt: a lock on the list for updates         *)
(*   "optik_gl"  linkedlist-optik_gl: an OPTIK lock (the integer kind) on  *)
(*               the list, taken if nothing has changed since the walk     *)
(*                                                                         *)
(* Loads and stores of what a lock protects are one step where only its    *)
(* holder writes it.                                                       *)
(***************************************************************************)
EXTENDS Integers, Sequences, FiniteSets, SequencesExt

CONSTANTS
    Thread,
    Key,       \* positive; KEY_MIN and KEY_MAX bound them
    MaxOps,    \* bound: operations of the threads together
    Builds,    \* some of the names above
    PughRoRemoves  \* whether "pugh_ro" removes: what it then returns may be wrong

LockedListAssumption ==
    /\ IsFiniteSet(Key) /\ Key \subseteq Nat \ {0}
    /\ MaxOps \in Nat
    /\ PughRoRemoves \in BOOLEAN

VARIABLES
    build,
    nodes,       \* the nodes allocated: [key, next, marked, freed]; the ends first
    locks,       \* locks[t]: the nodes that thread t has locked
    glock,       \* the lock of the list, with its version: odd while it is held
    pc,          \* control points
    op, key,     \* the operation of each thread and its key
    res,         \* its result
    pred, curr,  \* where its walk is
    ver,         \* optik_gl: the version noted
    left,        \* operations that may still be invoked
    seen         \* history: whether key[t] was in the list since the call

walkVars == <<pred, curr, ver>>
vars == <<build, nodes, locks, glock, pc, op, key, res, walkVars, left, seen>>

Hd  == 1     \* set->head
End == 2

KeyMin == 0
KeyMax == 1 + CHOOSE m \in Key : \A k \in Key : k <= m

Lazy == build \in {"lazy", "lazy_sp"}
Pugh == build \in {"pugh", "pugh_ro"}
Global == build \in {"gl_opt", "optik_gl"}

Goto(t, l) == pc' = [pc EXCEPT ![t] = l]

-----------------------------------------------------------------------------
\* The nodes on the way from the head (the last one points to itself here), and the
\* keys in the list.
Linked ==
    LET walk[d \in 0..Len(nodes)] == IF d = 0 THEN Hd ELSE nodes[walk[d - 1]].next
    IN {walk[d] : d \in 0..Len(nodes)}

Contents == {nodes[n].key : n \in {m \in Linked \ {Hd, End} : ~nodes[m].marked}}

Node(k, n) == [key |-> k, next |-> n, marked |-> FALSE, freed |-> 0]

\* A list that earlier insertions have built.
ListOf(s) ==
    LET keys == SetToSortSeq(s, LAMBDA a, b : a < b)
        succ(j) == IF j < Len(keys) THEN j + 3 ELSE End
    IN <<Node(KeyMin, succ(0)), Node(KeyMax, End)>>
       \o [j \in 1..Len(keys) |-> Node(keys[j], succ(j))]

Init ==
    /\ build \in Builds
    /\ \E s \in SUBSET Key : nodes = ListOf(s)
    /\ locks = [t \in Thread |-> {}]
    /\ glock = 0
    /\ pc = [t \in Thread |-> "idle"]
    /\ op = [t \in Thread |-> "search"]
    /\ key = [t \in Thread |-> CHOOSE k \in Key : TRUE]
    /\ res = [t \in Thread |-> FALSE]
    /\ pred = [t \in Thread |-> Hd]
    /\ curr = [t \in Thread |-> Hd]
    /\ ver = [t \in Thread |-> 0]
    /\ left = MaxOps
    /\ seen = [t \in Thread |-> {}]

Phase(t) ==
    CASE pc[t] = "idle" -> "idle"
      [] pc[t] = "return" \/ pc[t] = "unlock" \/ res[t] -> "done"
      [] OTHER -> "pending"

Invoke(t) ==
    /\ pc[t] = "idle"
    /\ left > 0
    /\ left' = left - 1
    /\ \E o \in {"search", "insert", "remove"}, k \in Key :
          /\ build = "pugh_ro" /\ o = "remove" => PughRoRemoves
          /\ op' = [op EXCEPT ![t] = o]
          /\ key' = [key EXCEPT ![t] = k]
          /\ seen' = [seen EXCEPT ![t] = {k \in Contents}]
    /\ Goto(t, "start")
    /\ UNCHANGED <<build, nodes, locks, glock, res, walkVars>>

Forget(t) ==
    /\ pred' = [pred EXCEPT ![t] = Hd]
    /\ curr' = [curr EXCEPT ![t] = Hd]
    /\ ver' = [ver EXCEPT ![t] = 0]

\* An operation that changes nothing has its result, without locks or with locks to
\* give back.
Finish(t, result) ==
    /\ Goto(t, "return")
    /\ res' = [res EXCEPT ![t] = result]
    /\ Forget(t)

Decide(t, result) ==
    /\ Goto(t, "unlock")
    /\ res' = [res EXCEPT ![t] = result]

Return(t) ==
    /\ pc[t] = "return"
    /\ Goto(t, "idle")
    /\ op' = [op EXCEPT ![t] = "search"]
    /\ key' = [key EXCEPT ![t] = CHOOSE k \in Key : TRUE]
    /\ res' = [res EXCEPT ![t] = FALSE]
    /\ seen' = [seen EXCEPT ![t] = {}]
    /\ UNCHANGED <<build, nodes, locks, glock, walkVars, left>>

-----------------------------------------------------------------------------
(* Walks without locks *)

Has(n, t) == nodes[n].key = key[t]
Before(n, t) == nodes[n].key < key[t]
IsLocked(n) == \E u \in Thread : n \in locks[u]

Start(t) ==
    /\ pc[t] = "start"
    /\ build # "coupling" /\ ~(build = "gl_opt" /\ op[t] # "search")
    /\ curr' = [curr EXCEPT ![t] = Hd]
    /\ ver' = [ver EXCEPT ![t] = IF build = "optik_gl" THEN glock ELSE 0]
    /\ Goto(t, "walk")
    /\ UNCHANGED <<build, nodes, locks, glock, op, key, res, pred, left, seen>>

\* Up to the first key that is not smaller.
Walk(t) ==
    /\ pc[t] = "walk"
    /\ LET n == nodes[curr[t]].next
           found == Has(n, t)
           further(l) ==
               /\ pred' = [pred EXCEPT ![t] = curr[t]]
               /\ curr' = [curr EXCEPT ![t] = n]
               /\ Goto(t, l)
               /\ UNCHANGED <<res, ver>>
       IN IF Before(n, t) THEN further("walk")
          ELSE CASE op[t] = "search" ->
                      IF Lazy /\ found THEN further("look") ELSE Finish(t, found)
                 [] Pugh /\ op[t] # "search" ->
                      further(IF build = "pugh" THEN "lock" ELSE "glance")
                 [] Lazy /\ op[t] = "insert" /\ found -> further("look")
                 [] build = "optik_gl" /\ op[t] = "insert" /\ found -> Finish(t, FALSE)
                 [] (Lazy \/ build = "optik_gl") /\ op[t] = "remove" /\ ~found -> Finish(t, FALSE)
                 [] OTHER -> further("lock")
    /\ UNCHANGED <<build, nodes, locks, glock, op, key, left, seen>>

\* Mutant: a removed node makes an insertion fail.
Look_AnyMark(t) ==
    /\ pc[t] = "look"
    /\ Finish(t, op[t] = "search" /\ ~nodes[curr[t]].marked)
    /\ UNCHANGED <<build, nodes, locks, glock, op, key, left, seen>>

\* Mutant: an insertion looks at the removed node again, not at the list.
Look_Waits(t) ==
    /\ pc[t] = "look"
    /\ IF op[t] = "insert" /\ nodes[curr[t]].marked
         THEN UNCHANGED <<pc, res, walkVars>>
         ELSE Finish(t, op[t] = "search" /\ ~nodes[curr[t]].marked)
    /\ UNCHANGED <<build, nodes, locks, glock, op, key, left, seen>>

\* Lazy: whether the node that has the key is marked.
Look(t) ==
    /\ pc[t] = "look"
    /\ IF op[t] = "insert" /\ nodes[curr[t]].marked
         THEN Goto(t, "start") /\ UNCHANGED <<res, walkVars>>
         ELSE Finish(t, op[t] = "search" /\ ~nodes[curr[t]].marked)
    /\ UNCHANGED <<build, nodes, locks, glock, op, key, left, seen>>

\* search_strong_cond: the pointer of the last node is loaded once more, and the
\* operation returns if what it points to has the key to be inserted, or has another
\* key than the one to be removed.
Glance(t) ==
    /\ pc[t] = "glance"
    /\ IF Has(nodes[pred[t]].next, t) = (op[t] = "insert")
         THEN Finish(t, FALSE)
         ELSE Goto(t, "lock") /\ UNCHANGED <<res, walkVars>>
    /\ UNCHANGED <<build, nodes, locks, glock, op, key, left, seen>>

-----------------------------------------------------------------------------
(* Locks *)

\* The update that the two nodes call for, or none.
Update(t, n) ==
    IF Has(n, t) = (op[t] = "remove") /\ op[t] # "search"
      THEN Goto(t, CASE op[t] = "insert" -> "link" [] Lazy -> "mark" [] OTHER -> "unlink")
           /\ UNCHANGED res
      ELSE Decide(t, op[t] = "search" /\ Has(n, t))

Holds(t, s) == locks' = [locks EXCEPT ![t] = s]

LockPred(t) ==
    /\ pc[t] = "lock" /\ ~Global
    /\ ~IsLocked(pred[t])
    /\ Holds(t, {pred[t]})
    /\ Goto(t, CASE Pugh -> "strong" [] op[t] = "remove" -> "lockcurr" [] OTHER -> "validate")
    /\ UNCHANGED <<build, nodes, glock, op, key, res, walkVars, left, seen>>

LockCurr(t) ==
    /\ pc[t] = "lockcurr"
    /\ ~IsLocked(curr[t])
    /\ Holds(t, locks[t] \union {curr[t]})
    /\ Goto(t, CASE Lazy -> "validate" [] Pugh -> "unlink" [] OTHER -> "couple")
    /\ UNCHANGED <<build, nodes, glock, op, key, res, walkVars, left, seen>>

\* Mutant: only the pointer is looked at; a removed node still has it.
IsValid_PointerOnly(p, c) == nodes[p].next = c

\* parse_validate.  With the lock of pred, and pred pointing to it, curr does not change.
IsValid(p, c) ==
    /\ ~nodes[p].marked
    /\ build = "lazy" => ~nodes[c].marked
    /\ nodes[p].next = c

Validate(t) ==
    /\ pc[t] = "validate"
    /\ IF IsValid(pred[t], curr[t]) THEN Update(t, curr[t])
                                    ELSE Goto(t, "giveup") /\ UNCHANGED res
    /\ UNCHANGED <<build, nodes, locks, glock, op, key, walkVars, left, seen>>

\* search_strong: with the lock of a node, on to the next one if its key is still
\* smaller; a node that has been removed points back.
Strong(t) ==
    /\ pc[t] = "strong"
    /\ LET n == nodes[pred[t]].next
       IN IF Before(n, t)
            THEN /\ Holds(t, {})
                 /\ pred' = [pred EXCEPT ![t] = n]
                 /\ Goto(t, "lock")
                 /\ UNCHANGED <<curr, res>>
            ELSE /\ curr' = [curr EXCEPT ![t] = n]
                 /\ IF op[t] = "remove" /\ Has(n, t) THEN Goto(t, "lockcurr") /\ UNCHANGED res
                                                     ELSE Update(t, n)
                 /\ UNCHANGED <<locks, pred>>
    /\ UNCHANGED <<build, nodes, glock, op, key, ver, left, seen>>

\* Coupling: the head is locked, then its successor.
LockHead(t) ==
    /\ pc[t] = "start" /\ build = "coupling"
    /\ ~IsLocked(Hd)
    /\ Holds(t, {Hd})
    /\ pred' = [pred EXCEPT ![t] = Hd]
    /\ curr' = [curr EXCEPT ![t] = nodes[Hd].next]
    /\ Goto(t, "lockcurr")
    /\ UNCHANGED <<build, nodes, glock, op, key, res, ver, left, seen>>

Couple(t) ==
    /\ pc[t] = "couple"
    /\ IF Before(curr[t], t)
         THEN /\ Holds(t, {curr[t]})
              /\ pred' = [pred EXCEPT ![t] = curr[t]]
              /\ curr' = [curr EXCEPT ![t] = nodes[curr[t]].next]
              /\ Goto(t, "lockcurr")
              /\ UNCHANGED res
         ELSE Update(t, curr[t]) /\ UNCHANGED <<locks, pred, curr>>
    /\ UNCHANGED <<build, nodes, glock, op, key, ver, left, seen>>

\* gl_opt: with the lock of the list only the holder writes, so that its walk is one step.
LockList(t) ==
    /\ pc[t] = "start" /\ build = "gl_opt" /\ op[t] # "search"
    /\ glock % 2 = 0
    /\ glock' = 1
    /\ \E p \in Linked \ {End} :
          LET c == nodes[p].next
          IN /\ Before(p, t) /\ ~Before(c, t)
             /\ pred' = [pred EXCEPT ![t] = p]
             /\ curr' = [curr EXCEPT ![t] = c]
             /\ Update(t, c)
    /\ UNCHANGED <<build, nodes, locks, op, key, ver, left, seen>>

\* Mutant: the lock is taken if it is free, whatever has changed since the walk.
LockVersion_Any(t) ==
    /\ pc[t] = "lock" /\ build = "optik_gl"
    /\ glock % 2 = 0
    /\ glock' = glock + 1
    /\ Update(t, curr[t])
    /\ UNCHANGED <<build, nodes, locks, op, key, walkVars, left, seen>>

\* optik_gl: optik_trylock_version
LockVersion(t) ==
    /\ pc[t] = "lock" /\ build = "optik_gl"
    /\ IF ver[t] % 2 = 0 /\ glock = ver[t]
         THEN glock' = glock + 1 /\ Update(t, curr[t])
         ELSE UNCHANGED <<glock, res>> /\ Goto(t, "start")
    /\ UNCHANGED <<build, nodes, locks, op, key, walkVars, left, seen>>

-----------------------------------------------------------------------------
(* Updates *)

\* The operations in progress on the same key see that it is now in the list, or not.
RecordSeen(t) ==
    seen' = [u \in Thread |->
               IF u # t /\ key[u] = key[t] /\ Phase(u) = "pending"
                 THEN seen[u] \union {op[t] = "insert"}
               ELSE seen[u]]

Freed(n, ns) == [ns EXCEPT ![n].freed = @ + 1]

Link(t) ==
    /\ pc[t] = "link"
    /\ nodes' = Append([nodes EXCEPT ![pred[t]].next = Len(nodes) + 1], Node(key[t], curr[t]))
    /\ RecordSeen(t)
    /\ Decide(t, TRUE)
    /\ UNCHANGED <<build, locks, glock, op, key, walkVars, left>>

\* Lazy: curr->marked = 1
Mark(t) ==
    /\ pc[t] = "mark"
    /\ nodes' = [nodes EXCEPT ![curr[t]].marked = TRUE]
    /\ RecordSeen(t)
    /\ res' = [res EXCEPT ![t] = TRUE]
    /\ Goto(t, "unlink")
    /\ UNCHANGED <<build, locks, glock, op, key, walkVars, left>>

\* The lazy lists and gl_opt free the node here, the others after an unlock.
Unlink(t) ==
    /\ pc[t] = "unlink"
    /\ LET ns == [nodes EXCEPT ![pred[t]].next = nodes[curr[t]].next]
       IN nodes' = IF Lazy \/ build = "gl_opt" THEN Freed(curr[t], ns) ELSE ns
    /\ IF Lazy THEN UNCHANGED seen ELSE RecordSeen(t)
    /\ res' = [res EXCEPT ![t] = TRUE]
    /\ Goto(t, IF Pugh THEN "pointback" ELSE "unlock")
    /\ UNCHANGED <<build, locks, glock, op, key, walkVars, left>>

\* Mutant: a removed node keeps its pointer, and an insertion goes on from there.
PointBack_Not(t) ==
    /\ pc[t] = "pointback"
    /\ Goto(t, "unlock")
    /\ UNCHANGED <<build, nodes, locks, glock, op, key, res, walkVars, left, seen>>

\* Pugh: right->next = left
PointBack(t) ==
    /\ pc[t] = "pointback"
    /\ nodes' = [nodes EXCEPT ![curr[t]].next = pred[t]]
    /\ Goto(t, "unlock")
    /\ UNCHANGED <<build, locks, glock, op, key, res, walkVars, left, seen>>

\* The locks are given back, one after the other, and the operation returns or, after
\* nodes that were not valid, begins again.
Unlock(t) ==
    /\ pc[t] \in {"unlock", "giveup"} /\ ~Global
    /\ LET n == IF Cardinality(locks[t]) = 2 /\ ~(build = "coupling" /\ op[t] # "remove")
                  THEN curr[t]
                ELSE IF pred[t] \in locks[t] THEN pred[t] ELSE curr[t]
       IN /\ Holds(t, locks[t] \ {n})
          /\ nodes' = IF res[t] /\ op[t] = "remove" /\ n = curr[t] /\ ~Lazy
                        THEN Freed(n, nodes) ELSE nodes
          /\ IF locks[t] # {n} THEN UNCHANGED <<pc, walkVars>>
             ELSE /\ Goto(t, IF pc[t] = "unlock" THEN "return" ELSE "start")
                  /\ Forget(t)
    /\ UNCHANGED <<build, glock, op, key, res, left, seen>>

UnlockList(t) ==
    /\ pc[t] = "unlock" /\ Global
    /\ glock' = IF build = "gl_opt" THEN 0 ELSE glock + 1
    /\ nodes' = IF build = "optik_gl" /\ op[t] = "remove" THEN Freed(curr[t], nodes) ELSE nodes
    /\ Goto(t, "return") /\ Forget(t)
    /\ UNCHANGED <<build, locks, op, key, res, left, seen>>

-----------------------------------------------------------------------------
Step(t) ==
    \/ Start(t) \/ Walk(t) \/ Look(t) \/ Glance(t)
    \/ LockPred(t) \/ LockCurr(t) \/ Validate(t) \/ Strong(t) \/ LockHead(t) \/ Couple(t)
    \/ LockList(t) \/ LockVersion(t)
    \/ Link(t) \/ Mark(t) \/ Unlink(t) \/ PointBack(t) \/ Unlock(t) \/ UnlockList(t)
    \/ Return(t)

Next == \E t \in Thread : Invoke(t) \/ Step(t)

Spec == Init /\ [][Next]_vars

\* A thread inside an operation runs on; nobody has to invoke one.
FairSpec == Spec /\ \A t \in Thread : WF_vars(Step(t))

-----------------------------------------------------------------------------
\* The list is sorted up to KEY_MAX.
ListIsWhole ==
    /\ End \in Linked
    /\ \A n \in Linked \ {End} : nodes[n].key < nodes[nodes[n].next].key

\* A node is given back once, after it has been unlinked, by the thread that has done so.
FreedOnce ==
    \A n \in 1..Len(nodes) :
       /\ nodes[n].freed <= 1
       /\ n \in Linked => nodes[n].freed = 0
       /\ n \notin Linked /\ nodes[n].freed = 0 =>
             \E t \in Thread : curr[t] = n /\ pc[t] \in {"pointback", "unlock"}

\* Nothing is linked behind a node that has been unlinked: its pointer stays, or goes
\* back to a smaller key, so that walks that are on it miss nothing.
RemovedStayed ==
    \A n \in (1..Len(nodes)) \ Linked :
      \/ nodes'[n].next = nodes[n].next
      \/ Pugh /\ nodes'[nodes'[n].next].key < nodes[n].key
RemovedIsFrozen == [][RemovedStayed]_vars

\* The list is a linearizable set.
Abstract ==
    INSTANCE IntervalSetSpec WITH
        contents <- Contents,
        full <- FALSE,
        phase <- [t \in Thread |-> Phase(t)],
        seen <- [t \in Thread |-> IF Phase(t) = "pending" THEN seen[t] ELSE {}]
ImplementsSet == Abstract!Spec

\* Every operation returns: locks are taken in the order of the list, and an operation
\* that begins again does so because another got on.
AllReturn == \A t \in Thread : pc[t] # "idle" ~> pc[t] = "idle"

\* "optimize for step-wise strong search:: if found, return before locking!": what an
\* operation returns before it locks is so, as for a search that locks.  A removal that
\* returns 0 has had an instant at which the key was not in the list.
AnswersAreTrue ==
    \A t \in Thread :
       pc[t] = "return" /\ ~res[t] => (op[t] = "insert") \in seen[t]
=============================================================================
