----------------------------- MODULE PrioritySpec -----------------------------
(***************************************************************************)
(* A priority queue whose keys are its priorities, each there at most      *)
(* once, and whose deletions of the smallest key search without locks.     *)
(*                                                                         *)
(* A deletion takes a key that is in the queue, but not always the         *)
(* smallest: it passes over keys that other deletions are about to take.   *)
(* Of the smaller keys that have been there since it began it passes over  *)
(* at most as many as there are other deletions in progress.  still[t] has *)
(* the keys that have been there all the time.  Insertions are those of    *)
(* IntervalSetSpec.                                                        *)
(***************************************************************************)
EXTENDS Integers, FiniteSets

CONSTANTS Thread, Key

Ops == {"insert", "removeMin"}

VARIABLES
    contents,   \* the set of keys
    phase,      \* phase[t]: "idle", "pending" (invoked) or "done" (has its result)
    op, key,    \* the operation of each thread; the key it inserts, or has taken
    res,        \* its result, once done
    seen,       \* of an insertion: whether key[t] was there, at each instant since the call
    still       \* of a deletion: the keys that were there at all instants since the call

vars == <<contents, phase, op, key, res, seen, still>>

Init ==
    /\ contents \in SUBSET Key
    /\ phase = [t \in Thread |-> "idle"]
    /\ op \in [Thread -> Ops]
    /\ key \in [Thread -> Key]
    /\ res = [t \in Thread |-> FALSE]
    /\ seen = [t \in Thread |-> {}]
    /\ still = [t \in Thread |-> {}]

Invoke(t) ==
    /\ phase[t] = "idle"
    /\ phase' = [phase EXCEPT ![t] = "pending"]
    /\ \/ /\ op' = [op EXCEPT ![t] = "insert"]
          /\ \E k \in Key :
               /\ key' = [key EXCEPT ![t] = k]
               /\ seen' = [seen EXCEPT ![t] = {k \in contents}]
          /\ UNCHANGED still
       \/ /\ op' = [op EXCEPT ![t] = "removeMin"]
          /\ still' = [still EXCEPT ![t] = contents]
          /\ UNCHANGED <<key, seen>>
    /\ UNCHANGED <<contents, res>>

Pending(t, o) == phase[t] = "pending" /\ op[t] = o

\* Key k comes or goes, and t is done: the operations in progress see it.
Change(t, k, there) ==
    /\ key' = [key EXCEPT ![t] = k]
    /\ phase' = [phase EXCEPT ![t] = "done"]
    /\ res' = [res EXCEPT ![t] = TRUE]
    /\ seen' = [u \in Thread |->
                  IF u = t THEN {}
                  ELSE IF Pending(u, "insert") /\ key[u] = k THEN seen[u] \union {there}
                  ELSE seen[u]]
    /\ still' = [u \in Thread |->
                   IF u = t THEN {} ELSE IF there THEN still[u] ELSE still[u] \ {k}]
    /\ UNCHANGED op

Insert(t) ==
    /\ Pending(t, "insert")
    /\ key[t] \notin contents
    /\ contents' = contents \union {key[t]}
    /\ Change(t, key[t], TRUE)

\* What a deletion has passed over, others are about to take.
MayPass(t, passed) ==
    Cardinality(passed) <= Cardinality({u \in Thread \ {t} : Pending(u, "removeMin")})

RemoveMin(t) ==
    /\ Pending(t, "removeMin")
    /\ \E k \in contents :
          /\ MayPass(t, {j \in still[t] : j < k})
          /\ contents' = contents \ {k}
          /\ Change(t, k, FALSE)

\* The key is there already, or the queue is empty.
Fail(t) ==
    /\ \/ Pending(t, "insert") /\ TRUE \in seen[t]
       \/ Pending(t, "removeMin") /\ MayPass(t, still[t])
    /\ phase' = [phase EXCEPT ![t] = "done"]
    /\ seen' = [seen EXCEPT ![t] = {}]
    /\ still' = [still EXCEPT ![t] = {}]
    /\ UNCHANGED <<contents, op, key, res>>

\* The operation and its argument are forgotten, or not.
Respond(t) ==
    /\ phase[t] = "done"
    /\ phase' = [phase EXCEPT ![t] = "idle"]
    /\ \E o \in Ops, k \in Key :
          /\ op' = [op EXCEPT ![t] = o]
          /\ key' = [key EXCEPT ![t] = k]
    /\ res' = [res EXCEPT ![t] = FALSE]
    /\ UNCHANGED <<contents, seen, still>>

Next == \E t \in Thread : Invoke(t) \/ Insert(t) \/ RemoveMin(t) \/ Fail(t) \/ Respond(t)

Spec == Init /\ [][Next]_vars
=============================================================================
