--------------------------- MODULE IntervalSetSpec ---------------------------
(***************************************************************************)
(* A linearizable set of keys, stated for structures whose read-only       *)
(* operations (searches, and insertions and removals that fail) walk over  *)
(* unlinked nodes and so take effect at an instant that only later steps   *)
(* of others determine.                                                    *)
(*                                                                         *)
(* An operation on one key that changes nothing takes effect at any        *)
(* instant of its interval at which the key was, or was not, in the set,   *)
(* as its result says.  seen[t] has the answers those instants give.  An   *)
(* operation that changes the set takes effect where it changes it, as in  *)
(* SetSpec.                                                                *)
(***************************************************************************)
CONSTANTS Thread, Key

Ops == {"search", "insert", "remove"}

VARIABLES
    contents,   \* the set of keys
    phase,      \* phase[t]: "idle", "pending" (invoked) or "done" (has its result)
    op, key,    \* the operation of each thread and its argument
    res,        \* its result, once done
    seen,       \* seen[t]: whether key[t] was in the set, at each instant since the call
    full        \* there is no room for another key: the structure says when

vars == <<contents, phase, op, key, res, seen, full>>

TypeOK ==
    /\ contents \subseteq Key
    /\ phase \in [Thread -> {"idle", "pending", "done"}]
    /\ op \in [Thread -> Ops]
    /\ key \in [Thread -> Key]
    /\ res \in [Thread -> BOOLEAN]
    /\ seen \in [Thread -> SUBSET BOOLEAN]
    /\ full \in BOOLEAN

Init ==
    /\ contents \in SUBSET Key
    /\ phase = [t \in Thread |-> "idle"]
    /\ op \in [Thread -> Ops]
    /\ key \in [Thread -> Key]
    /\ res = [t \in Thread |-> FALSE]
    /\ seen = [t \in Thread |-> {}]
    /\ full \in BOOLEAN

Invoke(t) ==
    /\ phase[t] = "idle"
    /\ phase' = [phase EXCEPT ![t] = "pending"]
    /\ \E o \in Ops, k \in Key :
          /\ op' = [op EXCEPT ![t] = o]
          /\ key' = [key EXCEPT ![t] = k]
          /\ seen' = [seen EXCEPT ![t] = {k \in contents}]
    /\ UNCHANGED <<contents, res>>

\* An insertion or a removal that changes the set, or several of different keys at one
\* instant, which might as well follow one another; the pending operations on the same
\* keys see the change.
Update(T) ==
    /\ \A t \in T : phase[t] = "pending" /\ op[t] # "search"
    /\ \A t, u \in T : t # u => key[t] # key[u]
    /\ LET inserted == {key[t] : t \in {u \in T : op[u] = "insert"}}
           removed == {key[t] : t \in {u \in T : op[u] = "remove"}}
           now == contents
       IN /\ inserted \intersect now = {} /\ removed \subseteq now
          /\ contents' = (now \ removed) \union inserted
    /\ phase' = [t \in Thread |-> IF t \in T THEN "done" ELSE phase[t]]
    /\ res' = [t \in Thread |-> IF t \in T THEN TRUE ELSE res[t]]
    /\ seen' = [u \in Thread |->
                  IF u \in T THEN {}
                  ELSE IF phase[u] = "pending" /\ \E t \in T : key[t] = key[u]
                    THEN seen[u] \union {\E t \in T : key[t] = key[u] /\ op[t] = "insert"}
                  ELSE seen[u]]
    /\ UNCHANGED <<op, key>>

\* A search, or an insertion or removal that fails: the key was there, or was not,
\* at some instant of the operation.
Observe(t) ==
    /\ phase[t] = "pending"
    /\ \E present \in seen[t] :
          /\ CASE op[t] = "search" -> TRUE
               [] op[t] = "insert" -> present
               [] op[t] = "remove" -> ~present
          /\ res' = [res EXCEPT ![t] = op[t] = "search" /\ present]
    /\ phase' = [phase EXCEPT ![t] = "done"]
    /\ seen' = [seen EXCEPT ![t] = {}]
    /\ UNCHANGED <<contents, op, key>>

\* An insertion for which there is no room.
Refuse(t) ==
    /\ phase[t] = "pending" /\ op[t] = "insert"
    /\ full
    /\ phase' = [phase EXCEPT ![t] = "done"]
    /\ seen' = [seen EXCEPT ![t] = {}]
    /\ UNCHANGED <<contents, op, key, res>>

\* The operation and its argument are forgotten, or not.
Respond(t) ==
    /\ phase[t] = "done"
    /\ phase' = [phase EXCEPT ![t] = "idle"]
    /\ \E o \in Ops, k \in Key :
          /\ op' = [op EXCEPT ![t] = o]
          /\ key' = [key EXCEPT ![t] = k]
    /\ res' = [res EXCEPT ![t] = FALSE]
    /\ UNCHANGED <<contents, seen>>

Next ==
    /\ \/ \E T \in SUBSET Thread \ {{}} : Update(T)
       \/ \E t \in Thread : Invoke(t) \/ Observe(t) \/ Refuse(t) \/ Respond(t)
    /\ full' \in BOOLEAN

Spec == Init /\ [][Next]_vars
=============================================================================
