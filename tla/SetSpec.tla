------------------------------- MODULE SetSpec -------------------------------
(***************************************************************************)
(* What the search structures of this repository promise: a set of keys    *)
(* with linearizable search, insert and remove.  A thread invokes an       *)
(* operation, the operation takes effect at one instant, and its response  *)
(* reports what it found at that instant.                                  *)
(***************************************************************************)
CONSTANTS Thread, Key

Ops == {"search", "insert", "remove"}

VARIABLES
    contents,   \* the set of keys
    phase,      \* phase[t]: "idle", "pending" (invoked) or "done" (has taken effect)
    op, key,    \* the operation of each thread and its argument
    res         \* its result, once done

vars == <<contents, phase, op, key, res>>

TypeOK ==
    /\ contents \subseteq Key
    /\ phase \in [Thread -> {"idle", "pending", "done"}]
    /\ op \in [Thread -> Ops]
    /\ key \in [Thread -> Key]
    /\ res \in [Thread -> BOOLEAN]

Init ==
    /\ contents = {}
    /\ phase = [t \in Thread |-> "idle"]
    /\ op \in [Thread -> Ops]
    /\ key \in [Thread -> Key]
    /\ res = [t \in Thread |-> FALSE]

Invoke(t) ==
    /\ phase[t] = "idle"
    /\ phase' = [phase EXCEPT ![t] = "pending"]
    /\ \E o \in Ops, k \in Key :
          /\ op' = [op EXCEPT ![t] = o]
          /\ key' = [key EXCEPT ![t] = k]
    /\ UNCHANGED <<contents, res>>

\* The linearization point.
TakeEffect(t) ==
    /\ phase[t] = "pending"
    /\ phase' = [phase EXCEPT ![t] = "done"]
    /\ CASE op[t] = "search" ->
              /\ res' = [res EXCEPT ![t] = key[t] \in contents]
              /\ UNCHANGED contents
         [] op[t] = "insert" ->
              /\ res' = [res EXCEPT ![t] = key[t] \notin contents]
              /\ contents' = contents \union {key[t]}
         [] op[t] = "remove" ->
              /\ res' = [res EXCEPT ![t] = key[t] \in contents]
              /\ contents' = contents \ {key[t]}
    /\ UNCHANGED <<op, key>>

Respond(t) ==
    /\ phase[t] = "done"
    /\ phase' = [phase EXCEPT ![t] = "idle"]
    /\ res' = [res EXCEPT ![t] = FALSE]
    /\ UNCHANGED <<contents, op, key>>

Next == \E t \in Thread : Invoke(t) \/ TakeEffect(t) \/ Respond(t)

Spec == Init /\ [][Next]_vars
=============================================================================
