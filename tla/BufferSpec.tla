------------------------------ MODULE BufferSpec ------------------------------
(***************************************************************************)
(* A linearizable queue or stack: what the concurrent queues and stacks    *)
(* promise to the threads that call insert and delete on them.             *)
(*                                                                         *)
(* An insertion, and a deletion that returns an element, take effect where *)
(* they change the contents.  A deletion that finds nothing takes effect   *)
(* at any instant of its interval at which the buffer was empty: empty[t]  *)
(* says whether there was one.  On a stack an insertion and a deletion may *)
(* also take effect together, the one right after the other, and leave the *)
(* contents as they are.                                                   *)
(***************************************************************************)
EXTENDS Sequences

CONSTANTS Thread, Value, None

VARIABLES
    lifo,       \* whether the buffer is a stack
    contents,   \* its elements, the one to be deleted next first
    phase,      \* phase[t]: "idle", "pending" (invoked) or "done" (has its result)
    op, arg,    \* the operation of each thread and its argument
    res,        \* its result, once done
    empty       \* empty[t]: the buffer was empty since the call of the pending t

vars == <<lifo, contents, phase, op, arg, res, empty>>

Init ==
    /\ lifo \in BOOLEAN
    /\ contents \in Seq(Value)
    /\ phase = [t \in Thread |-> "idle"]
    /\ op \in [Thread -> {"insert", "delete"}]
    /\ arg \in [Thread -> Value \union {None}]
    /\ res = [t \in Thread |-> None]
    /\ empty = [t \in Thread |-> FALSE]

Invoke(t) ==
    /\ phase[t] = "idle"
    /\ phase' = [phase EXCEPT ![t] = "pending"]
    /\ \E o \in {"insert", "delete"} : op' = [op EXCEPT ![t] = o]
    /\ arg'[t] \in Value \union {None}
    /\ arg' = [arg EXCEPT ![t] = arg'[t]]
    /\ UNCHANGED <<contents, res>>

Insert(t) ==
    /\ phase[t] = "pending" /\ op[t] = "insert"
    /\ phase' = [phase EXCEPT ![t] = "done"]
    /\ contents' = IF lifo THEN <<arg[t]>> \o contents ELSE Append(contents, arg[t])
    /\ UNCHANGED <<op, arg, res>>

Delete(t) ==
    /\ phase[t] = "pending" /\ op[t] = "delete"
    /\ contents # <<>>
    /\ phase' = [phase EXCEPT ![t] = "done"]
    /\ res' = [res EXCEPT ![t] = Head(contents)]
    /\ contents' = Tail(contents)
    /\ UNCHANGED <<op, arg>>

FindEmpty(t) ==
    /\ phase[t] = "pending" /\ op[t] = "delete"
    /\ empty[t]
    /\ phase' = [phase EXCEPT ![t] = "done"]
    /\ UNCHANGED <<contents, op, arg, res>>

\* An insertion by t and, right after it, a deletion by u.
Exchange(t, u) ==
    /\ lifo
    /\ phase[t] = "pending" /\ op[t] = "insert"
    /\ phase[u] = "pending" /\ op[u] = "delete"
    /\ phase' = [phase EXCEPT ![t] = "done", ![u] = "done"]
    /\ res' = [res EXCEPT ![u] = arg[t]]
    /\ UNCHANGED <<contents, op, arg>>

Respond(t) ==
    /\ phase[t] = "done"
    /\ phase' = [phase EXCEPT ![t] = "idle"]
    /\ res' = [res EXCEPT ![t] = None]
    /\ UNCHANGED <<contents, op, arg>>

Next ==
    /\ \E t \in Thread :
          \/ Invoke(t) \/ Insert(t) \/ Delete(t) \/ FindEmpty(t) \/ Respond(t)
          \/ \E u \in Thread : Exchange(t, u)
    /\ empty' = [t \in Thread |->
                   /\ phase'[t] = "pending" /\ op'[t] = "delete"
                   /\ contents' = <<>> \/ (phase[t] = "pending" /\ empty[t])]
    /\ UNCHANGED lifo

Spec == Init /\ [][Next]_vars
=============================================================================
