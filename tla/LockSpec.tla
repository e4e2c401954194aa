------------------------------- MODULE LockSpec -------------------------------
(***************************************************************************)
(* What a lock promises: one thread is inside at a time, and, when it is   *)
(* fair (fifo), threads enter in the order in which they came.             *)
(***************************************************************************)
EXTENDS Sequences

CONSTANT Thread

VARIABLES
    fifo,    \* whether threads enter in the order in which they came
    phase,   \* phase[t]: "outside", "waiting" or "inside"
    line     \* of a fair lock: the waiting threads, in that order

vars == <<fifo, phase, line>>

Init ==
    /\ fifo \in BOOLEAN
    /\ phase = [t \in Thread |-> "outside"]
    /\ line = <<>>

NobodyInside == \A t \in Thread : phase[t] # "inside"

Arrive(t) ==
    /\ phase[t] = "outside"
    /\ phase' = [phase EXCEPT ![t] = "waiting"]
    /\ line' = IF fifo THEN Append(line, t) ELSE line

Enter(t) ==
    /\ phase[t] = "waiting"
    /\ NobodyInside
    /\ phase' = [phase EXCEPT ![t] = "inside"]
    /\ IF fifo THEN t = Head(line) /\ line' = Tail(line) ELSE UNCHANGED line

\* A thread that does not wait, and does not overtake those that do.
TryEnter(t) ==
    /\ phase[t] = "outside"
    /\ NobodyInside
    /\ fifo => line = <<>>
    /\ phase' = [phase EXCEPT ![t] = "inside"]
    /\ UNCHANGED line

Leave(t) ==
    /\ phase[t] = "inside"
    /\ phase' = [phase EXCEPT ![t] = "outside"]
    /\ UNCHANGED line

Next ==
    /\ \E t \in Thread : Arrive(t) \/ Enter(t) \/ TryEnter(t) \/ Leave(t)
    /\ UNCHANGED fifo

Spec == Init /\ [][Next]_vars
=============================================================================
