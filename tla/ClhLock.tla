------------------------------- MODULE ClhLock -------------------------------
(***************************************************************************)
(* The CLH lock (src/DLTree/src/clh.c, with LOCK and UNLOCK of             *)
(* src/DLTree/include/lock_if.h): a queue in which every thread spins on   *)
(* the node before its own.  A thread that leaves takes that node for its  *)
(* next time, as the one after it may still look at its own.               *)
(***************************************************************************)
EXTENDS Naturals, Sequences, Functions

CONSTANTS
    Thread,
    First     \* the node of the lock; a thread stands for the node it begins with

ClhLockAssumption == First \notin Thread

VARIABLES
    last,      \* the node the lock points to
    locked,    \* locked[n]: the thread with node n is inside or waits
    my, pred,  \* my_qnode and my_pred
    pc,        \* control points
    line       \* history: the threads that wait, in the order of their swaps

vars == <<last, locked, my, pred, pc, line>>

Init ==
    /\ last = First
    /\ locked = [n \in Thread \union {First} |-> FALSE]
    /\ my = [t \in Thread |-> t]
    /\ pred = [t \in Thread |-> First]
    /\ pc = [t \in Thread |-> "outside"]
    /\ line = <<>>

Goto(t, l) == pc' = [pc EXCEPT ![t] = l]

\* I->locked = 1
Mark(t) ==
    /\ pc[t] = "outside"
    /\ locked' = [locked EXCEPT ![my[t]] = TRUE]
    /\ Goto(t, "swap")
    /\ UNCHANGED <<last, my, pred, line>>

\* pred = SWAP_PTR(L, I)
Swap(t) ==
    /\ pc[t] = "swap"
    /\ pred' = [pred EXCEPT ![t] = last]
    /\ last' = my[t]
    /\ Goto(t, "spin")
    /\ line' = Append(line, t)
    /\ UNCHANGED <<locked, my>>

Spin(t) ==
    /\ pc[t] = "spin"
    /\ ~locked[pred[t]]
    /\ Goto(t, "inside")
    /\ line' = Tail(line)
    /\ UNCHANGED <<last, locked, my, pred>>

\* Mutant: a thread keeps its node.
Release_KeepsNode(t) ==
    /\ pc[t] = "inside"
    /\ locked' = [locked EXCEPT ![my[t]] = FALSE]
    /\ Goto(t, "outside")
    /\ UNCHANGED <<last, my, pred, line>>

\* clh_release, and my_qnode = my_pred
Release(t) ==
    /\ pc[t] = "inside"
    /\ locked' = [locked EXCEPT ![my[t]] = FALSE]
    /\ my' = [my EXCEPT ![t] = pred[t]]
    /\ Goto(t, "outside")
    /\ UNCHANGED <<last, pred, line>>

Call(t) == Mark(t)
Step(t) == Swap(t) \/ Spin(t) \/ Release(t)

Next == \E t \in Thread : Call(t) \/ Step(t)

Spec == Init /\ [][Next]_vars

Phase(t) ==
    CASE pc[t] \in {"outside", "swap"} -> "outside"
      [] pc[t] = "spin" -> "waiting"
      [] pc[t] = "inside" -> "inside"

-----------------------------------------------------------------------------
(* The inductive invariant *)

SomeoneInside == \E t \in Thread : pc[t] = "inside"

TypeOK ==
    /\ last \in Thread \union {First}
    /\ locked \in [Thread \union {First} -> BOOLEAN]
    /\ my \in [Thread -> Thread \union {First}]
    /\ pred \in [Thread -> Thread \union {First}]
    /\ pc \in [Thread -> {"outside", "swap", "spin", "inside"}]
    /\ line \in Seq(Thread)

\* Every thread has a node of its own, which is locked while it comes, waits or is inside.
NodeInv ==
    /\ IsInjective(my)
    /\ \A t \in Thread : locked[my[t]] <=> pc[t] # "outside"

LineInv ==
    /\ \A t, u \in Thread : pc[t] = "inside" /\ pc[u] = "inside" => t = u
    /\ IsInjective(line)
    /\ Range(line) = {t \in Thread : pc[t] = "spin"}

\* The node that the first of the line looks at, or that the next one to come will
Front == IF line = <<>> THEN last ELSE pred[line[1]]

\* Each thread looks at the node of the one before it.  The node that no thread has is the
\* one that the thread inside has looked at, and else the one in front.
QueueInv ==
    /\ \A k \in DOMAIN line : k > 1 => pred[line[k]] = my[line[k - 1]]
    /\ \A t \in Thread : pc[t] = "inside" =>
         Front = my[t] /\ ~locked[pred[t]] /\ \A u \in Thread : pred[t] # my[u]
    /\ ~SomeoneInside => \A u \in Thread : Front # my[u]
    /\ line # <<>> => last = my[line[Len(line)]]

IInv == TypeOK /\ NodeInv /\ LineInv /\ QueueInv
=============================================================================
