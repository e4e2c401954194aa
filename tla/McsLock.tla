------------------------------- MODULE McsLock -------------------------------
(***************************************************************************)
(* The MCS lock (src/DLTree/include/mcs.h): a queue of the threads' local  *)
(* nodes; the lock points to the last one, and every thread spins on its   *)
(* own.  A thread has one local node for all locks, so it holds at most    *)
(* one at a time.                                                          *)
(***************************************************************************)
EXTENDS Naturals, Sequences, Functions

CONSTANTS
    Thread,
    Null      \* no node; a thread stands for its node

McsLockAssumption == Null \notin Thread

VARIABLES
    last,      \* lock->next: the last node of the queue
    next,      \* next[t]: the node after that of t
    waiting,   \* waiting[t]: t has to wait
    pred,      \* the node before the own one
    pc,        \* control points
    line       \* history: the threads that wait, in the order of their swaps

vars == <<last, next, waiting, pred, pc, line>>

Init ==
    /\ last = Null
    /\ next = [t \in Thread |-> Null]
    /\ waiting = [t \in Thread |-> FALSE]
    /\ pred = [t \in Thread |-> Null]
    /\ pc = [t \in Thread |-> "outside"]
    /\ line = <<>>

Goto(t, l) == pc' = [pc EXCEPT ![t] = l]

-----------------------------------------------------------------------------
(* mcs_lock_lock and mcs_lock_trylock *)

\* local->next = NULL, which no other thread sees, and the swap.
Swap(t) ==
    /\ pc[t] = "outside"
    /\ next' = [next EXCEPT ![t] = Null]
    /\ pred' = [pred EXCEPT ![t] = last]
    /\ last' = t
    /\ IF last = Null THEN Goto(t, "inside") /\ UNCHANGED line
                      ELSE Goto(t, "arm") /\ line' = Append(line, t)
    /\ UNCHANGED waiting

\* A trylock that finds the lock free.
TryLock(t) ==
    /\ pc[t] = "outside"
    /\ last = Null /\ last' = t
    /\ next' = [next EXCEPT ![t] = Null]
    /\ Goto(t, "inside")
    /\ UNCHANGED <<waiting, pred, line>>

\* Mutant: the flag is not set.
Arm_Not(t) ==
    /\ pc[t] = "arm"
    /\ Goto(t, "link")
    /\ UNCHANGED <<last, next, waiting, pred, line>>

\* local->waiting = 1
Arm(t) ==
    /\ pc[t] = "arm"
    /\ waiting' = [waiting EXCEPT ![t] = TRUE]
    /\ Goto(t, "link")
    /\ UNCHANGED <<last, next, pred, line>>

\* pred->next = local
Link(t) ==
    /\ pc[t] = "link"
    /\ next' = [next EXCEPT ![pred[t]] = t]
    /\ Goto(t, "spin")
    /\ UNCHANGED <<last, waiting, pred, line>>

Spin(t) ==
    /\ pc[t] = "spin"
    /\ ~waiting[t]
    /\ pred' = [pred EXCEPT ![t] = Null]
    /\ Goto(t, "inside")
    /\ line' = Tail(line)
    /\ UNCHANGED <<last, next, waiting>>

-----------------------------------------------------------------------------
(* mcs_lock_unlock *)

\* succ = local->next
Release(t) ==
    /\ pc[t] = "inside"
    /\ Goto(t, IF next[t] = Null THEN "close" ELSE "pass")
    /\ UNCHANGED <<last, next, waiting, pred, line>>

\* Mutant: the lock is closed without looking whether somebody has come.
Close_Store(t) ==
    /\ pc[t] = "close"
    /\ last' = Null
    /\ Goto(t, "outside")
    /\ UNCHANGED <<next, waiting, pred, line>>

\* The CAS that makes the lock free if nobody has come; else somebody is about to link.
Close(t) ==
    /\ pc[t] = "close"
    /\ IF last = t THEN last' = Null /\ Goto(t, "outside")
                   ELSE UNCHANGED last /\ Goto(t, "await")
    /\ UNCHANGED <<next, waiting, pred, line>>

Await(t) ==
    /\ pc[t] = "await"
    /\ next[t] # Null
    /\ Goto(t, "pass")
    /\ UNCHANGED <<last, next, waiting, pred, line>>

\* succ->waiting = 0
Pass(t) ==
    /\ pc[t] = "pass"
    /\ waiting' = [waiting EXCEPT ![next[t]] = FALSE]
    /\ Goto(t, "outside")
    /\ UNCHANGED <<last, next, pred, line>>

-----------------------------------------------------------------------------
Call(t) == Swap(t) \/ TryLock(t)
Step(t) ==
    Arm(t) \/ Link(t) \/ Spin(t) \/ Release(t) \/ Close(t) \/ Await(t) \/ Pass(t)

Next == \E t \in Thread : Call(t) \/ Step(t)

Spec == Init /\ [][Next]_vars

Phase(t) ==
    CASE pc[t] = "outside" -> "outside"
      [] pc[t] \in {"arm", "link", "spin"} -> "waiting"
      [] OTHER -> "inside"

-----------------------------------------------------------------------------
(* The inductive invariant *)

Waits(t) == pc[t] \in {"arm", "link", "spin"}
Holds(t) == pc[t] \in {"inside", "close", "await", "pass"}
SomeoneHolds == \E t \in Thread : Holds(t)

TypeOK ==
    /\ last \in Thread \union {Null}
    /\ next \in [Thread -> Thread \union {Null}]
    /\ waiting \in [Thread -> BOOLEAN]
    /\ pred \in [Thread -> Thread \union {Null}]
    /\ pc \in [Thread -> {"outside", "arm", "link", "spin", "inside", "close", "await", "pass"}]
    /\ line \in Seq(Thread)

LineInv ==
    /\ \A t, u \in Thread : Holds(t) /\ Holds(u) => t = u
    /\ IsInjective(line)
    /\ Range(line) = {t \in Thread : Waits(t)}

\* Thread u is the next in the queue after t, which leads to it once u has linked itself;
\* u has its flag up from before that until t takes it down.
Follows(t, u) ==
    /\ pred[u] = t
    /\ next[t] = IF pc[u] = "spin" THEN u ELSE Null
    /\ pc[u] # "arm" => waiting[u]

\* The queue is the thread that has the lock and the line; when the former has passed the
\* lock on, the first of the line is the one whose flag is down.
QueueInv ==
    /\ \A k \in DOMAIN line : k > 1 => Follows(line[k - 1], line[k])
    /\ \A t \in Thread : Holds(t) => IF line = <<>> THEN next[t] = Null ELSE Follows(t, line[1])
    /\ line # <<>> => next[line[Len(line)]] = Null
    /\ line # <<>> /\ ~SomeoneHolds => pc[line[1]] = "spin" /\ ~waiting[line[1]]
    /\ \A t \in Thread : /\ pc[t] = "await" => line # <<>>
                         /\ pc[t] = "pass" => next[t] # Null

LastInv ==
    IF line # <<>> THEN last = line[Len(line)]
    ELSE IF SomeoneHolds THEN \A t \in Thread : Holds(t) => last = t
    ELSE last = Null

IInv == TypeOK /\ LineInv /\ QueueInv /\ LastInv
=============================================================================
