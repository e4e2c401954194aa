------------------------------ MODULE MCBuffers ------------------------------
(***************************************************************************)
(* The queues, the stacks and, with the buffers of stores that x86 keeps,   *)
(* the lookup of treelets in one run: the first state chooses one.         *)
(***************************************************************************)
EXTENDS Integers, Sequences

CONSTANTS Thread, QueuePrograms, StackPrograms, QueueBuilds, StackBuilds, MaxInitial, Spots,
          LookupThreads, MaxChange, BufMax    \* of the lookup

VARIABLES which, build, nodes, head, tail, headLock, tailLock, top, lock, pushe, pope,
          pc, op, arg, res, own, hd, tl, nx, ver, left, sawEmpty, took, ts, limbo,
          mem, storeBuf, at, i, cur, gathered

I == "insert"
D == "delete"

Q == INSTANCE Queue WITH Programs <- QueuePrograms, Builds <- QueueBuilds
S == INSTANCE Stack WITH Programs <- StackPrograms, Builds <- StackBuilds

TSO == INSTANCE LayoutLockTSO WITH N <- LookupThreads, buf <- storeBuf, pc <- at

ASSUME BuffersAssumption == Q!QueueAssumption /\ S!StackAssumption /\ TSO!TSOAssumption

onlyQueue == <<head, tail, headLock, tailLock, tl, took>>
onlyStack == <<top, lock, pushe, pope>>
both == <<build, nodes, pc, op, arg, res, own, hd, nx, ver, left, sawEmpty, ts, limbo>>
lookup == <<mem, storeBuf, at, i, cur, gathered>>
vars == <<which, onlyQueue, onlyStack, both, lookup>>

-----------------------------------------------------------------------------
(* Where variables stay that what the first state has chosen does not have *)

NoQueue ==
    /\ head = 0 /\ tail = 0 /\ headLock = 0 /\ tailLock = 0
    /\ tl = [t \in Thread |-> 0] /\ took = [t \in Thread |-> <<0, 0>>]
NoStack ==
    /\ top = 0 /\ lock = 0
    /\ pushe = [s \in Spots |-> 0] /\ pope = [s \in Spots |-> 0]
NoBoth ==
    /\ build = "none" /\ nodes = <<>> /\ own = <<>> /\ hd = <<>> /\ nx = <<>> /\ ver = <<>>
    /\ pc = <<>> /\ res = <<>> /\ left = <<>>
    /\ op = [t \in Thread |-> D] /\ arg = [t \in Thread |-> <<0, 0>>]
    /\ sawEmpty = [t \in Thread |-> FALSE] /\ ts = <<>> /\ limbo = <<>>
NoLookup ==
    mem = <<>> /\ storeBuf = <<>> /\ at = <<>> /\ i = <<>> /\ cur = <<>> /\ gathered = {}

Init ==
    \/ which = "queue" /\ Q!Init /\ NoStack /\ NoLookup
    \/ which = "stack" /\ S!Init /\ NoQueue /\ NoLookup
    \/ which = "lookup" /\ TSO!Init /\ NoQueue /\ NoStack /\ NoBoth

Next ==
    /\ \/ which = "queue" /\ Q!Next /\ UNCHANGED <<onlyStack, lookup>>
       \/ which = "stack" /\ S!Next /\ UNCHANGED <<onlyQueue, lookup>>
       \/ which = "lookup" /\ TSO!Next /\ UNCHANGED <<onlyQueue, onlyStack, both>>
    /\ UNCHANGED which

\* All operations have returned; a state that is stuck otherwise is a deadlock.
AllDone ==
    /\ which # "lookup"
    /\ \A t \in Thread : left[t] = <<>> /\ pc[t] = "idle"
    /\ UNCHANGED vars

Spec == Init /\ [][Next \/ AllDone]_vars

Contents ==
    CASE which = "queue" -> Q!Contents
      [] which = "stack" -> S!Contents
      [] OTHER -> <<>>

Phase(t) ==
    CASE which = "queue" -> Q!Phase(t)
      [] which = "stack" -> S!Phase(t)
      [] OTHER -> "idle"

Result(t) ==
    CASE which = "queue" -> Q!Result(t)
      [] which = "stack" -> S!Result(t)
      [] OTHER -> <<0, 0>>

\* Every queue is a linearizable FIFO queue (Queue!ImplementsQueue) and every stack a
\* linearizable LIFO stack (Stack!ImplementsStack): queue_*_insert, queue_*_delete,
\* mstack_*_insert, mstack_*_delete.
Abstract ==
    INSTANCE BufferSpec WITH
        Value <- Nat \X Nat,
        None <- <<0, 0>>,
        lifo <- which = "stack",
        contents <- Contents,
        phase <- [t \in Thread |-> Phase(t)],
        res <- [t \in Thread |-> Result(t)],
        empty <- sawEmpty
ImplementsBuffer == Abstract!Spec

\* No deletion reads a node that has been freed and allocated again (Queue!ReadsLive).
ReadsLive == which = "queue" => Q!ReadsLive

\* LayoutLockTSO!UsesLiveTreelet, LayoutLockTSO!TreeletMutex
UsesLiveTreelet == which = "lookup" => TSO!UsesLiveTreelet
TreeletMutex == which = "lookup" => TSO!TreeletMutex

\* LayoutLockTSO!IInv
IInv == which = "lookup" => TSO!IInv

QueueProgramsMC == {<<<<I>>, <<I>>, <<D>>>>, <<<<I>>, <<D>>, <<D>>>>, <<<<D, I, D>>, <<D>>, <<>>>>,
                    <<<<I, D>>, <<I, D>>, <<>>>>}
StackProgramsMC == {<<<<I>>, <<I>>, <<D>>>>, <<<<I>>, <<D>>, <<D>>>>, <<<<D, D, I>>, <<D>>, <<>>>>,
                    <<<<I, D>>, <<I, D>>, <<>>>>}
\* The programs, named before Builds has its value.
QB == INSTANCE Queue WITH Programs <- {}, Builds <- {}
SB == INSTANCE Stack WITH Programs <- {}, Builds <- {}

LateReaders == {QB!MsLf, QB!Optik0, QB!Optik1, QB!Optik2, QB!Optik2a}
QueueBuildsMC == {QB!MsLb, QB!MsHybrid} \union LateReaders \union {QB!NoGC(b) : b \in LateReaders}
QueueBuildsGC == {QB!MsLf}
NoBuilds == {}
StackBuildsMC == {SB!Treiber, SB!Locked, SB!Optik, SB!Optik2}
=============================================================================
