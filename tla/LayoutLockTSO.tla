--------------------------- MODULE LayoutLockTSO ---------------------------
(***************************************************************************)
(* The layout lock and the hand-over of treelets on the memory model the   *)
(* program is built for: x86, where each thread's plain stores wait in a   *)
(* FIFO store buffer, its loads may overtake them, and a fence or a locked *)
(* instruction waits until the buffer is empty.  The code says where these *)
(* are (__sync_synchronize, __sync_bool_compare_and_swap,                  *)
(* __sync_lock_test_and_set) and no test would notice one that is missing. *)
(*                                                                         *)
(* A thread either looks up a treelet, as layoutTree::getTreelet does and  *)
(* every operation after it (find it, acquire it, ask finishRead whether   *)
(* it may be used, use it, release it), or changes the layout as           *)
(* enlarge_tree and consolidateRoot do (take the layout lock, acquire the  *)
(* treelet, put another in its place, release it, unlock).                 *)
(***************************************************************************)
EXTENDS Naturals, Sequences

CONSTANTS
    N,           \* number of threads, and of slots
    MaxChange,   \* bound: layout changes in a behaviour
    BufMax       \* bound: stores a buffer holds; a store waits for room

TSOAssumption == {N, MaxChange, BufMax} \subseteq Nat \ {0}

Threads  == 1..N
Treelet == 1..(MaxChange + 1)    \* treelets, numbered as they are published

\* The shared words: state_[s], dirty_[s], the lock of each treelet, head.
Loc == ({"state", "dirty"} \X Threads) \union ({"lock"} \X Treelet) \union {<<"head", 1>>}

VARIABLES
    mem,        \* the shared memory
    buf,        \* buf[t]: the stores of t not in memory yet, oldest first
    pc,         \* control points
    i,          \* loop index over the slots
    cur,        \* cur[t]: the treelet thread t has found
    gathered    \* history: the treelets a layout change has emptied

vars == <<mem, buf, pc, i, cur, gathered>>

Init ==
    /\ mem = [l \in Loc |-> IF l[1] = "head" THEN 1 ELSE 0]
    /\ buf = [t \in Threads |-> <<>>]
    /\ pc = [t \in Threads |-> "idle"]
    /\ i = [t \in Threads |-> 1]
    /\ cur = [t \in Threads |-> 1]
    /\ gathered = {}

-----------------------------------------------------------------------------
(* The memory: what a load sees, a plain store, a locked store, a fence. *)

Pending(t, l) == {k \in 1..Len(buf[t]) : buf[t][k][1] = l}

\* A load is answered from the thread's own buffer first.
Load(t, l) ==
    IF Pending(t, l) = {} THEN mem[l]
    ELSE buf[t][CHOOSE k \in Pending(t, l) : \A j \in Pending(t, l) : j <= k][2]

Store(t, l, v) ==
    /\ Len(buf[t]) < BufMax
    /\ buf' = [buf EXCEPT ![t] = Append(@, <<l, v>>)]
    /\ UNCHANGED mem

Fence(t) == buf[t] = <<>>

\* A compare-and-swap from old to new that succeeds.
CAS(t, l, old, new) ==
    /\ Fence(t)
    /\ mem[l] = old
    /\ mem' = [mem EXCEPT ![l] = new]
    /\ UNCHANGED buf

\* The oldest store of a buffer reaches memory.
Drain(t) ==
    /\ buf[t] # <<>>
    /\ mem' = [mem EXCEPT ![Head(buf[t])[1]] = Head(buf[t])[2]]
    /\ buf' = [buf EXCEPT ![t] = Tail(@)]
    /\ UNCHANGED <<pc, i, cur, gathered>>

Goto(t, l) == pc' = [pc EXCEPT ![t] = l]

\* The next step of a loop over the slots.
Loop(t, done) ==
    IF i[t] = N
      THEN Goto(t, done) /\ i' = [i EXCEPT ![t] = 1]
      ELSE i' = [i EXCEPT ![t] = @ + 1] /\ UNCHANGED pc

isWriterActive(t) == Load(t, <<"state", t>>) = 1

-----------------------------------------------------------------------------
(* getTreelet, and the operation on the treelet it returns *)

StartLookup(t) ==
    /\ pc[t] = "idle"
    /\ Goto(t, "find")
    /\ UNCHANGED <<mem, buf, i, cur, gathered>>

Find(t) ==
    /\ pc[t] = "find"
    /\ cur' = [cur EXCEPT ![t] = Load(t, <<"head", 1>>)]
    /\ Goto(t, "acquire")
    /\ UNCHANGED <<mem, buf, i, gathered>>

\* Mutant: the lock is taken by a plain load and a plain store.
Acquire_Plain(t) ==
    /\ pc[t] = "acquire"
    /\ Load(t, <<"lock", cur[t]>>) = 0
    /\ Store(t, <<"lock", cur[t]>>, 1)
    /\ Goto(t, "check")
    /\ UNCHANGED <<i, cur, gathered>>

\* tatas_acquire: the exchange that finds the lock free.
Acquire(t) ==
    /\ pc[t] = "acquire"
    /\ CAS(t, <<"lock", cur[t]>>, 0, 1)
    /\ Goto(t, "check")
    /\ UNCHANGED <<i, cur, gathered>>

\* finishRead's load of the flag, with the treelet's lock held.
Check(t) ==
    /\ pc[t] = "check"
    /\ Goto(t, IF Load(t, <<"dirty", t>>) = 0 THEN "using" ELSE "reset")
    /\ UNCHANGED <<mem, buf, i, cur, gathered>>

ResetTest(t) ==
    /\ pc[t] = "reset"
    /\ Goto(t, IF isWriterActive(t) THEN "refused" ELSE "clear")
    /\ UNCHANGED <<mem, buf, i, cur, gathered>>

ResetClear(t) ==
    /\ pc[t] = "clear"
    /\ Store(t, <<"dirty", t>>, 0)
    /\ Goto(t, "recheck")
    /\ UNCHANGED <<i, cur, gathered>>

\* Mutant: no fence between clearing the flag and the second test.
ResetRecheck_Unfenced(t) ==
    /\ pc[t] = "recheck"
    /\ Goto(t, IF isWriterActive(t) THEN "redirty" ELSE "refused")
    /\ UNCHANGED <<mem, buf, i, cur, gathered>>

ResetRecheck(t) ==
    /\ pc[t] = "recheck"
    /\ Fence(t)
    /\ Goto(t, IF isWriterActive(t) THEN "redirty" ELSE "refused")
    /\ UNCHANGED <<mem, buf, i, cur, gathered>>

ResetSet(t) ==
    /\ pc[t] = "redirty"
    /\ Store(t, <<"dirty", t>>, 1)
    /\ Goto(t, "refused")
    /\ UNCHANGED <<i, cur, gathered>>

\* tatas_release is a plain store; then getTreelet starts over.
Refused(t) ==
    /\ pc[t] = "refused"
    /\ Store(t, <<"lock", cur[t]>>, 0)
    /\ Goto(t, "find")
    /\ UNCHANGED <<i, cur, gathered>>

FinishUsing(t) ==
    /\ pc[t] = "using"
    /\ Store(t, <<"lock", cur[t]>>, 0)
    /\ Goto(t, "idle")
    /\ UNCHANGED <<i, cur, gathered>>

-----------------------------------------------------------------------------
(* enlarge_tree *)

StartLayoutChange(t) ==
    /\ pc[t] = "idle"
    /\ Goto(t, "wlock")
    /\ UNCHANGED <<mem, buf, i, cur, gathered>>

WriteLockSlot(t) ==
    /\ pc[t] = "wlock"
    /\ CAS(t, <<"state", i[t]>>, 0, 1)
    /\ Loop(t, "dirtying")
    /\ UNCHANGED <<cur, gathered>>

SetDirty(t) ==
    /\ pc[t] = "dirtying"
    /\ Store(t, <<"dirty", i[t]>>, 1)
    /\ Loop(t, "fence")
    /\ UNCHANGED <<cur, gathered>>

\* The fence that ends startLayoutChange.
FenceChange(t) ==
    /\ pc[t] = "fence"
    /\ Fence(t)
    /\ Goto(t, "root")
    /\ UNCHANGED <<mem, buf, i, cur, gathered>>

\* The load of head; the last change of a run finds nothing to do.
LoadRoot(t) ==
    /\ pc[t] = "root"
    /\ cur' = [cur EXCEPT ![t] = Load(t, <<"head", 1>>)]
    /\ Goto(t, IF cur'[t] <= MaxChange THEN "gather" ELSE "wunlock")
    /\ UNCHANGED <<mem, buf, i, gathered>>

\* consolidateRoot acquires the treelet and takes its items.
Gather(t) ==
    /\ pc[t] = "gather"
    /\ CAS(t, <<"lock", cur[t]>>, 0, 1)
    /\ gathered' = gathered \union {cur[t]}
    /\ Goto(t, "publish")
    /\ UNCHANGED <<i, cur>>

Publish(t) ==
    /\ pc[t] = "publish"
    /\ Store(t, <<"head", 1>>, cur[t] + 1)
    /\ Goto(t, "free")
    /\ UNCHANGED <<i, cur, gathered>>

Free(t) ==
    /\ pc[t] = "free"
    /\ Store(t, <<"lock", cur[t]>>, 0)
    /\ Goto(t, "wunlock")
    /\ UNCHANGED <<i, cur, gathered>>

\* The plain stores of write_unlock.
WriteUnlockSlot(t) ==
    /\ pc[t] = "wunlock"
    /\ Store(t, <<"state", i[t]>>, 0)
    /\ Loop(t, "idle")
    /\ UNCHANGED <<cur, gathered>>

-----------------------------------------------------------------------------
Lookup(t) ==
    \/ Find(t) \/ Acquire(t) \/ Check(t)
    \/ ResetTest(t) \/ ResetClear(t) \/ ResetRecheck(t) \/ ResetSet(t)
    \/ Refused(t) \/ FinishUsing(t)

Change(t) ==
    \/ WriteLockSlot(t) \/ SetDirty(t) \/ FenceChange(t) \/ LoadRoot(t)
    \/ Gather(t) \/ Publish(t) \/ Free(t) \/ WriteUnlockSlot(t)

Step(t) == Lookup(t) \/ Change(t)

Next ==
    \E t \in Threads : StartLookup(t) \/ StartLayoutChange(t) \/ Step(t) \/ Drain(t)

Spec == Init /\ [][Next]_vars

-----------------------------------------------------------------------------
\* A thread that finishRead let through works on a treelet that no layout change
\* has emptied: dirty marks, fences and treelet locks together leave no gap in
\* which getTreelet returns a treelet that is no longer part of the tree.
UsesLiveTreelet == \A t \in Threads : pc[t] = "using" => cur[t] \notin gathered

\* Two threads never use one treelet, and none while it is being gathered.
TreeletMutex ==
    \A t, u \in Threads :
        t # u /\ {pc[t], pc[u]} \subseteq {"using", "publish"} => cur[t] # cur[u]

-----------------------------------------------------------------------------
(* The inductive invariant behind the two: what the buffers can hold, who  *)
(* has which lock as long as its release is not in memory, and what the    *)
(* dirty marks and head tell of a change that is under way.                *)

PCs == {"idle", "find", "acquire", "check", "using", "reset", "clear", "recheck", "redirty",
        "refused", "wlock", "dirtying", "fence", "root", "gather", "publish", "free", "wunlock"}

TypeOK ==
    /\ mem \in [Loc -> Nat] /\ mem[<<"head", 1>>] \in Treelet
    /\ buf \in [Threads -> Seq(Loc \X Nat)]
    /\ pc \in [Threads -> PCs]
    /\ i \in [Threads -> Threads]
    /\ cur \in [Threads -> Treelet]
    /\ gathered \subseteq Treelet

\* Only the three loops use an index; between them it is at the first slot.
IndexInv == \A t \in Threads : pc[t] \notin {"wlock", "dirtying", "wunlock"} => i[t] = 1

\* Thread t has stored v to l, and memory does not have it yet.
Waits(t, l, v) == \E k \in 1..Len(buf[t]) : buf[t][k] = <<l, v>>

\* What t stores last: releases, which it does not wait for.
Leaving(t) == pc[t] \in {"idle", "find", "acquire", "wunlock"} \/ (pc[t] = "wlock" /\ i[t] = 1)

\* The stores that a buffer can hold, by where its thread is.
MayHold(t, e) ==
    \/ \E x \in Treelet : e = <<<<"lock", x>>, 0>> /\ Leaving(t)
    \/ \E s \in Threads : /\ e = <<<<"state", s>>, 0>> /\ Leaving(t)
                          /\ pc[t] = "wunlock" => s < i[t]
    \/ /\ e = <<<<"head", 1>>, mem[<<"head", 1>>] + 1>>
       /\ mem[<<"head", 1>>] <= MaxChange
       /\ Leaving(t) \/ pc[t] = "free"
    \/ e = <<<<"dirty", t>>, 0>> /\ pc[t] = "recheck"
    \/ e = <<<<"dirty", t>>, 1>> /\ pc[t] \in {"refused", "find", "acquire"}
    \/ \E s \in Threads : /\ e = <<<<"dirty", s>>, 1>>
                          /\ pc[t] = "fence" \/ (pc[t] = "dirtying" /\ s < i[t])

\* No location is stored to twice, and head before all others.
OrderOf(t) ==
    /\ \A j, k \in 1..Len(buf[t]) : buf[t][j][1] = buf[t][k][1] => j = k
    /\ \A k \in 1..Len(buf[t]) : buf[t][k][1] = <<"head", 1>> => k = 1

BufferInv == \A t \in Threads : OrderOf(t) /\ \A k \in 1..Len(buf[t]) : MayHold(t, buf[t][k])

\* Thread t has the lock of treelet x, or has it for all the others, who do not see its
\* release yet; likewise the slot s.
InTreelet(t) == pc[t] \in {"check", "using", "reset", "clear", "recheck", "redirty", "refused",
                           "publish", "free"}
HasTreelet(t, x) == (InTreelet(t) /\ cur[t] = x) \/ Waits(t, <<"lock", x>>, 0)

InChange(t) == pc[t] \in {"dirtying", "fence", "root", "gather", "publish", "free"}
HasSlot(t, s) ==
    \/ InChange(t)
    \/ pc[t] = "wlock" /\ s < i[t]
    \/ pc[t] = "wunlock" /\ i[t] <= s
    \/ Waits(t, <<"state", s>>, 0)

LockInv ==
    /\ \A t, u \in Threads, x \in Treelet : HasTreelet(t, x) /\ HasTreelet(u, x) => t = u
    /\ \A t \in Threads, x \in Treelet : HasTreelet(t, x) => mem[<<"lock", x>>] = 1
    /\ \A t, u \in Threads, s \in Threads : HasSlot(t, s) /\ HasSlot(u, s) => t = u
    /\ \A t, s \in Threads : HasSlot(t, s) => mem[<<"state", s>>] = 1

\* Thread t changes the layout for the others: every flag is set, and the new head is not in
\* memory.  Until it is, none of the slots is free.
Publishes(t) == \E k \in 1..Len(buf[t]) : buf[t][k][1] = <<"head", 1>>
Changes(t) == pc[t] \in {"root", "gather", "publish", "free"} \/ Publishes(t)

HeadInv ==
    /\ \A t \in Threads : Publishes(t) => \A s \in Threads : HasSlot(t, s)
    /\ \A t \in Threads : pc[t] \in {"gather", "publish"} =>
           cur[t] = mem[<<"head", 1>>] /\ cur[t] <= MaxChange
    /\ \A x \in gathered :
           \/ x < mem[<<"head", 1>>]
           \/ x = mem[<<"head", 1>>] /\ \E t \in Threads : pc[t] = "publish" \/ Publishes(t)

\* Thread s sees that it is marked, or clears its mark in vain: it will look at its slot
\* again, or is about to mark itself.
Marked(s) == mem[<<"dirty", s>>] = 1 \/ Waits(s, <<"dirty", s>>, 1)
SeesChange(s) == pc[s] \in {"recheck", "redirty"} \/ Marked(s)

MarkInv ==
    /\ \A t, s \in Threads :
           Changes(t) \/ pc[t] = "fence" \/ (pc[t] = "dirtying" /\ s < i[t]) =>
               SeesChange(s) \/ Waits(t, <<"dirty", s>>, 1)
    /\ \A t \in Threads : pc[t] \in {"acquire", "check"} /\ cur[t] \in gathered => Marked(t)

IInv ==
    /\ TypeOK /\ IndexInv /\ BufferInv /\ LockInv /\ HeadInv /\ MarkInv
    /\ UsesLiveTreelet /\ TreeletMutex
=============================================================================
