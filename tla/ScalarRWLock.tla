---------------------------- MODULE ScalarRWLock ----------------------------
(***************************************************************************)
(* The scalar readers-writer locks of src/DLTree/src/bst-cohen/llock.h: a  *)
(* count of the readers that a writer sets to -1 (ScalarRPRWLockImpl_),    *)
(* and a count of the waiting writers that keeps new readers out           *)
(* (ScalarWPRWLockImpl_, which calls the former for everything else).      *)
(***************************************************************************)
EXTENDS Integers, FiniteSets

CONSTANT Thread

ThreadAssumption == IsFiniteSet(Thread)

VARIABLES
    readerCount,          \* the readers inside, or -1 for a writer
    writerPendingCount,   \* the writers inside or waiting
    pc,
    tmp                   \* tmp[t]: the count a reader wants to increment

vars == <<readerCount, writerPendingCount, pc, tmp>>

PCs == {"idle", "spin", "load", "cas", "reading", "wcas", "writing", "wstore"}

TypeOK ==
    /\ readerCount \in -1..Cardinality(Thread)
    /\ writerPendingCount \in 0..Cardinality(Thread)
    /\ pc \in [Thread -> PCs]
    /\ tmp \in [Thread -> 0..Cardinality(Thread)]

Init ==
    /\ readerCount = 0
    /\ writerPendingCount = 0
    /\ pc = [t \in Thread |-> "idle"]
    /\ tmp = [t \in Thread |-> 0]

Goto(t, l) == pc' = [pc EXCEPT ![t] = l]

-----------------------------------------------------------------------------
(* read_lock and read_unlock *)

CallReadLock(t) ==
    /\ pc[t] = "idle"
    /\ Goto(t, "spin")
    /\ UNCHANGED <<readerCount, writerPendingCount, tmp>>

\* Mutant: readers do not wait for the writers that wait for them.
PassWriters_Blind(t) ==
    /\ pc[t] = "spin"
    /\ Goto(t, "load")
    /\ UNCHANGED <<readerCount, writerPendingCount, tmp>>

\* The load that finds no writer pending; it is not looked at again.
PassWriters(t) ==
    /\ pc[t] = "spin"
    /\ writerPendingCount = 0
    /\ Goto(t, "load")
    /\ UNCHANGED <<readerCount, writerPendingCount, tmp>>

\* Mutant: the count is taken as it is, a writer's -1 too.
Clamp_None(n) == n

\* A negative count is taken for 0, so that the CAS fails while a writer is inside.
Clamp(n) == IF n < 0 THEN 0 ELSE n

LoadCount(t) ==
    /\ pc[t] = "load"
    /\ tmp' = [tmp EXCEPT ![t] = Clamp(readerCount)]
    /\ Goto(t, "cas")
    /\ UNCHANGED <<readerCount, writerPendingCount>>

CASCount(t) ==
    /\ pc[t] = "cas"
    /\ IF readerCount = tmp[t]
         THEN readerCount' = tmp[t] + 1 /\ Goto(t, "reading")
         ELSE UNCHANGED readerCount /\ Goto(t, "load")
    /\ tmp' = [tmp EXCEPT ![t] = 0]
    /\ UNCHANGED writerPendingCount

read_unlock(t) ==
    /\ pc[t] = "reading"
    /\ readerCount' = readerCount - 1
    /\ Goto(t, "idle")
    /\ UNCHANGED <<writerPendingCount, tmp>>

-----------------------------------------------------------------------------
(* write_lock and write_unlock *)

write_lock(t) ==
    /\ pc[t] = "idle"
    /\ writerPendingCount' = writerPendingCount + 1
    /\ Goto(t, "wcas")
    /\ UNCHANGED <<readerCount, tmp>>

CASWriter(t) ==
    /\ pc[t] = "wcas"
    /\ readerCount = 0
    /\ readerCount' = -1
    /\ Goto(t, "writing")
    /\ UNCHANGED <<writerPendingCount, tmp>>

\* Readers are let in before the count is back at 0: they meet the -1.
write_unlock(t) ==
    /\ pc[t] = "writing"
    /\ writerPendingCount' = writerPendingCount - 1
    /\ Goto(t, "wstore")
    /\ UNCHANGED <<readerCount, tmp>>

StoreZero(t) ==
    /\ pc[t] = "wstore"
    /\ readerCount' = 0
    /\ Goto(t, "idle")
    /\ UNCHANGED <<writerPendingCount, tmp>>

-----------------------------------------------------------------------------
Inside(t) == PassWriters(t) \/ LoadCount(t) \/ CASCount(t) \/ CASWriter(t) \/ StoreZero(t)

Close(t) == read_unlock(t) \/ write_unlock(t)

Next == \E t \in Thread : CallReadLock(t) \/ write_lock(t) \/ Inside(t) \/ Close(t)

Spec == Init /\ [][Next]_vars

\* Threads run on inside the lock, and sections are finite; CAS promises no thread
\* its turn beyond that.
FairSpec == Spec /\ \A t \in Thread : WF_vars(Inside(t)) /\ WF_vars(Close(t))

-----------------------------------------------------------------------------
At(l) == {t \in Thread : pc[t] \in l}

\* A writer is alone, whatever a reader remembers of the count from before it came:
\* the count says who is inside, and both counts return to what they were.
CountTellsInside ==
    /\ readerCount = IF At({"writing", "wstore"}) = {} THEN Cardinality(At({"reading"})) ELSE -1
    /\ At({"writing", "wstore"}) # {} =>
          /\ At({"reading"}) = {}
          /\ Cardinality(At({"writing", "wstore"})) = 1
    /\ writerPendingCount = Cardinality(At({"wcas", "writing"}))

\* That is inductive: a CAS that finds a count of readers finds no writer.
IInv == TypeOK /\ CountTellsInside

\* Writer preference: readers that come and go for ever do not keep the writers out;
\* only those that saw no writer pending still get in before them.
SomeWriterEnters == At({"wcas"}) # {} ~> At({"writing"}) # {}
=============================================================================
