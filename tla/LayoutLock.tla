----------------------------- MODULE LayoutLock -----------------------------
(***************************************************************************)
(* LayoutLock_DefaultImpl_ over ScalableRWLock: the lock of the DLTree, in *)
(* src/DLTree/src/bst-cohen/llock.h.  One action is one access to shared   *)
(* memory; the program order between two accesses is the control point of  *)
(* the thread.                                                             *)
(*                                                                         *)
(* state and dirty are the two shared arrays, one slot for each thread.    *)
(***************************************************************************)
EXTENDS Slots

VARIABLES
    state,    \* state[s]: kInactive, kReaderActive or kWriterActive
    dirty,    \* dirty[s]: a layout change happened since thread s last reset it
    pc,       \* the control point of each thread inside the lock's code
    i         \* i[t]: the loop index of write_lock, startLayoutChange, write_unlock

lockVars == <<state, dirty, pc, i>>

PCs == {"idle",      \* in no section
        "reading",   \* between startRead and the load of dirty in finishRead
        "reset", "clear", "recheck", "redirty",    \* the steps of resetDirty
        "again",     \* finishRead has returned false; every caller starts over
        "rlock",     \* startWrite: spinning on its own slot
        "writing",   \* between startWrite and finishWrite
        "wlock",     \* startLayoutChange: taking the slots one by one
        "dirtying",  \* startLayoutChange: marking every thread dirty
        "changing",  \* between startLayoutChange and finishLayoutChange
        "wunlock"}   \* finishLayoutChange: giving the slots back one by one

LockInit ==
    /\ state = [s \in Thread |-> "Inactive"]
    /\ dirty = [s \in Thread |-> 0]
    /\ pc = [t \in Thread |-> "idle"]
    /\ i = [t \in Thread |-> 1]

-----------------------------------------------------------------------------
(* Read sections *)

isWriterActive(t) == state[t] = "WriterActive"

\* startRead has no effect on the shared state; a section that failed starts over.
startRead(t) ==
    /\ pc[t] \in {"idle", "again"}
    /\ pc' = [pc EXCEPT ![t] = "reading"]
    /\ UNCHANGED <<state, dirty, i>>

\* Mutant: finishRead trusts a section whenever no change is running now.
finishReadTrue_OnlyActive(t) ==
    /\ pc[t] = "reading"
    /\ ~isWriterActive(t)
    /\ pc' = [pc EXCEPT ![t] = "idle"]
    /\ UNCHANGED <<state, dirty, i>>

finishReadTrue(t) ==
    /\ pc[t] = "reading"
    /\ dirty[t] = 0
    /\ pc' = [pc EXCEPT ![t] = "idle"]
    /\ UNCHANGED <<state, dirty, i>>

finishReadFalse(t) ==
    /\ pc[t] = "reading"
    /\ dirty[t] # 0
    /\ pc' = [pc EXCEPT ![t] = "reset"]
    /\ UNCHANGED <<state, dirty, i>>

\* resetDirty's first test: with a writer active dirty stays set.
resetDirtyTest(t) ==
    /\ pc[t] = "reset"
    /\ pc' = [pc EXCEPT ![t] = IF isWriterActive(t) THEN "again" ELSE "clear"]
    /\ UNCHANGED <<state, dirty, i>>

\* Mutant: the flag is never cleared.
resetDirtyClear_Forgets(t) ==
    /\ pc[t] = "clear"
    /\ pc' = [pc EXCEPT ![t] = "recheck"]
    /\ UNCHANGED <<state, dirty, i>>

resetDirtyClear(t) ==
    /\ pc[t] = "clear"
    /\ dirty' = [dirty EXCEPT ![t] = 0]
    /\ pc' = [pc EXCEPT ![t] = "recheck"]
    /\ UNCHANGED <<state, i>>

\* Mutant: no second look at the writer after clearing the flag.
resetDirtyRecheck_Skipped(t) ==
    /\ pc[t] = "recheck"
    /\ pc' = [pc EXCEPT ![t] = "again"]
    /\ UNCHANGED <<state, dirty, i>>

\* The test after the fence: a change may have marked the flag just cleared.
resetDirtyRecheck(t) ==
    /\ pc[t] = "recheck"
    /\ pc' = [pc EXCEPT ![t] = IF isWriterActive(t) THEN "redirty" ELSE "again"]
    /\ UNCHANGED <<state, dirty, i>>

resetDirtySet(t) ==
    /\ pc[t] = "redirty"
    /\ dirty' = [dirty EXCEPT ![t] = 1]
    /\ pc' = [pc EXCEPT ![t] = "again"]
    /\ UNCHANGED <<state, i>>

-----------------------------------------------------------------------------
(* Write sections: ScalableRWLock::read_lock and read_unlock *)

startWrite(t) ==
    /\ pc[t] = "idle"
    /\ pc' = [pc EXCEPT ![t] = "rlock"]
    /\ UNCHANGED <<state, dirty, i>>

\* The CAS of read_lock that succeeds; the ones that fail change nothing.
readLock(t) ==
    /\ pc[t] = "rlock"
    /\ state[t] = "Inactive"
    /\ state' = [state EXCEPT ![t] = "ReaderActive"]
    /\ pc' = [pc EXCEPT ![t] = "writing"]
    /\ UNCHANGED <<dirty, i>>

finishWrite(t) ==
    /\ pc[t] = "writing"
    /\ state' = [state EXCEPT ![t] = "Inactive"]
    /\ pc' = [pc EXCEPT ![t] = "idle"]
    /\ UNCHANGED <<dirty, i>>

-----------------------------------------------------------------------------
(* Layout changes: ScalableRWLock::write_lock and write_unlock *)

startLayoutChange(t) ==
    /\ pc[t] = "idle"
    /\ pc' = [pc EXCEPT ![t] = "wlock"]
    /\ i' = [i EXCEPT ![t] = 1]
    /\ UNCHANGED <<state, dirty>>

\* Mutant: the loop goes on to a slot that does not exist.
LoopStep_TooFar(t, done) ==
    IF i[t] = N + 1
      THEN /\ pc' = [pc EXCEPT ![t] = done]
           /\ i' = [i EXCEPT ![t] = 1]
      ELSE /\ i' = [i EXCEPT ![t] = @ + 1]
           /\ UNCHANGED pc

\* The next step of a loop over the slots: on to the next one, or done.
LoopStep(t, done) ==
    IF i[t] = N
      THEN /\ pc' = [pc EXCEPT ![t] = done]
           /\ i' = [i EXCEPT ![t] = 1]
      ELSE /\ i' = [i EXCEPT ![t] = @ + 1]
           /\ UNCHANGED pc

\* Mutant: a slot a reader holds is taken all the same.
writeLockSlot_IgnoresReaders(t) ==
    /\ pc[t] = "wlock"
    /\ state[i[t]] # "WriterActive"
    /\ state' = [state EXCEPT ![i[t]] = "WriterActive"]
    /\ LoopStep(t, "dirtying")
    /\ UNCHANGED dirty

\* The CAS of write_lock on slot i[t] that succeeds.
writeLockSlot(t) ==
    /\ pc[t] = "wlock"
    /\ state[i[t]] = "Inactive"
    /\ state' = [state EXCEPT ![i[t]] = "WriterActive"]
    /\ LoopStep(t, "dirtying")
    /\ UNCHANGED dirty

setDirty(t) ==
    /\ pc[t] = "dirtying"
    /\ dirty' = [dirty EXCEPT ![i[t]] = 1]
    /\ LoopStep(t, "changing")
    /\ UNCHANGED state

finishLayoutChange(t) ==
    /\ pc[t] = "changing"
    /\ pc' = [pc EXCEPT ![t] = "wunlock"]
    /\ UNCHANGED <<state, dirty, i>>

\* Mutant: the loop of write_unlock stops one slot short.
writeUnlockSlot_Short(t) ==
    /\ pc[t] = "wunlock"
    /\ IF i[t] = N
         THEN UNCHANGED state
         ELSE state' = [state EXCEPT ![i[t]] = "Inactive"]
    /\ LoopStep(t, "idle")
    /\ UNCHANGED dirty

writeUnlockSlot(t) ==
    /\ pc[t] = "wunlock"
    /\ state' = [state EXCEPT ![i[t]] = "Inactive"]
    /\ LoopStep(t, "idle")
    /\ UNCHANGED dirty

-----------------------------------------------------------------------------
\* The steps of resetDirty.
resetDirty(t) ==
    \/ resetDirtyTest(t)
    \/ resetDirtyClear(t)
    \/ resetDirtyRecheck(t)
    \/ resetDirtySet(t)

\* What a thread does once it has called the lock, up to the call's return.
Inside(t) ==
    \/ resetDirty(t)
    \/ readLock(t)
    \/ writeLockSlot(t)
    \/ setDirty(t)
    \/ writeUnlockSlot(t)

\* The calls that open a section, and the ones that close it.
Open(t)  == startRead(t) \/ startWrite(t) \/ startLayoutChange(t)
Close(t) == finishReadTrue(t) \/ finishReadFalse(t) \/ finishWrite(t) \/ finishLayoutChange(t)

LockStep(t) == Open(t) \/ Close(t) \/ Inside(t)
=============================================================================
