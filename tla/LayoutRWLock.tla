---------------------------- MODULE LayoutRWLock ----------------------------
(***************************************************************************)
(* LayoutRWLOCK, the layout lock that bst-rwcohen is built with (class at  *)
(* the end of llock.h): a plain readers-writer lock, the ScalableRWLock,   *)
(* behind the same interface.  A read section holds the thread's slot, so  *)
(* finishRead never refuses one; write sections take the same slot.        *)
(***************************************************************************)
EXTENDS Slots

VARIABLES state, pc, i, valid

vars == <<state, pc, i, valid>>

PCs == {"idle", "wantRead", "reading", "wantWrite", "writing", "wlock", "changing", "wunlock"}

TypeOK ==
    /\ state \in [Thread -> SlotStates]
    /\ pc \in [Thread -> PCs]
    /\ i \in [Thread -> Thread]
    /\ valid \in [Thread -> BOOLEAN]

Init ==
    /\ state = [s \in Thread |-> "Inactive"]
    /\ pc = [t \in Thread |-> "idle"]
    /\ i = [t \in Thread |-> 1]
    /\ valid = [t \in Thread |-> FALSE]    \* history, as in LayoutLockSpec

Goto(t, l) == pc' = [pc EXCEPT ![t] = l]

NoChanger == \A u \in Thread : pc[u] # "changing"

Call(t) ==
    /\ pc[t] = "idle"
    /\ \E l \in {"wantRead", "wantWrite", "wlock"} : Goto(t, l)
    /\ UNCHANGED <<state, i, valid>>

\* read_lock on the thread's own slot: the CAS that succeeds.
readLock(t) ==
    /\ state[t] = "Inactive"
    /\ state' = [state EXCEPT ![t] = "ReaderActive"]
    /\ UNCHANGED i

readUnlock(t) ==
    /\ state' = [state EXCEPT ![t] = "Inactive"]
    /\ UNCHANGED i

startRead(t) ==
    /\ pc[t] = "wantRead"
    /\ readLock(t)
    /\ Goto(t, "reading")
    /\ valid' = [valid EXCEPT ![t] = NoChanger]

finishRead(t) ==
    /\ pc[t] = "reading"
    /\ readUnlock(t)
    /\ Goto(t, "idle")
    /\ valid' = [valid EXCEPT ![t] = FALSE]

startWrite(t) ==
    /\ pc[t] = "wantWrite"
    /\ readLock(t)
    /\ Goto(t, "writing")
    /\ UNCHANGED valid

finishWrite(t) ==
    /\ pc[t] = "writing"
    /\ readUnlock(t)
    /\ Goto(t, "idle")
    /\ UNCHANGED valid

\* The next step of a loop over the slots.
LoopStep(t, done) ==
    IF i[t] = N
      THEN Goto(t, done) /\ i' = [i EXCEPT ![t] = 1]
      ELSE i' = [i EXCEPT ![t] = @ + 1] /\ UNCHANGED pc

\* Mutant: the last slot is not waited for.
writeLockSlot_LastBlind(t) ==
    /\ pc[t] = "wlock"
    /\ state[i[t]] = "Inactive" \/ i[t] = N
    /\ state' = [state EXCEPT ![i[t]] = "WriterActive"]
    /\ LoopStep(t, "changing")
    /\ valid' = IF i[t] = N THEN [u \in Thread |-> FALSE] ELSE valid

\* startLayoutChange: write_lock's CAS on slot i[t]; the last one begins the change.
writeLockSlot(t) ==
    /\ pc[t] = "wlock"
    /\ state[i[t]] = "Inactive"
    /\ state' = [state EXCEPT ![i[t]] = "WriterActive"]
    /\ LoopStep(t, "changing")
    /\ valid' = IF i[t] = N THEN [u \in Thread |-> FALSE] ELSE valid

finishLayoutChange(t) ==
    /\ pc[t] = "changing"
    /\ Goto(t, "wunlock")
    /\ UNCHANGED <<state, i, valid>>

\* Mutant: the loop of write_unlock stops one slot short.
writeUnlockSlot_Short(t) ==
    /\ pc[t] = "wunlock"
    /\ IF i[t] = N THEN UNCHANGED state ELSE state' = [state EXCEPT ![i[t]] = "Inactive"]
    /\ LoopStep(t, "idle")
    /\ UNCHANGED valid

writeUnlockSlot(t) ==
    /\ pc[t] = "wunlock"
    /\ state' = [state EXCEPT ![i[t]] = "Inactive"]
    /\ LoopStep(t, "idle")
    /\ UNCHANGED valid

Inside(t) == startRead(t) \/ startWrite(t) \/ writeLockSlot(t) \/ writeUnlockSlot(t)

Close(t) == finishRead(t) \/ finishWrite(t) \/ finishLayoutChange(t)

Next == \E t \in Thread : Call(t) \/ Inside(t) \/ Close(t)

Spec == Init /\ [][Next]_vars

\* Threads run on inside the lock, and sections are finite.
FairSpec == Spec /\ \A t \in Thread : WF_vars(Inside(t)) /\ WF_vars(Close(t))

-----------------------------------------------------------------------------
\* Read sections are never disturbed: none is in progress while the layout changes,
\* which is why finishRead may always return true.
ReadersExclude ==
    \A t, u \in Thread : pc[t] = "changing" => pc[u] \notin {"reading", "writing"} /\ (pc[u] = "changing" => t = u)

Mode(t) == IF pc[t] \in {"reading", "writing", "changing"} THEN pc[t] ELSE "out"

\* The readers-writer lock is a layout lock that never refuses.
Abstract == INSTANCE LayoutLockSpec WITH mode <- [t \in Thread |-> Mode(t)]
ImplementsSpec == Abstract!Spec

\* With no read and write sections to starve them, of the threads that want to change
\* the layout one always gets to, although each holds slots while it waits for others.
SomeChangeStarts ==
    <>[](\A u \in Thread : pc[u] \notin {"wantRead", "reading", "wantWrite", "writing"})
      => ((\E t \in Thread : pc[t] = "wlock") ~> (\E t \in Thread : pc[t] = "changing"))

-----------------------------------------------------------------------------
(* The inductive invariant behind the safety properties. *)

\* Thread w owns slot s as a writer.
Holds(w, s) ==
    \/ pc[w] = "wlock" /\ s < i[w]
    \/ pc[w] = "changing"
    \/ pc[w] = "wunlock" /\ s >= i[w]

\* A slot tells which of its own thread and one writer is in, if any; the loop of
\* write_unlock starts at the first slot; and no read section is overlapped.
SlotInv ==
    /\ \A s \in Thread : state[s] = "ReaderActive" <=> pc[s] \in {"reading", "writing"}
    /\ \A w, s \in Thread : Holds(w, s) => state[s] = "WriterActive"
    /\ \A u, w, s \in Thread : Holds(u, s) /\ Holds(w, s) => u = w
    /\ \A s \in Thread : state[s] = "WriterActive" => \E w \in Thread : Holds(w, s)

IndexInv == \A w \in Thread : pc[w] \notin {"wlock", "wunlock"} => i[w] = 1

ValidInv == \A t \in Thread : valid[t] <=> pc[t] = "reading"

IInv == TypeOK /\ IndexInv /\ SlotInv /\ ValidInv
=============================================================================
