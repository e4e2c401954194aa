-------------------------- MODULE LayoutLockHistory --------------------------
(***************************************************************************)
(* The layout lock under its most general client, any thread opening any   *)
(* section at any time, with the history variable that says which read     *)
(* sections a layout change overlaps, and the proof obligation that the    *)
(* lock implements LayoutLockSpec.                                         *)
(***************************************************************************)
EXTENDS LayoutLock

VARIABLE valid    \* valid[t]: no layout change overlaps t's read section

vars == <<state, dirty, pc, i, valid>>

\* The section a thread is in, as its client sees it.
Mode(t) ==
    IF pc[t] \in {"reading", "writing", "changing"} THEN pc[t]
    ELSE IF pc[t] \in {"reset", "clear", "recheck", "redirty", "again"} THEN "refused"
    ELSE "out"

Changing == {u \in Thread : pc[u] = "changing"}
ChangingNext == {u \in Thread : pc'[u] = "changing"}

Init ==
    /\ LockInit
    /\ valid = [t \in Thread |-> FALSE]

\* valid[t] starts true if nothing is changing, and falls when a change begins.
RecordValid(t) ==
    valid' = IF ChangingNext \ Changing # {}
               THEN [u \in Thread |-> FALSE]
             ELSE IF pc[t] # "reading" /\ pc'[t] = "reading"
               THEN [valid EXCEPT ![t] = Changing = {}]
             ELSE IF pc[t] = "reading" /\ pc'[t] # "reading"
               THEN [valid EXCEPT ![t] = FALSE]
             ELSE valid

Next == \E t \in Thread : LockStep(t) /\ RecordValid(t)

Spec == Init /\ [][Next]_vars

\* A thread inside the lock's code runs on, a section is finite, and a failed
\* read section starts over; nobody has to open a section.
Fairness ==
    \A t \in Thread :
        /\ WF_vars(Inside(t) /\ RecordValid(t))
        /\ WF_vars(Close(t) /\ RecordValid(t))
        /\ WF_vars(pc[t] = "again" /\ startRead(t) /\ RecordValid(t))

FairSpec == Spec /\ Fairness

-----------------------------------------------------------------------------
TypeOK ==
    /\ state \in [Thread -> SlotStates]
    /\ dirty \in [Thread -> {0, 1}]
    /\ pc \in [Thread -> PCs]
    /\ i \in [Thread -> Thread]
    /\ valid \in [Thread -> BOOLEAN]

\* A layout change runs alone: no other layout change and no write section
\* (startLayoutChange holds every slot, startWrite its own).
ChangeExcludes ==
    \A t, u \in Thread :
        t # u /\ pc[t] = "changing" => pc[u] \notin {"changing", "writing"}

\* A read section that a layout change overlapped is marked dirty by the time
\* finishRead looks, so finishRead refuses it (startLayoutChange and resetDirty).
OverlappedIsDirty ==
    \A t \in Thread : pc[t] = "reading" /\ ~valid[t] => dirty[t] = 1

\* The lock implements what a layout lock promises.
Abstract == INSTANCE LayoutLockSpec WITH mode <- [t \in Thread |-> Mode(t)]
ImplementsSpec == Abstract!Spec

\* Once nobody wants to change the layout any more, a read section that was
\* refused is sooner or later accepted: resetDirty does get rid of the mark.
RetryEnds ==
    \A t \in Thread :
        <>[](\A u \in Thread : pc[u] \notin {"wlock", "dirtying", "changing", "wunlock"})
          => (pc[t] = "again" ~> pc[t] = "idle")

\* With no write sections to starve them, of the threads that want to change the
\* layout one always gets to: slots taken in one order cannot deadlock.
SomeChangeStarts ==
    <>[](\A u \in Thread : pc[u] \notin {"rlock", "writing"})
      => ((\E t \in Thread : pc[t] = "wlock") ~> (\E t \in Thread : pc[t] = "changing"))

-----------------------------------------------------------------------------
(* The inductive invariant behind the safety properties. *)

\* Thread w owns slot s on behalf of a layout change.
Holds(w, s) ==
    \/ pc[w] = "wlock" /\ s < i[w]
    \/ pc[w] \in {"dirtying", "changing"}
    \/ pc[w] = "wunlock" /\ s >= i[w]

\* The slots say who is in: its own thread's write section, or one layout change.
SlotInv ==
    /\ \A s \in Thread : state[s] = "ReaderActive" <=> pc[s] = "writing"
    /\ \A w, s \in Thread : Holds(w, s) => state[s] = "WriterActive"
    /\ \A v, w, s \in Thread : Holds(v, s) /\ Holds(w, s) => v = w
    /\ \A s \in Thread : state[s] = "WriterActive" => \E w \in Thread : Holds(w, s)

\* Thread s has cleared its flag and will still look at its slot, or mark it again.
Resetting(s) == pc[s] \in {"recheck", "redirty"}

\* While the layout changes every thread is marked, but for one inside resetDirty.
DirtyInv ==
    \A w, s \in Thread :
        pc[w] = "changing" \/ (pc[w] = "dirtying" /\ s < i[w])
          => dirty[s] = 1 \/ Resetting(s)

\* The loop of write_unlock starts at the first slot.
IndexInv == \A w \in Thread : pc[w] = "changing" => i[w] = 1

IInv == TypeOK /\ IndexInv /\ SlotInv /\ DirtyInv /\ OverlappedIsDirty
=============================================================================
