-------------------------- MODULE LayoutLockProofs --------------------------
(***************************************************************************)
(* For every number of threads: the layout lock keeps its type invariant,  *)
(* its layout changes run alone, no overlapped read section goes unmarked, *)
(* and it implements LayoutLockSpec.  One inductive invariant, IInv,       *)
(* carries all four.                                                       *)
(***************************************************************************)
EXTENDS LayoutLockHistory, TLAPS

\* There is a first slot, and a slot after every slot but the last.
LEMMA SlotFacts ==
    /\ 1 \in Thread
    /\ \A s \in Thread : s \in Nat /\ (s # N => s + 1 \in Thread)
  BY SlotsAssumption DEF Thread

\* The loops over the slots stay among the slots.
LEMMA LoopStepType ==
    ASSUME TypeOK, NEW t \in Thread, NEW done \in PCs, LoopStep(t, done)
    PROVE  /\ pc' \in [Thread -> PCs]
           /\ i' \in [Thread -> Thread]
  <1>1. CASE i[t] = N
    BY <1>1, SlotFacts DEF LoopStep, TypeOK
  <1>2. CASE i[t] # N
    <2>1. i[t] + 1 \in Thread
      BY <1>2, SlotFacts DEF TypeOK
    <2> QED
      BY <1>2, <2>1 DEF LoopStep, TypeOK
  <1> QED
    BY <1>1, <1>2

\* A step of thread t leaves the control points of the others alone.
LEMMA StepIsLocal ==
    ASSUME TypeOK, NEW t \in Thread, LockStep(t), NEW u \in Thread, u # t
    PROVE  pc'[u] = pc[u] /\ i'[u] = i[u]
  BY DEF TypeOK, LockStep, Open, Close, Inside, resetDirty, startRead, startWrite,
         startLayoutChange, finishReadTrue, finishReadFalse, finishWrite,
         finishLayoutChange, resetDirtyTest, resetDirtyClear, resetDirtyRecheck,
         resetDirtySet, readLock, writeLockSlot, setDirty, writeUnlockSlot, LoopStep

\* Every step of every thread keeps the variables in their types.
LEMMA TypeInductive ==
    ASSUME TypeOK, [Next]_vars
    PROVE  TypeOK'
  <1>1. CASE UNCHANGED vars
    BY <1>1 DEF TypeOK, vars
  <1>2. ASSUME NEW t \in Thread, LockStep(t), RecordValid(t)
        PROVE  TypeOK'
    <2>1. valid' \in [Thread -> BOOLEAN]
      BY <1>2 DEF TypeOK, RecordValid
    <2>2. CASE Open(t)
      BY <2>1, <2>2, SlotFacts
         DEF TypeOK, Open, startRead, startWrite, startLayoutChange, PCs
    <2>3. CASE Close(t)
      BY <2>1, <2>3
         DEF TypeOK, Close, finishReadTrue, finishReadFalse, finishWrite,
             finishLayoutChange, PCs, SlotStates
    <2>4. CASE resetDirty(t)
      BY <2>1, <2>4
         DEF TypeOK, resetDirty, resetDirtyTest, resetDirtyClear, resetDirtyRecheck,
             resetDirtySet, PCs
    <2>5. CASE readLock(t)
      BY <2>1, <2>5 DEF TypeOK, readLock, PCs, SlotStates
    <2>6. CASE writeLockSlot(t)
      <3>1. "dirtying" \in PCs
        BY DEF PCs
      <3> QED
        BY <2>1, <2>6, <3>1, LoopStepType DEF TypeOK, writeLockSlot, SlotStates
    <2>7. CASE setDirty(t)
      <3>1. "changing" \in PCs
        BY DEF PCs
      <3> QED
        BY <2>1, <2>7, <3>1, LoopStepType DEF TypeOK, setDirty
    <2>8. CASE writeUnlockSlot(t)
      <3>1. "idle" \in PCs
        BY DEF PCs
      <3> QED
        BY <2>1, <2>8, <3>1, LoopStepType DEF TypeOK, writeUnlockSlot, SlotStates
    <2> QED
      BY <1>2, <2>2, <2>3, <2>4, <2>5, <2>6, <2>7, <2>8 DEF LockStep, Inside
  <1> QED
    BY <1>1, <1>2 DEF Next

-----------------------------------------------------------------------------
(* The slots. *)

LEMMA IndexInductive ==
    ASSUME TypeOK, IndexInv, NEW t \in Thread, LockStep(t)
    PROVE  IndexInv'
  BY DEF TypeOK, IndexInv, LockStep, Open, Close, Inside, resetDirty, startRead, startWrite,
         startLayoutChange, finishReadTrue, finishReadFalse, finishWrite,
         finishLayoutChange, resetDirtyTest, resetDirtyClear, resetDirtyRecheck,
         resetDirtySet, readLock, writeLockSlot, setDirty, writeUnlockSlot, LoopStep

\* The steps that neither take nor give back a slot.
Quiet(t) ==
    \/ Open(t)
    \/ finishReadTrue(t)
    \/ finishReadFalse(t)
    \/ finishLayoutChange(t)
    \/ resetDirty(t)
    \/ setDirty(t)

\* A quiet step changes no slot, and nobody's claim on one.
LEMMA QuietKeepsSlots ==
    ASSUME TypeOK, IndexInv, SlotInv, NEW t \in Thread, Quiet(t)
    PROVE  SlotInv'
  <1>1. state' = state
    BY DEF Quiet, Open, startRead, startWrite, startLayoutChange, finishReadTrue,
           finishReadFalse, finishLayoutChange, resetDirty, resetDirtyTest,
           resetDirtyClear, resetDirtyRecheck, resetDirtySet, setDirty
  <1>2. \A s \in Thread : pc'[s] = "writing" <=> pc[s] = "writing"
    BY DEF TypeOK, Quiet, Open, startRead, startWrite, startLayoutChange, finishReadTrue,
           finishReadFalse, finishLayoutChange, resetDirty, resetDirtyTest,
           resetDirtyClear, resetDirtyRecheck, resetDirtySet, setDirty, LoopStep
  <1>3. ASSUME NEW w \in Thread, NEW s \in Thread
        PROVE  Holds(w, s)' <=> Holds(w, s)
    <2>1. CASE w # t
      <3>1. LockStep(t)
        BY DEF Quiet, LockStep, Close, Inside
      <3> QED
        BY <2>1, <3>1, StepIsLocal DEF Holds
    <2>2. CASE w = t
      <3>1. s \in Nat /\ s >= 1 /\ ~(s < 1)
        BY DEF Thread
      <3>2. CASE Open(t) \/ finishReadTrue(t) \/ finishReadFalse(t) \/ resetDirty(t)
        BY <2>2, <3>1, <3>2
           DEF TypeOK, Holds, Open, startRead, startWrite, startLayoutChange, finishReadTrue,
               finishReadFalse, resetDirty, resetDirtyTest, resetDirtyClear,
               resetDirtyRecheck, resetDirtySet
      <3>3. CASE finishLayoutChange(t)
        BY <2>2, <3>1, <3>3 DEF TypeOK, IndexInv, Holds, finishLayoutChange
      <3>4. CASE setDirty(t)
        BY <2>2, <3>4 DEF TypeOK, Holds, setDirty, LoopStep
      <3> QED
        BY <3>2, <3>3, <3>4 DEF Quiet
    <2> QED
      BY <2>1, <2>2
  <1> QED
    BY <1>1, <1>2, <1>3 DEF SlotInv

\* startWrite takes the thread's own slot, if it is free.
LEMMA ReadLockKeepsSlots ==
    ASSUME TypeOK, SlotInv, NEW t \in Thread, readLock(t)
    PROVE  SlotInv'
  <1>1. ASSUME NEW w \in Thread, NEW s \in Thread
        PROVE  Holds(w, s)' <=> Holds(w, s)
    BY DEF TypeOK, Holds, readLock
  <1>2. \A w \in Thread : ~Holds(w, t)
    BY DEF SlotInv, readLock
  <1>3. \A s \in Thread : state'[s] = IF s = t THEN "ReaderActive" ELSE state[s]
    BY DEF TypeOK, readLock
  <1>4. \A s \in Thread : pc'[s] = IF s = t THEN "writing" ELSE pc[s]
    BY DEF TypeOK, readLock
  <1> QED
    BY <1>1, <1>2, <1>3, <1>4 DEF SlotInv

\* finishWrite gives it back; no layout change was holding it.
LEMMA FinishWriteKeepsSlots ==
    ASSUME TypeOK, SlotInv, NEW t \in Thread, finishWrite(t)
    PROVE  SlotInv'
  <1>1. ASSUME NEW w \in Thread, NEW s \in Thread
        PROVE  Holds(w, s)' <=> Holds(w, s)
    BY DEF TypeOK, Holds, finishWrite
  <1>2. state[t] = "ReaderActive"
    BY DEF SlotInv, finishWrite
  <1>3. \A w \in Thread : ~Holds(w, t)
    BY <1>2 DEF SlotInv
  <1>4. \A s \in Thread : state'[s] = IF s = t THEN "Inactive" ELSE state[s]
    BY DEF TypeOK, finishWrite
  <1>5. \A s \in Thread : pc'[s] = IF s = t THEN "idle" ELSE pc[s]
    BY DEF TypeOK, finishWrite
  <1> QED
    BY <1>1, <1>3, <1>4, <1>5 DEF SlotInv

\* write_lock's CAS adds one free slot to what its thread holds.
LEMMA WriteLockKeepsSlots ==
    ASSUME TypeOK, SlotInv, NEW t \in Thread, writeLockSlot(t)
    PROVE  SlotInv'
  <1> DEFINE p == i[t]
  <1>1. p \in Thread /\ state[p] = "Inactive"
    BY DEF TypeOK, writeLockSlot
  <1>2. \A w \in Thread : ~Holds(w, p)
    BY <1>1 DEF SlotInv
  <1>3. ASSUME NEW s \in Thread
        PROVE  Holds(t, s)' <=> Holds(t, s) \/ s = p
    <2>1. pc[t] = "wlock" /\ s \in 1..N /\ p \in 1..N
      BY <1>1 DEF writeLockSlot, Thread
    <2>2. CASE p = N
      BY <2>1, <2>2 DEF TypeOK, writeLockSlot, LoopStep, Holds
    <2>3. CASE p # N
      BY <2>1, <2>3 DEF TypeOK, writeLockSlot, LoopStep, Holds
    <2> QED
      BY <2>2, <2>3
  <1>4. ASSUME NEW w \in Thread, NEW s \in Thread, w # t
        PROVE  Holds(w, s)' <=> Holds(w, s)
    BY <1>4, StepIsLocal DEF Holds, LockStep, Inside
  <1>5. \A s \in Thread : state'[s] = IF s = p THEN "WriterActive" ELSE state[s]
    BY DEF TypeOK, writeLockSlot
  <1>6. \A s \in Thread : pc'[s] = "writing" <=> pc[s] = "writing"
    BY DEF TypeOK, writeLockSlot, LoopStep
  <1> HIDE DEF p
  <1> QED
    BY <1>1, <1>2, <1>3, <1>4, <1>5, <1>6 DEF SlotInv

\* write_unlock's store gives back one slot that only its thread holds.
LEMMA WriteUnlockKeepsSlots ==
    ASSUME TypeOK, SlotInv, NEW t \in Thread, writeUnlockSlot(t)
    PROVE  SlotInv'
  <1> DEFINE p == i[t]
  <1>1. p \in Thread /\ Holds(t, p)
    BY DEF TypeOK, writeUnlockSlot, Holds, Thread
  <1>2. \A w \in Thread : Holds(w, p) => w = t
    BY <1>1 DEF SlotInv
  <1>3. ASSUME NEW s \in Thread
        PROVE  Holds(t, s)' <=> Holds(t, s) /\ s # p
    <2>1. pc[t] = "wunlock" /\ s \in 1..N /\ p \in 1..N
      BY <1>1 DEF writeUnlockSlot, Thread
    <2>2. CASE p = N
      BY <2>1, <2>2 DEF TypeOK, writeUnlockSlot, LoopStep, Holds
    <2>3. CASE p # N
      BY <2>1, <2>3 DEF TypeOK, writeUnlockSlot, LoopStep, Holds
    <2> QED
      BY <2>2, <2>3
  <1>4. ASSUME NEW w \in Thread, NEW s \in Thread, w # t
        PROVE  Holds(w, s)' <=> Holds(w, s)
    BY <1>4, StepIsLocal DEF Holds, LockStep, Inside
  <1>5. \A s \in Thread : state'[s] = IF s = p THEN "Inactive" ELSE state[s]
    BY DEF TypeOK, writeUnlockSlot
  <1>6. \A s \in Thread : pc'[s] = "writing" <=> pc[s] = "writing"
    BY DEF TypeOK, writeUnlockSlot, LoopStep
  <1>7. state[p] = "WriterActive"
    BY <1>1 DEF SlotInv
  <1> HIDE DEF p
  <1> QED
    BY <1>1, <1>2, <1>3, <1>4, <1>5, <1>6, <1>7 DEF SlotInv

LEMMA SlotInductive ==
    ASSUME TypeOK, IndexInv, SlotInv, NEW t \in Thread, LockStep(t)
    PROVE  SlotInv'
  BY QuietKeepsSlots, ReadLockKeepsSlots, FinishWriteKeepsSlots, WriteLockKeepsSlots,
     WriteUnlockKeepsSlots DEF LockStep, Open, Close, Inside, Quiet

-----------------------------------------------------------------------------
(* The dirty flags. *)

\* Thread w has marked thread s, and its layout change is not over.
Marked(w, s) == pc[w] = "changing" \/ (pc[w] = "dirtying" /\ s < i[w])

\* A step of t adds a mark only as setDirty does, on the slot it is at.
LEMMA MarkStep ==
    ASSUME TypeOK, NEW t \in Thread, LockStep(t),
           NEW w \in Thread, NEW s \in Thread, Marked(w, s)'
    PROVE  Marked(w, s) \/ (w = t /\ setDirty(t) /\ s = i[t])
  <1>1. CASE w # t
    BY <1>1, StepIsLocal DEF Marked
  <1>2. CASE w = t
    <2>1. s \in 1..N /\ i[t] \in 1..N
      BY DEF TypeOK, Thread
    <2>2. CASE setDirty(t)
      BY <1>2, <2>1, <2>2 DEF TypeOK, Marked, setDirty, LoopStep
    <2>3. CASE writeLockSlot(t)
      BY <1>2, <2>1, <2>3 DEF TypeOK, Marked, writeLockSlot, LoopStep
    <2>4. CASE writeUnlockSlot(t)
      BY <1>2, <2>1, <2>4 DEF TypeOK, Marked, writeUnlockSlot, LoopStep
    <2>5. CASE Open(t) \/ Close(t) \/ resetDirty(t) \/ readLock(t)
      BY <1>2, <2>5
         DEF TypeOK, Marked, Open, Close, resetDirty, startRead, startWrite,
             startLayoutChange, finishReadTrue, finishReadFalse, finishWrite,
             finishLayoutChange, resetDirtyTest, resetDirtyClear, resetDirtyRecheck,
             resetDirtySet, readLock
    <2> QED
      BY <2>2, <2>3, <2>4, <2>5 DEF LockStep, Inside
  <1> QED
    BY <1>1, <1>2

\* A step of t that leaves thread s neither marked nor inside resetDirty either
\* found it so, or is the second test of resetDirty that saw no writer.
LEMMA CleanStep ==
    ASSUME TypeOK, NEW t \in Thread, LockStep(t), NEW s \in Thread,
           ~(dirty'[s] = 1 \/ Resetting(s)')
    PROVE  \/ ~(dirty[s] = 1 \/ Resetting(s))
           \/ s = t /\ pc[t] = "recheck" /\ ~isWriterActive(t) /\ ~setDirty(t)
  <1>1. CASE resetDirtyClear(t) \/ resetDirtyRecheck(t) \/ resetDirtySet(t)
    BY <1>1 DEF TypeOK, Resetting, resetDirtyClear, resetDirtyRecheck, resetDirtySet, setDirty
  <1>2. CASE setDirty(t)
    BY <1>2 DEF TypeOK, Resetting, setDirty, LoopStep
  <1>3. CASE writeLockSlot(t) \/ writeUnlockSlot(t)
    BY <1>3 DEF TypeOK, Resetting, writeLockSlot, writeUnlockSlot, LoopStep
  <1>4. CASE Open(t) \/ Close(t) \/ resetDirtyTest(t) \/ readLock(t)
    BY <1>4 DEF TypeOK, Resetting, Open, Close, startRead, startWrite, startLayoutChange,
                finishReadTrue, finishReadFalse, finishWrite, finishLayoutChange,
                resetDirtyTest, readLock
  <1> QED
    BY <1>1, <1>2, <1>3, <1>4 DEF LockStep, Inside, resetDirty

LEMMA DirtyInductive ==
    ASSUME TypeOK, SlotInv, DirtyInv, NEW t \in Thread, LockStep(t)
    PROVE  DirtyInv'
  <1> SUFFICES ASSUME NEW w \in Thread, NEW s \in Thread, Marked(w, s)',
                      ~(dirty'[s] = 1 \/ Resetting(s)')
               PROVE  FALSE
    BY DEF DirtyInv, Marked
  <1>1. CASE setDirty(t) /\ s = i[t]
    BY <1>1 DEF TypeOK, setDirty
  <1>2. CASE Marked(w, s)
    <2>1. dirty[s] = 1 \/ Resetting(s)
      BY <1>2 DEF DirtyInv, Marked
    <2>2. s = t /\ ~isWriterActive(t)
      BY <2>1, CleanStep
    <2>3. Holds(w, s)
      BY <1>2 DEF Marked, Holds
    <2> QED
      BY <2>2, <2>3 DEF SlotInv, isWriterActive
  <1> QED
    BY <1>1, <1>2, MarkStep

\* A layout change holds every slot: it is alone, and nobody writes.
LEMMA SlotsExclude ==
    ASSUME TypeOK, SlotInv
    PROVE  ChangeExcludes
  <1> SUFFICES ASSUME NEW t \in Thread, NEW u \in Thread, t # u, pc[t] = "changing",
                      pc[u] \in {"changing", "writing"}
               PROVE  FALSE
    BY DEF ChangeExcludes
  <1>1. Holds(t, u)
    BY DEF Holds
  <1>2. CASE pc[u] = "changing"
    BY <1>1, <1>2 DEF Holds, SlotInv
  <1>3. CASE pc[u] = "writing"
    BY <1>1, <1>3 DEF SlotInv
  <1> QED
    BY <1>2, <1>3

LEMMA OverlapInductive ==
    ASSUME TypeOK, SlotInv, DirtyInv, DirtyInv', OverlappedIsDirty, TypeOK',
           NEW t \in Thread, LockStep(t), RecordValid(t)
    PROVE  OverlappedIsDirty'
  <1> SUFFICES ASSUME NEW u \in Thread, pc'[u] = "reading", ~valid'[u]
               PROVE  dirty'[u] = 1
    BY DEF OverlappedIsDirty
  <1>1. ~Resetting(u)'
    BY DEF Resetting
  <1>2. CASE \E w \in Thread : pc'[w] = "changing"
    BY <1>1, <1>2 DEF DirtyInv
  <1>3. CASE ~\E w \in Thread : pc'[w] = "changing"
    <2>1. ChangingNext \ Changing = {}
      BY <1>3 DEF ChangingNext
    <2>2. CASE pc[u] = "reading"
      <3>1. valid[u] = valid'[u]
        BY <2>1, <2>2 DEF RecordValid, TypeOK
      <3>2. dirty[u] = 1
        BY <2>2, <3>1 DEF OverlappedIsDirty
      <3> QED
        BY <1>1, <2>2, <3>2, CleanStep
    <2>3. CASE pc[u] # "reading"
      <3>1. u = t
        BY <2>3, StepIsLocal
      <3>2. startRead(t) /\ pc[t] \in {"idle", "again"}
        BY <2>3, <3>1
           DEF TypeOK, LockStep, Open, Close, Inside, resetDirty, startRead, startWrite,
               startLayoutChange, finishReadTrue, finishReadFalse, finishWrite,
               finishLayoutChange, resetDirtyTest, resetDirtyClear, resetDirtyRecheck,
               resetDirtySet, readLock, writeLockSlot, setDirty, writeUnlockSlot, LoopStep
      <3>3. Changing # {}
        BY <2>1, <2>3, <3>1 DEF RecordValid, TypeOK
      <3>4. PICK w \in Thread : pc[w] = "changing"
        BY <3>3 DEF Changing
      <3>5. dirty[t] = 1
        BY <3>2, <3>4 DEF DirtyInv, Resetting
      <3> QED
        BY <3>1, <3>2, <3>5 DEF startRead
    <2> QED
      BY <2>2, <2>3
  <1> QED
    BY <1>2, <1>3

-----------------------------------------------------------------------------
(* The theorems. *)

LEMMA InitEstablishes == Init => IInv
  <1> SUFFICES ASSUME Init PROVE IInv
    OBVIOUS
  <1>1. TypeOK
    BY SlotFacts DEF Init, LockInit, TypeOK, SlotStates, PCs
  <1>2. IndexInv /\ SlotInv /\ DirtyInv /\ OverlappedIsDirty
    BY DEF Init, LockInit, IndexInv, SlotInv, DirtyInv, OverlappedIsDirty, Holds, Resetting
  <1> QED
    BY <1>1, <1>2 DEF IInv

LEMMA NextPreserves == IInv /\ [Next]_vars => IInv'
  <1> SUFFICES ASSUME IInv, [Next]_vars PROVE IInv'
    OBVIOUS
  <1>1. TypeOK'
    BY TypeInductive DEF IInv
  <1>2. CASE UNCHANGED vars
    BY <1>1, <1>2 DEF IInv, vars, IndexInv, SlotInv, DirtyInv, OverlappedIsDirty, Holds, Resetting
  <1>3. ASSUME NEW t \in Thread, LockStep(t), RecordValid(t)
        PROVE  IInv'
    <2>1. IndexInv' /\ SlotInv' /\ DirtyInv'
      BY <1>3, IndexInductive, SlotInductive, DirtyInductive DEF IInv
    <2>2. OverlappedIsDirty'
      BY <1>1, <1>3, <2>1, OverlapInductive DEF IInv
    <2> QED
      BY <1>1, <2>1, <2>2 DEF IInv
  <1> QED
    BY <1>2, <1>3 DEF Next

\* IInv holds in every reachable state, whatever the number of threads.
THEOREM Invariance == Spec => []IInv
  BY InitEstablishes, NextPreserves, PTL DEF Spec

\* The variables stay in their types.
THEOREM TypeCorrect == Spec => []TypeOK
  <1>1. IInv => TypeOK
    BY DEF IInv
  <1> QED
    BY <1>1, Invariance, PTL

\* startLayoutChange returns only when no other layout change and no write
\* section is in progress, and keeps them out until finishLayoutChange.
THEOREM ChangeRunsAlone == Spec => []ChangeExcludes
  <1>1. IInv => ChangeExcludes
    BY SlotsExclude DEF IInv
  <1> QED
    BY <1>1, Invariance, PTL

\* No read section that a layout change overlapped is accepted by finishRead.
THEOREM OverlapIsSeen == Spec => []OverlappedIsDirty
  <1>1. IInv => OverlappedIsDirty
    BY DEF IInv
  <1> QED
    BY <1>1, Invariance, PTL

-----------------------------------------------------------------------------
(* The lock implements what a layout lock promises. *)

\* Nobody changes the layout in LayoutLockSpec when nobody does here.
LEMMA AbstractNoChanger == Abstract!NoChanger <=> Changing = {}
  BY DEF Abstract!NoChanger, Changing, Mode

\* A step that opens and closes nothing is invisible to the client.
LEMMA StutterStep ==
    ASSUME TypeOK, NEW t \in Thread, RecordValid(t), pc' \in [Thread -> PCs],
           \A u \in Thread : Mode(u)' = Mode(u)
    PROVE  UNCHANGED Abstract!vars
  <1>1. Changing = ChangingNext
    BY DEF Changing, ChangingNext, Mode
  <1>2. pc[t] = "reading" <=> pc'[t] = "reading"
    BY DEF Mode
  <1>3. valid' = valid
    BY <1>1, <1>2 DEF RecordValid
  <1> QED
    BY <1>3 DEF Abstract!vars

LEMMA ReadSteps ==
    ASSUME IInv, NEW t \in Thread, RecordValid(t),
           startRead(t) \/ finishReadTrue(t) \/ finishReadFalse(t)
    PROVE  Abstract!Next
  <1> USE DEF IInv
  <1>1. ChangingNext = Changing
    BY DEF TypeOK, ChangingNext, Changing, startRead, finishReadTrue, finishReadFalse
  <1>2. CASE startRead(t)
    <2>1. pc[t] # "reading" /\ pc'[t] = "reading"
      BY <1>2 DEF TypeOK, startRead
    <2>2. valid' = [valid EXCEPT ![t] = Abstract!NoChanger]
      BY <1>1, <2>1, AbstractNoChanger DEF RecordValid, TypeOK
    <2>3. /\ Mode(t) \in {"out", "refused"}
          /\ \A u \in Thread : Mode(u)' = IF u = t THEN "reading" ELSE Mode(u)
      BY <1>2 DEF TypeOK, startRead, Mode
    <2>4. Abstract!BeginRead(t)
      BY <2>2, <2>3 DEF Abstract!BeginRead
    <2> QED
      BY <2>4 DEF Abstract!Next
  <1>3. CASE finishReadTrue(t)
    <2>1. pc[t] = "reading" /\ pc'[t] = "idle"
      BY <1>3 DEF TypeOK, finishReadTrue
    <2>2. valid' = [valid EXCEPT ![t] = FALSE]
      BY <1>1, <2>1 DEF RecordValid
    <2>3. Mode(t) = "reading" /\ \A u \in Thread : Mode(u)' = IF u = t THEN "out" ELSE Mode(u)
      BY <1>3, <2>1 DEF TypeOK, finishReadTrue, Mode
    <2>4. valid[t]
      BY <1>3, <2>1 DEF finishReadTrue, OverlappedIsDirty, TypeOK
    <2>5. Abstract!EndRead(t)
      BY <2>2, <2>3, <2>4 DEF Abstract!EndRead
    <2> QED
      BY <2>5 DEF Abstract!Next
  <1>4. CASE finishReadFalse(t)
    <2>1. pc[t] = "reading" /\ pc'[t] = "reset"
      BY <1>4 DEF TypeOK, finishReadFalse
    <2>2. valid' = [valid EXCEPT ![t] = FALSE]
      BY <1>1, <2>1 DEF RecordValid
    <2>3. /\ Mode(t) = "reading"
          /\ \A u \in Thread : Mode(u)' = IF u = t THEN "refused" ELSE Mode(u)
      BY <1>4, <2>1 DEF TypeOK, finishReadFalse, Mode
    <2>4. Abstract!RefuseRead(t)
      BY <2>2, <2>3 DEF Abstract!RefuseRead
    <2> QED
      BY <2>4 DEF Abstract!Next
  <1> QED
    BY <1>2, <1>3, <1>4

LEMMA WriteSteps ==
    ASSUME IInv, NEW t \in Thread, RecordValid(t), readLock(t) \/ finishWrite(t)
    PROVE  Abstract!Next
  <1> USE DEF IInv
  <1>1. ChangingNext = Changing
    BY DEF TypeOK, ChangingNext, Changing, readLock, finishWrite
  <1>2. valid' = valid
    BY <1>1 DEF RecordValid, TypeOK, readLock, finishWrite
  <1>3. CASE readLock(t)
    <2>1. \A w \in Thread : pc[w] # "changing"
      BY <1>3 DEF readLock, SlotInv, Holds
    <2>2. Abstract!NoChanger
      BY <2>1, AbstractNoChanger DEF Changing
    <2>3. Mode(t) = "out" /\ \A u \in Thread : Mode(u)' = IF u = t THEN "writing" ELSE Mode(u)
      BY <1>3 DEF TypeOK, readLock, Mode
    <2>4. Abstract!BeginWrite(t)
      BY <1>2, <2>2, <2>3 DEF Abstract!BeginWrite
    <2> QED
      BY <2>4 DEF Abstract!Next
  <1>4. CASE finishWrite(t)
    <2>1. Mode(t) = "writing" /\ \A u \in Thread : Mode(u)' = IF u = t THEN "out" ELSE Mode(u)
      BY <1>4 DEF TypeOK, finishWrite, Mode
    <2>2. Abstract!EndWrite(t)
      BY <1>2, <2>1 DEF Abstract!EndWrite
    <2> QED
      BY <2>2 DEF Abstract!Next
  <1> QED
    BY <1>3, <1>4

\* startLayoutChange takes effect when the last thread is marked.
LEMMA ChangeSteps ==
    ASSUME IInv, IInv', NEW t \in Thread, LockStep(t), RecordValid(t),
           (setDirty(t) /\ i[t] = N) \/ finishLayoutChange(t)
    PROVE  Abstract!Next
  <1> USE DEF IInv
  <1>1. CASE setDirty(t) /\ i[t] = N
    <2>1. pc[t] = "dirtying" /\ pc'[t] = "changing"
      BY <1>1 DEF TypeOK, setDirty, LoopStep
    <2>2. valid' = [u \in Thread |-> FALSE]
      BY <2>1 DEF RecordValid, Changing, ChangingNext
    <2>3. \A u \in Thread : Mode(u)' = IF u = t THEN "changing" ELSE Mode(u)
      BY <2>1, StepIsLocal DEF Mode
    <2>4. ASSUME NEW u \in Thread
          PROVE  pc[u] \notin {"changing", "writing"}
      <3>1. Holds(t, u)
        BY <2>1 DEF Holds
      <3>2. CASE pc[u] = "changing"
        BY <2>1, <3>1, <3>2 DEF Holds, SlotInv
      <3>3. CASE pc[u] = "writing"
        BY <3>1, <3>3 DEF SlotInv
      <3> QED
        BY <3>2, <3>3
    <2>5. Abstract!NoChanger /\ Abstract!NoWriter /\ Mode(t) = "out"
      BY <2>1, <2>4 DEF Abstract!NoChanger, Abstract!NoWriter, Mode
    <2>6. Abstract!BeginChange(t)
      BY <2>2, <2>3, <2>5 DEF Abstract!BeginChange
    <2> QED
      BY <2>6 DEF Abstract!Next
  <1>2. CASE finishLayoutChange(t)
    <2>1. pc[t] = "changing" /\ pc'[t] = "wunlock"
      BY <1>2 DEF TypeOK, finishLayoutChange
    <2>2. valid' = valid
      BY <1>2, <2>1, StepIsLocal DEF RecordValid, Changing, ChangingNext
    <2>3. Mode(t) = "changing" /\ \A u \in Thread : Mode(u)' = IF u = t THEN "out" ELSE Mode(u)
      BY <2>1, StepIsLocal DEF Mode
    <2>4. Abstract!EndChange(t)
      BY <2>2, <2>3 DEF Abstract!EndChange
    <2> QED
      BY <2>4 DEF Abstract!Next
  <1> QED
    BY <1>1, <1>2

LEMMA SilentSteps ==
    ASSUME IInv, IInv', NEW t \in Thread, LockStep(t), RecordValid(t),
           \/ resetDirty(t) \/ startWrite(t) \/ startLayoutChange(t)
           \/ writeLockSlot(t) \/ writeUnlockSlot(t)
           \/ setDirty(t) /\ i[t] # N
    PROVE  UNCHANGED Abstract!vars
  <1> USE DEF IInv
  <1>1. Mode(t)' = Mode(t)
    BY DEF TypeOK, Mode, resetDirty, resetDirtyTest, resetDirtyClear, resetDirtyRecheck,
           resetDirtySet, startWrite, startLayoutChange, writeLockSlot, writeUnlockSlot,
           setDirty, LoopStep
  <1>2. \A u \in Thread : Mode(u)' = Mode(u)
    BY <1>1, StepIsLocal DEF Mode
  <1> QED
    BY <1>2, StutterStep DEF TypeOK

LEMMA StepRefines == IInv /\ IInv' /\ [Next]_vars => [Abstract!Next]_Abstract!vars
  <1> SUFFICES ASSUME IInv, IInv', [Next]_vars
               PROVE  Abstract!Next \/ UNCHANGED Abstract!vars
    OBVIOUS
  <1>1. CASE UNCHANGED vars
    BY <1>1 DEF vars, Abstract!vars, Mode
  <1>2. ASSUME NEW t \in Thread, LockStep(t), RecordValid(t)
        PROVE  Abstract!Next \/ UNCHANGED Abstract!vars
    BY <1>2, ReadSteps, WriteSteps, ChangeSteps, SilentSteps DEF LockStep, Open, Close, Inside
  <1> QED
    BY <1>1, <1>2 DEF Next

\* Every behaviour of the lock is one LayoutLockSpec allows: a read section ends
\* well only if no layout change overlapped it, and changes exclude write sections.
THEOREM Implements == Spec => ImplementsSpec
  <1>1. Init => Abstract!Init
    BY DEF Init, LockInit, Abstract!Init, Mode
  <1>2. IInv /\ IInv' /\ [Next]_vars => [Abstract!Next]_Abstract!vars
    BY StepRefines
  <1> QED
    BY <1>1, <1>2, Invariance, PTL DEF Spec, ImplementsSpec, Abstract!Spec
=============================================================================
