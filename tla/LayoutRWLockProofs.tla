------------------------- MODULE LayoutRWLockProofs -------------------------
(***************************************************************************)
(* For every number of threads: the readers-writer lock that bst-rwcohen   *)
(* uses for a layout lock keeps readers and writers out of layout changes, *)
(* and implements LayoutLockSpec without ever refusing a read section.     *)
(***************************************************************************)
EXTENDS LayoutRWLock, TLAPS

LEMMA SlotFacts ==
    /\ 1 \in Thread
    /\ \A s \in Thread : s \in Nat /\ s >= 1 /\ s <= N /\ (s # N => s + 1 \in Thread)
  BY SlotsAssumption DEF Thread

\* The loops over the slots stay among the slots.
LEMMA LoopStepType ==
    ASSUME TypeOK, NEW t \in Thread, NEW done \in PCs, LoopStep(t, done)
    PROVE  /\ pc' \in [Thread -> PCs]
           /\ i' \in [Thread -> Thread]
  <1>1. CASE i[t] = N
    BY <1>1, SlotFacts DEF LoopStep, Goto, TypeOK
  <1>2. CASE i[t] # N
    <2>1. i[t] + 1 \in Thread
      BY <1>2, SlotFacts DEF TypeOK
    <2> QED
      BY <1>2, <2>1 DEF LoopStep, TypeOK
  <1> QED
    BY <1>1, <1>2

Step(t) == Call(t) \/ Inside(t) \/ Close(t)

\* Every step of every thread keeps the variables in their types.
LEMMA TypeInductive ==
    ASSUME TypeOK, [Next]_vars
    PROVE  TypeOK'
  <1>1. CASE UNCHANGED vars
    BY <1>1 DEF TypeOK, vars
  <1>2. ASSUME NEW t \in Thread, Step(t)
        PROVE  TypeOK'
    <2>1. CASE Call(t)
      BY <2>1 DEF TypeOK, Call, Goto, PCs
    <2>2. CASE startRead(t) \/ startWrite(t)
      <3>1. NoChanger \in BOOLEAN
        BY DEF NoChanger
      <3>2. pc' \in [Thread -> PCs] /\ state' \in [Thread -> SlotStates] /\ i' = i
        BY <2>2 DEF TypeOK, startRead, startWrite, readLock, Goto, PCs, SlotStates
      <3>3. valid' \in [Thread -> BOOLEAN]
        BY <2>2, <3>1 DEF TypeOK, startRead, startWrite
      <3> QED
        BY <3>2, <3>3 DEF TypeOK
    <2>3. CASE Close(t)
      BY <2>3 DEF TypeOK, Close, finishRead, finishWrite, finishLayoutChange, readUnlock,
                  Goto, PCs, SlotStates
    <2>4. CASE writeLockSlot(t)
      <3>1. "changing" \in PCs
        BY DEF PCs
      <3>2. pc' \in [Thread -> PCs] /\ i' \in [Thread -> Thread]
        BY <2>4, <3>1, LoopStepType DEF writeLockSlot
      <3>3. valid' \in [Thread -> BOOLEAN]
        BY <2>4 DEF TypeOK, writeLockSlot
      <3> QED
        BY <2>4, <3>2, <3>3 DEF TypeOK, writeLockSlot, SlotStates
    <2>5. CASE writeUnlockSlot(t)
      <3>1. "idle" \in PCs
        BY DEF PCs
      <3> QED
        BY <2>5, <3>1, LoopStepType DEF TypeOK, writeUnlockSlot, SlotStates
    <2> QED
      BY <1>2, <2>1, <2>2, <2>3, <2>4, <2>5 DEF Step, Inside
  <1> QED
    BY <1>1, <1>2 DEF Next, Step

LEMMA IndexInductive ==
    ASSUME TypeOK, IndexInv, NEW t \in Thread, Step(t)
    PROVE  IndexInv'
  BY DEF TypeOK, IndexInv, Step, Call, Inside, Close, startRead, startWrite, readLock,
         finishRead, finishWrite, readUnlock, finishLayoutChange, writeLockSlot,
         writeUnlockSlot, LoopStep, Goto

-----------------------------------------------------------------------------
(* The slots. *)

\* The steps that leave the slots alone.
LEMMA QuietKeepsSlots ==
    ASSUME TypeOK, IndexInv, SlotInv, NEW t \in Thread, Call(t) \/ finishLayoutChange(t)
    PROVE  SlotInv'
  <1>1. state' = state
    BY DEF Call, finishLayoutChange
  <1>2. \A s \in Thread : pc'[s] \in {"reading", "writing"} <=> pc[s] \in {"reading", "writing"}
    BY DEF TypeOK, Call, finishLayoutChange, Goto
  <1>3. ASSUME NEW w \in Thread, NEW s \in Thread
        PROVE  Holds(w, s)' <=> Holds(w, s)
    BY SlotFacts DEF TypeOK, IndexInv, Holds, Call, finishLayoutChange, Goto
  <1> QED
    BY <1>1, <1>2, <1>3 DEF SlotInv

\* startRead and startWrite take the thread's own slot, if it is free.
LEMMA ReadLockKeepsSlots ==
    ASSUME TypeOK, SlotInv, NEW t \in Thread, startRead(t) \/ startWrite(t)
    PROVE  SlotInv'
  <1>1. ASSUME NEW w \in Thread, NEW s \in Thread
        PROVE  Holds(w, s)' <=> Holds(w, s)
    BY DEF TypeOK, Holds, startRead, startWrite, readLock, Goto
  <1>2. \A w \in Thread : ~Holds(w, t)
    BY DEF SlotInv, startRead, startWrite, readLock
  <1>3. \A s \in Thread : state'[s] = IF s = t THEN "ReaderActive" ELSE state[s]
    BY DEF TypeOK, startRead, startWrite, readLock
  <1>4. \A s \in Thread : pc'[s] \in {"reading", "writing"} <=> s = t \/ pc[s] \in {"reading", "writing"}
    BY DEF TypeOK, startRead, startWrite, Goto
  <1> QED
    BY <1>1, <1>2, <1>3, <1>4 DEF SlotInv

\* finishRead and finishWrite give it back; no writer was holding it.
LEMMA ReadUnlockKeepsSlots ==
    ASSUME TypeOK, SlotInv, NEW t \in Thread, finishRead(t) \/ finishWrite(t)
    PROVE  SlotInv'
  <1>1. ASSUME NEW w \in Thread, NEW s \in Thread
        PROVE  Holds(w, s)' <=> Holds(w, s)
    BY DEF TypeOK, Holds, finishRead, finishWrite, readUnlock, Goto
  <1>2. \A w \in Thread : ~Holds(w, t)
    BY DEF SlotInv, finishRead, finishWrite
  <1>3. \A s \in Thread : state'[s] = IF s = t THEN "Inactive" ELSE state[s]
    BY DEF TypeOK, finishRead, finishWrite, readUnlock
  <1>4. \A s \in Thread : pc'[s] \in {"reading", "writing"} <=> s # t /\ pc[s] \in {"reading", "writing"}
    BY DEF TypeOK, finishRead, finishWrite, Goto
  <1> QED
    BY <1>1, <1>2, <1>3, <1>4 DEF SlotInv

\* A step in a loop over the slots is the only one its thread takes.
LEMMA LoopIsLocal ==
    ASSUME TypeOK, NEW t \in Thread, writeLockSlot(t) \/ writeUnlockSlot(t),
           NEW u \in Thread, u # t
    PROVE  pc'[u] = pc[u] /\ i'[u] = i[u]
  BY DEF TypeOK, writeLockSlot, writeUnlockSlot, LoopStep, Goto

\* write_lock's CAS adds one free slot to what its thread holds.
LEMMA WriteLockKeepsSlots ==
    ASSUME TypeOK, SlotInv, NEW t \in Thread, writeLockSlot(t)
    PROVE  SlotInv'
  <1> DEFINE p == i[t]
  <1>1. p \in Thread /\ state[p] = "Inactive"
    BY DEF TypeOK, writeLockSlot
  <1>2. \A w \in Thread : ~Holds(w, p)
    BY <1>1 DEF SlotInv
  <1>3. ASSUME NEW s \in Thread
        PROVE  Holds(t, s)' <=> Holds(t, s) \/ s = p
    <2>1. pc[t] = "wlock" /\ s \in 1..N /\ p \in 1..N
      BY <1>1 DEF writeLockSlot, Thread
    <2>2. CASE p = N
      BY <2>1, <2>2 DEF TypeOK, writeLockSlot, LoopStep, Goto, Holds
    <2>3. CASE p # N
      BY <2>1, <2>3 DEF TypeOK, writeLockSlot, LoopStep, Goto, Holds
    <2> QED
      BY <2>2, <2>3
  <1>4. ASSUME NEW w \in Thread, NEW s \in Thread, w # t
        PROVE  Holds(w, s)' <=> Holds(w, s)
    BY <1>4, LoopIsLocal DEF Holds
  <1>5. \A s \in Thread : state'[s] = IF s = p THEN "WriterActive" ELSE state[s]
    BY DEF TypeOK, writeLockSlot
  <1>6. \A s \in Thread : pc'[s] \in {"reading", "writing"} <=> pc[s] \in {"reading", "writing"}
    BY DEF TypeOK, writeLockSlot, LoopStep, Goto
  <1> HIDE DEF p
  <1> QED
    BY <1>1, <1>2, <1>3, <1>4, <1>5, <1>6 DEF SlotInv

\* write_unlock's store gives back one slot that only its thread holds.
LEMMA WriteUnlockKeepsSlots ==
    ASSUME TypeOK, SlotInv, NEW t \in Thread, writeUnlockSlot(t)
    PROVE  SlotInv'
  <1> DEFINE p == i[t]
  <1>1. p \in Thread /\ Holds(t, p)
    BY SlotFacts DEF TypeOK, writeUnlockSlot, Holds
  <1>2. \A w \in Thread : Holds(w, p) => w = t
    BY <1>1 DEF SlotInv
  <1>3. ASSUME NEW s \in Thread
        PROVE  Holds(t, s)' <=> Holds(t, s) /\ s # p
    <2>1. pc[t] = "wunlock" /\ s \in 1..N /\ p \in 1..N
      BY <1>1 DEF writeUnlockSlot, Thread
    <2>2. CASE p = N
      BY <2>1, <2>2 DEF TypeOK, writeUnlockSlot, LoopStep, Goto, Holds
    <2>3. CASE p # N
      BY <2>1, <2>3 DEF TypeOK, writeUnlockSlot, LoopStep, Goto, Holds
    <2> QED
      BY <2>2, <2>3
  <1>4. ASSUME NEW w \in Thread, NEW s \in Thread, w # t
        PROVE  Holds(w, s)' <=> Holds(w, s)
    BY <1>4, LoopIsLocal DEF Holds
  <1>5. \A s \in Thread : state'[s] = IF s = p THEN "Inactive" ELSE state[s]
    BY DEF TypeOK, writeUnlockSlot
  <1>6. \A s \in Thread : pc'[s] \in {"reading", "writing"} <=> pc[s] \in {"reading", "writing"}
    BY DEF TypeOK, writeUnlockSlot, LoopStep, Goto
  <1>7. state[p] = "WriterActive"
    BY <1>1 DEF SlotInv
  <1> HIDE DEF p
  <1> QED
    BY <1>1, <1>2, <1>3, <1>4, <1>5, <1>6, <1>7 DEF SlotInv

LEMMA SlotInductive ==
    ASSUME TypeOK, IndexInv, SlotInv, NEW t \in Thread, Step(t)
    PROVE  SlotInv'
  BY QuietKeepsSlots, ReadLockKeepsSlots, ReadUnlockKeepsSlots, WriteLockKeepsSlots,
     WriteUnlockKeepsSlots DEF Step, Inside, Close

-----------------------------------------------------------------------------
(* What the slots say about the sections. *)

\* A thread that opens a section meets no layout change: it could not have its slot.
LEMMA OpeningMeetsNoChange ==
    ASSUME SlotInv, NEW t \in Thread, state[t] = "Inactive"
    PROVE  NoChanger
  BY DEF SlotInv, NoChanger, Holds

\* The CAS on the last slot meets no section at all.
LEMMA LastSlotIsAlone ==
    ASSUME TypeOK, SlotInv, NEW t \in Thread, writeLockSlot(t), i[t] = N
    PROVE  \A u \in Thread : pc[u] \notin {"reading", "writing", "changing"}
  <1> SUFFICES ASSUME NEW u \in Thread
               PROVE  pc[u] \notin {"reading", "writing", "changing"}
    OBVIOUS
  <1>1. state[N] = "Inactive" /\ N \in Thread
    BY DEF writeLockSlot, TypeOK
  <1>2. CASE u = N
    BY <1>1, <1>2 DEF SlotInv, Holds
  <1>3. CASE u # N
    <2>1. Holds(t, u)
      <3>1. u \in 1..N /\ N \in Nat
        BY SlotsAssumption DEF Thread
      <3> QED
        BY <1>3, <3>1 DEF Holds, writeLockSlot
    <2>2. pc[u] \notin {"reading", "writing"}
      BY <2>1 DEF SlotInv
    <2>3. pc[u] # "changing"
      BY <1>1 DEF SlotInv, Holds
    <2> QED
      BY <2>2, <2>3
  <1> QED
    BY <1>2, <1>3

\* No read section is overlapped.
LEMMA ValidInductive ==
    ASSUME TypeOK, SlotInv, ValidInv, NEW t \in Thread, Step(t)
    PROVE  ValidInv'
  <1>1. CASE startRead(t)
    <2>1. NoChanger
      BY <1>1, OpeningMeetsNoChange DEF startRead, readLock
    <2> QED
      BY <1>1, <2>1 DEF TypeOK, ValidInv, startRead, Goto
  <1>2. CASE writeLockSlot(t) /\ i[t] = N
    <2>1. valid' = [u \in Thread |-> FALSE]
      BY <1>2 DEF writeLockSlot
    <2>2. \A u \in Thread : pc'[u] # "reading"
      BY <1>2, LastSlotIsAlone DEF TypeOK, writeLockSlot, LoopStep, Goto
    <2> QED
      BY <2>1, <2>2 DEF ValidInv
  <1>3. CASE writeLockSlot(t) /\ i[t] # N
    BY <1>3 DEF TypeOK, ValidInv, writeLockSlot, LoopStep, Goto
  <1>4. CASE Call(t) \/ startWrite(t) \/ Close(t) \/ writeUnlockSlot(t)
    BY <1>4 DEF TypeOK, ValidInv, Call, Close, finishRead, startWrite, finishWrite,
                finishLayoutChange, writeUnlockSlot, LoopStep, Goto
  <1>5. writeLockSlot(t) => (writeLockSlot(t) /\ i[t] = N) \/ (writeLockSlot(t) /\ i[t] # N)
    OBVIOUS
  <1> QED
    BY <1>1, <1>2, <1>3, <1>4, <1>5 DEF Step, Inside

\* The lock starts with its inductive invariant...
LEMMA StartsInvariant ==
    ASSUME Init
    PROVE  IInv
  BY SlotFacts DEF Init, IInv, TypeOK, IndexInv, SlotInv, ValidInv, Holds, SlotStates, PCs

\* ... and every step keeps it.
LEMMA StaysInvariant ==
    ASSUME IInv, [Next]_vars
    PROVE  IInv'
  <1>1. TypeOK'
    BY TypeInductive DEF IInv
  <1>2. CASE UNCHANGED vars
    BY <1>1, <1>2 DEF vars, IInv, IndexInv, SlotInv, ValidInv, Holds
  <1>3. ASSUME NEW t \in Thread, Step(t)
        PROVE  IInv'
    BY <1>1, <1>3, IndexInductive, SlotInductive, ValidInductive DEF IInv
  <1> QED
    BY <1>2, <1>3 DEF Next, Step

\* What the initial states and every step of the lock keep.
THEOREM Invariance == Spec => []IInv
  <1>1. Init => IInv
    BY StartsInvariant
  <1>2. IInv /\ [Next]_vars => IInv'
    BY StaysInvariant
  <1> QED
    BY <1>1, <1>2, PTL DEF Spec

\* The variables of the lock stay in their types.
THEOREM TypeCorrect == Spec => []TypeOK
  <1>1. IInv => TypeOK
    BY DEF IInv
  <1> QED
    BY <1>1, Invariance, PTL

\* While the layout changes no section of any other kind is open, for any number of
\* threads: finishRead may return true without looking.
THEOREM ChangeRunsAlone == Spec => []ReadersExclude
  <1>1. IInv => ReadersExclude
    BY DEF IInv, SlotInv, Holds, ReadersExclude
  <1> QED
    BY <1>1, Invariance, PTL

-----------------------------------------------------------------------------
(* The lock is a layout lock. *)

LEMMA AbstractNoChanger == Abstract!NoChanger <=> NoChanger
  BY DEF Abstract!NoChanger, NoChanger, Mode

\* The sections open and close as LayoutLockSpec says.
LEMMA SectionSteps ==
    ASSUME IInv, NEW t \in Thread,
           startRead(t) \/ startWrite(t) \/ Close(t) \/ (writeLockSlot(t) /\ i[t] = N)
    PROVE  Abstract!Next
  <1> USE DEF IInv
  <1>1. CASE startRead(t)
    <2>1. Mode(t) = "out" /\ \A u \in Thread : Mode(u)' = IF u = t THEN "reading" ELSE Mode(u)
      BY <1>1 DEF TypeOK, startRead, Goto, Mode
    <2>2. Abstract!BeginRead(t)
      BY <1>1, <2>1, AbstractNoChanger DEF Abstract!BeginRead, startRead
    <2> QED
      BY <2>2 DEF Abstract!Next
  <1>2. CASE finishRead(t)
    <2>1. Mode(t) = "reading" /\ \A u \in Thread : Mode(u)' = IF u = t THEN "out" ELSE Mode(u)
      BY <1>2 DEF TypeOK, finishRead, Goto, Mode
    <2>2. valid[t]
      BY <1>2 DEF finishRead, ValidInv
    <2>3. Abstract!EndRead(t)
      BY <1>2, <2>1, <2>2 DEF Abstract!EndRead, finishRead
    <2> QED
      BY <2>3 DEF Abstract!Next
  <1>3. CASE startWrite(t)
    <2>1. Mode(t) = "out" /\ \A u \in Thread : Mode(u)' = IF u = t THEN "writing" ELSE Mode(u)
      BY <1>3 DEF TypeOK, startWrite, Goto, Mode
    <2>2. Abstract!NoChanger
      BY <1>3, OpeningMeetsNoChange, AbstractNoChanger DEF startWrite, readLock
    <2>3. Abstract!BeginWrite(t)
      BY <1>3, <2>1, <2>2 DEF Abstract!BeginWrite, startWrite
    <2> QED
      BY <2>3 DEF Abstract!Next
  <1>4. CASE finishWrite(t)
    <2>1. Mode(t) = "writing" /\ \A u \in Thread : Mode(u)' = IF u = t THEN "out" ELSE Mode(u)
      BY <1>4 DEF TypeOK, finishWrite, Goto, Mode
    <2>2. Abstract!EndWrite(t)
      BY <1>4, <2>1 DEF Abstract!EndWrite, finishWrite
    <2> QED
      BY <2>2 DEF Abstract!Next
  <1>5. CASE writeLockSlot(t) /\ i[t] = N
    <2>1. Mode(t) = "out" /\ \A u \in Thread : Mode(u)' = IF u = t THEN "changing" ELSE Mode(u)
      BY <1>5 DEF TypeOK, writeLockSlot, LoopStep, Goto, Mode
    <2>2. Abstract!NoChanger /\ Abstract!NoWriter
      BY <1>5, LastSlotIsAlone DEF Abstract!NoChanger, Abstract!NoWriter, Mode
    <2>3. Abstract!BeginChange(t)
      BY <1>5, <2>1, <2>2 DEF Abstract!BeginChange, writeLockSlot
    <2> QED
      BY <2>3 DEF Abstract!Next
  <1>6. CASE finishLayoutChange(t)
    <2>1. Mode(t) = "changing" /\ \A u \in Thread : Mode(u)' = IF u = t THEN "out" ELSE Mode(u)
      BY <1>6 DEF TypeOK, finishLayoutChange, Goto, Mode
    <2>2. Abstract!EndChange(t)
      BY <1>6, <2>1 DEF Abstract!EndChange, finishLayoutChange
    <2> QED
      BY <2>2 DEF Abstract!Next
  <1> QED
    BY <1>1, <1>2, <1>3, <1>4, <1>5, <1>6 DEF Close

\* The others are invisible.
LEMMA SilentSteps ==
    ASSUME IInv, NEW t \in Thread,
           Call(t) \/ writeUnlockSlot(t) \/ (writeLockSlot(t) /\ i[t] # N)
    PROVE  UNCHANGED Abstract!vars
  <1>1. valid' = valid
    BY DEF Call, writeUnlockSlot, writeLockSlot
  <1>2. \A u \in Thread : Mode(u)' = Mode(u)
    BY DEF IInv, TypeOK, Mode, Call, writeUnlockSlot, writeLockSlot, LoopStep, Goto
  <1> QED
    BY <1>1, <1>2 DEF Abstract!vars

LEMMA StepRefines ==
    ASSUME IInv, [Next]_vars
    PROVE  [Abstract!Next]_Abstract!vars
  <1>1. CASE UNCHANGED vars
    BY <1>1 DEF vars, Abstract!vars, Mode
  <1>2. ASSUME NEW t \in Thread, Step(t)
        PROVE  Abstract!Next \/ UNCHANGED Abstract!vars
    BY <1>2, SectionSteps, SilentSteps DEF Step, Inside, Close
  <1> QED
    BY <1>1, <1>2 DEF Next, Step

\* Every behaviour of the readers-writer lock is one of a layout lock.
THEOREM Implements == Spec => ImplementsSpec
  <1>1. Init => Abstract!Init
    BY DEF Init, Abstract!Init, Mode
  <1> QED
    BY <1>1, StepRefines, Invariance, PTL DEF Spec, ImplementsSpec, Abstract!Spec
=============================================================================
