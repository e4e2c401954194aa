---------------------------- MODULE SeqLockProofs ----------------------------
(***************************************************************************)
(* For any number of threads and versions: the version of the sequence     *)
(* lock is odd exactly while the one holder of the lock changes the        *)
(* layout, and the lock implements LayoutLockSpec although the version     *)
(* wraps around.  One inductive invariant, IInv, carries both; LagInv is   *)
(* its heart: it counts how far a reader's version has been left behind.   *)
(***************************************************************************)
EXTENDS SeqLock, FiniteSetTheorems, TLAPS

\* The version wraps around.
LEMMA IncrementValue ==
    ASSUME SeqLockAssumption, TypeOK, Increment
    PROVE  /\ version' = IF version + 1 = Versions THEN 0 ELSE version + 1
           /\ version' \in 0..(Versions - 1)
           /\ version' % 2 = 1 - (version % 2)
  <1>1. version \in 0..(Versions - 1) /\ Versions \in Nat /\ Versions % 2 = 0
    BY DEF SeqLockAssumption, TypeOK
  <1>2. version' = (version + 1) % Versions
    BY DEF Increment
  <1>3. CASE version + 1 = Versions
    BY <1>1, <1>2, <1>3
  <1>4. CASE version + 1 < Versions
    BY <1>1, <1>2, <1>4
  <1> QED
    BY <1>1, <1>3, <1>4

\* A step of thread t leaves the control points of the others alone.
LEMMA StepIsLocal ==
    ASSUME TypeOK, NEW t \in Thread, Step(t)
    PROVE  \A u \in Thread \ {t} : pc'[u] = pc[u]
  BY DEF TypeOK, Step, Inside, CallStartRead, finishRead, CallStartLayoutChange,
         finishLayoutChange, startRead, takeLock, openChange, releaseLock, Goto

LEMMA TypeInductive ==
    ASSUME SeqLockAssumption, TypeOK, [Next]_vars
    PROVE  TypeOK'
  <1> USE DEF TypeOK, PCs, Goto
  <1>1. CASE UNCHANGED vars
    BY <1>1 DEF vars
  <1>2. ASSUME NEW t \in Thread, Step(t)
        PROVE  TypeOK'
    <2>1. 0 \in 0..(Versions - 1) /\ 0 \in 0..Lag /\ NoChanger \in BOOLEAN
      BY DEF SeqLockAssumption, NoChanger
    <2>2. CASE CallStartRead(t) \/ CallStartLayoutChange(t)
      BY <2>2 DEF CallStartRead, CallStartLayoutChange
    <2>3. CASE startRead(t)
      BY <2>1, <2>3 DEF startRead
    <2>4. CASE finishRead(t)
      BY <2>1, <2>4 DEF finishRead
    <2>5. CASE takeLock(t) \/ releaseLock(t)
      BY <2>5 DEF takeLock, releaseLock
    <2>6. CASE openChange(t)
      <3>1. lag' \in [Thread -> 0..Lag]
        BY <2>6 DEF openChange, Reading, SeqLockAssumption
      <3> QED
        BY <2>6, <3>1, IncrementValue DEF openChange
    <2>7. CASE finishLayoutChange(t)
      BY <2>7, IncrementValue DEF finishLayoutChange
    <2> QED
      BY <1>2, <2>2, <2>3, <2>4, <2>5, <2>6, <2>7 DEF Step, Inside
  <1> QED
    BY <1>1, <1>2 DEF Next

-----------------------------------------------------------------------------
(* The holder of the lock *)

LEMMA LockInductive ==
    ASSUME TypeOK, LockInv, NEW t \in Thread, Step(t)
    PROVE  LockInv'
  <1> USE DEF TypeOK, LockInv, Holds, Goto
  <1>1. CASE takeLock(t)
    BY <1>1 DEF takeLock
  <1>2. CASE releaseLock(t)
    BY <1>2 DEF releaseLock
  <1>3. CASE CallStartRead(t) \/ startRead(t) \/ CallStartLayoutChange(t)
    BY <1>3 DEF CallStartRead, startRead, CallStartLayoutChange
  <1>4. CASE finishRead(t)
    BY <1>4 DEF finishRead
  <1>5. CASE openChange(t) \/ finishLayoutChange(t)
    BY <1>5 DEF openChange, finishLayoutChange
  <1> QED
    BY <1>1, <1>2, <1>3, <1>4, <1>5 DEF Step, Inside

\* The steps that do not move the version: nobody begins or ends a layout change.
Quiet(t) ==
    \/ CallStartRead(t) \/ startRead(t) \/ finishRead(t)
    \/ CallStartLayoutChange(t) \/ takeLock(t) \/ releaseLock(t)

LEMMA QuietKeepsVersion ==
    ASSUME TypeOK, NEW t \in Thread, Quiet(t)
    PROVE  version' = version /\ NoChanger' = NoChanger
  BY DEF TypeOK, Quiet, CallStartRead, startRead, finishRead, CallStartLayoutChange, takeLock,
         releaseLock, NoChanger, Goto

\* Only the holder of the lock begins and ends a layout change.
LEMMA ChangeOpens ==
    ASSUME TypeOK, LockInv, NEW t \in Thread, openChange(t)
    PROVE  NoChanger /\ ~NoChanger'
  BY DEF TypeOK, LockInv, Holds, openChange, NoChanger, Goto

LEMMA ChangeCloses ==
    ASSUME TypeOK, LockInv, NEW t \in Thread, finishLayoutChange(t)
    PROVE  ~NoChanger /\ NoChanger'
  BY DEF TypeOK, LockInv, Holds, finishLayoutChange, NoChanger, Goto

LEMMA VersionInductive ==
    ASSUME SeqLockAssumption, TypeOK, LockInv, VersionInv, NEW t \in Thread, Step(t)
    PROVE  VersionInv'
  <1>1. CASE Quiet(t)
    BY <1>1, QuietKeepsVersion DEF VersionInv
  <1>2. CASE openChange(t)
    BY <1>2, ChangeOpens, IncrementValue DEF VersionInv, openChange, TypeOK, SeqLockAssumption
  <1>3. CASE finishLayoutChange(t)
    BY <1>3, ChangeCloses, IncrementValue
       DEF VersionInv, finishLayoutChange, TypeOK, SeqLockAssumption
  <1> QED
    BY <1>1, <1>2, <1>3 DEF Step, Inside, Quiet

-----------------------------------------------------------------------------
(* How far readers are left behind *)

\* One increment, modulo the number of versions.
LEMMA LagStep ==
    ASSUME SeqLockAssumption, NEW v \in 0..(Versions - 1), NEW s \in 0..(Versions - 1),
           NEW d \in Nat, d < Versions, v \in {s + d, s + d - Versions}
    PROVE  (IF v + 1 = Versions THEN 0 ELSE v + 1) \in {s + d + 1, s + d + 1 - Versions}
  BY DEF SeqLockAssumption

LEMMA LagInductive ==
    ASSUME SeqLockAssumption, TypeOK, LockInv, VersionInv, LagInv, NEW t \in Thread, Step(t)
    PROVE  LagInv'
  <1> SUFFICES ASSUME NEW u \in Thread
               PROVE  IF pc'[u] = "reading" THEN ReaderInv(u)'
                      ELSE lag'[u] = 0 /\ valid'[u] = FALSE
    BY DEF LagInv
  <1>0. IF pc[u] = "reading" THEN ReaderInv(u) ELSE lag[u] = 0 /\ valid[u] = FALSE
    BY DEF LagInv
  <1>1. CASE Quiet(t)
    <2>1. version' = version
      BY <1>1, QuietKeepsVersion
    <2>2. CASE u = t /\ startRead(t)
      <3>1. version \in Int /\ version % 2 = 0 /\ NoChanger = TRUE
        BY <2>2 DEF startRead, VersionInv, NoChanger, TypeOK
      <3>2. /\ pc'[u] = "reading" /\ start'[u] = version /\ lag'[u] = 0
            /\ valid'[u] = TRUE /\ version' = version
        BY <1>0, <2>2, <3>1 DEF startRead, TypeOK, Goto
      <3>3. Moved(u)' = 0
        BY <3>1, <3>2 DEF Moved
      <3> QED
        BY <3>1, <3>2, <3>3 DEF ReaderInv
    <2>3. CASE u = t /\ ~startRead(t)
      BY <1>0, <1>1, <2>3 DEF Quiet, CallStartRead, finishRead, CallStartLayoutChange, takeLock,
                              releaseLock, TypeOK, Goto
    <2>4. CASE u # t
      <3>1. /\ pc'[u] = pc[u] /\ start'[u] = start[u]
            /\ lag'[u] = lag[u] /\ valid'[u] = valid[u]
        BY <1>1, <2>4 DEF Quiet, CallStartRead, startRead, finishRead, CallStartLayoutChange,
                          takeLock, releaseLock, TypeOK, Goto
      <3> QED
        BY <1>0, <2>1, <3>1 DEF ReaderInv, Moved
    <2> QED
      BY <2>2, <2>3, <2>4
  <1>2. CASE openChange(t)
    <2>1. version % 2 = 0 /\ version' % 2 = 1
      BY <1>2, ChangeOpens, IncrementValue DEF openChange, VersionInv, TypeOK
    <2>2. version' = IF version + 1 = Versions THEN 0 ELSE version + 1
      BY <1>2, IncrementValue DEF openChange
    <2>3. pc'[u] = "reading" <=> pc[u] = "reading"
      BY <1>2 DEF openChange, TypeOK, Goto
    <2>4. valid'[u] = FALSE /\ lag'[u] = IF pc[u] = "reading" THEN lag[u] + 1 ELSE lag[u]
      BY <1>2 DEF openChange, Reading
    <2>5. CASE pc[u] = "reading"
      <3>1. start'[u] = start[u] /\ lag[u] + 1 <= Lag
        BY <1>2, <2>5 DEF openChange, Reading, TypeOK, SeqLockAssumption
      <3>2. /\ version \in 0..(Versions - 1) /\ start[u] \in 0..(Versions - 1)
            /\ lag[u] \in Nat /\ 2 * lag[u] < Versions
        BY <3>1 DEF TypeOK, SeqLockAssumption
      <3>3. version \in {start[u] + 2 * lag[u], start[u] + 2 * lag[u] - Versions}
        BY <1>0, <2>1, <2>5, <3>2 DEF ReaderInv, Moved
      <3>4. version' \in {start[u] + 2 * lag[u] + 1, start[u] + 2 * lag[u] + 1 - Versions}
        BY <2>2, <3>2, <3>3, LagStep
      <3>5. Moved(u)' = 2 * lag[u] + 1
        BY <2>1, <2>4, <2>5, <3>2 DEF Moved
      <3>6. lag'[u] # 0
        BY <2>4, <2>5, <3>2
      <3> QED
        BY <2>3, <2>4, <2>5, <3>1, <3>2, <3>4, <3>5, <3>6 DEF ReaderInv, SeqLockAssumption
    <2> QED
      BY <1>0, <2>3, <2>4, <2>5
  <1>3. CASE finishLayoutChange(t)
    <2>1. version % 2 = 1 /\ version' % 2 = 0
      BY <1>3, ChangeCloses, IncrementValue DEF finishLayoutChange, VersionInv, TypeOK
    <2>2. version' = IF version + 1 = Versions THEN 0 ELSE version + 1
      BY <1>3, IncrementValue DEF finishLayoutChange
    <2>3. /\ pc'[u] = "reading" <=> pc[u] = "reading"
          /\ lag'[u] = lag[u] /\ start'[u] = start[u] /\ valid'[u] = valid[u]
      BY <1>3 DEF finishLayoutChange, TypeOK, Goto
    <2>4. CASE pc[u] = "reading"
      <3>1. /\ version \in 0..(Versions - 1) /\ start[u] \in 0..(Versions - 1)
            /\ lag[u] \in Nat \ {0} /\ 2 * lag[u] < Versions
        BY <1>0, <2>1, <2>4 DEF TypeOK, ReaderInv, SeqLockAssumption
      <3>2. 2 * lag[u] - 1 \in Nat /\ 2 * lag[u] - 1 < Versions
        BY <3>1 DEF SeqLockAssumption
      <3>3. version \in {start[u] + (2 * lag[u] - 1), start[u] + (2 * lag[u] - 1) - Versions}
        BY <1>0, <2>1, <2>4, <3>1 DEF ReaderInv, Moved
      <3>4. version' \in {start[u] + (2 * lag[u] - 1) + 1,
                          start[u] + (2 * lag[u] - 1) + 1 - Versions}
        BY <2>2, <3>1, <3>2, <3>3, LagStep
      <3>5. Moved(u)' = 2 * lag[u]
        BY <2>1, <2>3, <3>1 DEF Moved
      <3>6. version' \in {start[u] + 2 * lag[u], start[u] + 2 * lag[u] - Versions}
        BY <3>1, <3>4 DEF SeqLockAssumption
      <3> QED
        BY <1>0, <2>1, <2>3, <2>4, <3>5, <3>6 DEF ReaderInv
    <2> QED
      BY <1>0, <2>3, <2>4
  <1> QED
    BY <1>1, <1>2, <1>3 DEF Step, Inside, Quiet

-----------------------------------------------------------------------------
LEMMA StartsInvariant ==
    ASSUME SeqLockAssumption, Init
    PROVE  IInv
  <1>1. 0 \in 0..(Versions - 1) /\ 0 \in 0..Lag /\ 0 % 2 = 0
    BY DEF SeqLockAssumption
  <1>2. TypeOK
    BY <1>1 DEF Init, TypeOK, PCs
  <1>3. LockInv /\ VersionInv /\ LagInv
    BY <1>1 DEF Init, LockInv, Holds, VersionInv, NoChanger, LagInv
  <1> QED
    BY <1>2, <1>3 DEF IInv

LEMMA StaysInvariant ==
    ASSUME SeqLockAssumption, IInv, [Next]_vars
    PROVE  IInv'
  <1>1. TypeOK'
    BY TypeInductive DEF IInv
  <1>2. CASE UNCHANGED vars
    BY <1>1, <1>2 DEF IInv, vars, LockInv, Holds, VersionInv, NoChanger, LagInv, ReaderInv,
                      Moved
  <1>3. ASSUME NEW t \in Thread, Step(t)
        PROVE  IInv'
    BY <1>1, <1>3, LockInductive, VersionInductive, LagInductive DEF IInv
  <1> QED
    BY <1>2, <1>3 DEF Next

\* The inductive invariant: who holds the lock, the parity of the version, and how far
\* each reader's version has been left behind.
THEOREM Invariance ==
    ASSUME SeqLockAssumption
    PROVE  Spec => []IInv
  BY StartsInvariant, StaysInvariant, PTL DEF Spec

LEMMA InvariantTells == IInv => VersionTellsChange
  <1> SUFFICES ASSUME IInv PROVE VersionTellsChange
    OBVIOUS
  <1> DEFINE Holders == {t \in Thread : pc[t] \in {"opening", "changing", "unlocking"}}
  <1>1. CASE lock
    <2>1. PICK t \in Thread : Holds(t)
      BY <1>1 DEF IInv, LockInv
    <2>2. Holders = {t}
      BY <2>1 DEF IInv, LockInv, Holds
    <2>3. Cardinality(Holders) = 1
      BY <2>2, FS_Singleton
    <2> QED
      BY <1>1, <2>3 DEF IInv, VersionInv, VersionTellsChange
  <1>2. CASE ~lock
    <2>1. Holders = {}
      BY <1>2 DEF IInv, LockInv, Holds
    <2>2. Cardinality(Holders) = 0
      BY <2>1, FS_EmptySet
    <2> QED
      BY <1>2, <2>2 DEF IInv, VersionInv, VersionTellsChange
  <1> QED
    BY <1>1, <1>2

\* A reader that finds the version even finds the layout at rest, and one thread at a
\* time moves the version.
THEOREM VersionTells ==
    ASSUME SeqLockAssumption
    PROVE  Spec => []VersionTellsChange
  BY Invariance, InvariantTells, PTL

-----------------------------------------------------------------------------
(* The refinement *)

\* A version that is the one noted has not moved: the overlapping changes are too few
\* to bring it round.
LEMMA SameIsUnmoved ==
    ASSUME SeqLockAssumption, IInv, NEW t \in Thread, pc[t] = "reading", version = start[t]
    PROVE  valid[t] = TRUE
  <1>1. /\ lag[t] \in 0..Lag /\ start[t] \in 0..(Versions - 1)
        /\ version \in {start[t] + Moved(t), start[t] + Moved(t) - Versions}
    BY DEF IInv, TypeOK, LagInv, ReaderInv
  <1>2. CASE version % 2 = 0
    <2>1. Moved(t) = 2 * lag[t]
      BY <1>1, <1>2 DEF Moved, SeqLockAssumption
    <2>2. lag[t] = 0
      BY <1>1, <2>1 DEF SeqLockAssumption
    <2> QED
      BY <2>2 DEF IInv, LagInv, ReaderInv
  <1>3. CASE version % 2 = 1
    <2>1. Moved(t) = 2 * lag[t] - 1
      BY <1>1, <1>3 DEF Moved, SeqLockAssumption
    <2>2. lag[t] # 0
      BY <1>3 DEF IInv, LagInv, ReaderInv
    <2> QED
      BY <1>1, <2>1, <2>2 DEF SeqLockAssumption
  <1>4. version % 2 \in {0, 1}
    <2>1. version \in Int
      BY DEF IInv, TypeOK
    <2> QED
      BY <2>1
  <1> QED
    BY <1>2, <1>3, <1>4

LEMMA AbstractNoChanger == IInv => (Abstract!NoChanger <=> NoChanger)
  BY DEF Abstract!NoChanger, NoChanger, Mode

LEMMA ReadSteps ==
    ASSUME SeqLockAssumption, IInv, NEW t \in Thread, startRead(t) \/ finishRead(t)
    PROVE  Abstract!Next
  <1> USE DEF IInv
  <1>1. CASE startRead(t)
    <2>1. Mode(t) \in {"out", "refused"}
      BY <1>1 DEF startRead, Mode
    <2>2. \A u \in Thread : Mode(u)' = IF u = t THEN "reading" ELSE Mode(u)
      BY <1>1 DEF startRead, Mode, Goto, TypeOK
    <2>3. valid' = [valid EXCEPT ![t] = Abstract!NoChanger]
      BY <1>1 DEF startRead, Abstract!NoChanger, NoChanger, Mode
    <2>4. Abstract!BeginRead(t)
      BY <2>1, <2>2, <2>3 DEF Abstract!BeginRead
    <2> QED
      BY <2>4 DEF Abstract!Next
  <1>2. CASE finishRead(t) /\ version = start[t]
    <2>1. Mode(t) = "reading" /\ valid[t]
      BY <1>2, SameIsUnmoved DEF finishRead, Mode
    <2>2. /\ \A u \in Thread : Mode(u)' = IF u = t THEN "out" ELSE Mode(u)
          /\ valid' = [valid EXCEPT ![t] = FALSE]
      BY <1>2 DEF finishRead, Mode, Goto, TypeOK
    <2>3. Abstract!EndRead(t)
      BY <2>1, <2>2 DEF Abstract!EndRead
    <2> QED
      BY <2>3 DEF Abstract!Next
  <1>3. CASE finishRead(t) /\ version # start[t]
    <2>1. Mode(t) = "reading"
      BY <1>3 DEF finishRead, Mode
    <2>2. /\ \A u \in Thread : Mode(u)' = IF u = t THEN "refused" ELSE Mode(u)
          /\ valid' = [valid EXCEPT ![t] = FALSE]
      BY <1>3 DEF finishRead, Mode, Goto, TypeOK
    <2>3. Abstract!RefuseRead(t)
      BY <2>1, <2>2 DEF Abstract!RefuseRead
    <2> QED
      BY <2>3 DEF Abstract!Next
  <1> QED
    BY <1>1, <1>2, <1>3

LEMMA ChangeSteps ==
    ASSUME IInv, NEW t \in Thread, openChange(t) \/ finishLayoutChange(t)
    PROVE  Abstract!Next
  <1> USE DEF IInv
  <1>1. CASE openChange(t)
    <2>1. Abstract!NoChanger
      BY <1>1, ChangeOpens, AbstractNoChanger
    <2>2. Abstract!NoWriter /\ Mode(t) = "out"
      BY <1>1 DEF openChange, Abstract!NoWriter, Mode
    <2>3. \A u \in Thread : Mode(u)' = IF u = t THEN "changing" ELSE Mode(u)
      BY <1>1 DEF openChange, Mode, Goto, TypeOK
    <2>4. Abstract!BeginChange(t)
      BY <1>1, <2>1, <2>2, <2>3 DEF openChange, Abstract!BeginChange
    <2> QED
      BY <2>4 DEF Abstract!Next
  <1>2. CASE finishLayoutChange(t)
    <2>1. Mode(t) = "changing" /\ \A u \in Thread : Mode(u)' = IF u = t THEN "out" ELSE Mode(u)
      BY <1>2 DEF finishLayoutChange, Mode, Goto, TypeOK
    <2>2. Abstract!EndChange(t)
      BY <1>2, <2>1 DEF finishLayoutChange, Abstract!EndChange
    <2> QED
      BY <2>2 DEF Abstract!Next
  <1> QED
    BY <1>1, <1>2

LEMMA SilentSteps ==
    ASSUME IInv, NEW t \in Thread,
           \/ CallStartRead(t) \/ CallStartLayoutChange(t)
           \/ takeLock(t) \/ releaseLock(t)
    PROVE  UNCHANGED Abstract!vars
  <1>1. valid' = valid /\ \A u \in Thread : Mode(u)' = Mode(u)
    BY DEF IInv, TypeOK, CallStartRead, CallStartLayoutChange, takeLock, releaseLock, Mode, Goto
  <1> QED
    BY <1>1 DEF Abstract!vars

LEMMA StepRefines ==
    ASSUME SeqLockAssumption, IInv, [Next]_vars
    PROVE  [Abstract!Next]_Abstract!vars
  <1>1. CASE UNCHANGED vars
    BY <1>1 DEF vars, Abstract!vars, Mode
  <1>2. ASSUME NEW t \in Thread, Step(t)
        PROVE  Abstract!Next \/ UNCHANGED Abstract!vars
    BY <1>2, ReadSteps, ChangeSteps, SilentSteps DEF Step, Inside
  <1> QED
    BY <1>1, <1>2 DEF Next

\* Every behaviour of the sequence lock is one LayoutLockSpec allows: a read section
\* ends well only if no layout change overlapped it, although versions come round.
THEOREM Implements ==
    ASSUME SeqLockAssumption
    PROVE  Spec => ImplementsSpec
  <1>1. Init => Abstract!Init
    BY DEF Init, Abstract!Init, Mode
  <1> QED
    BY <1>1, StepRefines, Invariance, PTL DEF Spec, ImplementsSpec, Abstract!Spec
=============================================================================
