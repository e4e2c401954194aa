---------------------------- MODULE MCLocksProofs ----------------------------
(***************************************************************************)
(* What the proofs about single locks say of MCLocks, for any number of    *)
(* threads N > 0 and all constants that LocksAssumption allows.            *)
(*                                                                         *)
(* The proofs about the OPTIK lock, the sequence lock and the readers-     *)
(* writer lock are those of their own modules: here it is shown that the   *)
(* run has the same invariants and the same steps.  The scalar readers-    *)
(* writer locks, the locks on one word, the MCS lock, the CLH lock and the *)
(* hierarchical ticket lock are proved correct here, one after the other,  *)
(* each with its inductive invariant and its steps as those of LockSpec.   *)
(***************************************************************************)
EXTENDS MCLocks, FiniteSetTheorems, SequenceTheorems, TLAPS

OP == INSTANCE OptikLockProofs
QP == INSTANCE SeqLockProofs
P == INSTANCE LayoutRWLockProofs

\* The run stays with the lock that it has chosen.
LEMMA WhichStays == ASSUME [Next \/ AllDone]_vars PROVE which' = which
  BY DEF Next, Frame, AllDone, vars

-----------------------------------------------------------------------------
(* The OPTIK lock *)

LEMMA SameOptik == O!IInv <=> OP!IInv
  <1>1. O!TypeOK <=> OP!TypeOK
    BY DEF O!TypeOK, OP!TypeOK, O!VersionNumbers, OP!VersionNumbers, O!Deleted, OP!Deleted,
           O!PCs, OP!PCs
  <1>2. O!UsageInv <=> OP!UsageInv
    BY DEF O!UsageInv, OP!UsageInv, O!UsageOf, OP!UsageOf
  <1>3. O!HoldInv <=> OP!HoldInv
    BY DEF O!HoldInv, OP!HoldInv, O!Holds, OP!Holds, O!Deleted, OP!Deleted
  <1>4. O!TicketInv <=> OP!TicketInv
    BY DEF O!TicketInv, OP!TicketInv, O!Draws, OP!Draws
  <1>5. O!NotedInv <=> OP!NotedInv
    BY DEF O!NotedInv, OP!NotedInv, O!Base, OP!Base, O!Deleted, OP!Deleted
  <1>6. O!SuccessMeansUnchanged <=> OP!SuccessMeansUnchanged
    BY DEF O!SuccessMeansUnchanged, OP!SuccessMeansUnchanged
  <1> QED
    BY <1>1, <1>2, <1>3, <1>4, <1>5, <1>6 DEF O!IInv, OP!IInv

LEMMA OptikStarts == ASSUME Init, which = "optik" PROVE O!IInv
  <1>1. OP!OptikLockAssumption
    BY LocksAssumption DEF O!OptikLockAssumption, OP!OptikLockAssumption, O!IsFiniteSet,
                           OP!IsFiniteSet
  <1>2. OP!Init
    BY DEF Init, O!Init, OP!Init, O!Nothing, OP!Nothing
  <1> QED
    BY <1>1, <1>2, OP!StartsInvariant, SameOptik

LEMMA OptikSteps ==
    ASSUME NEW t \in Thread, O!Call(t) \/ O!Step(t)
    PROVE  OP!Call(t) \/ OP!Step(t)
  <1> USE DEF O!Goto, OP!Goto, O!Inside, OP!Inside, O!Outside, OP!Outside, O!Nothing, OP!Nothing,
              O!IsLocked, OP!IsLocked, O!LockIsFree, OP!LockIsFree, O!Take, OP!Take,
              O!IsSame, OP!IsSame
  <1>1. O!Note(t) => OP!Note(t)
    BY DEF O!Note, OP!Note
  <1>2. O!TrylockVersion(t) => OP!TrylockVersion(t)
    BY DEF O!TrylockVersion, OP!TrylockVersion
  <1>3. /\ O!TrylockVersionWaits(t) => OP!TrylockVersionWaits(t)
        /\ O!TrylockVersionTakes(t) => OP!TrylockVersionTakes(t)
    BY DEF O!TrylockVersionWaits, OP!TrylockVersionWaits,
           O!TrylockVersionTakes, OP!TrylockVersionTakes
  <1>4. O!TrylockVersionCompares(t) => OP!TrylockVersionCompares(t)
    BY DEF O!TrylockVersionCompares, OP!TrylockVersionCompares
  <1>5. O!Trylock(t) => OP!Trylock(t)
    BY DEF O!Trylock, OP!Trylock
  <1>6. O!TrylockVdelete(t) => OP!TrylockVdelete(t)
    BY DEF O!TrylockVdelete, OP!TrylockVdelete, O!Deleted, OP!Deleted
  <1>7. \A compares \in BOOLEAN : /\ O!Lock(t, compares) => OP!Lock(t, compares)
                                  /\ O!DrawTicket(t, compares) => OP!DrawTicket(t, compares)
    BY DEF O!Lock, OP!Lock, O!DrawTicket, OP!DrawTicket
  <1>8. O!LockCas(t) => OP!LockCas(t)
    BY DEF O!LockCas, OP!LockCas
  <1>9. O!Served(t) => OP!Served(t)
    BY DEF O!Served, OP!Served
  <1>10. (O!LoadSeparate(t) => OP!LoadSeparate(t)) /\ (O!CasSeparate(t) => OP!CasSeparate(t))
    BY DEF O!LoadSeparate, OP!LoadSeparate, O!CasSeparate, OP!CasSeparate
  <1>11. (O!Unlock(t) => OP!Unlock(t)) /\ (O!Unlockv(t) => OP!Unlockv(t))
    BY DEF O!Unlock, OP!Unlock, O!Unlockv, OP!Unlockv, O!Changes, OP!Changes
  <1>12. (O!FreeSeparate(t) => OP!FreeSeparate(t)) /\ (O!Revert(t) => OP!Revert(t))
    BY DEF O!FreeSeparate, OP!FreeSeparate, O!Revert, OP!Revert
  <1> QED
    BY <1>1, <1>2, <1>3, <1>4, <1>5, <1>6, <1>7, <1>8, <1>9, <1>10, <1>11, <1>12
       DEF O!Call, O!Step, O!Locking, OP!Call, OP!Step, OP!Locking

LEMMA OptikStays ==
    ASSUME which = "optik", O!IInv, [Next \/ AllDone]_vars
    PROVE  O!IInv'
  <1>1. [OP!Next]_(OP!vars)
    <2>1. CASE UNCHANGED vars
      BY <2>1 DEF vars, OP!vars
    <2>2. ASSUME NEW t \in Thread, Call(t) \/ Step(t)
          PROVE  OP!Next
      BY <2>2, OptikSteps DEF Call, Step, OP!Next
    <2> QED
      BY <2>1, <2>2 DEF Next, AllDone
  <1>2. OP!IInv'
    BY <1>1, OP!StaysInvariant, SameOptik
  <1> QED
    BY <1>2, SameOptik, PTL

-----------------------------------------------------------------------------
(* The sequence lock *)

LEMMA SeqAssumption == QP!SeqLockAssumption
  BY LocksAssumption DEF Q!SeqLockAssumption, QP!SeqLockAssumption

LEMMA SameSeq == Q!IInv <=> QP!IInv
  <1>1. Q!TypeOK <=> QP!TypeOK
    BY DEF Q!TypeOK, QP!TypeOK, Q!PCs, QP!PCs
  <1>2. Q!LockInv <=> QP!LockInv
    BY DEF Q!LockInv, QP!LockInv, Q!Holds, QP!Holds
  <1>3. Q!VersionInv <=> QP!VersionInv
    BY DEF Q!VersionInv, QP!VersionInv, Q!NoChanger, QP!NoChanger
  <1>4. Q!LagInv <=> QP!LagInv
    BY DEF Q!LagInv, QP!LagInv, Q!ReaderInv, QP!ReaderInv, Q!Moved, QP!Moved
  <1> QED
    BY <1>1, <1>2, <1>3, <1>4 DEF Q!IInv, QP!IInv

LEMMA SameTells == Q!VersionTellsChange <=> QP!VersionTellsChange
  BY DEF Q!VersionTellsChange, QP!VersionTellsChange, Q!NoChanger, QP!NoChanger,
         Q!Cardinality, QP!Cardinality

LEMMA SeqStarts == ASSUME Init, which = "seqlock" PROVE Q!IInv /\ QP!Init
  <1>1. QP!Init
    BY DEF Init, Q!Init, QP!Init
  <1> QED
    BY <1>1, SeqAssumption, QP!StartsInvariant, SameSeq

LEMMA SeqSteps ==
    ASSUME which = "seqlock", [Next \/ AllDone]_vars
    PROVE  [QP!Next]_(QP!vars)
  <1>1. CASE UNCHANGED vars
    BY <1>1 DEF vars, QP!vars
  <1>2. ASSUME NEW t \in Thread, Call(t) \/ Step(t)
        PROVE  QP!Next
    <2> USE DEF Q!Goto, QP!Goto, Q!Increment, QP!Increment
    <2>1. CASE Q!CallStartRead(t) \/ Q!CallStartLayoutChange(t)
      BY <2>1 DEF Q!CallStartRead, QP!CallStartRead, Q!CallStartLayoutChange,
                  QP!CallStartLayoutChange, QP!Step, QP!Next
    <2>2. CASE Q!startRead(t)
      BY <2>2 DEF Q!startRead, QP!startRead, Q!NoChanger, QP!NoChanger, QP!Inside, QP!Step,
                  QP!Next
    <2>3. CASE Q!finishRead(t)
      BY <2>3 DEF Q!finishRead, QP!finishRead, QP!Step, QP!Next
    <2>4. CASE Q!takeLock(t) \/ Q!releaseLock(t)
      BY <2>4 DEF Q!takeLock, QP!takeLock, Q!releaseLock, QP!releaseLock, QP!Inside, QP!Step,
                  QP!Next
    <2>5. CASE Q!openChange(t)
      BY <2>5 DEF Q!openChange, QP!openChange, Q!Reading, QP!Reading, QP!Inside, QP!Step, QP!Next
    <2>6. CASE Q!finishLayoutChange(t)
      BY <2>6 DEF Q!finishLayoutChange, QP!finishLayoutChange, QP!Step, QP!Next
    <2> QED
      BY <1>2, <2>1, <2>2, <2>3, <2>4, <2>5, <2>6 DEF Call, Step, Q!Inside
  <1> QED
    BY <1>1, <1>2 DEF Next, AllDone

LEMMA SeqStays ==
    ASSUME which = "seqlock", Q!IInv, [Next \/ AllDone]_vars
    PROVE  Q!IInv'
  <1>1. QP!IInv'
    BY SeqSteps, SeqAssumption, QP!StaysInvariant, SameSeq
  <1> QED
    BY <1>1, SameSeq, PTL

-----------------------------------------------------------------------------
(* The readers-writer lock *)

LEMMA SameThreads ==
    Thread = P!Thread /\ Thread = RW!Thread /\ P!SlotStates = RW!SlotStates /\ P!PCs = RW!PCs
  BY DEF Thread, P!Thread, RW!Thread, P!SlotStates, RW!SlotStates, P!PCs, RW!PCs

LEMMA SameRW == P!IInv <=> RW!IInv
  <1>1. P!TypeOK <=> RW!TypeOK
    BY SameThreads DEF P!TypeOK, RW!TypeOK
  <1>2. P!IndexInv <=> RW!IndexInv
    BY SameThreads DEF P!IndexInv, RW!IndexInv
  <1>3. \A w, s : P!Holds(w, s) <=> RW!Holds(w, s)
    BY DEF P!Holds, RW!Holds
  <1>4. P!SlotInv <=> RW!SlotInv
    BY SameThreads, <1>3 DEF P!SlotInv, RW!SlotInv
  <1>5. P!ValidInv <=> RW!ValidInv
    BY SameThreads DEF P!ValidInv, RW!ValidInv
  <1> QED
    BY <1>1, <1>2, <1>4, <1>5 DEF P!IInv, RW!IInv

LEMMA RWStarts == ASSUME Init, which = "rwlock" PROVE RW!IInv /\ P!Init
  <1>1. P!Init
    BY SameThreads DEF Init, RW!Init, P!Init
  <1> QED
    BY <1>1, P!StartsInvariant, SameRW, SlotsAssumption

LEMMA RWSteps ==
    ASSUME which = "rwlock", [Next \/ AllDone]_vars
    PROVE  [P!Next]_(P!vars)
  <1>1. CASE UNCHANGED vars
    BY <1>1 DEF vars, P!vars
  <1>2. ASSUME NEW t \in Thread, Call(t) \/ Step(t)
        PROVE  P!Next
    <2> USE DEF RW!Goto, P!Goto, RW!readLock, P!readLock, RW!readUnlock, P!readUnlock,
                RW!LoopStep, P!LoopStep
    <2>1. CASE RW!Call(t)
      BY <2>1, SameThreads DEF RW!Call, P!Call, P!Next
    <2>2. CASE RW!startRead(t)
      BY <2>2, SameThreads DEF RW!startRead, P!startRead, RW!NoChanger, P!NoChanger, P!Inside,
                               P!Next
    <2>3. CASE RW!startWrite(t)
      BY <2>3, SameThreads DEF RW!startWrite, P!startWrite, P!Inside, P!Next
    <2>4. CASE RW!writeLockSlot(t)
      BY <2>4, SameThreads DEF RW!writeLockSlot, P!writeLockSlot, P!Inside, P!Next
    <2>5. CASE RW!writeUnlockSlot(t)
      BY <2>5, SameThreads DEF RW!writeUnlockSlot, P!writeUnlockSlot, P!Inside, P!Next
    <2>6. CASE RW!Close(t)
      BY <2>6, SameThreads DEF RW!Close, P!Close, RW!finishRead, P!finishRead, RW!finishWrite,
                 P!finishWrite, RW!finishLayoutChange, P!finishLayoutChange, P!Next
    <2> QED
      BY <1>2, <2>1, <2>2, <2>3, <2>4, <2>5, <2>6 DEF Call, Step, RW!Inside
  <1> QED
    BY <1>1, <1>2 DEF Next, AllDone

LEMMA RWStays ==
    ASSUME which = "rwlock", RW!IInv, [Next \/ AllDone]_vars
    PROVE  RW!IInv'
  <1>1. P!IInv'
    BY RWSteps, P!StaysInvariant, SameRW, SlotsAssumption
  <1> QED
    BY <1>1, SameRW, PTL

-----------------------------------------------------------------------------
(* The scalar readers-writer locks *)

LEMMA SameCardinality ==
    /\ \A S : R!Cardinality(S) = Cardinality(S)
    /\ IsFiniteSet(Thread)
  <1>1. IsFiniteSet(Thread)
    BY FS_Interval, SlotsAssumption DEF Thread
  <1> QED
    BY <1>1 DEF R!Cardinality, Cardinality

\* The threads at some of the control points: how a thread joins or leaves them.
LEMMA AtCounts ==
    ASSUME NEW l
    PROVE  /\ R!At(l) \subseteq Thread /\ IsFiniteSet(R!At(l))
           /\ Cardinality(R!At(l)) \in Nat /\ Cardinality(R!At(l)) <= Cardinality(Thread)
           /\ Cardinality(R!At(l)) = 0 <=> R!At(l) = {}
           /\ Cardinality(Thread) \in Nat
  <1>1. R!At(l) \in SUBSET Thread
    BY DEF R!At
  <1> QED
    BY <1>1, SameCardinality, FS_Subset, FS_CardinalityType, FS_EmptySet

LEMMA AtMoves ==
    ASSUME R!TypeOK, NEW t \in Thread, NEW k \in R!PCs, R!Goto(t, k), NEW l
    PROVE  /\ pc[t] \notin l /\ k \in l => /\ R!At(l)' = R!At(l) \union {t}
                                          /\ Cardinality(R!At(l)') = Cardinality(R!At(l)) + 1
           /\ pc[t] \in l /\ k \notin l => /\ R!At(l)' = R!At(l) \ {t}
                                          /\ Cardinality(R!At(l)') = Cardinality(R!At(l)) - 1
           /\ (pc[t] \in l <=> k \in l) => R!At(l)' = R!At(l)
  <1>1. pc' = [pc EXCEPT ![t] = k] /\ pc \in [Thread -> R!PCs]
    BY DEF R!Goto, R!TypeOK
  <1>2. R!At(l)' = {u \in Thread : (IF u = t THEN k ELSE pc[u]) \in l}
    BY <1>1 DEF R!At
  <1>3. CASE pc[t] \notin l /\ k \in l
    <2>1. R!At(l)' = R!At(l) \union {t} /\ t \notin R!At(l)
      BY <1>2, <1>3 DEF R!At
    <2> QED
      BY <1>3, <2>1, AtCounts, FS_AddElement
  <1>4. CASE pc[t] \in l /\ k \notin l
    <2>1. R!At(l)' = R!At(l) \ {t} /\ t \in R!At(l)
      BY <1>2, <1>4 DEF R!At
    <2> QED
      BY <1>4, <2>1, AtCounts, FS_RemoveElement
  <1>5. CASE pc[t] \in l <=> k \in l
    BY <1>2, <1>5 DEF R!At
  <1> QED
    BY <1>3, <1>4, <1>5

\* CountTellsInside, in terms of the run.
Readers == R!At({"reading"})
Writers == R!At({"writing", "wstore"})
Pending == R!At({"wcas", "writing"})

CountIs ==
    /\ readerCount = IF Writers = {} THEN Cardinality(Readers) ELSE -1
    /\ Writers # {} => Readers = {} /\ Cardinality(Writers) = 1
    /\ writerPendingCount = Cardinality(Pending)

LEMMA CountMeans == R!CountTellsInside <=> CountIs
  BY SameCardinality DEF R!CountTellsInside, CountIs, Readers, Writers, Pending

\* While a writer is inside, it is the only one.
LEMMA WriterIsAlone ==
    ASSUME R!CountTellsInside, NEW t \in Thread, pc[t] \in {"writing", "wstore"}
    PROVE  Writers = {t} /\ Readers = {} /\ readerCount = -1
  <1>1. t \in Writers
    BY DEF Writers, R!At
  <1>2. Cardinality(Writers) = 1 /\ IsFiniteSet(Writers)
    BY <1>1, CountMeans, AtCounts DEF CountIs, Writers
  <1>3. Writers = {t}
    BY <1>1, <1>2, FS_Singleton
  <1> QED
    BY <1>1, <1>3, CountMeans DEF CountIs

\* A count that is not that of a writer is the number of readers.
LEMMA CountIsReaders ==
    ASSUME R!CountTellsInside, readerCount >= 0
    PROVE  Writers = {} /\ readerCount = Cardinality(Readers)
  BY CountMeans DEF CountIs

LEMMA ScalarInductive ==
    ASSUME R!TypeOK, R!CountTellsInside, NEW t \in Thread,
           R!CallReadLock(t) \/ R!write_lock(t) \/ R!Inside(t) \/ R!Close(t)
    PROVE  R!CountTellsInside' /\ pc' \in [Thread -> R!PCs]
           /\ tmp' \in [Thread -> 0..Cardinality(Thread)]
  <1> USE DEF R!PCs
  <1>0. /\ pc \in [Thread -> R!PCs] /\ tmp \in [Thread -> 0..Cardinality(Thread)]
        /\ readerCount \in -1..Cardinality(Thread) /\ writerPendingCount \in Nat
        /\ Cardinality(Thread) \in Nat
        /\ Cardinality(Readers) \in Nat /\ Cardinality(Readers) <= Cardinality(Thread)
        /\ Cardinality(Pending) \in Nat
    BY SameCardinality, AtCounts DEF R!TypeOK, Readers, Pending
  <1>1. CountIs' => R!CountTellsInside'
    BY CountMeans, PTL
  <1>2. CASE R!CallReadLock(t) \/ R!PassWriters(t) \/ R!LoadCount(t)
    <2>1. \E k \in {"spin", "load", "cas"} : R!Goto(t, k) /\ pc[t] \in {"idle", "spin", "load"}
      BY <1>2 DEF R!CallReadLock, R!PassWriters, R!LoadCount
    <2>2. Readers' = Readers /\ Writers' = Writers /\ Pending' = Pending
      BY <2>1, AtMoves DEF Readers, Writers, Pending
    <2>3. readerCount' = readerCount /\ writerPendingCount' = writerPendingCount
      BY <1>2 DEF R!CallReadLock, R!PassWriters, R!LoadCount
    <2>4. tmp' \in [Thread -> 0..Cardinality(Thread)]
      BY <1>0, <1>2 DEF R!CallReadLock, R!PassWriters, R!LoadCount, R!Clamp
    <2>5. pc' \in [Thread -> R!PCs]
      BY <1>0, <2>1 DEF R!Goto
    <2> QED
      BY <1>1, <2>2, <2>3, <2>4, <2>5, CountMeans DEF CountIs
  <1>3. CASE R!CASCount(t)
    <2>1. pc[t] = "cas" /\ tmp' = [tmp EXCEPT ![t] = 0] /\ UNCHANGED writerPendingCount
      BY <1>3 DEF R!CASCount
    <2>2. tmp' \in [Thread -> 0..Cardinality(Thread)]
      BY <1>0, <2>1
    <2>3. CASE readerCount = tmp[t]
      <3>1. readerCount' = readerCount + 1 /\ R!Goto(t, "reading")
        BY <1>3, <2>3 DEF R!CASCount
      <3>2. readerCount >= 0
        BY <1>0, <2>3
      <3>3. Writers = {} /\ readerCount = Cardinality(Readers)
        BY <3>2, CountIsReaders
      <3>4. Cardinality(Readers') = Cardinality(Readers) + 1 /\ Writers' = Writers
            /\ Pending' = Pending
        BY <2>1, <3>1, AtMoves DEF Readers, Writers, Pending
      <3>5. pc' \in [Thread -> R!PCs]
        BY <1>0, <3>1 DEF R!Goto
      <3> QED
        BY <1>1, <2>1, <2>2, <3>1, <3>3, <3>4, <3>5, CountMeans DEF CountIs
    <2>4. CASE readerCount # tmp[t]
      <3>1. readerCount' = readerCount /\ R!Goto(t, "load")
        BY <1>3, <2>4 DEF R!CASCount
      <3>2. Readers' = Readers /\ Writers' = Writers /\ Pending' = Pending
        BY <2>1, <3>1, AtMoves DEF Readers, Writers, Pending
      <3>3. pc' \in [Thread -> R!PCs]
        BY <1>0, <3>1 DEF R!Goto
      <3> QED
        BY <1>1, <2>1, <2>2, <3>1, <3>2, <3>3, CountMeans DEF CountIs
    <2> QED
      BY <2>3, <2>4
  <1>4. CASE R!read_unlock(t)
    <2>1. pc[t] = "reading" /\ R!Goto(t, "idle") /\ readerCount' = readerCount - 1
          /\ UNCHANGED <<writerPendingCount, tmp>>
      BY <1>4 DEF R!read_unlock
    <2>2. Cardinality(Readers') = Cardinality(Readers) - 1 /\ Writers' = Writers
          /\ Pending' = Pending
      BY <2>1, AtMoves DEF Readers, Writers, Pending
    <2>3. t \in Readers
      BY <2>1 DEF Readers, R!At
    <2>5. Writers = {} /\ readerCount = Cardinality(Readers)
      BY <2>3, CountMeans DEF CountIs
    <2>4. pc' \in [Thread -> R!PCs]
      BY <1>0, <2>1 DEF R!Goto
    <2> QED
      BY <1>0, <1>1, <2>1, <2>2, <2>4, <2>5, CountMeans DEF CountIs
  <1>5. CASE R!write_lock(t)
    <2>1. pc[t] = "idle" /\ R!Goto(t, "wcas") /\ writerPendingCount' = writerPendingCount + 1
          /\ UNCHANGED <<readerCount, tmp>>
      BY <1>5 DEF R!write_lock
    <2>2. Readers' = Readers /\ Writers' = Writers
          /\ Cardinality(Pending') = Cardinality(Pending) + 1
      BY <2>1, AtMoves DEF Readers, Writers, Pending
    <2>3. pc' \in [Thread -> R!PCs]
      BY <1>0, <2>1 DEF R!Goto
    <2> QED
      BY <1>0, <1>1, <2>1, <2>2, <2>3, CountMeans DEF CountIs
  <1>6. CASE R!CASWriter(t)
    <2>1. pc[t] = "wcas" /\ R!Goto(t, "writing") /\ readerCount = 0 /\ readerCount' = -1
          /\ UNCHANGED <<writerPendingCount, tmp>>
      BY <1>6 DEF R!CASWriter
    <2>2. Writers = {} /\ Readers = {}
      BY <2>1, CountIsReaders, AtCounts DEF Readers
    <2>3. Readers' = Readers /\ Writers' = {t} /\ Pending' = Pending
      BY <2>1, <2>2, AtMoves DEF Readers, Writers, Pending
    <2>4. Cardinality({t}) = 1
      BY FS_Singleton
    <2>5. pc' \in [Thread -> R!PCs]
      BY <1>0, <2>1 DEF R!Goto
    <2> QED
      BY <1>0, <1>1, <2>1, <2>2, <2>3, <2>4, <2>5, CountMeans DEF CountIs
  <1>7. CASE R!write_unlock(t)
    <2>1. pc[t] = "writing" /\ R!Goto(t, "wstore")
          /\ writerPendingCount' = writerPendingCount - 1 /\ UNCHANGED <<readerCount, tmp>>
      BY <1>7 DEF R!write_unlock
    <2>2. Readers' = Readers /\ Writers' = Writers
          /\ Cardinality(Pending') = Cardinality(Pending) - 1
      BY <2>1, AtMoves DEF Readers, Writers, Pending
    <2>3. pc' \in [Thread -> R!PCs]
      BY <1>0, <2>1 DEF R!Goto
    <2> QED
      BY <1>0, <1>1, <2>1, <2>2, <2>3, CountMeans DEF CountIs
  <1>8. CASE R!StoreZero(t)
    <2>1. pc[t] = "wstore" /\ R!Goto(t, "idle") /\ readerCount' = 0
          /\ UNCHANGED <<writerPendingCount, tmp>>
      BY <1>8 DEF R!StoreZero
    <2>2. Writers = {t} /\ Readers = {}
      BY <2>1, WriterIsAlone
    <2>3. Readers' = Readers /\ Writers' = {} /\ Pending' = Pending
      BY <2>1, <2>2, AtMoves DEF Readers, Writers, Pending
    <2>4. Cardinality({}) = 0
      BY FS_EmptySet
    <2>5. pc' \in [Thread -> R!PCs]
      BY <1>0, <2>1 DEF R!Goto
    <2> QED
      BY <1>0, <1>1, <2>1, <2>2, <2>3, <2>4, <2>5, CountMeans DEF CountIs
  <1> QED
    BY <1>2, <1>3, <1>4, <1>5, <1>6, <1>7, <1>8 DEF R!Inside, R!Close

LEMMA ScalarStays ==
    ASSUME which = "scalar", R!IInv, [Next \/ AllDone]_vars
    PROVE  R!IInv'
  <1>1. ASSUME NEW t \in Thread, Call(t) \/ Step(t)
        PROVE  R!CountTellsInside' /\ pc' \in [Thread -> R!PCs]
               /\ tmp' \in [Thread -> 0..Cardinality(Thread)]
    BY <1>1, ScalarInductive DEF Call, Step, R!IInv
  <1>2. CASE UNCHANGED vars
    BY <1>2 DEF vars, R!IInv, R!TypeOK, R!CountTellsInside, R!At
  <1>3. ASSUME R!CountTellsInside', pc' \in [Thread -> R!PCs],
               tmp' \in [Thread -> 0..Cardinality(Thread)]
        PROVE  R!IInv'
    <2>1. /\ readerCount' = IF Writers' = {} THEN Cardinality(Readers') ELSE -1
          /\ writerPendingCount' = Cardinality(Pending')
      <3>1. R!CountTellsInside' => CountIs'
        BY CountMeans, PTL
      <3> QED
        BY <1>3, <3>1 DEF CountIs
    <2>2. Readers' \in SUBSET Thread /\ Pending' \in SUBSET Thread
      BY DEF Readers, Pending, R!At
    <2>3. /\ Cardinality(Readers') \in 0..Cardinality(Thread)
          /\ Cardinality(Pending') \in 0..Cardinality(Thread)
          /\ Cardinality(Thread) \in Nat
      BY <2>2, SameCardinality, FS_Subset, FS_CardinalityType
    <2>4. readerCount' \in -1..Cardinality(Thread)
      BY <2>1, <2>3
    <2> QED
      BY <1>3, <2>1, <2>3, <2>4, SameCardinality DEF R!IInv, R!TypeOK
  <1> QED
    BY <1>1, <1>2, <1>3 DEF Next, AllDone

LEMMA ScalarStarts == ASSUME Init, which = "scalar" PROVE R!IInv
  <1>1. R!Init
    BY DEF Init
  <1>2. Readers = {} /\ Writers = {} /\ Pending = {}
    BY <1>1 DEF R!Init, Readers, Writers, Pending, R!At
  <1>3. R!CountTellsInside
    BY <1>1, <1>2, CountMeans, FS_EmptySet DEF CountIs, R!Init
  <1>4. Cardinality(Thread) \in Nat
    BY SameCardinality, FS_CardinalityType
  <1>5. R!TypeOK
    BY <1>1, <1>4, SameCardinality DEF R!Init, R!TypeOK, R!PCs
  <1> QED
    BY <1>3, <1>5 DEF R!IInv

-----------------------------------------------------------------------------
(* What a step of a lock looks like from outside: the lock that LockSpec describes *)

Moves(t) ==
    \/ Phase(t)' = Phase(t) /\ line' = line
    \/ /\ Phase(t) = "outside" /\ Phase(t)' = "waiting"
       /\ line' = IF Fair THEN Append(line, t) ELSE line
    \/ /\ Phase(t) = "waiting" /\ Phase(t)' = "inside"
       /\ \A u \in Thread : Phase(u) # "inside"
       /\ IF Fair THEN t = Head(line) /\ line' = Tail(line) ELSE line' = line
    \/ /\ Phase(t) = "outside" /\ Phase(t)' = "inside"
       /\ \A u \in Thread : Phase(u) # "inside"
       /\ Fair => line = <<>>
       /\ line' = line
    \/ Phase(t) = "inside" /\ Phase(t)' = "outside" /\ line' = line

LEMMA MoveRefines ==
    ASSUME NEW t \in Thread, \A u \in Thread \ {t} : Phase(u)' = Phase(u), Fair' = Fair, Moves(t)
    PROVE  [Abstract!Next]_(Abstract!vars)
  <1> DEFINE phase == [u \in Thread |-> Phase(u)]
  <1>1. phase' = [phase EXCEPT ![t] = Phase(t)']
    OBVIOUS
  <1>2. CASE Phase(t)' = Phase(t) /\ line' = line
    <2>1. phase' = phase
      BY <1>1, <1>2
    <2> QED
      BY <1>2, <2>1 DEF Abstract!vars
  <1>3. CASE ~(Phase(t)' = Phase(t) /\ line' = line)
    <2>1. Abstract!Arrive(t) \/ Abstract!Enter(t) \/ Abstract!TryEnter(t) \/ Abstract!Leave(t)
      BY <1>1, <1>3 DEF Moves, Abstract!Arrive, Abstract!Enter, Abstract!TryEnter, Abstract!Leave,
         Abstract!NobodyInside
    <2> QED
      BY <2>1 DEF Abstract!Next
  <1> QED
    BY <1>2, <1>3

LEMMA StutterRefines ==
    ASSUME UNCHANGED vars
    PROVE  [Abstract!Next]_(Abstract!vars)
  BY DEF Abstract!vars, vars, Phase, SP!Phase, M!Phase, C!Phase, H!Phase, O!Phase, Fair

-----------------------------------------------------------------------------
(* Sequences without repetitions: the lines of the fair locks *)

Distinct(s) == \A j, k \in 1..Len(s) : s[j] = s[k] => j = k
Members(s) == {s[k] : k \in 1..Len(s)}

LEMMA LineAppend ==
    ASSUME NEW S, NEW s \in Seq(S), NEW t \in S, t \notin Members(s), Distinct(s)
    PROVE  /\ Append(s, t) \in Seq(S) /\ Append(s, t) # <<>> /\ Len(Append(s, t)) = Len(s) + 1
           /\ \A k \in 1..Len(s) : Append(s, t)[k] = s[k]
           /\ Append(s, t)[Len(s) + 1] = t
           /\ Distinct(Append(s, t))
           /\ Members(Append(s, t)) = Members(s) \union {t}
  <1> DEFINE r == Append(s, t)
  <1> HIDE DEF r
  <1>1. /\ Len(s) \in Nat /\ r \in Seq(S) /\ r # <<>> /\ Len(r) = Len(s) + 1
        /\ \A k \in 1..Len(s) : r[k] = s[k]
        /\ r[Len(s) + 1] = t
    BY AppendProperties, LenProperties DEF r
  <1>2. /\ \A k \in 1..Len(r) : k \in 1..Len(s) \/ k = Len(s) + 1
        /\ \A k \in 1..Len(s) : k \in 1..Len(r)
        /\ Len(s) + 1 \in 1..Len(r)
    BY <1>1
  <1>3. \A k \in 1..Len(s) : r[k] # t
    BY <1>1 DEF Members
  <1>4. Distinct(r)
    BY <1>1, <1>2, <1>3 DEF Distinct
  <1>5. Members(r) = Members(s) \union {t}
    BY <1>1, <1>2 DEF Members
  <1> QED
    BY <1>1, <1>4, <1>5 DEF r

LEMMA LineTail ==
    ASSUME NEW S, NEW s \in Seq(S), s # <<>>, Distinct(s)
    PROVE  /\ Head(s) = s[1] /\ s[1] \in Members(s)
           /\ Tail(s) \in Seq(S) /\ Len(Tail(s)) = Len(s) - 1 /\ Len(s) \in Nat \ {0}
           /\ \A k \in 1..Len(Tail(s)) : k + 1 \in 1..Len(s) /\ Tail(s)[k] = s[k + 1]
           /\ Distinct(Tail(s))
           /\ Members(Tail(s)) = Members(s) \ {s[1]}
  <1> DEFINE r == Tail(s)
  <1> HIDE DEF r
  <1>1. /\ Len(s) \in Nat \ {0} /\ r \in Seq(S) /\ Len(r) = Len(s) - 1
        /\ \A k \in 1..Len(r) : r[k] = s[k + 1]
    BY HeadTailProperties, EmptySeq DEF r
  <1>2. /\ \A k \in 1..Len(r) : k + 1 \in 1..Len(s) /\ k + 1 # 1
        /\ \A k \in 1..Len(s) : k = 1 \/ k - 1 \in 1..Len(r)
        /\ \A j, k \in 1..Len(r) : j + 1 = k + 1 => j = k
        /\ 1 \in 1..Len(s)
    BY <1>1
  <1>3. Distinct(r)
    <2> SUFFICES ASSUME NEW j \in 1..Len(r), NEW k \in 1..Len(r), r[j] = r[k]
                 PROVE  j = k
      BY DEF Distinct
    <2>1. j + 1 \in 1..Len(s) /\ k + 1 \in 1..Len(s) /\ r[j] = s[j + 1] /\ r[k] = s[k + 1]
      BY <1>1, <1>2
    <2> QED
      BY <1>2, <2>1 DEF Distinct
  <1>4. Members(r) \subseteq Members(s) \ {s[1]}
    <2> SUFFICES ASSUME NEW k \in 1..Len(r)
                 PROVE  r[k] \in Members(s) \ {s[1]}
      BY DEF Members
    <2> QED
      BY <1>1, <1>2 DEF Members, Distinct
  <1>5. Members(s) \ {s[1]} \subseteq Members(r)
    <2> SUFFICES ASSUME NEW k \in 1..Len(s), k # 1
                 PROVE  s[k] \in Members(r)
      BY DEF Members
    <2>1. k - 1 \in 1..Len(r) /\ (k - 1) + 1 = k
      BY <1>1, <1>2
    <2>2. r[k - 1] = s[k]
      BY <1>1, <2>1
    <2> QED
      BY <2>1, <2>2 DEF Members
  <1>6. Head(s) = s[1]
    BY <1>1
  <1> QED
    BY <1>1, <1>2, <1>3, <1>4, <1>5, <1>6 DEF r, Members

\* A line without repetitions is no longer than there are members it may have.
LEMMA LineLength ==
    ASSUME NEW S, NEW s \in Seq(S), Distinct(s), NEW T, IsFiniteSet(T), Members(s) \subseteq T
    PROVE  Len(s) \in Nat /\ Cardinality(T) \in Nat /\ Len(s) <= Cardinality(T)
  <1>1. Len(s) \in Nat /\ DOMAIN s = 1..Len(s) /\ s \in [1..Len(s) -> S]
    BY LenProperties
  <1>2. s \in [1..Len(s) -> T]
    BY <1>1 DEF Members
  <1>3. s \in Injection(1..Len(s), T)
    BY <1>1, <1>2 DEF Injection, IsInjective, Distinct
  <1>4. Cardinality(1..Len(s)) <= Cardinality(T)
    BY <1>3, FS_Injection
  <1>5. Cardinality(1..Len(s)) = Len(s)
    BY <1>1, FS_Interval
  <1> QED
    BY <1>1, <1>4, <1>5, FS_CardinalityType

LEMMA ThreadIsFinite == IsFiniteSet(Thread) /\ Cardinality(Thread) \in Nat
  BY FS_Interval, FS_CardinalityType, SlotsAssumption DEF Thread

-----------------------------------------------------------------------------
(* The locks on one word *)

LEMMA Increments ==
    ASSUME NEW a \in 0 .. Wrap - 1, Wrap \in Nat \ {0}
    PROVE  (a + 1) % Wrap = IF a + 1 = Wrap THEN 0 ELSE a + 1
  <1>1. CASE a + 1 = Wrap
    BY <1>1
  <1>2. CASE a + 1 < Wrap
    BY <1>2
  <1> QED
    BY <1>1, <1>2

\* How far number n is from number c, when numbers are counted modulo Wrap
Apart(c, n) == IF c <= n THEN n - c ELSE n + Wrap - c

LEMMA ApartType ==
    ASSUME Wrap \in Nat \ {0}, NEW c \in 0 .. Wrap - 1, NEW n \in 0 .. Wrap - 1
    PROVE  Apart(c, n) \in 0 .. Wrap - 1 /\ (Apart(c, n) = 0 <=> c = n)
  BY DEF Apart

LEMMA ApartDrawn ==
    ASSUME Wrap \in Nat \ {0}, NEW c \in 0 .. Wrap - 1, NEW n \in 0 .. Wrap - 1,
           Apart(c, n) + 1 < Wrap
    PROVE  Apart(c, (n + 1) % Wrap) = Apart(c, n) + 1
  <1>1. c \in Int /\ n \in Int /\ 0 <= c /\ c < Wrap /\ 0 <= n /\ n < Wrap /\ Wrap \in Int
    OBVIOUS
  <1>2. CASE n + 1 = Wrap
    <2>1. (n + 1) % Wrap = 0
      BY <1>2, Increments
    <2>2. Apart(c, n) = n - c
      BY <1>1, <1>2 DEF Apart
    <2>3. c > 0
      BY <1>1, <1>2, <2>2
    <2>4. Apart(c, 0) = Wrap - c
      BY <1>1, <2>3 DEF Apart
    <2> QED
      BY <1>1, <1>2, <2>1, <2>2, <2>4
  <1>3. CASE n + 1 # Wrap
    <2>1. (n + 1) % Wrap = n + 1
      BY <1>3, Increments
    <2>2. n + 1 # c
      BY <1>1 DEF Apart
    <2>3. Apart(c, n + 1) = Apart(c, n) + 1
      BY <1>1, <2>2 DEF Apart
    <2> QED
      BY <2>1, <2>3
  <1> QED
    BY <1>2, <1>3

LEMMA ApartServed ==
    ASSUME Wrap \in Nat \ {0}, NEW c \in 0 .. Wrap - 1, NEW n \in 0 .. Wrap - 1,
           Apart(c, n) > 0
    PROVE  Apart((c + 1) % Wrap, n) = Apart(c, n) - 1
  <1>1. c \in Int /\ n \in Int /\ 0 <= c /\ c < Wrap /\ 0 <= n /\ n < Wrap /\ Wrap \in Int
    OBVIOUS
  <1>2. c # n
    BY ApartType
  <1>3. CASE c + 1 = Wrap
    <2>1. (c + 1) % Wrap = 0
      BY <1>3, Increments
    <2>2. Apart(0, n) = n /\ Apart(c, n) = n + Wrap - c
      BY <1>1, <1>2, <1>3 DEF Apart
    <2> QED
      BY <1>1, <1>3, <2>1, <2>2
  <1>4. CASE c + 1 # Wrap
    <2>1. (c + 1) % Wrap = c + 1
      BY <1>4, Increments
    <2>2. Apart(c + 1, n) = Apart(c, n) - 1
      BY <1>1, <1>2 DEF Apart
    <2> QED
      BY <2>1, <2>2
  <1> QED
    BY <1>3, <1>4

LEMMA SpinAssumption == Wrap \in Nat /\ Cardinality(Thread) < Wrap
  BY LocksAssumption, ThreadIsFinite
     DEF SP!SpinLockAssumption, SP!Cardinality, Cardinality

LEMMA SpinLine ==
    ASSUME line \in Seq(Thread)
    PROVE  SP!LineInv <=> Distinct(line) /\ Members(line) = {t \in Thread : pc[t] = "wait"}
  BY LenProperties DEF SP!LineInv, SP!IsInjective, SP!Range, Distinct, Members

LEMMA SpinSteps ==
    ASSUME which = "spin", [Next \/ AllDone]_vars
    PROVE  UNCHANGED vars \/ \E t \in Thread : SP!Call(t) \/ SP!Step(t)
  BY DEF Next, Call, Step, AllDone

\* The numbers that a step may store, and what a thread that waits is in.
LEMMA SpinFacts ==
    ASSUME SP!IInv, NEW t \in Thread
    PROVE  /\ Wrap \in Nat \ {0}
           /\ (ticket + 1) % Wrap = IF ticket + 1 = Wrap THEN 0 ELSE ticket + 1
           /\ (curr + 1) % Wrap = IF curr + 1 = Wrap THEN 0 ELSE curr + 1
           /\ (ticket + 1) % Wrap \in 0 .. Wrap - 1 /\ (curr + 1) % Wrap \in 0 .. Wrap - 1
           /\ Distinct(line) /\ Members(line) = {u \in Thread : pc[u] = "wait"}
           /\ pc[t] = "wait" => \E k \in 1..Len(line) : line[k] = t
           /\ Len(line) \in Nat /\ DOMAIN line = 1..Len(line)
           /\ \A k \in 1..Len(line) : line[k] \in Thread /\ pc[line[k]] = "wait"
  <1>1. Wrap \in Nat \ {0} /\ ticket \in 0 .. Wrap - 1 /\ curr \in 0 .. Wrap - 1
    BY SpinAssumption, ThreadIsFinite DEF SP!IInv, SP!TypeOK
  <1>2. /\ (ticket + 1) % Wrap = IF ticket + 1 = Wrap THEN 0 ELSE ticket + 1
        /\ (curr + 1) % Wrap = IF curr + 1 = Wrap THEN 0 ELSE curr + 1
    BY <1>1, Increments
  <1>3. line \in Seq(Thread)
    BY DEF SP!IInv, SP!TypeOK
  <1>4. Distinct(line) /\ Members(line) = {u \in Thread : pc[u] = "wait"}
    BY <1>3, SpinLine DEF SP!IInv
  <1>5. Len(line) \in Nat /\ DOMAIN line = 1..Len(line)
    BY <1>3, LenProperties
  <1>6. \A k \in 1..Len(line) : line[k] \in Thread /\ pc[line[k]] = "wait"
    BY <1>4 DEF Members
  <1>7. pc[t] = "wait" => \E k \in 1..Len(line) : line[k] = t
    BY <1>4 DEF Members
  <1> QED
    BY <1>1, <1>2, <1>4, <1>5, <1>6, <1>7

\* The first of the line is served, and nobody else, when nobody is inside.
LEMMA ServedIsFirst ==
    ASSUME SP!IInv, NEW t \in Thread, SP!Served(t)
    PROVE  /\ line # <<>> /\ Len(line) >= 1 /\ line[1] = t /\ kind = "ticket"
           /\ \A u \in Thread : pc[u] # "inside"
  <1>1. PICK k \in 1..Len(line) : line[k] = t
    BY SpinFacts DEF SP!Served
  <1>2. kind = "ticket"
    <2>1. line # <<>>
      BY <1>1, EmptySeq
    <2> QED
      BY <2>1 DEF SP!IInv, SP!HoldInv
  <1>3. SP!Ahead(my[line[k]]) = SP!Held + k - 1
    BY <1>1, <1>2, SpinFacts DEF SP!IInv, SP!TicketInv
  <1>4. SP!Ahead(my[t]) = 0
    BY DEF SP!Ahead, SP!Served, SP!IInv, SP!TypeOK
  <1>5. SP!Held \in {0, 1} /\ Len(line) \in Nat
    BY SpinFacts DEF SP!Held
  <1>6. k = 1 /\ SP!Held = 0 /\ Len(line) >= 1
    BY <1>1, <1>3, <1>4, <1>5
  <1>7. line # <<>>
    BY <1>6, EmptySeq
  <1>8. \A u \in Thread : pc[u] # "inside"
    BY <1>6 DEF SP!Held
  <1> QED
    BY <1>1, <1>2, <1>6, <1>7, <1>8

LEMMA SpinTypes ==
    ASSUME SP!IInv, NEW t \in Thread, SP!Call(t) \/ SP!Step(t)
    PROVE  SP!TypeOK'
  <1> USE DEF SP!TypeOK, SP!Goto
  <1>0. /\ SP!TypeOK /\ 0 \in 0 .. Wrap - 1
        /\ (ticket + 1) % Wrap \in 0 .. Wrap - 1 /\ (curr + 1) % Wrap \in 0 .. Wrap - 1
    BY SpinFacts DEF SP!IInv
  <1>1. CASE SP!CallLock(t) \/ SP!TryLock(t) \/ SP!Look(t) \/ SP!Cas(t) \/ SP!Unlock(t)
    BY <1>0, <1>1 DEF SP!CallLock, SP!TryLock, SP!Look, SP!Cas, SP!Unlock
  <1>2. CASE SP!Draw(t)
    BY <1>0, <1>2, SpinFacts, AppendProperties DEF SP!Draw
  <1>3. CASE SP!Served(t)
    BY <1>0, <1>3, ServedIsFirst, HeadTailProperties DEF SP!Served
  <1>4. CASE SP!TryTicket(t) \/ SP!Serve(t)
    BY <1>0, <1>4 DEF SP!TryTicket, SP!Serve
  <1> QED
    BY <1>1, <1>2, <1>3, <1>4 DEF SP!Call, SP!Step

\* Nobody is inside a lock that can be taken.
LEMMA SpinIsFree ==
    ASSUME SP!IInv, NEW t \in Thread,
           \/ SP!Cas(t) /\ word = "free"
           \/ SP!TryLock(t)
           \/ SP!Served(t)
           \/ SP!TryTicket(t)
    PROVE  /\ \A u \in Thread : pc[u] # "inside"
           /\ SP!TryTicket(t) => line = <<>>
  <1>1. CASE (SP!Cas(t) /\ word = "free") \/ SP!TryLock(t)
    BY <1>1 DEF SP!IInv, SP!HoldInv, SP!Cas, SP!TryLock, SP!TryTicket
  <1>2. CASE SP!Served(t)
    BY <1>2, ServedIsFirst DEF SP!Served, SP!TryTicket
  <1>3. CASE SP!TryTicket(t)
    <2>1. SP!Ahead(ticket) = 0 /\ SP!Ahead(ticket) = SP!Held + Len(line)
      BY <1>3 DEF SP!Ahead, SP!TryTicket, SP!IInv, SP!TypeOK, SP!TicketInv
    <2>2. SP!Held \in {0, 1} /\ Len(line) \in Nat
      BY SpinFacts DEF SP!Held
    <2>3. SP!Held = 0 /\ Len(line) = 0
      BY <2>1, <2>2
    <2> QED
      BY <2>3, EmptySeq DEF SP!Held, SP!IInv, SP!TypeOK
  <1> QED
    BY <1>1, <1>2, <1>3

LEMMA SpinHolds ==
    ASSUME SP!IInv, NEW t \in Thread, SP!Call(t) \/ SP!Step(t)
    PROVE  SP!HoldInv'
  <1> USE DEF SP!HoldInv, SP!Goto
  <1>0. SP!HoldInv /\ pc \in [Thread -> {"outside", "look", "cas", "wait", "inside"}]
        /\ kind \in {"tas", "ttas", "ticket"} /\ word \in {"free", "held"}
    BY DEF SP!IInv, SP!TypeOK
  <1>1. CASE SP!CallLock(t) \/ SP!Look(t)
    BY <1>0, <1>1 DEF SP!CallLock, SP!Look
  <1>2. CASE SP!Cas(t) /\ word # "free"
    BY <1>0, <1>2 DEF SP!Cas
  <1>3. CASE (SP!Cas(t) /\ word = "free") \/ SP!TryLock(t)
    BY <1>0, <1>3, SpinIsFree DEF SP!Cas, SP!TryLock
  <1>4. CASE SP!Unlock(t)
    BY <1>0, <1>4 DEF SP!Unlock
  <1>5. CASE SP!Draw(t) \/ SP!Serve(t)
    BY <1>0, <1>5 DEF SP!Draw, SP!Serve
  <1>6. CASE SP!Served(t) \/ SP!TryTicket(t)
    BY <1>0, <1>6, SpinIsFree, ServedIsFirst DEF SP!Served, SP!TryTicket
  <1> QED
    BY <1>1, <1>2, <1>3, <1>4, <1>5, <1>6 DEF SP!Call, SP!Step

\* How the line and the distances to the ticket that is served move.
LEMMA SpinTickets ==
    ASSUME SP!IInv, SP!TypeOK', SP!HoldInv', NEW t \in Thread, SP!Call(t) \/ SP!Step(t)
    PROVE  SP!LineInv' /\ SP!TicketInv'
  <1> USE DEF SP!Goto
  <1>0. /\ pc \in [Thread -> {"outside", "look", "cas", "wait", "inside"}]
        /\ my \in [Thread -> 0 .. Wrap - 1] /\ line \in Seq(Thread) /\ line' \in Seq(Thread)
        /\ ticket \in 0 .. Wrap - 1 /\ curr \in 0 .. Wrap - 1
    BY DEF SP!IInv, SP!TypeOK
  <1>facts. /\ Wrap \in Nat \ {0}
            /\ (ticket + 1) % Wrap = IF ticket + 1 = Wrap THEN 0 ELSE ticket + 1
            /\ (curr + 1) % Wrap = IF curr + 1 = Wrap THEN 0 ELSE curr + 1
            /\ Distinct(line) /\ Members(line) = {u \in Thread : pc[u] = "wait"}
            /\ Len(line) \in Nat /\ DOMAIN line = 1..Len(line)
            /\ \A k \in 1..Len(line) : line[k] \in Thread /\ pc[line[k]] = "wait"
    BY SpinFacts
  <1>tickets. kind = "ticket" =>
                /\ \A k \in 1..Len(line) : SP!Ahead(my[line[k]]) = SP!Held + k - 1
                /\ SP!Ahead(ticket) = SP!Held + Len(line)
    BY <1>facts DEF SP!IInv, SP!TicketInv
  <1>line. Distinct(line)' /\ Members(line') = {u \in Thread : pc'[u] = "wait"} => SP!LineInv'
    BY <1>0, SpinLine, LenProperties DEF SP!LineInv, SP!IsInjective, SP!Range, Distinct, Members
  <1>domain. DOMAIN line' = 1..Len(line')
    BY <1>0, LenProperties
  <1>1. CASE kind # "ticket"
    <2>1. line = <<>> /\ line' = <<>> /\ kind' = kind /\ Len(<<>>) = 0
      BY <1>1, ServedIsFirst DEF SP!Call, SP!Step, SP!CallLock, SP!TryLock, SP!Draw, SP!TryTicket,
         SP!Look, SP!Cas, SP!Unlock, SP!Serve, SP!IInv, SP!HoldInv
    <2>2. \A u \in Thread : pc'[u] # "wait"
      <3>1. \A u \in Thread : pc[u] # "wait"
        BY <1>facts, <2>1 DEF Members
      <3>2. pc'[t] # "wait" /\ \A u \in Thread \ {t} : pc'[u] = pc[u]
        BY <1>0, <1>1, <3>1 DEF SP!Call, SP!Step, SP!CallLock, SP!TryLock, SP!Draw, SP!TryTicket,
           SP!Look, SP!Cas, SP!Unlock, SP!Serve, SP!Served
      <3> QED
        BY <3>1, <3>2
    <2> QED
      BY <1>1, <1>line, <2>1, <2>2 DEF SP!TicketInv, Distinct, Members
  <1>2. CASE SP!Draw(t)
    <2>1. /\ kind = "ticket" /\ kind' = kind /\ line' = Append(line, t) /\ curr' = curr
          /\ my' = [my EXCEPT ![t] = ticket] /\ ticket' = (ticket + 1) % Wrap
          /\ pc[t] = "outside" /\ pc' = [pc EXCEPT ![t] = "wait"]
      BY <1>2 DEF SP!Draw
    <2>2. t \notin Members(line)
      BY <1>facts, <2>1
    <2>3. /\ Len(line') = Len(line) + 1
          /\ \A k \in 1..Len(line) : line'[k] = line[k]
          /\ line'[Len(line) + 1] = t
          /\ Distinct(line') /\ Members(line') = Members(line) \union {t}
      BY <1>0, <1>facts, <2>1, <2>2, LineAppend
    <2>4. Members(line') = {u \in Thread : pc'[u] = "wait"}
      BY <1>0, <1>facts, <2>1, <2>3
    <2>5. SP!Held' = SP!Held
      BY <1>0, <2>1 DEF SP!Held
    <2>6. SP!Held + Len(line) + 1 < Wrap
      <3>1. CASE SP!Held = 0
        <4>1. Len(line') <= Cardinality(Thread)
          BY <1>0, <2>3, <2>4, ThreadIsFinite, LineLength
        <4> QED
          BY <1>facts, <2>3, <3>1, <4>1, SpinAssumption, ThreadIsFinite
      <3>2. CASE SP!Held # 0
        <4>1. PICK u \in Thread : pc[u] = "inside"
          BY <3>2 DEF SP!Held
        <4>2. /\ IsFiniteSet(Thread \ {u})
              /\ Cardinality(Thread \ {u}) = Cardinality(Thread) - 1
          BY ThreadIsFinite, FS_RemoveElement
        <4>3. Members(line') \subseteq Thread \ {u}
          BY <1>0, <2>1, <2>4, <4>1
        <4>4. Len(line') <= Cardinality(Thread \ {u})
          BY <1>0, <2>3, <4>2, <4>3, LineLength
        <4>5. SP!Held = 1
          BY <3>2 DEF SP!Held
        <4> QED
          BY <1>facts, <2>3, <4>2, <4>4, <4>5, SpinAssumption, ThreadIsFinite
      <3> QED
        BY <3>1, <3>2
    <2>7. SP!Held \in {0, 1}
      BY DEF SP!Held
    <2>8. SP!Ahead(ticket)' = SP!Held + Len(line) + 1 /\ SP!Ahead(ticket) = SP!Held + Len(line)
      <3>1. SP!Ahead(ticket) = SP!Held + Len(line)
        BY <1>tickets, <2>1
      <3>2. Apart(curr, ticket) = SP!Ahead(ticket) /\ Apart(curr, ticket') = SP!Ahead(ticket)'
        BY <2>1 DEF SP!Ahead, Apart
      <3>3. curr \in 0 .. Wrap - 1 /\ ticket \in 0 .. Wrap - 1 /\ Wrap \in Nat \ {0}
        BY <1>0, <1>facts
      <3>4. Apart(curr, ticket) + 1 < Wrap
        BY <1>0, <1>facts, <2>6, <2>7, <3>1, <3>2
      <3> QED
        BY <2>1, <3>1, <3>2, <3>3, <3>4, ApartDrawn
    <2>9. \A k \in 1..Len(line') : SP!Ahead(my[line[k]])' = SP!Held + k - 1
      <3> SUFFICES ASSUME NEW k \in 1..Len(line')
                   PROVE  SP!Ahead(my[line[k]])' = SP!Held + k - 1
        OBVIOUS
      <3>1. CASE k = Len(line) + 1
        BY <1>0, <1>facts, <2>1, <2>3, <2>7, <2>8, <3>1 DEF SP!Ahead
      <3>2. CASE k \in 1..Len(line)
        <4>1. my'[line'[k]] = my[line[k]]
          BY <1>0, <1>facts, <2>1, <2>3, <3>2
        <4> QED
          BY <1>tickets, <2>1, <3>2, <4>1 DEF SP!Ahead
      <3> QED
        BY <1>facts, <2>3, <3>1, <3>2
    <2> QED
      BY <1>line, <1>domain, <2>3, <2>4, <2>5, <2>7, <2>8, <2>9, <1>facts DEF SP!TicketInv
  <1>3. CASE SP!Served(t)
    <2>1. /\ line # <<>> /\ line[1] = t /\ kind = "ticket" /\ kind' = kind
          /\ my' = my /\ curr' = curr /\ ticket' = ticket /\ line' = Tail(line)
          /\ pc[t] = "wait" /\ pc' = [pc EXCEPT ![t] = "inside"]
          /\ \A u \in Thread : pc[u] # "inside"
      BY <1>3, ServedIsFirst DEF SP!Served
    <2>2. /\ Len(line') = Len(line) - 1 /\ Len(line) \in Nat \ {0}
          /\ \A k \in 1..Len(line') : k + 1 \in 1..Len(line) /\ line'[k] = line[k + 1]
          /\ Distinct(line') /\ Members(line') = Members(line) \ {t}
      BY <1>0, <1>facts, <2>1, LineTail
    <2>3. Members(line') = {u \in Thread : pc'[u] = "wait"}
      BY <1>0, <1>facts, <2>1, <2>2
    <2>4. SP!Held = 0 /\ SP!Held' = 1
      BY <1>0, <2>1 DEF SP!Held
    <2>5. SP!Ahead(ticket)' = Len(line) /\ Len(line) = SP!Held' + Len(line')
      BY <1>0, <1>facts, <1>tickets, <2>1, <2>2, <2>4 DEF SP!Ahead
    <2>6. \A k \in 1..Len(line') : SP!Ahead(my[line[k]])' = SP!Held' + k - 1
      <3> SUFFICES ASSUME NEW k \in 1..Len(line')
                   PROVE  SP!Ahead(my[line[k]])' = SP!Held' + k - 1
        OBVIOUS
      <3>1. k + 1 \in 1..Len(line) /\ line'[k] = line[k + 1]
        BY <2>2
      <3>2. SP!Ahead(my[line[k + 1]]) = k
        BY <1>tickets, <2>1, <2>4, <3>1
      <3> QED
        BY <2>1, <2>4, <3>1, <3>2 DEF SP!Ahead
    <2> QED
      BY <1>line, <1>domain, <2>2, <2>3, <2>5, <2>6 DEF SP!TicketInv
  <1>4. CASE SP!TryTicket(t)
    <2>1. /\ kind = "ticket" /\ kind' = kind /\ my' = my /\ curr' = curr /\ curr = ticket
          /\ ticket' = (ticket + 1) % Wrap /\ line' = line /\ line = <<>> /\ Len(line) = 0
          /\ pc[t] = "outside" /\ pc' = [pc EXCEPT ![t] = "inside"]
      BY <1>4, SpinIsFree, EmptySeq DEF SP!TryTicket
    <2>2. SP!Held' = 1
      BY <1>0, <2>1 DEF SP!Held
    <2>3. 1 < Wrap
      <3>1. Cardinality(Thread) # 0
        BY ThreadIsFinite, FS_EmptySet
      <3> QED
        BY <3>1, SpinAssumption, ThreadIsFinite
    <2>4. SP!Ahead(ticket)' = 1
      BY <1>0, <1>facts, <2>1, <2>3 DEF SP!Ahead
    <2>5. Members(line') = {u \in Thread : pc'[u] = "wait"}
      BY <1>0, <1>facts, <2>1
    <2> QED
      BY <1>line, <1>domain, <1>facts, <2>1, <2>2, <2>4, <2>5 DEF SP!TicketInv
  <1>5. CASE SP!Serve(t)
    <2>1. /\ kind = "ticket" /\ kind' = kind /\ curr' = (curr + 1) % Wrap /\ ticket' = ticket
          /\ line' = line /\ my' = [my EXCEPT ![t] = 0]
          /\ pc[t] = "inside" /\ pc' = [pc EXCEPT ![t] = "outside"]
      BY <1>5 DEF SP!Serve
    <2>2. SP!Held = 1 /\ SP!Held' = 0
      BY <1>0, <2>1 DEF SP!Held, SP!IInv, SP!HoldInv
    <2>3. Members(line') = {u \in Thread : pc'[u] = "wait"}
      BY <1>0, <1>facts, <2>1
    <2>4. \A n \in 0 .. Wrap - 1 : SP!Ahead(n) > 0 => Apart(curr', n) = SP!Ahead(n) - 1
      <3>1. curr \in 0 .. Wrap - 1 /\ Wrap \in Nat \ {0}
        BY <1>0, <1>facts
      <3>2. \A n \in 0 .. Wrap - 1 : SP!Ahead(n) = Apart(curr, n)
        BY DEF SP!Ahead, Apart
      <3> QED
        BY <2>1, <3>1, <3>2, ApartServed
    <2>len. Len(line) \in Nat
      BY <1>facts
    <2>5. SP!Ahead(ticket)' = Len(line)
      <3>1. SP!Ahead(ticket) = 1 + Len(line)
        BY <1>tickets, <2>1, <2>2
      <3>2. Apart(curr', ticket) = Len(line)
        BY <1>0, <2>len, <2>4, <3>1
      <3> QED
        BY <2>1, <3>2 DEF SP!Ahead, Apart
    <2>6. \A k \in 1..Len(line') : SP!Ahead(my[line[k]])' = k - 1
      <3> SUFFICES ASSUME NEW k \in 1..Len(line)
                   PROVE  SP!Ahead(my[line[k]])' = k - 1
        BY <2>1
      <3>1. my'[line[k]] = my[line[k]] /\ my[line[k]] \in 0 .. Wrap - 1
        BY <1>0, <1>facts, <2>1
      <3>2. SP!Ahead(my[line[k]]) = k /\ k > 0 /\ k \in Int
        BY <1>tickets, <2>1, <2>2, <2>len
      <3>3. Apart(curr', my[line[k]]) = k - 1
        BY <2>4, <3>1, <3>2
      <3> QED
        BY <2>1, <3>1, <3>3 DEF SP!Ahead, Apart
    <2> QED
      BY <1>line, <1>domain, <1>facts, <2>1, <2>2, <2>3, <2>5, <2>6 DEF SP!TicketInv
  <1> QED
    BY <1>1, <1>2, <1>3, <1>4, <1>5 DEF SP!Call, SP!Step, SP!CallLock, SP!TryLock, SP!Look,
       SP!Cas, SP!Unlock, SP!IInv, SP!HoldInv

LEMMA SpinStarts == ASSUME Init, which = "spin" PROVE SP!IInv
  <1>1. /\ SP!Init /\ line = <<>> /\ line \in Seq(Thread) /\ Len(line) = 0
        /\ \A t \in Thread : pc[t] = "outside"
    BY EmptySeq DEF Init, SP!Init
  <1>2. Wrap \in Nat \ {0} /\ 0 \in 0 .. Wrap - 1
    BY SpinAssumption, ThreadIsFinite
  <1>3. SP!LineInv
    BY <1>1, SpinLine DEF Distinct, Members
  <1>4. DOMAIN line = 1..0
    BY <1>1, LenProperties
  <1>5. SP!TicketInv
    BY <1>1, <1>2, <1>4 DEF SP!TicketInv, SP!Init, SP!Ahead, SP!Held
  <1> QED
    BY <1>1, <1>2, <1>3, <1>5 DEF SP!IInv, SP!TypeOK, SP!HoldInv, SP!Init

LEMMA SpinStays ==
    ASSUME which = "spin", SP!IInv, [Next \/ AllDone]_vars
    PROVE  SP!IInv'
  <1>1. CASE UNCHANGED vars
    BY <1>1 DEF vars, SP!IInv, SP!TypeOK, SP!HoldInv, SP!LineInv, SP!TicketInv, SP!Ahead, SP!Held,
                SP!IsInjective, SP!Range
  <1>2. ASSUME NEW t \in Thread, SP!Call(t) \/ SP!Step(t)
        PROVE  SP!IInv'
    BY <1>2, SpinTypes, SpinHolds, SpinTickets DEF SP!IInv
  <1> QED
    BY <1>1, <1>2, SpinSteps

LEMMA SpinRefines ==
    ASSUME which = "spin", SP!IInv, [Next \/ AllDone]_vars
    PROVE  [Abstract!Next]_(Abstract!vars)
  <1>1. which' = which
    BY WhichStays
  <1>2. /\ \A u \in Thread : Phase(u) = SP!Phase(u) /\ Phase(u)' = SP!Phase(u)'
        /\ Fair <=> kind = "ticket"
        /\ Fair' <=> kind' = "ticket"
    BY <1>1 DEF Phase, Fair
  <1>3. SUFFICES ASSUME NEW t \in Thread, SP!Call(t) \/ SP!Step(t)
                 PROVE  [Abstract!Next]_(Abstract!vars)
    BY SpinSteps, StutterRefines
  <1>4. pc \in [Thread -> {"outside", "look", "cas", "wait", "inside"}] /\ SP!HoldInv
    BY DEF SP!IInv, SP!TypeOK
  <1>5. (\A u \in Thread \ {t} : SP!Phase(u)' = SP!Phase(u)) /\ kind' = kind
    BY <1>3, <1>4 DEF SP!Phase, SP!Call, SP!Step, SP!CallLock, SP!TryLock, SP!Draw, SP!TryTicket,
       SP!Look, SP!Cas, SP!Unlock, SP!Served, SP!Serve, SP!Goto
  <1>6. (\A u \in Thread : pc[u] # "inside") => \A u \in Thread : SP!Phase(u) # "inside"
    BY DEF SP!Phase
  <1>7. Moves(t)
    <2> USE DEF SP!Phase, SP!Goto
    <2>1. CASE SP!CallLock(t) \/ SP!Look(t)
      BY <1>2, <1>4, <2>1 DEF SP!CallLock, SP!Look, Moves, SP!HoldInv
    <2>2. CASE SP!Cas(t) \/ SP!TryLock(t)
      BY <1>2, <1>4, <1>6, <2>2, SpinIsFree DEF SP!Cas, SP!TryLock, Moves, SP!HoldInv
    <2>3. CASE SP!Unlock(t) \/ SP!Serve(t)
      BY <1>2, <1>4, <2>3 DEF SP!Unlock, SP!Serve, Moves, SP!HoldInv
    <2>4. CASE SP!Draw(t)
      BY <1>2, <1>4, <2>4 DEF SP!Draw, Moves
    <2>5. CASE SP!Served(t)
      <3>1. t = Head(line)
        BY <2>5, ServedIsFirst, LineTail, SpinFacts DEF SP!IInv, SP!TypeOK
      <3> QED
        BY <1>2, <1>4, <1>6, <2>5, <3>1, ServedIsFirst DEF SP!Served, Moves
    <2>6. CASE SP!TryTicket(t)
      BY <1>2, <1>4, <1>6, <2>6, SpinIsFree DEF SP!TryTicket, Moves
    <2> QED
      BY <1>3, <2>1, <2>2, <2>3, <2>4, <2>5, <2>6 DEF SP!Call, SP!Step
  <1> QED
    BY <1>2, <1>5, <1>7, MoveRefines DEF Fair

-----------------------------------------------------------------------------
(* The MCS lock *)

LEMMA McsNull == Null \notin Thread
  BY LocksAssumption DEF M!McsLockAssumption

LEMMA McsSteps ==
    ASSUME which = "mcs", [Next \/ AllDone]_vars
    PROVE  UNCHANGED vars \/ \E t \in Thread : M!Call(t) \/ M!Step(t)
  BY DEF Next, Call, Step, AllDone

LEMMA McsLine ==
    ASSUME line \in Seq(Thread)
    PROVE  /\ M!IsInjective(line) <=> Distinct(line)
           /\ M!Range(line) = Members(line)
           /\ DOMAIN line = 1..Len(line) /\ Len(line) \in Nat /\ (line = <<>> <=> Len(line) = 0)
  BY LenProperties, EmptySeq DEF M!IsInjective, M!Range, Distinct, Members

McsPCs == {"outside", "arm", "link", "spin", "inside", "close", "await", "pass"}

\* What the invariant says about the line, and where a thread is in it.
LEMMA McsFacts ==
    ASSUME M!IInv
    PROVE  /\ line \in Seq(Thread) /\ Distinct(line)
           /\ Len(line) \in Nat /\ DOMAIN line = 1..Len(line) /\ (line = <<>> <=> Len(line) = 0)
           /\ Members(line) = {u \in Thread : M!Waits(u)}
           /\ \A k \in 1..Len(line) : line[k] \in Thread /\ M!Waits(line[k])
           /\ \A u \in Thread : M!Waits(u) => \E k \in 1..Len(line) : line[k] = u
           /\ \A k \in 1..Len(line) : k > 1 => k - 1 \in 1..Len(line)
  <1>1. line \in Seq(Thread)
    BY DEF M!IInv, M!TypeOK
  <1>2. Distinct(line) /\ Members(line) = {u \in Thread : M!Waits(u)}
    BY <1>1, McsLine DEF M!IInv, M!LineInv
  <1>3. /\ \A k \in 1..Len(line) : line[k] \in Thread /\ M!Waits(line[k])
        /\ \A u \in Thread : M!Waits(u) => \E k \in 1..Len(line) : line[k] = u
    BY <1>2 DEF Members
  <1>4. /\ DOMAIN line = 1..Len(line) /\ Len(line) \in Nat
        /\ (line = <<>> <=> Len(line) = 0)
    BY <1>1, McsLine
  <1>5. \A k \in 1..Len(line) : k > 1 => k - 1 \in 1..Len(line)
    BY <1>4
  <1> QED
    BY <1>1, <1>2, <1>3, <1>4, <1>5

\* The thread whose flag is down is the first of the line, and nobody has the lock.
LEMMA SpinIsFirst ==
    ASSUME M!IInv, NEW t \in Thread, M!Spin(t)
    PROVE  line # <<>> /\ line[1] = t /\ ~M!SomeoneHolds
  <1>1. M!Waits(t) /\ pc[t] = "spin" /\ ~waiting[t]
    BY DEF M!Spin, M!Waits
  <1>2. PICK k \in 1..Len(line) : line[k] = t
    BY <1>1, McsFacts
  <1>3. k = 1
    <2> SUFFICES ASSUME k > 1
                 PROVE  FALSE
      BY McsFacts
    <2>1. M!Follows(line[k - 1], line[k])
      BY McsFacts DEF M!IInv, M!QueueInv
    <2> QED
      BY <1>1, <1>2, <2>1 DEF M!Follows
  <1>4. line # <<>>
    BY <1>2, McsFacts
  <1>5. \A u \in Thread : ~M!Holds(u)
    <2> SUFFICES ASSUME NEW u \in Thread, M!Holds(u)
                 PROVE  FALSE
      OBVIOUS
    <2>1. M!Follows(u, line[1])
      BY <1>4 DEF M!IInv, M!QueueInv
    <2> QED
      BY <1>1, <1>2, <1>3, <2>1 DEF M!Follows
  <1> QED
    BY <1>2, <1>3, <1>4, <1>5 DEF M!SomeoneHolds

LEMMA McsTypes ==
    ASSUME M!IInv, NEW t \in Thread, M!Call(t) \/ M!Step(t)
    PROVE  M!TypeOK'
  <1> USE DEF M!TypeOK, M!Goto
  <1>0. M!TypeOK
    BY DEF M!IInv
  <1>1. CASE M!Swap(t)
    <2>1. Append(line, t) \in Seq(Thread)
      BY <1>0, AppendProperties
    <2> QED
      BY <1>0, <1>1, <2>1 DEF M!Swap
  <1>2. CASE M!TryLock(t) \/ M!Arm(t) \/ M!Release(t) \/ M!Close(t) \/ M!Await(t)
    BY <1>0, <1>2 DEF M!TryLock, M!Arm, M!Release, M!Close, M!Await
  <1>3. CASE M!Link(t) \/ M!Pass(t)
    BY <1>0, <1>3 DEF M!Link, M!Pass
  <1>4. CASE M!Spin(t)
    BY <1>0, <1>4, SpinIsFirst, HeadTailProperties DEF M!Spin
  <1> QED
    BY <1>1, <1>2, <1>3, <1>4 DEF M!Call, M!Step

\* The queue of a lock that nobody has is empty.
LEMMA McsIsFree ==
    ASSUME M!IInv, last = Null
    PROVE  line = <<>> /\ ~M!SomeoneHolds
  <1>1. line # <<>> => last \in Thread
    BY McsFacts DEF M!IInv, M!LastInv
  <1>2. line = <<>>
    BY <1>1, McsNull
  <1>3. ~M!SomeoneHolds
    BY <1>2, McsNull DEF M!IInv, M!LastInv, M!SomeoneHolds
  <1> QED
    BY <1>2, <1>3

\* How the threads that wait and the one that has the lock change.
LEMMA McsMoves ==
    ASSUME M!IInv, NEW t \in Thread, M!Call(t) \/ M!Step(t)
    PROVE  /\ \A u \in Thread \ {t} : pc'[u] = pc[u]
           /\ \A u \in Thread \ {t} : (M!Waits(u)' <=> M!Waits(u)) /\ (M!Holds(u)' <=> M!Holds(u))
  <1>1. pc \in [Thread -> McsPCs]
    BY DEF M!IInv, M!TypeOK, McsPCs
  <1>2. \A u \in Thread \ {t} : pc'[u] = pc[u]
    BY <1>1 DEF M!Call, M!Step, M!Swap, M!TryLock, M!Arm, M!Link, M!Spin, M!Release, M!Close,
       M!Await, M!Pass, M!Goto
  <1> QED
    BY <1>2 DEF M!Waits, M!Holds

LEMMA McsLines ==
    ASSUME M!IInv, M!TypeOK', NEW t \in Thread, M!Call(t) \/ M!Step(t)
    PROVE  M!LineInv'
  <1>0. pc \in [Thread -> McsPCs] /\ M!LineInv /\ line' \in Seq(Thread)
    BY DEF M!IInv, M!TypeOK, McsPCs
  <1>line. Distinct(line)' /\ Members(line') = {u \in Thread : M!Waits(u)'}
           => M!IsInjective(line') /\ M!Range(line') = {u \in Thread : M!Waits(u)'}
    BY <1>0, LenProperties DEF M!IsInjective, M!Range, Distinct, Members
  <1>1. CASE (M!Swap(t) /\ last # Null)
    <2>1. /\ line' = Append(line, t) /\ pc[t] = "outside" /\ pc' = [pc EXCEPT ![t] = "arm"]
      BY <1>1 DEF M!Swap, M!Goto
    <2>2. t \notin Members(line)
      BY <2>1, McsFacts DEF M!Waits
    <2>3. Distinct(line') /\ Members(line') = Members(line) \union {t}
      BY <2>1, <2>2, McsFacts, LineAppend
    <2>4. M!Waits(t)' /\ ~M!Holds(t)'
      BY <1>0, <2>1 DEF M!Waits, M!Holds
    <2>5. Members(line') = {u \in Thread : M!Waits(u)'}
      BY <2>3, <2>4, McsFacts, McsMoves
    <2>6. \A u, w \in Thread : M!Holds(u)' /\ M!Holds(w)' => u = w
      BY <1>0, <2>4, McsMoves DEF M!LineInv
    <2> QED
      BY <1>line, <2>3, <2>5, <2>6 DEF M!LineInv
  <1>2. CASE M!Spin(t)
    <2>1. /\ line # <<>> /\ line[1] = t /\ ~M!SomeoneHolds /\ line' = Tail(line)
          /\ pc' = [pc EXCEPT ![t] = "inside"]
      BY <1>2, SpinIsFirst DEF M!Spin, M!Goto
    <2>2. Distinct(line') /\ Members(line') = Members(line) \ {t}
      BY <2>1, McsFacts, LineTail
    <2>3. ~M!Waits(t)'
      BY <1>0, <2>1 DEF M!Waits
    <2>4. Members(line') = {u \in Thread : M!Waits(u)'}
      BY <2>2, <2>3, McsFacts, McsMoves
    <2>5. \A u, w \in Thread : M!Holds(u)' /\ M!Holds(w)' => u = w
      BY <2>1, McsMoves DEF M!SomeoneHolds
    <2> QED
      BY <1>line, <2>2, <2>4, <2>5 DEF M!LineInv
  <1>3. CASE (M!Swap(t) /\ last = Null) \/ M!TryLock(t) \/ M!Arm(t) \/ M!Link(t) \/ M!Release(t)
             \/ M!Close(t) \/ M!Await(t) \/ M!Pass(t)
    <2>1. line' = line
      BY <1>3 DEF M!Swap, M!TryLock, M!Arm, M!Link, M!Release, M!Close, M!Await, M!Pass
    <2>2. M!Waits(t)' <=> M!Waits(t)
      BY <1>0, <1>3 DEF M!Swap, M!TryLock, M!Arm, M!Link, M!Release, M!Close, M!Await, M!Pass,
         M!Goto, M!Waits
    <2>3. M!Holds(t)' => M!Holds(t) \/ ~M!SomeoneHolds
      <3>1. CASE (M!Swap(t) /\ last = Null) \/ M!TryLock(t)
        BY <3>1, McsIsFree DEF M!TryLock
      <3>2. CASE M!Arm(t) \/ M!Link(t) \/ M!Release(t) \/ M!Close(t) \/ M!Await(t) \/ M!Pass(t)
        BY <1>0, <3>2 DEF M!Arm, M!Link, M!Release, M!Close, M!Await, M!Pass, M!Goto, M!Holds
      <3> QED
        BY <1>3, <3>1, <3>2
    <2>4. \A u, w \in Thread : M!Holds(u)' /\ M!Holds(w)' => u = w
      BY <1>0, <2>3, McsMoves DEF M!LineInv, M!SomeoneHolds
    <2>5. Distinct(line') /\ Members(line') = {u \in Thread : M!Waits(u)'}
      BY <2>1, <2>2, McsFacts, McsMoves
    <2> QED
      BY <1>line, <2>4, <2>5 DEF M!LineInv
  <1> QED
    BY <1>1, <1>2, <1>3 DEF M!Call, M!Step

\* The order of two threads of the queue stays as long as neither moves.
LEMMA McsQueue ==
    ASSUME M!IInv, M!TypeOK', M!LineInv', NEW t \in Thread, M!Call(t) \/ M!Step(t)
    PROVE  M!QueueInv' /\ M!LastInv'
  <1>0. /\ pc \in [Thread -> McsPCs] /\ line' \in Seq(Thread)
        /\ next \in [Thread -> Thread \union {Null}] /\ waiting \in [Thread -> BOOLEAN]
        /\ pred \in [Thread -> Thread \union {Null}]
    BY DEF M!IInv, M!TypeOK, McsPCs
  <1>facts. /\ line \in Seq(Thread) /\ Distinct(line)
            /\ Len(line) \in Nat /\ DOMAIN line = 1..Len(line) /\ (line = <<>> <=> Len(line) = 0)
            /\ Members(line) = {u \in Thread : M!Waits(u)}
            /\ \A k \in 1..Len(line) : line[k] \in Thread /\ M!Waits(line[k])
            /\ \A u \in Thread : M!Waits(u) => \E k \in 1..Len(line) : line[k] = u
            /\ \A k \in 1..Len(line) : k > 1 => k - 1 \in 1..Len(line)
            /\ \A u \in Thread : M!Waits(u) => ~M!Holds(u)
    BY McsFacts DEF M!Waits, M!Holds
  <1>ends. line # <<>> => 1 \in 1..Len(line) /\ Len(line) \in 1..Len(line)
    BY <1>facts
  <1>lines. /\ DOMAIN line' = 1..Len(line') /\ Len(line') \in Nat
            /\ (line' = <<>> <=> Len(line') = 0)
    BY <1>0, LenProperties, EmptySeq
  <1>queue. /\ \A k \in 1..Len(line) : k > 1 => M!Follows(line[k - 1], line[k])
            /\ \A u \in Thread : M!Holds(u) => IF line = <<>> THEN next[u] = Null
                                                              ELSE M!Follows(u, line[1])
            /\ line # <<>> => next[line[Len(line)]] = Null
            /\ line # <<>> /\ ~M!SomeoneHolds => pc[line[1]] = "spin" /\ ~waiting[line[1]]
            /\ \A u \in Thread : /\ pc[u] = "await" => line # <<>>
                                 /\ pc[u] = "pass" => next[u] # Null
    BY <1>facts DEF M!IInv, M!QueueInv
  <1>last. /\ line # <<>> => last = line[Len(line)]
           /\ line = <<>> /\ ~M!SomeoneHolds => last = Null
           /\ line = <<>> => \A u \in Thread : M!Holds(u) => last = u
    BY DEF M!IInv, M!LastInv, M!SomeoneHolds
  <1>others. /\ \A u \in Thread \ {t} : pc'[u] = pc[u]
             /\ \A u \in Thread \ {t} : (M!Waits(u)' <=> M!Waits(u)) /\ (M!Holds(u)' <=> M!Holds(u))
    BY McsMoves
  <1>alone. \A u, w \in Thread : M!Holds(u) /\ M!Holds(w) => u = w
    BY DEF M!IInv, M!LineInv
  <1>1. CASE (M!Swap(t) /\ last = Null) \/ M!TryLock(t)
    <2>1. /\ line = <<>> /\ ~M!SomeoneHolds /\ line' = <<>> /\ last' = t /\ next'[t] = Null
          /\ pc' = [pc EXCEPT ![t] = "inside"]
      BY <1>0, <1>1, McsIsFree DEF M!Swap, M!TryLock, M!Goto
    <2>2. \A u \in Thread : /\ M!Holds(u)' => u = t
                            /\ pc'[u] # "await" /\ pc'[u] # "pass"
      BY <1>0, <1>others, <2>1 DEF M!SomeoneHolds, M!Holds
    <2>3. M!SomeoneHolds'
      BY <1>0, <2>1 DEF M!SomeoneHolds, M!Holds
    <2> QED
      BY <1>lines, <2>1, <2>2, <2>3 DEF M!QueueInv, M!LastInv
  <1>2. CASE M!Swap(t) /\ last # Null
    <2>1. /\ line' = Append(line, t) /\ last' = t /\ pc[t] = "outside"
          /\ next' = [next EXCEPT ![t] = Null] /\ pred' = [pred EXCEPT ![t] = last]
          /\ pc' = [pc EXCEPT ![t] = "arm"] /\ waiting' = waiting
      BY <1>2 DEF M!Swap, M!Goto
    <2>2. ~M!Waits(t) /\ ~M!Holds(t) /\ ~M!Holds(t)' /\ t \notin Members(line)
      BY <1>0, <1>facts, <2>1 DEF M!Waits, M!Holds
    <2>3. /\ Len(line') = Len(line) + 1 /\ line' # <<>>
          /\ \A k \in 1..Len(line) : line'[k] = line[k]
          /\ line'[Len(line) + 1] = t
      BY <1>facts, <2>1, <2>2, LineAppend
    <2>4. \A k \in 1..Len(line) : line[k] # t
      BY <2>2 DEF Members
    <2>5. ASSUME NEW k \in 1..Len(line'), k > 1
          PROVE  M!Follows(line[k - 1], line[k])'
      <3>1. CASE k \in 1..Len(line)
        <4>1. /\ k - 1 \in 1..Len(line) /\ line[k] # t /\ line[k - 1] # t
              /\ line[k] \in Thread /\ line[k - 1] \in Thread
          BY <1>facts, <2>4, <2>5, <3>1
        <4>2. M!Follows(line[k - 1], line[k])
          BY <1>queue, <2>5, <3>1
        <4>3. line'[k - 1] = line[k - 1] /\ line'[k] = line[k]
          BY <2>3, <3>1, <4>1
        <4> QED
          BY <1>0, <2>1, <4>1, <4>2, <4>3 DEF M!Follows
      <3>2. CASE k = Len(line) + 1
        <4>1. /\ line # <<>> /\ k - 1 = Len(line) /\ Len(line) \in 1..Len(line)
              /\ line'[k - 1] = line[Len(line)] /\ line'[k] = t
          BY <1>facts, <2>3, <2>5, <3>2
        <4>2. last = line[Len(line)] /\ next[line[Len(line)]] = Null /\ line[Len(line)] # t
          BY <1>last, <1>queue, <2>4, <4>1
        <4> QED
          BY <1>0, <1>facts, <2>1, <4>1, <4>2 DEF M!Follows
      <3> QED
        BY <1>facts, <2>3, <3>1, <3>2
    <2>6. ASSUME NEW u \in Thread, M!Holds(u)'
          PROVE  M!Follows(u, line[1])'
      <3>1. u # t /\ M!Holds(u)
        BY <1>others, <2>2, <2>6
      <3>2. CASE line = <<>>
        <4>1. line'[1] = t /\ last = u /\ next[u] = Null
          BY <1>facts, <1>last, <1>queue, <2>3, <3>1, <3>2
        <4> QED
          BY <1>0, <2>1, <3>1, <4>1 DEF M!Follows
      <3>3. CASE line # <<>>
        <4>1. 1 \in 1..Len(line) /\ line'[1] = line[1] /\ line[1] # t /\ line[1] \in Thread
          BY <1>facts, <1>ends, <2>3, <2>4, <3>3
        <4>2. M!Follows(u, line[1])
          BY <1>queue, <3>1, <3>3
        <4> QED
          BY <1>0, <2>1, <3>1, <4>1, <4>2 DEF M!Follows
      <3> QED
        BY <3>2, <3>3
    <2>7. line'[Len(line')] = t /\ next'[t] = Null
      BY <1>0, <2>1, <2>3
    <2>8. ASSUME ~M!SomeoneHolds'
          PROVE  pc'[line'[1]] = "spin" /\ ~waiting'[line'[1]]
      <3>1. ~M!SomeoneHolds
        BY <1>others, <2>2, <2>8 DEF M!SomeoneHolds
      <3>2. line # <<>>
        BY <1>2, <1>last, <3>1
      <3>3. 1 \in 1..Len(line) /\ line'[1] = line[1] /\ line[1] # t /\ line[1] \in Thread
        BY <1>facts, <1>ends, <2>3, <2>4, <3>2
      <3> QED
        BY <1>others, <1>queue, <2>1, <3>1, <3>2, <3>3
    <2>9. \A u \in Thread : pc'[u] = "pass" => next'[u] # Null
      BY <1>0, <1>queue, <1>others, <2>1
    <2> QED
      BY <1>lines, <2>1, <2>3, <2>5, <2>6, <2>7, <2>8, <2>9 DEF M!QueueInv, M!LastInv
  <1>3. CASE M!Arm(t)
    <2>1. /\ line' = line /\ last' = last /\ next' = next /\ pred' = pred
          /\ pc[t] = "arm" /\ pc' = [pc EXCEPT ![t] = "link"]
          /\ waiting' = [waiting EXCEPT ![t] = TRUE]
      BY <1>3 DEF M!Arm, M!Goto
    <2>2. \A a \in Thread, b \in Thread : M!Follows(a, b) => M!Follows(a, b)'
      BY <1>0, <2>1 DEF M!Follows
    <2>3. M!Waits(t) /\ ~M!Holds(t) /\ ~M!Holds(t)'
      BY <1>0, <2>1 DEF M!Waits, M!Holds
    <2>4. (M!SomeoneHolds' <=> M!SomeoneHolds) /\ \A u \in Thread : M!Holds(u)' <=> M!Holds(u)
      BY <1>others, <2>3 DEF M!SomeoneHolds
    <2>5. line # <<>> /\ ~M!SomeoneHolds => line[1] # t /\ line[1] \in Thread
      BY <1>facts, <1>ends, <1>queue, <2>1
    <2>6. \A u \in Thread : /\ pc'[u] = "await" => line # <<>>
                            /\ pc'[u] = "pass" => next[u] # Null
      BY <1>0, <1>others, <1>queue, <2>1
    <2>7. /\ \A k \in 1..Len(line) : k > 1 => M!Follows(line[k - 1], line[k])'
          /\ \A u \in Thread : M!Holds(u) /\ line # <<>> => M!Follows(u, line[1])'
      BY <1>facts, <1>ends, <1>queue, <2>1, <2>2
    <2>8. line # <<>> /\ ~M!SomeoneHolds => pc'[line[1]] = "spin" /\ ~waiting'[line[1]]
      BY <1>0, <1>queue, <2>1, <2>5
    <2>9. M!LastInv'
      BY <1>last, <2>1, <2>4 DEF M!LastInv
    <2> QED
      BY <1>facts, <1>queue, <2>1, <2>4, <2>6, <2>7, <2>8, <2>9 DEF M!QueueInv
  <1>4. CASE M!Link(t)
    <2>1. /\ line' = line /\ last' = last /\ waiting' = waiting /\ pred' = pred
          /\ pc[t] = "link" /\ pc' = [pc EXCEPT ![t] = "spin"]
          /\ next' = [next EXCEPT ![pred[t]] = t]
      BY <1>4 DEF M!Link, M!Goto
    <2>2. M!Waits(t) /\ ~M!Holds(t) /\ ~M!Holds(t)'
      BY <1>0, <2>1 DEF M!Waits, M!Holds
    <2>3. (M!SomeoneHolds' <=> M!SomeoneHolds) /\ \A u \in Thread : M!Holds(u)' <=> M!Holds(u)
      BY <1>others, <2>2 DEF M!SomeoneHolds
    <2>4. PICK k \in 1..Len(line) : line[k] = t
      BY <1>facts, <2>2
    <2>5. line # <<>>
      BY <1>facts, <2>4
    <2>6. \A a, b \in Thread : M!Follows(a, b) /\ (b = t <=> a = pred[t]) => M!Follows(a, b)'
      <3> SUFFICES ASSUME NEW a \in Thread, NEW b \in Thread, M!Follows(a, b), b = t <=> a = pred[t]
                   PROVE  M!Follows(a, b)'
        OBVIOUS
      <3>1. CASE b = t
        BY <1>0, <2>1, <3>1 DEF M!Follows
      <3>2. CASE b # t
        BY <1>0, <2>1, <3>2 DEF M!Follows
      <3> QED
        BY <3>1, <3>2
    <2>7. /\ pred[t] \in Thread
          /\ pred[t] # line[Len(line)]
          /\ \A j \in 1..Len(line) : j > 1 => (line[j] = t <=> line[j - 1] = pred[t])
          /\ \A u \in Thread : M!Holds(u) => (line[1] = t <=> u = pred[t])
      <3>1. CASE k > 1
        <4>1. /\ k - 1 \in 1..Len(line) /\ line[k - 1] \in Thread /\ M!Waits(line[k - 1])
              /\ M!Follows(line[k - 1], line[k])
          BY <1>facts, <1>queue, <3>1
        <4>2. pred[t] = line[k - 1]
          BY <2>4, <4>1 DEF M!Follows
        <4>3. pred[t] # line[Len(line)]
          BY <1>facts, <1>ends, <2>4, <2>5, <4>1, <4>2 DEF Distinct
        <4>4. ASSUME NEW j \in 1..Len(line), j > 1
              PROVE  line[j] = t <=> line[j - 1] = pred[t]
          <5>1. j - 1 \in 1..Len(line) /\ (j = k <=> j - 1 = k - 1)
            BY <1>facts, <4>4
          <5> QED
            BY <1>facts, <2>4, <4>1, <4>2, <4>4, <5>1 DEF Distinct
        <4>5. line[1] # t
          BY <1>facts, <1>ends, <2>4, <2>5, <3>1 DEF Distinct
        <4>6. \A u \in Thread : M!Holds(u) => u # pred[t]
          BY <1>facts, <4>1, <4>2
        <4> QED
          BY <4>1, <4>2, <4>3, <4>4, <4>5, <4>6
      <3>2. CASE k = 1
        <4>1. M!SomeoneHolds
          BY <1>queue, <2>1, <2>4, <2>5, <3>2
        <4>2. PICK h \in Thread : M!Holds(h)
          BY <4>1 DEF M!SomeoneHolds
        <4>3. pred[t] = h
          BY <1>queue, <2>4, <2>5, <3>2, <4>2 DEF M!Follows
        <4>4. \A j \in 1..Len(line) : j > 1 => line[j] # t
          BY <1>facts, <1>ends, <2>4, <2>5, <3>2 DEF Distinct
        <4>5. \A j \in 1..Len(line) : line[j] # h
          BY <1>facts, <4>2
        <4>6. \A u \in Thread : M!Holds(u) => u = h
          BY <1>alone, <4>2
        <4> QED
          BY <1>facts, <1>ends, <2>4, <2>5, <3>2, <4>2, <4>3, <4>4, <4>5, <4>6
      <3> QED
        BY <1>facts, <3>1, <3>2
    <2>8. \A u \in Thread : next[u] # Null => next'[u] # Null
      BY <1>0, <2>1, McsNull
    <2>9. \A u \in Thread : /\ pc'[u] = "await" => line # <<>>
                            /\ pc'[u] = "pass" => next'[u] # Null
      BY <1>0, <1>others, <1>queue, <2>1, <2>8
    <2>10. next'[line[Len(line)]] = Null
      BY <1>0, <1>facts, <1>ends, <1>queue, <2>1, <2>5, <2>7
    <2>11. \A j \in 1..Len(line) : j > 1 => M!Follows(line[j - 1], line[j])'
      <3> SUFFICES ASSUME NEW j \in 1..Len(line), j > 1
                   PROVE  M!Follows(line[j - 1], line[j])'
        OBVIOUS
      <3>1. line[j - 1] \in Thread /\ line[j] \in Thread /\ M!Follows(line[j - 1], line[j])
        BY <1>facts, <1>queue
      <3>2. line'[j - 1] = line[j - 1] /\ line'[j] = line[j]
        BY <2>1
      <3> QED
        BY <2>1, <2>6, <2>7, <3>1
    <2>12. \A u \in Thread : M!Holds(u) => M!Follows(u, line[1])'
      BY <1>facts, <1>ends, <1>queue, <2>1, <2>5, <2>6, <2>7
    <2>13. ~M!SomeoneHolds => pc'[line[1]] = "spin" /\ ~waiting'[line[1]]
      BY <1>0, <1>facts, <1>ends, <1>queue, <2>1, <2>5
    <2>14. M!LastInv'
      BY <1>last, <2>1, <2>3, <2>5 DEF M!LastInv
    <2> QED
      BY <1>facts, <2>1, <2>3, <2>5, <2>9, <2>10, <2>11, <2>12, <2>13, <2>14 DEF M!QueueInv
  <1>5. CASE M!Spin(t)
    <2>1. /\ line # <<>> /\ line[1] = t /\ ~M!SomeoneHolds /\ line' = Tail(line)
          /\ last' = last /\ next' = next /\ waiting' = waiting
          /\ pc[t] = "spin" /\ pc' = [pc EXCEPT ![t] = "inside"]
          /\ pred' = [pred EXCEPT ![t] = Null]
      BY <1>5, SpinIsFirst DEF M!Spin, M!Goto
    <2>2. /\ Len(line') = Len(line) - 1 /\ Len(line) \in Nat \ {0}
          /\ \A k \in 1..Len(line') : k + 1 \in 1..Len(line) /\ line'[k] = line[k + 1]
      BY <1>facts, <2>1, LineTail
    <2>3. M!Holds(t)' /\ M!SomeoneHolds' /\ \A u \in Thread : M!Holds(u)' => u = t
      BY <1>0, <1>others, <2>1 DEF M!SomeoneHolds, M!Holds
    <2>4. ASSUME NEW k \in 1..Len(line), k > 1
          PROVE  M!Follows(line[k - 1], line[k]) /\ line[k] # t /\ line[k] \in Thread
      BY <1>facts, <1>ends, <1>queue, <2>1, <2>4 DEF Distinct
    <2>5. \A a \in Thread, b \in Thread \ {t} : M!Follows(a, b) => M!Follows(a, b)'
      BY <1>0, <1>others, <2>1 DEF M!Follows
    <2>6. \A k \in 1..Len(line') : k > 1 => M!Follows(line[k - 1], line[k])'
      <3> SUFFICES ASSUME NEW k \in 1..Len(line'), k > 1
                   PROVE  M!Follows(line[k - 1], line[k])'
        OBVIOUS
      <3>1. /\ k - 1 \in 1..Len(line') /\ (k - 1) + 1 = k /\ (k + 1) - 1 = k
            /\ k + 1 \in 1..Len(line) /\ k + 1 > 1 /\ k \in 1..Len(line)
        BY <1>facts, <2>2
      <3>2. line'[k] = line[k + 1] /\ line'[k - 1] = line[k]
        BY <2>2, <3>1
      <3>3. M!Follows(line[k], line[k + 1]) /\ line[k + 1] # t /\ line[k + 1] \in Thread
        BY <2>4, <3>1
      <3>4. line[k] \in Thread
        BY <1>facts, <3>1
      <3>5. PICK a \in Thread, b \in Thread : a = line[k] /\ b = line[k + 1]
        BY <3>3, <3>4
      <3>6. M!Follows(a, b)'
        BY <2>5, <3>3, <3>5
      <3> QED
        BY <3>2, <3>5, <3>6 DEF M!Follows
    <2>7. IF line' = <<>> THEN next'[t] = Null ELSE M!Follows(t, line[1])'
      <3>1. CASE line' = <<>>
        BY <1>lines, <1>queue, <2>1, <2>2, <3>1
      <3>2. CASE line' # <<>>
        <4>1. 2 \in 1..Len(line) /\ line'[1] = line[2]
          BY <1>lines, <2>2, <3>2
        <4>2. M!Follows(t, line[2]) /\ line[2] # t /\ line[2] \in Thread
          BY <2>1, <2>4, <4>1
        <4> QED
          BY <1>0, <1>others, <2>1, <3>2, <4>1, <4>2 DEF M!Follows
      <3> QED
        BY <3>1, <3>2
    <2>8. line' # <<>> => line'[Len(line')] = line[Len(line)]
      BY <1>lines, <2>2
    <2>9. \A u \in Thread : /\ pc'[u] = "await" => FALSE
                            /\ pc'[u] = "pass" => FALSE
      BY <1>0, <2>3 , <2>1 DEF M!Holds
    <2>10. M!LastInv'
      <3>1. line' = <<>> => last' = t
        BY <1>lines, <1>last, <2>1, <2>2
      <3> QED
        BY <1>last, <2>1, <2>3, <2>8, <3>1 DEF M!LastInv
    <2> QED
      BY <1>lines, <1>queue, <2>1, <2>3, <2>6, <2>7, <2>8, <2>9, <2>10 DEF M!QueueInv
  <1>6. CASE M!Release(t) \/ M!Await(t) \/ (M!Close(t) /\ last # t)
    <2>1. /\ line' = line /\ last' = last /\ next' = next /\ waiting' = waiting /\ pred' = pred
          /\ pc[t] \in {"inside", "close", "await"}
          /\ \E l \in {"close", "pass", "await"} :
               /\ pc' = [pc EXCEPT ![t] = l]
               /\ l = "pass" => next[t] # Null
               /\ l = "await" => last # t
      BY <1>6 DEF M!Release, M!Await, M!Close, M!Goto
    <2>2. M!Holds(t) /\ M!Holds(t)' /\ M!SomeoneHolds' /\ M!SomeoneHolds
      BY <1>0, <2>1 DEF M!Holds, M!SomeoneHolds
    <2>3. \A u \in Thread : M!Holds(u)' <=> M!Holds(u)
      BY <1>others, <2>2
    <2>4. \A a \in Thread, b \in Thread \ {t} : M!Follows(a, b) => M!Follows(a, b)'
      BY <1>0, <1>others, <2>1 DEF M!Follows
    <2>5. \A k \in 1..Len(line) : line[k] # t
      BY <1>facts, <2>2
    <2>6. \A u \in Thread : /\ pc'[u] = "await" => line # <<>>
                            /\ pc'[u] = "pass" => next[u] # Null
      BY <1>0, <1>others, <1>queue, <1>last, <2>1, <2>2
    <2>7. /\ \A k \in 1..Len(line) : k > 1 => M!Follows(line[k - 1], line[k])'
          /\ \A u \in Thread : M!Holds(u) /\ line # <<>> => M!Follows(u, line[1])'
      BY <1>facts, <1>ends, <1>queue, <2>1, <2>4, <2>5
    <2>8. M!LastInv'
      BY <1>last, <2>1, <2>2, <2>3 DEF M!LastInv
    <2> QED
      BY <1>facts, <1>queue, <2>1, <2>2, <2>3, <2>6, <2>7, <2>8 DEF M!QueueInv
  <1>7. CASE M!Close(t) /\ last = t
    <2>1. /\ line' = line /\ last' = Null /\ next' = next /\ waiting' = waiting /\ pred' = pred
          /\ pc[t] = "close" /\ pc' = [pc EXCEPT ![t] = "outside"]
      BY <1>7 DEF M!Close, M!Goto
    <2>2. M!Holds(t) /\ ~M!Holds(t)'
      BY <1>0, <2>1 DEF M!Holds
    <2>3. line = <<>>
      BY <1>7, <1>facts, <1>ends, <1>last, <2>2
    <2>4. \A u \in Thread : ~M!Holds(u)'
      BY <1>others, <1>alone, <2>2
    <2>5. \A u \in Thread : pc'[u] # "await" /\ pc'[u] # "pass"
      BY <2>4 DEF M!Holds
    <2> QED
      BY <1>lines, <2>1, <2>3, <2>4, <2>5 DEF M!QueueInv, M!LastInv, M!SomeoneHolds
  <1>8. CASE M!Pass(t)
    <2>1. /\ line' = line /\ last' = last /\ next' = next /\ pred' = pred
          /\ pc[t] = "pass" /\ pc' = [pc EXCEPT ![t] = "outside"]
          /\ waiting' = [waiting EXCEPT ![next[t]] = FALSE]
      BY <1>8 DEF M!Pass, M!Goto
    <2>2. M!Holds(t) /\ ~M!Holds(t)'
      BY <1>0, <2>1 DEF M!Holds
    <2>3. \A u \in Thread : ~M!Holds(u)'
      BY <1>others, <1>alone, <2>2
    <2>4. line # <<>> /\ M!Follows(t, line[1]) /\ next[t] # Null
      BY <1>queue, <2>1, <2>2
    <2>5. pc[line[1]] = "spin" /\ next[t] = line[1] /\ line[1] \in Thread /\ line[1] # t
      BY <1>facts, <1>ends, <2>1, <2>4 DEF M!Follows
    <2>6. pc'[line[1]] = "spin" /\ ~waiting'[line[1]]
      BY <1>0, <1>others, <2>1, <2>5
    <2>7. \A k \in 1..Len(line) : k > 1 => M!Follows(line[k - 1], line[k])'
      <3> SUFFICES ASSUME NEW k \in 1..Len(line), k > 1
                   PROVE  M!Follows(line[k - 1], line[k])'
        OBVIOUS
      <3>1. /\ line[k] \in Thread /\ line[k - 1] \in Thread /\ line[k] # t /\ line[k] # line[1]
            /\ M!Follows(line[k - 1], line[k])
        BY <1>facts, <1>ends, <1>queue, <2>2, <2>4 DEF Distinct
      <3>2. pc'[line[k]] = pc[line[k]] /\ waiting'[line[k]] = waiting[line[k]]
        BY <1>0, <1>others, <2>1, <2>5, <3>1
      <3> QED
        BY <2>1, <3>1, <3>2 DEF M!Follows
    <2>8. \A u \in Thread : pc'[u] # "await" /\ pc'[u] # "pass"
      BY <2>3 DEF M!Holds
    <2> QED
      BY <1>facts, <1>queue, <1>last, <2>1, <2>3, <2>4, <2>6, <2>7, <2>8
         DEF M!QueueInv, M!LastInv, M!SomeoneHolds
  <1> QED
    BY <1>1, <1>2, <1>3, <1>4, <1>5, <1>6, <1>7, <1>8 DEF M!Call, M!Step

LEMMA McsStarts == ASSUME Init, which = "mcs" PROVE M!IInv
  <1>1. /\ M!Init /\ line = <<>> /\ line \in Seq(Thread) /\ Len(line) = 0
        /\ \A t \in Thread : pc[t] = "outside"
    BY EmptySeq DEF Init, M!Init
  <1>2. \A t \in Thread : ~M!Waits(t) /\ ~M!Holds(t)
    BY <1>1 DEF M!Waits, M!Holds
  <1>3. DOMAIN line = 1..0
    BY <1>1, LenProperties
  <1>4. M!LineInv
    BY <1>1, <1>2, McsLine DEF M!LineInv, Distinct, Members
  <1>5. M!QueueInv /\ M!LastInv
    BY <1>1, <1>2, <1>3 DEF M!QueueInv, M!LastInv, M!SomeoneHolds, M!Init
  <1> QED
    BY <1>1, <1>4, <1>5 DEF M!IInv, M!TypeOK, M!Init

LEMMA McsStays ==
    ASSUME which = "mcs", M!IInv, [Next \/ AllDone]_vars
    PROVE  M!IInv'
  <1>1. CASE UNCHANGED vars
    BY <1>1 DEF vars, M!IInv, M!TypeOK, M!LineInv, M!QueueInv, M!LastInv, M!SomeoneHolds,
                M!Holds, M!Waits, M!Follows, M!IsInjective, M!Range
  <1>2. ASSUME NEW t \in Thread, M!Call(t) \/ M!Step(t)
        PROVE  M!IInv'
    BY <1>2, McsTypes, McsLines, McsQueue DEF M!IInv
  <1> QED
    BY <1>1, <1>2, McsSteps

LEMMA McsRefines ==
    ASSUME which = "mcs", M!IInv, [Next \/ AllDone]_vars
    PROVE  [Abstract!Next]_(Abstract!vars)
  <1>1. which' = which
    BY WhichStays
  <1>2. /\ \A u \in Thread : Phase(u) = M!Phase(u) /\ Phase(u)' = M!Phase(u)'
        /\ Fair /\ Fair'
    BY <1>1 DEF Phase, Fair
  <1>3. SUFFICES ASSUME NEW t \in Thread, M!Call(t) \/ M!Step(t)
                 PROVE  [Abstract!Next]_(Abstract!vars)
    BY McsSteps, StutterRefines
  <1>4. pc \in [Thread -> McsPCs]
    BY DEF M!IInv, M!TypeOK, McsPCs
  <1>5. \A u \in Thread \ {t} : M!Phase(u)' = M!Phase(u)
    BY McsMoves, <1>3 DEF M!Phase
  <1>6. \A u \in Thread : M!Phase(u) = IF pc[u] = "outside" THEN "outside"
                                       ELSE IF M!Waits(u) THEN "waiting" ELSE "inside"
    BY DEF M!Phase, M!Waits
  <1>7. ~M!SomeoneHolds => \A u \in Thread : M!Phase(u) # "inside"
    BY <1>4, <1>6 DEF M!SomeoneHolds, M!Holds, M!Waits, McsPCs
  <1>8. Moves(t)
    <2> USE DEF M!Phase, M!Goto
    <2>1. CASE (M!Swap(t) /\ last = Null) \/ M!TryLock(t)
      <3>1. line = <<>> /\ line' = line /\ pc[t] = "outside" /\ pc'[t] = "inside"
        BY <1>4, <2>1, McsIsFree DEF M!Swap, M!TryLock
      <3> QED
        BY <1>2, <1>7, <2>1, <3>1, McsIsFree DEF Moves, M!TryLock
    <2>2. CASE M!Swap(t) /\ last # Null
      BY <1>2, <1>4, <2>2 DEF M!Swap, Moves
    <2>3. CASE M!Spin(t)
      <3>1. t = Head(line) /\ ~M!SomeoneHolds
        BY <2>3, SpinIsFirst, LineTail, McsFacts
      <3> QED
        BY <1>2, <1>4, <1>7, <2>3, <3>1 DEF M!Spin, Moves
    <2>4. CASE M!Arm(t) \/ M!Link(t) \/ M!Release(t) \/ M!Close(t) \/ M!Await(t) \/ M!Pass(t)
      BY <1>2, <1>4, <2>4 DEF M!Arm, M!Link, M!Release, M!Close, M!Await, M!Pass, Moves
    <2> QED
      BY <1>3, <2>1, <2>2, <2>3, <2>4 DEF M!Call, M!Step
  <1> QED
    BY <1>2, <1>5, <1>8, MoveRefines

-----------------------------------------------------------------------------
(* The CLH lock *)

Node == Thread \union {Null}
ClhPCs == {"outside", "swap", "spin", "inside"}

LEMMA ClhSteps ==
    ASSUME which = "clh", [Next \/ AllDone]_vars
    PROVE  UNCHANGED vars \/ \E t \in Thread : C!Call(t) \/ C!Step(t)
  BY DEF Next, Call, Step, AllDone

LEMMA ClhFacts ==
    ASSUME C!IInv
    PROVE  /\ line \in Seq(Thread) /\ Distinct(line)
           /\ Len(line) \in Nat /\ DOMAIN line = 1..Len(line) /\ (line = <<>> <=> Len(line) = 0)
           /\ line # <<>> => 1 \in 1..Len(line) /\ Len(line) \in 1..Len(line)
           /\ Members(line) = {u \in Thread : pc[u] = "spin"}
           /\ \A k \in 1..Len(line) : line[k] \in Thread /\ pc[line[k]] = "spin"
           /\ \A u \in Thread : pc[u] = "spin" => \E k \in 1..Len(line) : line[k] = u
           /\ \A k \in 1..Len(line) : k > 1 => k - 1 \in 1..Len(line)
           /\ \A k \in 1..Len(line) : k > 1 => pred[line[k]] = my[line[k - 1]]
           /\ \A t, u \in Thread : my[t] = my[u] => t = u
           /\ \A t \in Thread : my[t] \in Node /\ (locked[my[t]] <=> pc[t] # "outside")
  <1>1. line \in Seq(Thread) /\ my \in [Thread -> Node]
    BY DEF C!IInv, C!TypeOK, Node
  <1>2. /\ DOMAIN line = 1..Len(line) /\ Len(line) \in Nat
        /\ (line = <<>> <=> Len(line) = 0)
    BY <1>1, LenProperties, EmptySeq
  <1>3. Distinct(line) /\ Members(line) = {u \in Thread : pc[u] = "spin"}
    BY <1>2 DEF C!IInv, C!LineInv, C!IsInjective, C!Range, Distinct, Members
  <1>4. /\ \A k \in 1..Len(line) : line[k] \in Thread /\ pc[line[k]] = "spin"
        /\ \A u \in Thread : pc[u] = "spin" => \E k \in 1..Len(line) : line[k] = u
    BY <1>3 DEF Members
  <1>5. /\ \A k \in 1..Len(line) : k > 1 => k - 1 \in 1..Len(line)
        /\ line # <<>> => 1 \in 1..Len(line) /\ Len(line) \in 1..Len(line)
    BY <1>2
  <1>6. \A k \in 1..Len(line) : k > 1 => pred[line[k]] = my[line[k - 1]]
    BY <1>2 DEF C!IInv, C!QueueInv
  <1>7. /\ \A t, u \in Thread : my[t] = my[u] => t = u
        /\ \A t \in Thread : my[t] \in Node /\ (locked[my[t]] <=> pc[t] # "outside")
    BY <1>1 DEF C!IInv, C!NodeInv, C!IsInjective
  <1> QED
    BY <1>1, <1>2, <1>3, <1>4, <1>5, <1>6, <1>7

\* The thread whose predecessor's node is not locked is the first of the line, and nobody is
\* inside.
LEMMA ClhSpinIsFirst ==
    ASSUME C!IInv, NEW t \in Thread, C!Spin(t)
    PROVE  line # <<>> /\ line[1] = t /\ ~C!SomeoneInside /\ pred[t] = C!Front
  <1>1. pc[t] = "spin" /\ ~locked[pred[t]]
    BY DEF C!Spin
  <1>2. PICK k \in 1..Len(line) : line[k] = t
    BY <1>1, ClhFacts
  <1>3. k = 1
    <2> SUFFICES ASSUME k > 1
                 PROVE  FALSE
      BY ClhFacts
    <2>1. /\ k - 1 \in 1..Len(line) /\ line[k - 1] \in Thread /\ pc[line[k - 1]] = "spin"
          /\ pred[t] = my[line[k - 1]]
      BY <1>2, ClhFacts
    <2> QED
      BY <1>1, <2>1, ClhFacts
  <1>4. line # <<>> /\ pred[t] = C!Front
    BY <1>2, <1>3, ClhFacts DEF C!Front
  <1>5. \A u \in Thread : pc[u] # "inside"
    <2> SUFFICES ASSUME NEW u \in Thread, pc[u] = "inside"
                 PROVE  FALSE
      OBVIOUS
    <2>1. pred[t] = my[u]
      BY <1>4 DEF C!IInv, C!QueueInv
    <2> QED
      BY <1>1, <2>1, ClhFacts
  <1> QED
    BY <1>2, <1>3, <1>4, <1>5 DEF C!SomeoneInside

LEMMA ClhTypes ==
    ASSUME C!IInv, NEW t \in Thread, C!Call(t) \/ C!Step(t)
    PROVE  C!TypeOK' /\ \A u \in Thread \ {t} : pc'[u] = pc[u]
  <1> USE DEF C!TypeOK, C!Goto
  <1>0. C!TypeOK
    BY DEF C!IInv
  <1>1. CASE C!Mark(t) \/ C!Release(t)
    BY <1>0, <1>1 DEF C!Mark, C!Release
  <1>2. CASE C!Swap(t)
    <2>1. Append(line, t) \in Seq(Thread)
      BY <1>0, AppendProperties
    <2> QED
      BY <1>0, <1>2, <2>1 DEF C!Swap
  <1>3. CASE C!Spin(t)
    <2>1. Tail(line) \in Seq(Thread)
      BY <1>0, <1>3, ClhSpinIsFirst, HeadTailProperties
    <2> QED
      BY <1>0, <1>3, <2>1 DEF C!Spin
  <1> QED
    BY <1>1, <1>2, <1>3 DEF C!Call, C!Step

LEMMA ClhInductive ==
    ASSUME C!IInv, C!TypeOK', NEW t \in Thread, C!Call(t) \/ C!Step(t)
    PROVE  C!NodeInv' /\ C!LineInv' /\ C!QueueInv'
  <1>0. /\ pc \in [Thread -> ClhPCs] /\ line' \in Seq(Thread) /\ last \in Node
        /\ my \in [Thread -> Node] /\ pred \in [Thread -> Node] /\ locked \in [Node -> BOOLEAN]
    BY DEF C!IInv, C!TypeOK, ClhPCs, Node
  <1>facts. /\ line \in Seq(Thread) /\ Distinct(line)
            /\ Len(line) \in Nat /\ DOMAIN line = 1..Len(line) /\ (line = <<>> <=> Len(line) = 0)
            /\ line # <<>> => 1 \in 1..Len(line) /\ Len(line) \in 1..Len(line)
            /\ Members(line) = {u \in Thread : pc[u] = "spin"}
            /\ \A k \in 1..Len(line) : line[k] \in Thread /\ pc[line[k]] = "spin"
            /\ \A u \in Thread : pc[u] = "spin" => \E k \in 1..Len(line) : line[k] = u
            /\ \A k \in 1..Len(line) : k > 1 => k - 1 \in 1..Len(line)
    BY ClhFacts
  <1>nodes. /\ \A k \in 1..Len(line) : k > 1 => pred[line[k]] = my[line[k - 1]]
            /\ \A u, w \in Thread : my[u] = my[w] => u = w
            /\ \A u \in Thread : my[u] \in Node /\ (locked[my[u]] <=> pc[u] # "outside")
            /\ \A u \in Thread : pc[u] = "inside" =>
                 C!Front = my[u] /\ ~locked[pred[u]] /\ \A w \in Thread : pred[u] # my[w]
            /\ ~C!SomeoneInside => \A u \in Thread : C!Front # my[u]
            /\ line # <<>> => last = my[line[Len(line)]]
    BY ClhFacts DEF C!IInv, C!QueueInv
  <1>alone. \A u, w \in Thread : pc[u] = "inside" /\ pc[w] = "inside" => u = w
    BY DEF C!IInv, C!LineInv
  <1>lines. /\ DOMAIN line' = 1..Len(line') /\ Len(line') \in Nat
            /\ (line' = <<>> <=> Len(line') = 0)
    BY <1>0, LenProperties, EmptySeq
  <1>line. /\ Distinct(line)' /\ Members(line') = {u \in Thread : pc'[u] = "spin"}
                => C!IsInjective(line') /\ C!Range(line') = {u \in Thread : pc'[u] = "spin"}
    BY <1>lines DEF C!IsInjective, C!Range, Distinct, Members
  <1>my. my' \in [Thread -> Node]
    BY DEF C!TypeOK, Node
  <1>1. CASE C!Mark(t)
    <2>1. /\ line' = line /\ last' = last /\ my' = my /\ pred' = pred /\ pc[t] = "outside"
          /\ pc' = [pc EXCEPT ![t] = "swap"] /\ locked' = [locked EXCEPT ![my[t]] = TRUE]
      BY <1>1 DEF C!Mark, C!Goto
    <2>2. C!Front' = C!Front
      BY <2>1 DEF C!Front
    <2>3. \A u \in Thread : (pc'[u] = "spin" <=> pc[u] = "spin") /\ (pc'[u] = "inside" <=> pc[u] = "inside")
      BY <1>0, <2>1
    <2>4. C!SomeoneInside' <=> C!SomeoneInside
      BY <2>3 DEF C!SomeoneInside
    <2>5. C!NodeInv'
      BY <1>0, <1>nodes, <1>my, <2>1 DEF C!NodeInv, C!IsInjective
    <2>6. C!LineInv'
      BY <1>facts, <1>alone, <1>line, <2>1, <2>3 DEF C!LineInv
    <2>7. \A u \in Thread : pc'[u] = "inside" => ~locked'[pred[u]]
      BY <1>0, <1>nodes, <2>1, <2>3
    <2> QED
      BY <1>facts, <1>nodes, <2>1, <2>2, <2>3, <2>4, <2>5, <2>6, <2>7 DEF C!QueueInv
  <1>2. CASE C!Swap(t)
    <2>1. /\ line' = Append(line, t) /\ last' = my[t] /\ my' = my /\ pc[t] = "swap"
          /\ pc' = [pc EXCEPT ![t] = "spin"] /\ locked' = locked
          /\ pred' = [pred EXCEPT ![t] = last]
      BY <1>2 DEF C!Swap, C!Goto
    <2>2. t \notin Members(line) /\ \A k \in 1..Len(line) : line[k] # t
      BY <1>facts, <2>1
    <2>3. /\ Len(line') = Len(line) + 1 /\ line' # <<>>
          /\ \A k \in 1..Len(line) : line'[k] = line[k]
          /\ line'[Len(line) + 1] = t
          /\ Distinct(line') /\ Members(line') = Members(line) \union {t}
      BY <1>facts, <2>1, <2>2, LineAppend
    <2>4. C!Front' = C!Front
      <3>1. CASE line = <<>>
        BY <1>0, <1>facts, <2>1, <2>3, <3>1 DEF C!Front
      <3>2. CASE line # <<>>
        <4>1. 1 \in 1..Len(line) /\ line'[1] = line[1] /\ line[1] # t /\ line[1] \in Thread
          BY <1>facts, <2>2, <2>3, <3>2
        <4> QED
          BY <1>0, <2>1, <2>3, <3>2, <4>1 DEF C!Front
      <3> QED
        BY <3>1, <3>2
    <2>5. /\ pc'[t] = "spin" /\ \A u \in Thread \ {t} : pc'[u] = pc[u]
          /\ \A u \in Thread : pc'[u] = "inside" <=> pc[u] = "inside"
      BY <1>0, <2>1
    <2>6. C!NodeInv'
      BY <1>0, <1>nodes, <1>my, <2>1, <2>5 DEF C!NodeInv, C!IsInjective
    <2>7. Members(line') = {u \in Thread : pc'[u] = "spin"}
      BY <1>facts, <2>3, <2>5
    <2>8. C!LineInv'
      BY <1>alone, <1>line, <2>3, <2>5, <2>7 DEF C!LineInv
    <2>9. \A k \in 1..Len(line') : k > 1 => pred'[line'[k]] = my[line'[k - 1]]
      <3> SUFFICES ASSUME NEW k \in 1..Len(line'), k > 1
                   PROVE  pred'[line'[k]] = my[line'[k - 1]]
        OBVIOUS
      <3>1. k - 1 \in 1..Len(line) /\ line'[k - 1] = line[k - 1]
        BY <1>facts, <2>3
      <3>2. CASE k = Len(line) + 1
        BY <1>0, <1>facts, <1>nodes, <2>1, <2>3, <3>1, <3>2
      <3>3. CASE k \in 1..Len(line)
        BY <1>0, <1>facts, <1>nodes, <2>1, <2>2, <2>3, <3>1, <3>3
      <3> QED
        BY <1>facts, <2>3, <3>2, <3>3
    <2>10. C!SomeoneInside' <=> C!SomeoneInside
      BY <2>5 DEF C!SomeoneInside
    <2>11. \A u \in Thread : pc[u] = "inside" => pred'[u] = pred[u]
      BY <1>0, <2>1
    <2>12. line'[Len(line')] = t
      BY <2>3
    <2> QED
      BY <1>lines, <1>nodes, <2>1, <2>4, <2>5, <2>6, <2>8, <2>9, <2>10, <2>11, <2>12 DEF C!QueueInv
  <1>3. CASE C!Spin(t)
    <2>1. /\ line # <<>> /\ line[1] = t /\ ~C!SomeoneInside /\ line' = Tail(line)
          /\ pred[t] = C!Front /\ last' = last /\ my' = my /\ pred' = pred /\ locked' = locked
          /\ pc[t] = "spin" /\ pc' = [pc EXCEPT ![t] = "inside"] /\ ~locked[pred[t]]
      BY <1>3, ClhSpinIsFirst DEF C!Spin, C!Goto
    <2>2. /\ Len(line') = Len(line) - 1 /\ Len(line) \in Nat \ {0}
          /\ \A k \in 1..Len(line') : k + 1 \in 1..Len(line) /\ line'[k] = line[k + 1]
          /\ Distinct(line') /\ Members(line') = Members(line) \ {t}
      BY <1>facts, <2>1, LineTail
    <2>3. /\ pc'[t] = "inside" /\ \A u \in Thread \ {t} : pc'[u] = pc[u]
          /\ \A u \in Thread : pc'[u] = "inside" <=> u = t
      BY <1>0, <2>1 DEF C!SomeoneInside
    <2>4. C!NodeInv'
      BY <1>0, <1>nodes, <1>my, <2>1, <2>3 DEF C!NodeInv, C!IsInjective
    <2>5. Members(line') = {u \in Thread : pc'[u] = "spin"}
      BY <1>facts, <2>2, <2>3
    <2>6. C!LineInv'
      BY <1>line, <2>2, <2>3, <2>5 DEF C!LineInv
    <2>7. \A k \in 1..Len(line') : k > 1 => pred[line'[k]] = my[line'[k - 1]]
      <3> SUFFICES ASSUME NEW k \in 1..Len(line'), k > 1
                   PROVE  pred[line'[k]] = my[line'[k - 1]]
        OBVIOUS
      <3>1. /\ k - 1 \in 1..Len(line') /\ (k - 1) + 1 = k /\ (k + 1) - 1 = k
            /\ k + 1 \in 1..Len(line) /\ k + 1 > 1
        BY <1>facts, <2>2
      <3>2. line'[k] = line[k + 1] /\ line'[k - 1] = line[k]
        BY <2>2, <3>1
      <3> QED
        BY <1>nodes, <3>1, <3>2
    <2>8. C!Front' = my[t]
      <3>1. CASE line' = <<>>
        <4>1. Len(line) = 1
          BY <1>lines, <2>2, <3>1
        <4> QED
          BY <1>nodes, <2>1, <3>1, <4>1 DEF C!Front
      <3>2. CASE line' # <<>>
        <4>1. 2 \in 1..Len(line) /\ line'[1] = line[2] /\ 2 > 1 /\ 2 - 1 = 1
          BY <1>lines, <2>2, <3>2
        <4>2. pred[line[2]] = my[t]
          BY <1>nodes, <2>1, <4>1
        <4> QED
          BY <2>1, <3>2, <4>1, <4>2 DEF C!Front
      <3> QED
        BY <3>1, <3>2
    <2>9. line' # <<>> => line'[Len(line')] = line[Len(line)]
      BY <1>lines, <2>2
    <2>10. C!SomeoneInside'
      BY <2>3 DEF C!SomeoneInside
    <2> QED
      BY <1>lines, <1>nodes, <2>1, <2>3, <2>4, <2>6, <2>7, <2>8, <2>9, <2>10 DEF C!QueueInv
  <1>4. CASE C!Release(t)
    <2>1. /\ line' = line /\ last' = last /\ pred' = pred
          /\ pc[t] = "inside" /\ pc' = [pc EXCEPT ![t] = "outside"]
          /\ locked' = [locked EXCEPT ![my[t]] = FALSE] /\ my' = [my EXCEPT ![t] = pred[t]]
      BY <1>4 DEF C!Release, C!Goto
    <2>2. /\ C!Front = my[t] /\ ~locked[pred[t]] /\ \A u \in Thread : pred[t] # my[u]
      BY <1>nodes, <2>1
    <2>3. /\ pc'[t] = "outside" /\ \A u \in Thread \ {t} : pc'[u] = pc[u]
          /\ \A u \in Thread : pc'[u] # "inside"
          /\ \A u \in Thread : pc'[u] = "spin" <=> pc[u] = "spin"
      BY <1>0, <1>alone, <2>1
    <2>4. my'[t] = pred[t] /\ \A u \in Thread \ {t} : my'[u] = my[u]
      BY <1>0, <2>1
    <2>5. \A u, w \in Thread : my'[u] = my'[w] => u = w
      BY <1>nodes, <2>2, <2>4
    <2>6. \A u \in Thread : locked'[my'[u]] <=> pc'[u] # "outside"
      <3> SUFFICES ASSUME NEW u \in Thread
                   PROVE  locked'[my'[u]] <=> pc'[u] # "outside"
        OBVIOUS
      <3>1. CASE u = t
        BY <1>0, <2>1, <2>2, <2>3, <2>4, <3>1
      <3>2. CASE u # t
        BY <1>0, <1>nodes, <2>1, <2>3, <2>4, <3>2
      <3> QED
        BY <3>1, <3>2
    <2>7. C!NodeInv'
      BY <1>my, <2>5, <2>6 DEF C!NodeInv, C!IsInjective
    <2>8. C!LineInv'
      BY <1>facts, <1>line, <2>1, <2>3 DEF C!LineInv
    <2>9. C!Front' = my[t]
      BY <2>1, <2>2 DEF C!Front
    <2>10. \A u \in Thread : my[t] # my'[u]
      BY <1>nodes, <2>2, <2>4
    <2>11. \A k \in 1..Len(line) : my'[line[k]] = my[line[k]]
      BY <1>facts, <2>1, <2>4
    <2>12. /\ \A k \in 1..Len(line) : k > 1 => pred[line[k]] = my'[line[k - 1]]
           /\ line # <<>> => last = my'[line[Len(line)]]
      BY <1>facts, <1>nodes, <2>11
    <2> QED
      BY <1>facts, <2>1, <2>3, <2>7, <2>8, <2>9, <2>10, <2>12 DEF C!QueueInv, C!SomeoneInside
  <1> QED
    BY <1>1, <1>2, <1>3, <1>4 DEF C!Call, C!Step

LEMMA ClhStarts == ASSUME Init, which = "clh" PROVE C!IInv
  <1>1. /\ C!Init /\ line = <<>> /\ line \in Seq(Thread) /\ Len(line) = 0
        /\ \A t \in Thread : pc[t] = "outside" /\ my[t] = t
    BY EmptySeq DEF Init, C!Init
  <1>2. DOMAIN line = 1..0 /\ my \in [Thread -> Thread \union {Null}]
    BY <1>1, LenProperties DEF C!Init
  <1>3. C!LineInv
    BY <1>1, <1>2 DEF C!LineInv, C!IsInjective, C!Range
  <1>4. C!NodeInv
    BY <1>1, <1>2 DEF C!NodeInv, C!IsInjective, C!Init
  <1>5. \A u \in Thread : u # Null
    BY LocksAssumption DEF C!ClhLockAssumption
  <1>6. C!QueueInv
    BY <1>1, <1>2, <1>5 DEF C!QueueInv, C!Front, C!SomeoneInside, C!Init
  <1> QED
    BY <1>1, <1>2, <1>3, <1>4, <1>6 DEF C!IInv, C!TypeOK, C!Init

LEMMA ClhStays ==
    ASSUME which = "clh", C!IInv, [Next \/ AllDone]_vars
    PROVE  C!IInv'
  <1>1. CASE UNCHANGED vars
    BY <1>1 DEF vars, C!IInv, C!TypeOK, C!NodeInv, C!LineInv, C!QueueInv, C!SomeoneInside,
                C!Front, C!IsInjective, C!Range
  <1>2. ASSUME NEW t \in Thread, C!Call(t) \/ C!Step(t)
        PROVE  C!IInv'
    BY <1>2, ClhTypes, ClhInductive DEF C!IInv
  <1> QED
    BY <1>1, <1>2, ClhSteps

LEMMA ClhRefines ==
    ASSUME which = "clh", C!IInv, [Next \/ AllDone]_vars
    PROVE  [Abstract!Next]_(Abstract!vars)
  <1>1. which' = which
    BY WhichStays
  <1>2. /\ \A u \in Thread : Phase(u) = C!Phase(u) /\ Phase(u)' = C!Phase(u)'
        /\ Fair /\ Fair'
    BY <1>1 DEF Phase, Fair
  <1>3. SUFFICES ASSUME NEW t \in Thread, C!Call(t) \/ C!Step(t)
                 PROVE  [Abstract!Next]_(Abstract!vars)
    BY ClhSteps, StutterRefines
  <1>4. pc \in [Thread -> ClhPCs]
    BY DEF C!IInv, C!TypeOK, ClhPCs
  <1>5. \A u \in Thread \ {t} : C!Phase(u)' = C!Phase(u)
    BY ClhTypes, <1>3 DEF C!Phase
  <1>6. Moves(t)
    <2> USE DEF C!Phase, C!Goto, ClhPCs
    <2>1. CASE C!Mark(t) \/ C!Swap(t) \/ C!Release(t)
      BY <1>2, <1>4, <2>1 DEF C!Mark, C!Swap, C!Release, Moves
    <2>2. CASE C!Spin(t)
      <3>1. t = Head(line) /\ \A u \in Thread : C!Phase(u) # "inside"
        BY <1>4, <2>2, ClhSpinIsFirst, LineTail, ClhFacts DEF C!SomeoneInside
      <3> QED
        BY <1>2, <1>4, <2>2, <3>1 DEF C!Spin, Moves
    <2> QED
      BY <1>3, <2>1, <2>2 DEF C!Call, C!Step
  <1> QED
    BY <1>2, <1>5, <1>6, MoveRefines

-----------------------------------------------------------------------------
(* The hierarchical ticket lock *)

HtPCs == {"outside", "draw", "local", "refill", "drawglobal", "global",
          "inside", "pass", "reset", "giveback", "tried"}

LEMMA HtSteps ==
    ASSUME which = "hticket", [Next \/ AllDone]_vars
    PROVE  UNCHANGED vars \/ \E t \in Thread : H!Call(t) \/ H!Step(t)
  BY DEF Next, Call, Step, AllDone

LEMMA HtCardinality == \A S : H!Cardinality(S) = Cardinality(S)
  BY DEF H!Cardinality, Cardinality

LEMMA HtAssumption ==
    /\ LocalTickets \in Nat \ {0} /\ Wrap \in Nat /\ Cardinality(Thread) < Wrap
    /\ Floor \in Int /\ Floor < -1
    /\ \A s \in H!Sockets :
         Cardinality({t \in Thread : Socket[t] = s}) <= LocalTickets + 1
    /\ \A t \in Thread : Socket[t] \in H!Sockets
  <1>1. H!HticketAssumption
    BY LocksAssumption
  <1>2. /\ LocalTickets \in Nat \ {0} /\ Wrap \in Nat /\ Wrap > Cardinality(Thread)
        /\ Floor \in Int /\ Floor < -1
    BY <1>1, HtCardinality DEF H!HticketAssumption
  <1>3. \A s \in H!Sockets :
          Cardinality({t \in Thread : Socket[t] = s}) <= LocalTickets + 1
    BY <1>1, HtCardinality DEF H!HticketAssumption
  <1>4. \A t \in Thread : Socket[t] \in H!Sockets
    BY DEF H!Sockets
  <1> QED
    BY <1>2, <1>3, <1>4, ThreadIsFinite

LEMMA HtFacts ==
    ASSUME H!IInv
    PROVE  /\ \A s \in H!Sockets : /\ localNxt[s] \in Int /\ Floor <= localNxt[s]
                                   /\ localNxt[s] <= LocalTickets
                                   /\ localCur[s] \in Int /\ 0 <= localCur[s]
                                   /\ localCur[s] <= LocalTickets
                                   /\ H!Bottom(s) \in Nat
           /\ DOMAIN localNxt = H!Sockets /\ DOMAIN localCur = H!Sockets
           /\ globalNxt \in 0 .. Wrap - 1 /\ globalCur \in 0 .. Wrap - 1
           /\ pc \in [Thread -> HtPCs] /\ my \in [Thread -> Nat]
           /\ \A t \in Thread : my[t] \in Nat
  BY HtAssumption DEF H!IInv, H!TypeOK, H!Bottom, HtPCs

\* The threads of a socket that wait with a local ticket are finitely many.
LEMMA HtFinite ==
    ASSUME NEW s
    PROVE  IsFiniteSet(H!Local(s)) /\ Cardinality(H!Local(s)) \in Nat
  BY ThreadIsFinite, FS_Subset, FS_CardinalityType DEF H!Local

\* H!LocalInv and H!GlobalInv, socket by socket and thread by thread
Batch(s) ==
    IF H!Open(s)
    THEN /\ H!Bottom(s) <= localCur[s]
         /\ Cardinality(H!Local(s)) = H!Top(s) - H!Bottom(s)
         /\ \A t \in H!Local(s) : H!Bottom(s) <= my[t] /\ my[t] < H!Top(s)
         /\ \A t, u \in H!Local(s) : my[t] = my[u] => t = u
    ELSE H!Local(s) = {} /\ H!Bottom(s) = 0

HtTicket(t) ==
    /\ my[t] \in 0 .. Wrap - 1
    /\ H!Held <= H!Ahead(my[t]) /\ H!Ahead(my[t]) < H!Ahead(globalNxt)

LEMMA HtBatches == H!LocalInv <=> \A s \in H!Sockets : Batch(s)
  BY HtCardinality DEF H!LocalInv, Batch

LEMMA HtTickets ==
    H!GlobalInv <=> /\ H!Ahead(globalNxt) = H!Held + Cardinality(H!Global)
                    /\ \A t \in H!Global : HtTicket(t)
                    /\ \A t, u \in H!Global : my[t] = my[u] => t = u
  BY HtCardinality DEF H!GlobalInv, HtTicket

LEMMA HtTypes ==
    ASSUME H!IInv, NEW t \in Thread, H!Call(t) \/ H!Step(t)
    PROVE  H!TypeOK'
  <1> DEFINE s == Socket[t]
  <1>1. /\ s \in H!Sockets /\ localNxt[s] \in Floor .. LocalTickets
        /\ localCur[s] \in 0 .. LocalTickets /\ my[t] \in Nat /\ H!Bottom(s) \in Nat
        /\ localNxt \in [H!Sockets -> Floor .. LocalTickets]
        /\ localCur \in [H!Sockets -> 0 .. LocalTickets]
        /\ globalNxt \in 0 .. Wrap - 1 /\ globalCur \in 0 .. Wrap - 1
        /\ my \in [Thread -> Nat] /\ pc \in [Thread -> HtPCs]
    BY HtAssumption, HtFacts DEF H!IInv, H!TypeOK
  <1>2. /\ Wrap \in Nat \ {0}
        /\ (globalNxt + 1) % Wrap \in 0 .. Wrap - 1
        /\ (globalCur + 1) % Wrap \in 0 .. Wrap - 1
    BY <1>1, HtAssumption, ThreadIsFinite
  <1>3. pc' \in [Thread -> HtPCs]
    BY <1>1 DEF H!Call, H!Step, H!CallLock, H!TryLock, H!Draw, H!WaitLocal, H!Refill,
       H!DrawGlobal, H!WaitGlobal, H!Release, H!PassLocal, H!Reset, H!GiveBack, H!ReleaseTry,
       H!Goto, HtPCs
  <1>4. globalNxt' \in 0 .. Wrap - 1 /\ globalCur' \in 0 .. Wrap - 1
    BY <1>1, <1>2 DEF H!Call, H!Step, H!CallLock, H!TryLock, H!Draw, H!WaitLocal, H!Refill,
       H!DrawGlobal, H!WaitGlobal, H!Release, H!PassLocal, H!Reset, H!GiveBack, H!ReleaseTry
  <1>5. /\ localNxt' \in [H!Sockets -> Floor .. LocalTickets]
        /\ localCur' \in [H!Sockets -> 0 .. LocalTickets]
        /\ my' \in [Thread -> Nat]
    <2>1. CASE H!Draw(t)
      BY <1>1, <2>1, HtAssumption DEF H!Draw
    <2>2. CASE H!PassLocal(t)
      <3>1. my[t] - 1 \in 0 .. LocalTickets
        BY <1>1, <2>2, HtAssumption DEF H!PassLocal, H!IInv, H!DealInv
      <3> QED
        BY <1>1, <2>2, <3>1 DEF H!PassLocal
    <2>3. CASE H!Release(t)
      BY <1>1, <2>3, HtAssumption DEF H!Release
    <2>4. CASE H!Refill(t) \/ H!Reset(t) \/ H!DrawGlobal(t) \/ H!WaitGlobal(t)
      BY <1>1, <2>4, HtAssumption DEF H!Refill, H!Reset, H!DrawGlobal, H!WaitGlobal
    <2>5. CASE H!CallLock(t) \/ H!TryLock(t) \/ H!WaitLocal(t) \/ H!GiveBack(t) \/ H!ReleaseTry(t)
      BY <1>1, <2>5 DEF H!CallLock, H!TryLock, H!WaitLocal, H!GiveBack, H!ReleaseTry
    <2> QED
      BY <2>1, <2>2, <2>3, <2>4, <2>5 DEF H!Call, H!Step
  <1> QED
    BY <1>3, <1>4, <1>5 DEF H!TypeOK, HtPCs

\* A step leaves other threads and the tickets of other sockets as they are.
LEMMA HtMoves ==
    ASSUME H!IInv, NEW t \in Thread, H!Call(t) \/ H!Step(t)
    PROVE  /\ \A u \in Thread \ {t} : pc'[u] = pc[u] /\ my'[u] = my[u]
           /\ \A r \in H!Sockets \ {Socket[t]} :
                localNxt'[r] = localNxt[r] /\ localCur'[r] = localCur[r]
  <1>1. CASE H!Draw(t)
    BY <1>1, HtFacts DEF H!Draw, H!Goto
  <1>2. CASE H!Release(t)
    BY <1>2, HtFacts DEF H!Release, H!Goto
  <1>3. CASE ~H!Draw(t) /\ ~H!Release(t)
    BY <1>3, HtFacts DEF H!Call, H!Step, H!CallLock, H!TryLock, H!WaitLocal, H!Refill,
       H!DrawGlobal, H!WaitGlobal, H!PassLocal, H!Reset, H!GiveBack, H!ReleaseTry, H!Goto
  <1> QED
    BY <1>1, <1>2, <1>3

-----------------------------------------------------------------------------
(* What the guards tell *)

LEMMA HtHeld == H!Held \in {0, 1} /\ (H!Held = 0 <=> /\ \A t \in Thread : ~H!Holds(t)
                                                     /\ \A s \in H!Sockets : ~H!Passes(s))
  BY DEF H!Held

\* Who is served a local ticket: its socket passes the lock on, and nobody has it any more.
LEMMA HtServed ==
    ASSUME H!IInv, NEW t \in Thread, H!WaitLocal(t)
    PROVE  /\ H!Passes(Socket[t]) /\ ~H!SomeoneDeals(Socket[t]) /\ H!Open(Socket[t])
           /\ \A u \in Thread : ~H!Holds(u)
  <1> DEFINE s == Socket[t]
  <1>1. /\ s \in H!Sockets /\ t \in H!Local(s) /\ pc[t] = "local" /\ localCur[s] = my[t]
        /\ localCur[s] \in Int
    BY HtAssumption, HtFacts DEF H!WaitLocal, H!Local
  <1>2. H!Open(s) /\ my[t] < H!Top(s)
    BY HtBatches, <1>1 DEF H!IInv, Batch
  <1>3. ~H!SomeoneDeals(s)
    BY <1>1, <1>2 DEF H!Top
  <1>4. H!Passes(s) /\ \A u \in Thread : Socket[u] = s => pc[u] # "reset"
    BY <1>2, <1>3 DEF H!Open
  <1>5. \A u \in Thread : ~H!Holds(u)
    BY <1>1, <1>3, <1>4 DEF H!IInv, H!HoldInv, H!SomeoneDeals, H!Deals
  <1> QED
    BY <1>2, <1>3, <1>4, <1>5

\* Who refills: the local tickets have been used up, since not all of them can be waited
\* for while one thread refills and another has the previous batch.
LEMMA HtRefilled ==
    ASSUME H!IInv, NEW t \in Thread, H!Refill(t)
    PROVE  /\ ~H!Passes(Socket[t]) /\ ~H!SomeoneDeals(Socket[t])
           /\ H!Local(Socket[t]) = {}
  <1> DEFINE s == Socket[t]
  <1>1. /\ s \in H!Sockets /\ pc[t] = "refill" /\ localCur[s] = LocalTickets
        /\ localNxt[s] < 0 /\ LocalTickets \in Nat
    BY HtAssumption DEF H!Refill, H!IInv, H!DealInv
  <1>2. ~H!Passes(s)
    BY <1>1 DEF H!Passes
  <1>3. ~H!SomeoneDeals(s)
    <2> SUFFICES ASSUME NEW u \in Thread, Socket[u] = s, H!Deals(u)
                 PROVE  FALSE
      BY DEF H!SomeoneDeals
    <2>1. H!SomeoneDeals(s) /\ H!Open(s)
      BY DEF H!Open, H!SomeoneDeals
    <2>2. H!Top(s) = LocalTickets /\ H!Bottom(s) = 0
      BY <1>1, <2>1 DEF H!Top, H!Bottom
    <2>3. Cardinality(H!Local(s)) = LocalTickets
      <3>1. Cardinality(H!Local(s)) = H!Top(s) - H!Bottom(s)
        BY HtBatches, <1>1, <2>1 DEF H!IInv, Batch
      <3> QED
        BY <1>1, <2>2, <3>1
    <2>4. t \notin H!Local(s) /\ u \notin H!Local(s) \union {t}
      BY <1>1 DEF H!Local, H!Deals
    <2>5. /\ IsFiniteSet(H!Local(s) \union {t} \union {u})
          /\ Cardinality(H!Local(s) \union {t} \union {u}) = LocalTickets + 2
      <3> DEFINE L == H!Local(s)
      <3>1. IsFiniteSet(L) /\ Cardinality(L) = LocalTickets /\ t \notin L /\ u \notin L \union {t}
        BY <2>3, <2>4, HtFinite
      <3> HIDE DEF L
      <3>2. IsFiniteSet(L \union {t}) /\ Cardinality(L \union {t}) = LocalTickets + 1
        BY <3>1, FS_AddElement
      <3>3. /\ IsFiniteSet((L \union {t}) \union {u})
            /\ Cardinality((L \union {t}) \union {u}) = (LocalTickets + 1) + 1
        BY <3>1, <3>2, FS_AddElement
      <3> QED
        BY <1>1, <3>3 DEF L
    <2>6. H!Local(s) \union {t} \union {u} \subseteq {v \in Thread : Socket[v] = s}
      BY DEF H!Local
    <2>7. IsFiniteSet({v \in Thread : Socket[v] = s})
      BY ThreadIsFinite, FS_Subset
    <2>8. LocalTickets + 2 <= Cardinality({v \in Thread : Socket[v] = s})
      BY <2>5, <2>6, <2>7, FS_Subset
    <2> QED
      BY <1>1, <2>7, <2>8, HtAssumption, FS_CardinalityType
  <1>4. ~H!Open(s)
    BY <1>2, <1>3 DEF H!Open
  <1> QED
    BY HtBatches, <1>1, <1>2, <1>3, <1>4 DEF H!IInv, Batch

\* Who is served a global ticket, or takes the lock without waiting, gets a free lock.
LEMMA HtFree ==
    ASSUME H!IInv, NEW t \in Thread, H!WaitGlobal(t) \/ H!TryLock(t)
    PROVE  /\ H!Held = 0
           /\ \A u \in Thread : ~H!Holds(u)
           /\ \A s \in H!Sockets : ~H!Passes(s)
           /\ H!TryLock(t) => H!Global = {}
  <1>1. IsFiniteSet(H!Global) /\ Cardinality(H!Global) \in Nat
    BY ThreadIsFinite, FS_Subset, FS_CardinalityType DEF H!Global
  <1>2. CASE H!WaitGlobal(t)
    <2>1. t \in H!Global /\ globalCur = my[t] /\ my[t] \in Int
      BY <1>2, HtFacts DEF H!WaitGlobal, H!Global
    <2>2. H!Ahead(my[t]) = 0
      BY <2>1 DEF H!Ahead
    <2>3. H!Held = 0
      BY HtTickets, <2>1, <2>2, HtHeld DEF H!IInv, HtTicket
    <2> QED
      BY <1>2, <2>3, HtHeld DEF H!WaitGlobal, H!TryLock
  <1>3. CASE H!TryLock(t)
    <2>1. globalCur = globalNxt /\ globalNxt \in Int
      BY <1>3, HtFacts DEF H!TryLock
    <2>2. H!Ahead(globalNxt) = 0
      BY <2>1 DEF H!Ahead
    <2>3. H!Held = 0 /\ Cardinality(H!Global) = 0
      <3>1. H!Ahead(globalNxt) = H!Held + Cardinality(H!Global)
        BY HtTickets DEF H!IInv, HtTicket
      <3> QED
        BY <1>1, <2>2, <3>1, HtHeld
    <2> QED
      BY <1>1, <2>3, HtHeld, FS_EmptySet
  <1> QED
    BY <1>2, <1>3

\* Who releases the lock within its socket has a ticket waited for there to pass it on to,
\* or nobody waits there.
LEMMA HtReleased ==
    ASSUME H!IInv, NEW t \in Thread, H!Release(t)
    PROVE  LET s == Socket[t] IN
           /\ s \in H!Sockets /\ H!SomeoneDeals(s) /\ H!Open(s) /\ H!Top(s) = localCur[s]
           /\ \/ /\ pc'[t] = "pass" /\ my'[t] = localCur[s] /\ H!Bottom(s) < localCur[s]
                 /\ localNxt'[s] = localNxt[s]
              \/ /\ pc'[t] = "reset" /\ H!Local(s) = {} /\ localNxt'[s] <= 0
                 /\ localNxt[s] < 0 => localNxt'[s] = localNxt[s]
  <1> DEFINE s == Socket[t]
  <1>1. /\ s \in H!Sockets /\ localNxt[s] \in Int /\ localCur[s] \in Nat
        /\ pc \in [Thread -> HtPCs] /\ my \in [Thread -> Nat] /\ DOMAIN localNxt = H!Sockets
    BY HtAssumption, HtFacts
  <1>2. H!SomeoneDeals(s) /\ H!Open(s) /\ H!Top(s) = localCur[s]
    BY DEF H!Release, H!SomeoneDeals, H!Open, H!Top, H!Deals
  <1>3. H!Bottom(s) <= localCur[s] /\ Cardinality(H!Local(s)) = localCur[s] - H!Bottom(s)
    <2>1. H!Bottom(s) <= localCur[s] /\ Cardinality(H!Local(s)) = H!Top(s) - H!Bottom(s)
      BY HtBatches, <1>1, <1>2 DEF H!IInv, Batch
    <2> QED
      BY <1>2, <2>1
  <1>4. /\ my'[t] = localCur[s]
        /\ localNxt'[s] = IF localNxt[s] = localCur[s] THEN 0 ELSE localNxt[s]
        /\ pc'[t] = IF localCur[s] = 0 \/ localNxt[s] = localCur[s] THEN "reset" ELSE "pass"
    BY <1>1 DEF H!Release, H!Goto
  <1>5. CASE localCur[s] = 0 \/ localNxt[s] = localCur[s]
    <2>1. H!Bottom(s) = localCur[s]
      BY <1>1, <1>3, <1>5 DEF H!Bottom
    <2>2. H!Local(s) = {}
      BY <1>1, <1>3, <2>1, HtFinite, FS_EmptySet
    <2>3. localNxt'[s] <= 0 /\ (localNxt[s] < 0 => localNxt'[s] = localNxt[s])
      BY <1>1, <1>4, <1>5, <2>1 DEF H!Bottom
    <2> QED
      BY <1>1, <1>2, <1>4, <1>5, <2>2, <2>3
  <1>6. CASE ~(localCur[s] = 0 \/ localNxt[s] = localCur[s])
    BY <1>1, <1>2, <1>3, <1>4, <1>6 DEF H!Bottom
  <1> QED
    BY <1>5, <1>6

\* A step that changes neither the tickets of a socket nor where its threads are with them
LEMMA BatchStays ==
    ASSUME NEW s, Batch(s), H!Bottom(s)' = H!Bottom(s), localCur'[s] = localCur[s],
           \A u \in Thread : Socket[u] = s =>
             /\ H!Deals(u)' <=> H!Deals(u)
             /\ pc'[u] = "local" <=> pc[u] = "local"
             /\ pc'[u] = "reset" <=> pc[u] = "reset"
             /\ pc[u] = "local" => my'[u] = my[u]
    PROVE  Batch(s)'
  <1>1. H!SomeoneDeals(s)' <=> H!SomeoneDeals(s)
    BY DEF H!SomeoneDeals
  <1>2. H!Open(s)' <=> H!Open(s)
    BY <1>1 DEF H!Open, H!Passes
  <1>3. H!Top(s)' = H!Top(s)
    BY <1>1 DEF H!Top
  <1>4. H!Local(s)' = H!Local(s) /\ \A u \in H!Local(s) : my'[u] = my[u]
    BY DEF H!Local
  <1> QED
    BY <1>2, <1>3, <1>4 DEF Batch

LEMMA HtHolds ==
    ASSUME H!IInv, NEW t \in Thread, H!Call(t) \/ H!Step(t)
    PROVE  H!HoldInv'
  <1> DEFINE s == Socket[t]
  <1>0. /\ s \in H!Sockets /\ H!HoldInv /\ pc \in [Thread -> HtPCs]
        /\ DOMAIN localCur = H!Sockets /\ localCur[s] \in Int /\ localCur[s] <= LocalTickets
        /\ LocalTickets \in Nat
        /\ \A u \in Thread : u # t => (H!Holds(u)' <=> H!Holds(u))
        /\ \A r \in H!Sockets : r # s => (H!Passes(r)' <=> H!Passes(r))
    BY HtFacts, HtAssumption, HtMoves DEF H!IInv, H!Holds, H!Passes
  <1> USE DEF H!HoldInv, H!Holds, H!Goto
  <1>1. CASE H!CallLock(t) \/ H!Draw(t) \/ H!Refill(t) \/ H!DrawGlobal(t) \/ H!GiveBack(t) \/ H!ReleaseTry(t)
    <2>1. \A u \in Thread : /\ H!Holds(u)' => H!Holds(u)
                            /\ pc[u] \in {"inside", "pass", "reset"} /\ H!Holds(u)'
                                 => pc'[u] \in {"inside", "pass", "reset"}
      BY <1>0, <1>1, HtMoves DEF H!CallLock, H!Draw, H!Refill, H!DrawGlobal, H!GiveBack, H!ReleaseTry
    <2>2. \A r \in H!Sockets : H!Passes(r)' <=> H!Passes(r)
      BY <1>1 DEF H!CallLock, H!Draw, H!Refill, H!DrawGlobal, H!GiveBack, H!ReleaseTry, H!Passes
    <2> QED
      BY <1>0, <2>1, <2>2
  <1>2. CASE H!WaitLocal(t)
    <2>1. /\ \A u \in Thread : ~H!Holds(u)
          /\ H!Passes(s) /\ pc'[t] = "inside" /\ localCur' = localCur
      BY <1>0, <1>2, HtServed DEF H!WaitLocal
    <2>2. \A u \in Thread : H!Holds(u)' => u = t
      BY <1>0, <2>1
    <2>3. \A r \in H!Sockets : H!Passes(r)' => r = s
      BY <1>0, <2>1 DEF H!Passes
    <2> QED
      BY <1>0, <2>1, <2>2, <2>3
  <1>3. CASE H!WaitGlobal(t) \/ H!TryLock(t)
    <2>1. /\ \A u \in Thread : ~H!Holds(u)
          /\ \A r \in H!Sockets : ~H!Passes(r)
          /\ localCur' = localCur
      BY <1>3, HtFree DEF H!WaitGlobal, H!TryLock
    <2>2. \A u \in Thread : H!Holds(u)' => u = t
      BY <1>0, <2>1
    <2>3. \A r \in H!Sockets : ~H!Passes(r)'
      BY <2>1 DEF H!Passes
    <2> QED
      BY <2>2, <2>3
  <1>4. CASE H!Release(t)
    <2>1. /\ \A u \in Thread : H!Holds(u)' <=> H!Holds(u)
          /\ pc[t] = "inside" /\ pc'[t] \in {"pass", "reset"} /\ localCur' = localCur
      BY <1>0, <1>4 DEF H!Release
    <2>2. \A r \in H!Sockets : H!Passes(r)' <=> H!Passes(r)
      BY <2>1 DEF H!Passes
    <2> QED
      BY <1>0, <2>1, <2>2
  <1>5. CASE H!PassLocal(t)
    <2>1. \A u \in Thread : ~H!Holds(u)'
      BY <1>0, <1>5 DEF H!PassLocal
    <2>2. \A r \in H!Sockets : H!Passes(r)' => r = s
      BY <1>0, <1>5 DEF H!PassLocal, H!Passes
    <2> QED
      BY <2>1, <2>2
  <1>6. CASE H!Reset(t)
    <2>1. \A u \in Thread : H!Holds(u)' => u = t
      BY <1>0, <1>6 DEF H!Reset
    <2>2. \A r \in H!Sockets : ~H!Passes(r)'
      BY <1>0, <1>6 DEF H!Reset, H!Passes
    <2> QED
      BY <2>1, <2>2
  <1> QED
    BY <1>1, <1>2, <1>3, <1>4, <1>5, <1>6 DEF H!Call, H!Step

LEMMA HtDeals ==
    ASSUME H!IInv, NEW t \in Thread, H!Call(t) \/ H!Step(t)
    PROVE  H!DealInv'
  <1> DEFINE s == Socket[t]
  <1>0. /\ s \in H!Sockets /\ pc \in [Thread -> HtPCs] /\ H!DealInv /\ my \in [Thread -> Nat]
        /\ DOMAIN localNxt = H!Sockets /\ DOMAIN localCur = H!Sockets /\ localNxt[s] \in Int
        /\ localCur[s] \in Nat /\ H!Bottom(s) \in Nat
        /\ \A u \in Thread : u # t => pc'[u] = pc[u] /\ my'[u] = my[u]
        /\ \A r \in H!Sockets : r # s => localNxt'[r] = localNxt[r] /\ localCur'[r] = localCur[r]
        /\ \A u \in Thread : Socket[u] \in H!Sockets
        /\ Floor \in Int /\ Floor < -1 /\ LocalTickets \in Nat \ {0}
        /\ H!HoldInv
    BY HtFacts, HtAssumption, HtMoves DEF H!IInv
  <1> USE DEF H!Goto
  <1>1. CASE H!CallLock(t) \/ H!GiveBack(t) \/ H!ReleaseTry(t) \/ H!TryLock(t)
    <2>1. /\ pc[t] \in {"outside", "giveback", "tried"} /\ pc'[t] \in {"draw", "outside", "tried"}
          /\ localNxt' = localNxt /\ localCur' = localCur /\ my' = my
      BY <1>0, <1>1 DEF H!CallLock, H!GiveBack, H!ReleaseTry, H!TryLock
    <2> QED
      BY <1>0, <2>1 DEF H!DealInv, H!Deals, H!Refills, H!Passes, H!Bottom
  <1>2. CASE H!Draw(t)
    <2>1. /\ pc[t] = "draw" /\ localCur' = localCur
          /\ localNxt'[s] = IF localNxt[s] - 1 < Floor THEN Floor ELSE localNxt[s] - 1
          /\ pc'[t] \in {"draw", "refill", "local"}
          /\ pc'[t] = "refill" => localNxt[s] = 0 /\ localNxt'[s] = -1
      BY <1>0, <1>2 DEF H!Draw
    <2>2. H!Bottom(s)' <= H!Bottom(s) /\ H!Bottom(s)' \in Nat /\ (localNxt[s] < 0 => localNxt'[s] < 0)
      BY <1>0, <2>1 DEF H!Bottom
    <2>3. \A u \in Thread : pc'[u] = "refill" => localNxt'[Socket[u]] < 0
      BY <1>0, <2>1, <2>2 DEF H!DealInv
    <2>4. \A u, v \in Thread : Socket[u] = Socket[v] /\ pc'[u] = "refill" /\ pc'[v] = "refill" => u = v
      BY <1>0, <2>1 DEF H!DealInv
    <2>5. \A u \in Thread : (H!Deals(u)' <=> H!Deals(u)) /\ (H!Refills(u)' <=> H!Refills(u))
      BY <1>0, <2>1 DEF H!Deals, H!Refills
    <2>6. \A u \in Thread : pc'[u] = "pass" =>
            my'[u] = localCur'[Socket[u]] /\ H!Bottom(Socket[u])' < my'[u]
      <3> SUFFICES ASSUME NEW u \in Thread, pc'[u] = "pass"
                   PROVE  my'[u] = localCur'[Socket[u]] /\ H!Bottom(Socket[u])' < my'[u]
        OBVIOUS
      <3>1. /\ u # t /\ pc[u] = "pass" /\ my'[u] = my[u] /\ my[u] \in Nat
            /\ my[u] = localCur[Socket[u]] /\ H!Bottom(Socket[u]) < my[u]
        BY <1>0, <2>1 DEF H!DealInv
      <3>2. CASE Socket[u] = s
        BY <1>0, <2>1, <2>2, <3>1, <3>2
      <3>3. CASE Socket[u] # s
        <4>1. H!Bottom(Socket[u])' = H!Bottom(Socket[u])
          BY <1>0, <3>3 DEF H!Bottom
        <4> QED
          BY <2>1, <3>1, <4>1
      <3> QED
        BY <3>2, <3>3
    <2> QED
      BY <1>0, <2>1, <2>3, <2>4, <2>5, <2>6 DEF H!DealInv, H!Passes
  <1>3. CASE H!WaitLocal(t)
    <2>1. /\ pc'[t] = "inside" /\ localNxt' = localNxt /\ localCur' = localCur /\ my' = my
          /\ \A u \in Thread : Socket[u] = s => ~H!Deals(u)
      BY <1>0, <1>3, HtServed DEF H!WaitLocal, H!SomeoneDeals
    <2> QED
      BY <1>0, <2>1 DEF H!DealInv, H!Deals, H!Refills, H!Passes, H!Bottom
  <1>4. CASE H!Refill(t)
    <2>1. /\ pc[t] = "refill" /\ pc'[t] = "drawglobal" /\ localCur' = localCur /\ my' = my
          /\ ~H!Passes(s)
          /\ \A u \in Thread : Socket[u] = s => ~H!Deals(u)
          /\ \A u \in Thread : Socket[u] = s /\ pc[u] = "refill" => u = t
      <3>1. pc[t] = "refill" /\ pc'[t] = "drawglobal" /\ localCur' = localCur /\ my' = my
        BY <1>0, <1>4 DEF H!Refill
      <3>2. ~H!Passes(s) /\ \A u \in Thread : Socket[u] = s => ~H!Deals(u)
        BY <1>4, HtRefilled DEF H!SomeoneDeals
      <3>3. \A u \in Thread : Socket[u] = s /\ pc[u] = "refill" => u = t
        BY <1>0, <3>1 DEF H!DealInv
      <3> QED
        BY <3>1, <3>2, <3>3
    <2>2. \A r \in H!Sockets : (H!Passes(r)' <=> H!Passes(r)) /\ (r # s => H!Bottom(r)' = H!Bottom(r))
      BY <1>0, <2>1 DEF H!Passes, H!Bottom
    <2>3. \A u \in Thread : pc'[u] = "pass" => pc[u] = "pass" /\ Socket[u] # s
      BY <1>0, <2>1 DEF H!Deals
    <2>4. \A u \in Thread : u # t => (H!Deals(u)' <=> H!Deals(u)) /\ (H!Refills(u)' <=> H!Refills(u))
      BY <1>0 DEF H!Deals, H!Refills
    <2>5. \A u \in Thread : pc'[u] = "refill" => localNxt'[Socket[u]] < 0
      BY <1>0, <2>1 DEF H!DealInv
    <2>6. \A u, v \in Thread : Socket[u] = Socket[v] =>
            /\ pc'[u] = "refill" /\ pc'[v] = "refill" => u = v
            /\ H!Deals(u)' /\ H!Deals(v)' => u = v
      BY <1>0, <2>1, <2>4 DEF H!DealInv
    <2>7. \A u \in Thread : H!Refills(u)' => ~H!Passes(Socket[u])'
      BY <1>0, <2>1, <2>2, <2>4 DEF H!DealInv
    <2>8. \A u \in Thread : pc'[u] = "pass" =>
            my'[u] = localCur'[Socket[u]] /\ H!Bottom(Socket[u])' < my'[u]
      BY <1>0, <2>1, <2>2, <2>3 DEF H!DealInv
    <2> QED
      BY <2>5, <2>6, <2>7, <2>8 DEF H!DealInv
  <1>5. CASE H!DrawGlobal(t) \/ H!WaitGlobal(t)
    <2>1. /\ pc[t] \in {"drawglobal", "global"} /\ pc'[t] \in {"global", "inside"}
          /\ localNxt' = localNxt /\ localCur' = localCur
      BY <1>0, <1>5 DEF H!DrawGlobal, H!WaitGlobal
    <2> QED
      BY <1>0, <2>1 DEF H!DealInv, H!Deals, H!Refills, H!Passes, H!Bottom
  <1>6. CASE H!Release(t)
    <2>1. /\ pc[t] = "inside" /\ pc'[t] \in {"pass", "reset"} /\ localCur' = localCur
          /\ localNxt[s] < 0 => localNxt'[s] < 0
          /\ pc'[t] = "pass" => /\ my'[t] = localCur[s] /\ H!Bottom(s) < localCur[s]
                                /\ localNxt'[s] = localNxt[s]
      BY <1>0, <1>6, HtReleased DEF H!Release
    <2>2. \A u \in Thread : pc'[u] = "refill" => localNxt'[Socket[u]] < 0
      BY <1>0, <2>1 DEF H!DealInv
    <2>3. \A u \in Thread : (H!Deals(u)' => H!Deals(u)) /\ (H!Refills(u)' <=> H!Refills(u))
      BY <1>0, <2>1 DEF H!Deals, H!Refills
    <2>4. \A u \in Thread : pc'[u] = "pass" =>
            my'[u] = localCur'[Socket[u]] /\ H!Bottom(Socket[u])' < my'[u]
      <3> SUFFICES ASSUME NEW u \in Thread, pc'[u] = "pass"
                   PROVE  my'[u] = localCur'[Socket[u]] /\ H!Bottom(Socket[u])' < my'[u]
        OBVIOUS
      <3>1. CASE u = t
        BY <1>0, <2>1, <3>1 DEF H!Bottom
      <3>2. CASE u # t
        <4>1. pc[u] = "pass" /\ H!Holds(u) /\ H!Holds(t)
          BY <1>0, <2>1, <3>2 DEF H!Holds
        <4> QED
          BY <1>0, <3>2, <4>1 DEF H!HoldInv
      <3> QED
        BY <3>1, <3>2
    <2> QED
      BY <1>0, <2>1, <2>2, <2>3, <2>4 DEF H!DealInv, H!Passes
  <1>7. CASE H!PassLocal(t) \/ H!Reset(t)
    <2>1. /\ pc[t] \in {"pass", "reset"} /\ pc'[t] \in {"outside", "giveback"} /\ localNxt' = localNxt
          /\ pc[t] = "pass" \/ localCur'[s] = LocalTickets
          /\ H!Holds(t)
      BY <1>0, <1>7 DEF H!PassLocal, H!Reset, H!Holds
    <2>2. \A u \in Thread : /\ H!Deals(u)' => H!Deals(u) /\ u # t
                            /\ H!Refills(u)' <=> H!Refills(u)
                            /\ pc'[u] = "refill" => pc[u] = "refill"
      BY <1>0, <2>1 DEF H!Deals, H!Refills
    <2>3. \A u \in Thread : H!Refills(u) => ~H!Passes(Socket[u])'
      <3> SUFFICES ASSUME NEW u \in Thread, H!Refills(u)
                   PROVE  ~H!Passes(Socket[u])'
        OBVIOUS
      <3>1. ~H!Passes(Socket[u]) /\ u # t /\ H!Deals(u)
        BY <1>0, <2>1 DEF H!DealInv, H!Refills, H!Deals
      <3>2. CASE pc[t] = "pass"
        <4>1. Socket[u] # s
          BY <1>0, <3>1, <3>2 DEF H!DealInv, H!Deals
        <4> QED
          BY <1>0, <3>1, <4>1 DEF H!Passes
      <3>3. CASE localCur'[s] = LocalTickets
        BY <1>0, <3>1, <3>3 DEF H!Passes
      <3> QED
        BY <2>1, <3>2, <3>3
    <2>4. \A u \in Thread : pc'[u] # "pass"
      BY <1>0, <2>1 DEF H!HoldInv, H!Holds
    <2> QED
      BY <1>0, <2>1, <2>2, <2>3, <2>4 DEF H!DealInv
  <1> QED
    BY <1>1, <1>2, <1>3, <1>4, <1>5, <1>6, <1>7 DEF H!Call, H!Step

LEMMA HtLocal ==
    ASSUME H!IInv, NEW t \in Thread, H!Call(t) \/ H!Step(t)
    PROVE  H!LocalInv'
  <1> DEFINE s == Socket[t]
  <1>0. /\ s \in H!Sockets /\ pc \in [Thread -> HtPCs] /\ my \in [Thread -> Nat]
        /\ DOMAIN localNxt = H!Sockets /\ DOMAIN localCur = H!Sockets
        /\ localNxt[s] \in Int /\ localNxt[s] <= LocalTickets
        /\ localCur[s] \in Nat /\ localCur[s] <= LocalTickets
        /\ H!Bottom(s) \in Nat
        /\ \A u \in Thread : u # t => pc'[u] = pc[u] /\ my'[u] = my[u]
        /\ Floor \in Int /\ Floor < -1 /\ LocalTickets \in Nat \ {0}
        /\ Batch(s) /\ H!HoldInv /\ H!DealInv
        /\ IsFiniteSet(H!Local(s)) /\ Cardinality(H!Local(s)) \in Nat
    BY HtFacts, HtAssumption, HtMoves, HtBatches, HtFinite DEF H!IInv
  <1>others. ASSUME NEW r \in H!Sockets, r # s
             PROVE  Batch(r)'
    <2>1. Batch(r) /\ localNxt'[r] = localNxt[r] /\ localCur'[r] = localCur[r]
      BY <1>others, HtMoves, HtBatches DEF H!IInv
    <2>2. H!Bottom(r)' = H!Bottom(r)
      BY <2>1 DEF H!Bottom
    <2>3. \A u \in Thread : Socket[u] = r => pc'[u] = pc[u] /\ my'[u] = my[u]
      BY <1>0, <1>others
    <2> QED
      BY <2>1, <2>2, <2>3, BatchStays DEF H!Deals
  <1> SUFFICES Batch(s)'
    <2>1. \A r \in H!Sockets : Batch(r)'
      BY <1>others
    <2> QED
      BY <2>1, HtCardinality DEF H!LocalInv, Batch
  <1> USE DEF H!Goto
  <1>1. CASE \/ H!CallLock(t) \/ H!GiveBack(t) \/ H!ReleaseTry(t) \/ H!TryLock(t)
             \/ H!DrawGlobal(t) \/ H!WaitGlobal(t)
    <2>1. /\ H!Deals(t)' <=> H!Deals(t)
          /\ pc[t] \notin {"local", "reset"} /\ pc'[t] \notin {"local", "reset"}
          /\ localNxt' = localNxt /\ localCur' = localCur
      BY <1>0, <1>1 DEF H!CallLock, H!GiveBack, H!ReleaseTry, H!TryLock, H!DrawGlobal, H!WaitGlobal,
         H!Deals
    <2>2. H!Bottom(s)' = H!Bottom(s)
      BY <2>1 DEF H!Bottom
    <2> QED
      BY <1>0, <2>1, <2>2, BatchStays DEF H!Deals
  <1>2. CASE H!Draw(t) /\ localNxt[s] <= 0
    <2>1. /\ pc[t] = "draw" /\ pc'[t] \in {"draw", "refill"} /\ localCur' = localCur
          /\ localNxt'[s] < 0
      BY <1>0, <1>2 DEF H!Draw
    <2>2. H!Bottom(s)' = H!Bottom(s)
      BY <1>0, <1>2, <2>1 DEF H!Bottom
    <2> QED
      BY <1>0, <2>1, <2>2, BatchStays DEF H!Deals
  <1>3. CASE H!Draw(t) /\ localNxt[s] > 0
    <2> DEFINE n == localNxt[s] - 1
    <2>1. /\ pc[t] = "draw" /\ pc'[t] = "local" /\ localCur' = localCur
          /\ localNxt'[s] = n /\ n \in Nat /\ my'[t] = n
      BY <1>0, <1>3 DEF H!Draw
    <2>2. H!Bottom(s) = n + 1 /\ H!Bottom(s)' = n
      BY <1>0, <1>3, <2>1 DEF H!Bottom
    <2>3. H!Open(s)
      BY <1>0, <2>1, <2>2 DEF Batch
    <2>4. H!SomeoneDeals(s)' <=> H!SomeoneDeals(s)
      BY <1>0, <2>1 DEF H!SomeoneDeals, H!Deals
    <2>5. H!Open(s)' /\ H!Top(s)' = H!Top(s)
      BY <1>0, <2>1, <2>3, <2>4 DEF H!Open, H!Top, H!Passes
    <2>6. H!Local(s)' = H!Local(s) \union {t} /\ t \notin H!Local(s)
      BY <1>0, <2>1 DEF H!Local
    <2>7. Cardinality(H!Local(s)') = Cardinality(H!Local(s)) + 1
      BY <1>0, <2>6, FS_AddElement
    <2>8. \A u \in H!Local(s) : my'[u] = my[u] /\ my[u] \in Nat
      BY <1>0, <2>1 DEF H!Local
    <2>9. H!Top(s) \in Int /\ localCur[s] <= H!Top(s)
      BY <1>0 DEF H!Top
    <2>10. /\ H!Bottom(s) <= localCur[s]
           /\ Cardinality(H!Local(s)) = H!Top(s) - H!Bottom(s)
           /\ \A u \in H!Local(s) : H!Bottom(s) <= my[u] /\ my[u] < H!Top(s)
           /\ \A u, v \in H!Local(s) : my[u] = my[v] => u = v
      BY <1>0, <2>3 DEF Batch
    <2>11. Cardinality(H!Local(s)') = H!Top(s)' - H!Bottom(s)'
      BY <1>0, <2>2, <2>5, <2>7, <2>9, <2>10
    <2>12. \A u \in H!Local(s)' : H!Bottom(s)' <= my'[u] /\ my'[u] < H!Top(s)'
      BY <1>0, <2>1, <2>2, <2>5, <2>6, <2>8, <2>9, <2>10
    <2>13. \A u, v \in H!Local(s)' : my'[u] = my'[v] => u = v
      BY <1>0, <2>1, <2>2, <2>6, <2>8, <2>10
    <2>14. H!Bottom(s)' <= localCur'[s]
      BY <1>0, <2>1, <2>2, <2>10
    <2> QED
      BY <2>5, <2>11, <2>12, <2>13, <2>14 DEF Batch
  <1>4. CASE H!WaitLocal(t)
    <2>1. /\ pc[t] = "local" /\ pc'[t] = "inside" /\ localCur' = localCur /\ localNxt' = localNxt
          /\ my' = my /\ my[t] = localCur[s]
          /\ ~H!SomeoneDeals(s) /\ H!Open(s)
      BY <1>0, <1>4, HtServed DEF H!WaitLocal
    <2>2. H!SomeoneDeals(s)' /\ H!Open(s)'
      BY <2>1 DEF H!SomeoneDeals, H!Open, H!Deals
    <2>3. H!Top(s) = localCur[s] + 1 /\ H!Top(s)' = localCur[s] /\ H!Bottom(s)' = H!Bottom(s)
      BY <2>1, <2>2 DEF H!Top, H!Bottom
    <2>4. H!Local(s)' = H!Local(s) \ {t} /\ t \in H!Local(s)
      BY <1>0, <2>1 DEF H!Local
    <2>5. Cardinality(H!Local(s)') = Cardinality(H!Local(s)) - 1
      <3> DEFINE L == H!Local(s)
      <3>1. IsFiniteSet(L) /\ t \in L /\ H!Local(s)' = L \ {t}
        BY <1>0, <2>4
      <3> HIDE DEF L
      <3>2. Cardinality(L \ {t}) = Cardinality(L) - 1
        BY <3>1, FS_RemoveElement
      <3> QED
        BY <3>1, <3>2 DEF L
    <2>6. \A u \in H!Local(s) : my[u] \in Nat
      BY <1>0 DEF H!Local
    <2>7. /\ H!Bottom(s) <= localCur[s]
          /\ Cardinality(H!Local(s)) = H!Top(s) - H!Bottom(s)
          /\ \A u \in H!Local(s) : H!Bottom(s) <= my[u] /\ my[u] < H!Top(s)
          /\ \A u, v \in H!Local(s) : my[u] = my[v] => u = v
      BY <1>0, <2>1 DEF Batch
    <2>8. Cardinality(H!Local(s)') = H!Top(s)' - H!Bottom(s)'
      BY <1>0, <2>3, <2>5, <2>7
    <2>9. \A u \in H!Local(s)' : H!Bottom(s)' <= my'[u] /\ my'[u] < H!Top(s)'
      BY <1>0, <2>1, <2>3, <2>4, <2>6, <2>7
    <2> QED
      BY <2>1, <2>2, <2>3, <2>4, <2>7, <2>8, <2>9 DEF Batch
  <1>5. CASE H!Refill(t)
    <2>1. /\ pc[t] = "refill" /\ pc'[t] = "drawglobal" /\ localCur' = localCur
          /\ localCur[s] = LocalTickets /\ localNxt'[s] = LocalTickets /\ H!Local(s) = {}
      BY <1>0, <1>5, HtRefilled DEF H!Refill
    <2>2. H!SomeoneDeals(s)' /\ H!Open(s)'
      BY <2>1 DEF H!SomeoneDeals, H!Open, H!Deals
    <2>3. H!Top(s)' = LocalTickets /\ H!Bottom(s)' = LocalTickets
      BY <1>0, <2>1, <2>2 DEF H!Top, H!Bottom
    <2>4. H!Local(s)' = {}
      BY <1>0, <2>1 DEF H!Local
    <2> QED
      BY <1>0, <2>1, <2>2, <2>3, <2>4, FS_EmptySet DEF Batch
  <1>6. CASE H!Release(t)
    <2>1. /\ pc[t] = "inside" /\ localCur' = localCur /\ H!SomeoneDeals(s) /\ H!Open(s)
          /\ \/ pc'[t] = "pass" /\ localNxt'[s] = localNxt[s]
             \/ pc'[t] = "reset" /\ H!Local(s) = {} /\ localNxt'[s] <= 0
      BY <1>0, <1>6, HtReleased DEF H!Release
    <2>2. CASE pc'[t] = "pass"
      <3>1. H!Bottom(s)' = H!Bottom(s)
        BY <2>1, <2>2 DEF H!Bottom
      <3> QED
        BY <1>0, <2>1, <2>2, <3>1, BatchStays DEF H!Deals
    <2>3. CASE pc'[t] = "reset"
      <3>1. ~H!SomeoneDeals(s)'
        BY <1>0, <2>1, <2>3 DEF H!SomeoneDeals, H!Deals, H!DealInv
      <3>2. ~H!Open(s)'
        BY <2>3, <3>1 DEF H!Open
      <3>3. H!Local(s)' = {}
        BY <1>0, <2>1, <2>3 DEF H!Local
      <3>4. H!Bottom(s)' = 0
        BY <1>0, <1>6, <2>1, <2>3 DEF H!Bottom, H!Release
      <3> QED
        BY <3>2, <3>3, <3>4 DEF Batch
    <2> QED
      BY <2>1, <2>2, <2>3
  <1>7. CASE H!PassLocal(t)
    <2>1. /\ pc[t] = "pass" /\ pc'[t] = "outside" /\ localNxt' = localNxt
          /\ localCur'[s] = my[t] - 1 /\ my[t] = localCur[s] /\ H!Bottom(s) < my[t]
      BY <1>0, <1>7 DEF H!PassLocal, H!DealInv
    <2>2. H!SomeoneDeals(s) /\ H!Open(s)
      BY <2>1 DEF H!SomeoneDeals, H!Open, H!Deals
    <2>3. ~H!SomeoneDeals(s)'
      BY <1>0, <2>1 DEF H!SomeoneDeals, H!Deals, H!DealInv
    <2>4. H!Open(s)'
      <3>1. \A u \in Thread : pc'[u] # "reset"
        BY <1>0, <2>1 DEF H!HoldInv, H!Holds
      <3> QED
        BY <1>0, <2>1, <3>1 DEF H!Open, H!Passes
    <2>5. H!Top(s) = localCur[s] /\ H!Top(s)' = localCur[s] /\ H!Bottom(s)' = H!Bottom(s)
      BY <1>0, <2>1, <2>2, <2>3 DEF H!Top, H!Bottom
    <2>6. H!Local(s)' = H!Local(s) /\ \A u \in H!Local(s) : my'[u] = my[u]
      BY <1>0, <2>1 DEF H!Local
    <2>7. H!Bottom(s)' <= localCur'[s]
      BY <1>0, <2>1, <2>5
    <2> QED
      BY <1>0, <2>2, <2>4, <2>5, <2>6, <2>7 DEF Batch
  <1>8. CASE H!Reset(t)
    <2>1. /\ pc[t] = "reset" /\ pc'[t] = "giveback" /\ localNxt' = localNxt
          /\ localCur'[s] = LocalTickets /\ H!Holds(t)
      BY <1>0, <1>8 DEF H!Reset, H!Holds
    <2>2. H!Bottom(s)' = H!Bottom(s)
      BY <2>1 DEF H!Bottom
    <2>3. H!SomeoneDeals(s)' <=> H!SomeoneDeals(s)
      BY <1>0, <2>1 DEF H!SomeoneDeals, H!Deals
    <2>4. H!Local(s)' = H!Local(s) /\ \A u \in H!Local(s) : my'[u] = my[u]
      BY <1>0, <2>1 DEF H!Local
    <2>5. CASE H!Passes(s)
      <3>1. ~H!SomeoneDeals(s)
        BY <1>0, <2>1, <2>5 DEF H!SomeoneDeals, H!Deals, H!DealInv, H!HoldInv, H!Holds, H!Refills
      <3>2. ~H!Open(s) /\ ~H!Open(s)'
        BY <2>1, <2>3, <3>1 DEF H!Open, H!Passes
      <3> QED
        BY <1>0, <2>2, <2>4, <3>2 DEF Batch
    <2>6. CASE ~H!Passes(s)
      <3>1. localCur'[s] = localCur[s] /\ ~H!Passes(s)'
        BY <2>1, <2>6 DEF H!Passes
      <3>2. H!Open(s)' <=> H!Open(s)
        BY <2>3, <2>6, <3>1 DEF H!Open
      <3>3. H!Top(s)' = H!Top(s)
        BY <2>3, <3>1 DEF H!Top
      <3> QED
        BY <1>0, <2>2, <2>4, <3>1, <3>2, <3>3 DEF Batch
    <2> QED
      BY <2>5, <2>6
  <1> QED
    BY <1>0, <1>1, <1>2, <1>3, <1>4, <1>5, <1>6, <1>7, <1>8 DEF H!Call, H!Step

\* While somebody has the lock, somebody is not waiting for a global ticket.
LEMMA HtOutside ==
    ASSUME H!IInv, H!Held # 0
    PROVE  \E u \in Thread : pc[u] \notin {"drawglobal", "global"}
  <1>1. CASE \E u \in Thread : H!Holds(u)
    BY <1>1 DEF H!Holds
  <1>2. CASE \E s \in H!Sockets : H!Passes(s)
    <2>1. PICK s \in H!Sockets : H!Passes(s)
      BY <1>2
    <2>2. CASE H!SomeoneDeals(s) \/ \E u \in Thread : pc[u] = "reset"
      BY <2>1, <2>2 DEF H!SomeoneDeals, H!Refills, H!IInv, H!DealInv
    <2>3. CASE ~(H!SomeoneDeals(s) \/ \E u \in Thread : pc[u] = "reset")
      <3>1. H!Open(s) /\ H!Top(s) = localCur[s] + 1
        BY <2>1, <2>3 DEF H!Open, H!Top
      <3>2. H!Bottom(s) <= localCur[s] /\ Cardinality(H!Local(s)) = H!Top(s) - H!Bottom(s)
        BY <3>1, HtBatches DEF H!IInv, Batch
      <3>3. Cardinality(H!Local(s)) # 0
        BY <3>1, <3>2, HtFacts
      <3>4. H!Local(s) # {}
        BY <3>3, FS_EmptySet
      <3> QED
        BY <3>4 DEF H!Local
    <2> QED
      BY <2>2, <2>3
  <1> QED
    BY <1>1, <1>2, HtHeld

LEMMA HtAheads ==
    ASSUME H!IInv
    PROVE  /\ \A n \in 0 .. Wrap - 1 : H!Ahead(n) \in 0 .. Wrap - 1
           /\ \A m, n \in 0 .. Wrap - 1 : H!Ahead(m) = H!Ahead(n) => m = n
  BY HtFacts, HtAssumption DEF H!Ahead

\* A global ticket is drawn,
LEMMA HtDrawn ==
    ASSUME H!IInv, globalNxt' = (globalNxt + 1) % Wrap, globalCur' = globalCur,
           H!Ahead(globalNxt) + 1 < Wrap
    PROVE  H!Ahead(globalNxt)' = H!Ahead(globalNxt) + 1
  <1>1. globalNxt \in 0 .. Wrap - 1 /\ globalCur \in 0 .. Wrap - 1 /\ Wrap \in Nat \ {0}
    BY HtFacts, HtAssumption
  <1>2. /\ H!Ahead(globalNxt) = Apart(globalCur, globalNxt)
        /\ H!Ahead(globalNxt)' = Apart(globalCur, globalNxt')
    BY DEF H!Ahead, Apart
  <1> QED
    BY <1>1, <1>2, ApartDrawn

\* and one is served.
LEMMA HtGiven ==
    ASSUME H!IInv, globalCur' = (globalCur + 1) % Wrap, NEW n \in 0 .. Wrap - 1, H!Ahead(n) > 0
    PROVE  (IF globalCur' <= n THEN n - globalCur' ELSE n + Wrap - globalCur') = H!Ahead(n) - 1
  <1>1. globalCur \in 0 .. Wrap - 1 /\ Wrap \in Nat \ {0}
    BY HtFacts, HtAssumption
  <1>2. H!Ahead(n) = Apart(globalCur, n)
    BY DEF H!Ahead, Apart
  <1>3. Apart(globalCur', n) = H!Ahead(n) - 1
    BY <1>1, <1>2, ApartServed
  <1> QED
    BY <1>3 DEF Apart

\* A step that leaves the global lock as it is
LEMMA GlobalStays ==
    ASSUME H!IInv, globalNxt' = globalNxt, globalCur' = globalCur, H!Held' = H!Held,
           \A u \in Thread : pc'[u] = "global" <=> pc[u] = "global",
           \A u \in Thread : pc[u] = "global" => my'[u] = my[u]
    PROVE  H!GlobalInv'
  <1>1. H!Global' = H!Global /\ \A u \in H!Global : my'[u] = my[u]
    BY DEF H!Global
  <1>2. \A u \in H!Global : HtTicket(u)'
    BY <1>1, HtTickets DEF H!IInv, HtTicket, H!Ahead
  <1>3. H!Ahead(globalNxt)' = H!Ahead(globalNxt)
    BY DEF H!Ahead
  <1> QED
    BY <1>1, <1>2, <1>3, HtTickets, HtCardinality DEF H!IInv, H!GlobalInv, HtTicket

LEMMA HtGlobal ==
    ASSUME H!IInv, NEW t \in Thread, H!Call(t) \/ H!Step(t)
    PROVE  H!GlobalInv'
  <1> DEFINE s == Socket[t]
             G == H!Global
  <1>0. /\ s \in H!Sockets /\ pc \in [Thread -> HtPCs] /\ my \in [Thread -> Nat]
        /\ DOMAIN localCur = H!Sockets /\ localCur[s] \in Nat /\ localCur[s] <= LocalTickets
        /\ globalNxt \in 0 .. Wrap - 1 /\ globalCur \in 0 .. Wrap - 1 /\ Wrap \in Nat
        /\ \A u \in Thread : u # t => pc'[u] = pc[u] /\ my'[u] = my[u]
        /\ LocalTickets \in Nat \ {0}
    BY HtFacts, HtAssumption, HtMoves
  <1>set. IsFiniteSet(G) /\ Cardinality(G) \in Nat
    BY ThreadIsFinite, FS_Subset, FS_CardinalityType DEF H!Global
  <1>inv. /\ H!Ahead(globalNxt) = H!Held + Cardinality(G)
          /\ \A u \in G : HtTicket(u)
          /\ \A u, v \in G : my[u] = my[v] => u = v
    BY HtTickets DEF H!IInv
  <1>held. /\ H!Held \in {0, 1} /\ H!Held' \in {0, 1}
           /\ (\E u \in Thread : H!Holds(u)) \/ (\E r \in H!Sockets : H!Passes(r)) => H!Held = 1
           /\ (\E u \in Thread : H!Holds(u)') \/ (\E r \in H!Sockets : H!Passes(r)') => H!Held' = 1
           /\ (\A u \in Thread : ~H!Holds(u)') /\ (\A r \in H!Sockets : ~H!Passes(r)') => H!Held' = 0
    BY DEF H!Held
  <1>goal. ASSUME H!Ahead(globalNxt)' = H!Held' + Cardinality(H!Global'),
                  \A u \in H!Global' : HtTicket(u)',
                  \A u, v \in H!Global' : my'[u] = my'[v] => u = v
           PROVE  H!GlobalInv'
    BY <1>goal, HtCardinality DEF H!GlobalInv, HtTicket
  <1> USE DEF H!Goto
  <1>1. CASE H!CallLock(t) \/ H!Draw(t) \/ H!Refill(t)
    <2>1. /\ globalNxt' = globalNxt /\ globalCur' = globalCur /\ localCur' = localCur
          /\ pc[t] # "global" /\ pc'[t] # "global" /\ ~H!Holds(t) /\ ~H!Holds(t)'
      BY <1>0, <1>1 DEF H!CallLock, H!Draw, H!Refill, H!Holds
    <2>2. H!Held' = H!Held
      BY <1>0, <2>1 DEF H!Held, H!Holds, H!Passes
    <2> QED
      BY <1>0, <2>1, <2>2, GlobalStays
  <1>2. CASE H!WaitLocal(t) \/ H!Release(t) \/ H!PassLocal(t) \/ H!Reset(t)
    <2>1. /\ globalNxt' = globalNxt /\ globalCur' = globalCur
          /\ pc[t] # "global" /\ pc'[t] # "global"
      BY <1>0, <1>2 DEF H!WaitLocal, H!Release, H!PassLocal, H!Reset
    <2>2. H!Held = 1
      BY <1>0, <1>2, <1>held, HtServed DEF H!WaitLocal, H!Release, H!PassLocal, H!Reset, H!Holds
    <2>3. H!Held' = 1
      <3>1. CASE H!PassLocal(t)
        <4>1. localCur'[s] = my[t] - 1 /\ my[t] = localCur[s]
          BY <1>0, <3>1 DEF H!PassLocal, H!IInv, H!DealInv
        <4> QED
          BY <1>0, <1>held, <4>1 DEF H!Passes
      <3>2. CASE H!WaitLocal(t) \/ H!Release(t) \/ H!Reset(t)
        <4>1. pc'[t] \in {"inside", "pass", "reset", "giveback"}
          BY <1>0, <3>2 DEF H!WaitLocal, H!Release, H!Reset
        <4> QED
          BY <1>held, <4>1 DEF H!Holds
      <3> QED
        BY <1>2, <3>1, <3>2
    <2> QED
      BY <1>0, <2>1, <2>2, <2>3, GlobalStays
  <1>3. CASE H!DrawGlobal(t)
    <2>1. /\ globalNxt' = (globalNxt + 1) % Wrap /\ globalCur' = globalCur /\ localCur' = localCur
          /\ my'[t] = globalNxt /\ pc[t] = "drawglobal" /\ pc'[t] = "global"
      BY <1>0, <1>3 DEF H!DrawGlobal
    <2>2. H!Held' = H!Held
      BY <1>0, <2>1 DEF H!Held, H!Holds, H!Passes
    <2>3. H!Global' = G \union {t} /\ t \notin G
      BY <1>0, <2>1 DEF H!Global
    <2>4. IsFiniteSet(G \union {t}) /\ Cardinality(G \union {t}) = Cardinality(G) + 1
      BY <1>set, <2>3, FS_AddElement
    <2>5. H!Held + Cardinality(G) + 1 < Wrap
      <3>1. CASE H!Held = 0
        <4>1. Cardinality(G \union {t}) <= Cardinality(Thread)
          BY ThreadIsFinite, FS_Subset DEF H!Global
        <4> QED
          BY <1>set, <2>4, <3>1, <4>1, HtAssumption, ThreadIsFinite
      <3>2. CASE H!Held # 0
        <4>1. PICK u \in Thread : pc[u] \notin {"drawglobal", "global"}
          BY <3>2, HtOutside
        <4>2. IsFiniteSet(Thread \ {u}) /\ Cardinality(Thread \ {u}) = Cardinality(Thread) - 1
          BY ThreadIsFinite, FS_RemoveElement
        <4>3. G \union {t} \subseteq Thread \ {u}
          BY <2>1, <4>1 DEF H!Global
        <4>4. Cardinality(G \union {t}) <= Cardinality(Thread \ {u})
          BY <4>2, <4>3, FS_Subset
        <4>5. H!Held = 1
          BY <1>held, <3>2
        <4> QED
          BY <1>set, <2>4, <4>2, <4>4, <4>5, HtAssumption, ThreadIsFinite
      <3> QED
        BY <3>1, <3>2
    <2>6. H!Ahead(globalNxt)' = H!Held' + Cardinality(H!Global') /\ H!Ahead(globalNxt)' = H!Ahead(globalNxt) + 1
      BY <1>set, <1>inv, <1>held, <2>1, <2>2, <2>3, <2>4, <2>5, HtDrawn
    <2>7. \A u \in G : HtTicket(u)'
      <3> SUFFICES ASSUME NEW u \in G
                   PROVE  HtTicket(u)'
        OBVIOUS
      <3>1. my'[u] = my[u] /\ H!Ahead(my[u])' = H!Ahead(my[u])
        BY <1>0, <2>1, <2>3 DEF H!Ahead, H!Global
      <3>2. /\ my[u] \in 0 .. Wrap - 1 /\ H!Ahead(my[u]) \in 0 .. Wrap - 1
            /\ H!Held <= H!Ahead(my[u]) /\ H!Ahead(my[u]) < H!Ahead(globalNxt)
            /\ H!Ahead(globalNxt) \in 0 .. Wrap - 1
        BY <1>0, <1>inv, HtAheads DEF HtTicket
      <3> QED
        BY <2>2, <2>6, <3>1, <3>2 DEF HtTicket
    <2>8. HtTicket(t)'
      <3>1. H!Ahead(my[t])' = H!Ahead(globalNxt)
        BY <2>1 DEF H!Ahead
      <3> QED
        BY <1>0, <1>set, <1>inv, <1>held, <2>1, <2>2, <2>6, <3>1 DEF HtTicket
    <2>9. \A u \in G : my[u] # globalNxt
      BY <1>0, <1>inv, HtAheads DEF HtTicket
    <2>10. \A u, v \in H!Global' : my'[u] = my'[v] => u = v
      BY <1>0, <1>inv, <2>1, <2>3, <2>9 DEF H!Global
    <2> QED
      BY <1>goal, <2>3, <2>6, <2>7, <2>8, <2>10
  <1>4. CASE H!WaitGlobal(t)
    <2>1. /\ globalNxt' = globalNxt /\ globalCur' = globalCur /\ localCur' = localCur
          /\ my[t] = globalCur /\ pc[t] = "global" /\ pc'[t] = "inside"
          /\ H!Held = 0
      BY <1>0, <1>4, HtFree DEF H!WaitGlobal
    <2>2. H!Held' = 1
      BY <1>held, <2>1 DEF H!Holds
    <2>3. H!Global' = G \ {t} /\ t \in G
      BY <1>0, <2>1 DEF H!Global
    <2>4. Cardinality(G \ {t}) = Cardinality(G) - 1
      BY <1>set, <2>3, FS_RemoveElement
    <2>5. H!Ahead(globalNxt)' = H!Ahead(globalNxt)
      BY <2>1 DEF H!Ahead
    <2>6. H!Ahead(globalNxt)' = H!Held' + Cardinality(H!Global')
      BY <1>set, <1>inv, <2>1, <2>2, <2>3, <2>4, <2>5
    <2>7. \A u \in G \ {t} : HtTicket(u)'
      <3> SUFFICES ASSUME NEW u \in G \ {t}
                   PROVE  HtTicket(u)'
        OBVIOUS
      <3>1. my'[u] = my[u] /\ H!Ahead(my[u])' = H!Ahead(my[u])
        BY <1>0, <2>1 DEF H!Ahead, H!Global
      <3>2. /\ my[u] \in 0 .. Wrap - 1 /\ H!Ahead(my[u]) \in 0 .. Wrap - 1
            /\ H!Ahead(my[u]) < H!Ahead(globalNxt)
        BY <1>0, <1>inv, HtAheads DEF HtTicket
      <3>3. my[u] # globalCur
        BY <1>inv, <2>1, <2>3
      <3>4. H!Ahead(my[u]) # 0
        BY <1>0, <3>2, <3>3 DEF H!Ahead
      <3> QED
        BY <2>2, <2>5, <3>1, <3>2, <3>4 DEF HtTicket
    <2>8. \A u, v \in H!Global' : my'[u] = my'[v] => u = v
      BY <1>0, <1>inv, <2>3 DEF H!Global
    <2> QED
      BY <1>goal, <2>3, <2>6, <2>7, <2>8
  <1>5. CASE H!TryLock(t)
    <2>1. /\ globalNxt' = (globalNxt + 1) % Wrap /\ globalCur' = globalCur /\ globalCur = globalNxt
          /\ pc[t] = "outside" /\ pc'[t] = "tried" /\ G = {}
      BY <1>0, <1>5, HtFree DEF H!TryLock
    <2>2. H!Held' = 1
      BY <1>held, <2>1 DEF H!Holds
    <2>3. H!Global' = {}
      BY <1>0, <2>1 DEF H!Global
    <2>4. H!Ahead(globalNxt) = 0
      BY <1>0, <2>1 DEF H!Ahead
    <2>5. 1 < Wrap
      <3>1. Cardinality(Thread) # 0
        BY ThreadIsFinite, FS_EmptySet
      <3> QED
        BY <3>1, HtAssumption, ThreadIsFinite
    <2>6. H!Ahead(globalNxt)' = 1
      BY <2>1, <2>4, <2>5, HtDrawn
    <2> QED
      BY <1>goal, <2>2, <2>3, <2>6, FS_EmptySet
  <1>6. CASE H!GiveBack(t) \/ H!ReleaseTry(t)
    <2>1. /\ globalNxt' = globalNxt /\ globalCur' = (globalCur + 1) % Wrap /\ localCur' = localCur
          /\ my' = my /\ pc[t] \in {"giveback", "tried"} /\ pc'[t] = "outside"
      BY <1>0, <1>6 DEF H!GiveBack, H!ReleaseTry
    <2>2. H!Held = 1
      BY <1>held, <2>1 DEF H!Holds
    <2>3. H!Held' = 0
      <3>1. (\A u \in Thread : ~H!Holds(u)') /\ (\A r \in H!Sockets : ~H!Passes(r)')
        BY <1>0, <2>1 DEF H!IInv, H!HoldInv, H!Holds, H!Passes
      <3> QED
        BY <1>held, <3>1
    <2>4. H!Global' = G
      BY <1>0, <2>1 DEF H!Global
    <2>5. \A n \in 0 .. Wrap - 1 : H!Ahead(n) > 0 =>
            (IF globalCur' <= n THEN n - globalCur' ELSE n + Wrap - globalCur') = H!Ahead(n) - 1
      BY <2>1, HtGiven
    <2>6. H!Ahead(globalNxt)' = H!Ahead(globalNxt) - 1 /\ H!Ahead(globalNxt) \in 1 .. Wrap - 1
      <3>1. H!Ahead(globalNxt) > 0 /\ H!Ahead(globalNxt) \in 0 .. Wrap - 1
        BY <1>0, <1>set, <1>inv, <2>2, HtAheads
      <3>2. (IF globalCur' <= globalNxt THEN globalNxt - globalCur' ELSE globalNxt + Wrap - globalCur')
              = H!Ahead(globalNxt) - 1
        BY <1>0, <2>5, <3>1
      <3> QED
        BY <1>0, <2>1, <3>1, <3>2 DEF H!Ahead
    <2>7. H!Ahead(globalNxt)' = H!Held' + Cardinality(H!Global')
      BY <1>set, <1>inv, <2>2, <2>3, <2>4, <2>6
    <2>8. \A u \in G : HtTicket(u)'
      <3> SUFFICES ASSUME NEW u \in G
                   PROVE  HtTicket(u)'
        OBVIOUS
      <3>1. /\ my[u] \in 0 .. Wrap - 1 /\ H!Ahead(my[u]) \in 0 .. Wrap - 1
            /\ 1 <= H!Ahead(my[u]) /\ H!Ahead(my[u]) < H!Ahead(globalNxt)
        BY <1>0, <1>inv, <2>2, HtAheads DEF HtTicket
      <3>2. (IF globalCur' <= my[u] THEN my[u] - globalCur' ELSE my[u] + Wrap - globalCur')
              = H!Ahead(my[u]) - 1
        BY <2>5, <3>1
      <3>3. H!Ahead(my[u])' = H!Ahead(my[u]) - 1
        BY <2>1, <3>2 DEF H!Ahead
      <3> QED
        BY <2>1, <2>3, <2>6, <3>1, <3>3 DEF HtTicket
    <2> QED
      BY <1>goal, <1>inv, <2>1, <2>4, <2>7, <2>8
  <1> QED
    BY <1>1, <1>2, <1>3, <1>4, <1>5, <1>6 DEF H!Call, H!Step

LEMMA HtStarts == ASSUME Init, which = "hticket" PROVE H!IInv
  <1>1. /\ H!Init /\ \A t \in Thread : pc[t] = "outside"
        /\ globalNxt = 0 /\ globalCur = 0
    BY DEF Init, H!Init
  <1>2. /\ \A t \in Thread : ~H!Holds(t) /\ ~H!Deals(t) /\ ~H!Refills(t)
        /\ \A s \in H!Sockets : ~H!Passes(s)
    BY <1>1 DEF H!Init, H!Holds, H!Deals, H!Refills, H!Passes
  <1>3. H!TypeOK
    BY <1>1, HtAssumption, ThreadIsFinite DEF H!Init, H!TypeOK
  <1>4. H!HoldInv /\ H!DealInv
    BY <1>1, <1>2 DEF H!HoldInv, H!DealInv
  <1>5. \A s \in H!Sockets : ~H!Open(s) /\ H!Local(s) = {} /\ H!Bottom(s) = 0
    BY <1>1, <1>2 DEF H!Init, H!Open, H!SomeoneDeals, H!Local, H!Bottom
  <1>6. H!LocalInv
    BY <1>5, HtBatches DEF Batch
  <1>7. H!Global = {} /\ H!Held = 0 /\ H!Ahead(globalNxt) = 0
    BY <1>1, <1>2 DEF H!Global, H!Held, H!Ahead
  <1>8. H!GlobalInv
    BY <1>7, HtTickets, FS_EmptySet
  <1> QED
    BY <1>3, <1>4, <1>6, <1>8 DEF H!IInv

LEMMA HtStays ==
    ASSUME which = "hticket", H!IInv, [Next \/ AllDone]_vars
    PROVE  H!IInv'
  <1>1. CASE UNCHANGED vars
    <2>1. H!TypeOK' /\ H!HoldInv' /\ H!DealInv'
      BY <1>1 DEF vars, H!IInv, H!TypeOK, H!HoldInv, H!DealInv, H!Holds, H!Deals, H!Refills,
         H!Passes, H!Bottom
    <2>2. \A s \in H!Sockets : Batch(s)'
      BY <1>1, HtBatches, BatchStays DEF vars, H!IInv, H!Deals, H!Bottom
    <2>3. H!LocalInv'
      BY <2>2, HtCardinality DEF H!LocalInv, Batch
    <2>4. H!Held' = H!Held
      BY <1>1 DEF vars, H!Held, H!Holds, H!Passes
    <2>5. H!GlobalInv'
      BY <1>1, <2>4, GlobalStays DEF vars
    <2> QED
      BY <2>1, <2>3, <2>5 DEF H!IInv
  <1>2. ASSUME NEW t \in Thread, H!Call(t) \/ H!Step(t)
        PROVE  H!IInv'
    BY <1>2, HtTypes, HtHolds, HtLocal, HtDeals, HtGlobal DEF H!IInv
  <1> QED
    BY <1>1, <1>2, HtSteps

LEMMA HtRefines ==
    ASSUME which = "hticket", H!IInv, [Next \/ AllDone]_vars
    PROVE  [Abstract!Next]_(Abstract!vars)
  <1>1. which' = which /\ line' = line
    BY WhichStays DEF Next, Frame, AllDone, vars
  <1>2. /\ \A u \in Thread : Phase(u) = H!Phase(u) /\ Phase(u)' = H!Phase(u)'
        /\ ~Fair /\ Fair' = Fair
    BY <1>1 DEF Phase, Fair
  <1>3. SUFFICES ASSUME NEW t \in Thread, H!Call(t) \/ H!Step(t)
                 PROVE  [Abstract!Next]_(Abstract!vars)
    BY HtSteps, StutterRefines
  <1>4. pc \in [Thread -> HtPCs]
    BY HtFacts
  <1>5. \A u \in Thread \ {t} : H!Phase(u)' = H!Phase(u)
    BY HtMoves, <1>3 DEF H!Phase
  <1>6. (\A u \in Thread : ~H!Holds(u)) => \A u \in Thread : H!Phase(u) # "inside"
    BY <1>4 DEF H!Phase, H!Holds, HtPCs
  <1>7. Moves(t)
    <2> USE DEF H!Phase, H!Goto
    <2>1. CASE H!CallLock(t) \/ H!Draw(t) \/ H!Refill(t) \/ H!DrawGlobal(t)
      <3>1. /\ pc[t] \in {"outside", "draw", "refill", "drawglobal"}
            /\ pc'[t] \in {"draw", "local", "refill", "drawglobal", "global"}
        BY <1>4, <2>1 DEF H!CallLock, H!Draw, H!Refill, H!DrawGlobal
      <3> QED
        BY <1>1, <1>2, <3>1 DEF Moves
    <2>2. CASE H!WaitLocal(t) \/ H!WaitGlobal(t) \/ H!TryLock(t)
      <3>1. \A u \in Thread : H!Phase(u) # "inside"
        BY <1>6, <2>2, HtServed, HtFree
      <3>2. pc[t] \in {"local", "global", "outside"} /\ pc'[t] \in {"inside", "tried"}
        BY <1>4, <2>2 DEF H!WaitLocal, H!WaitGlobal, H!TryLock
      <3> QED
        BY <1>1, <1>2, <3>1, <3>2 DEF Moves
    <2>3. CASE H!Release(t) \/ H!PassLocal(t) \/ H!Reset(t) \/ H!GiveBack(t) \/ H!ReleaseTry(t)
      <3>1. /\ pc[t] \in {"inside", "pass", "reset", "giveback", "tried"}
            /\ pc'[t] \in {"pass", "reset", "giveback", "outside"}
        BY <1>4, <2>3 DEF H!Release, H!PassLocal, H!Reset, H!GiveBack, H!ReleaseTry
      <3> QED
        BY <1>1, <1>2, <3>1 DEF Moves
    <2> QED
      BY <1>3, <2>1, <2>2, <2>3 DEF H!Call, H!Step
  <1> QED
    BY <1>2, <1>5, <1>7, MoveRefines

-----------------------------------------------------------------------------
(* The OPTIK lock as the abstract lock *)

LEMMA OptikRefines ==
    ASSUME which = "optik", O!IInv, [Next \/ AllDone]_vars
    PROVE  [Abstract!Next]_(Abstract!vars)
  <1>1. which' = which
    BY WhichStays
  <1>2. line' = line
    BY <1>1 DEF Next, Frame, AllDone, vars
  <1>3. /\ \A u \in Thread : Phase(u) = OP!Phase(u) /\ Phase(u)' = OP!Phase(u)'
        /\ ~Fair /\ Fair' = Fair
    BY <1>1 DEF Phase, Fair, O!Phase, OP!Phase
  <1>4. CASE UNCHANGED vars
    BY <1>4, StutterRefines
  <1>5. ASSUME NEW t \in Thread, Call(t) \/ Step(t)
        PROVE  [Abstract!Next]_(Abstract!vars)
    <2>1. OP!Call(t) \/ OP!Step(t)
      BY <1>5, OptikSteps DEF Call, Step
    <2>2. /\ \A u \in Thread \ {t} : OP!Phase(u)' = OP!Phase(u)
          /\ \/ OP!Phase(t)' = OP!Phase(t)
             \/ OP!Phase(t) = "outside" /\ OP!Phase(t)' = "waiting"
             \/ OP!Phase(t) = "inside" /\ OP!Phase(t)' = "outside"
             \/ /\ OP!Phase(t) # "inside" /\ OP!Phase(t)' = "inside"
                /\ \A u \in Thread : OP!Phase(u) # "inside"
      BY <2>1, SameOptik, OP!PhaseMoves
    <2>3. OP!Phase(t) \in {"outside", "waiting", "inside"}
      BY DEF OP!Phase
    <2>4. Moves(t)
      BY <1>2, <1>3, <2>2, <2>3 DEF Moves
    <2> QED
      BY <1>3, <2>2, <2>4, MoveRefines
  <1> QED
    BY <1>4, <1>5 DEF Next, AllDone

-----------------------------------------------------------------------------
(* The run *)

LEMMA StartsInvariant == ASSUME Init PROVE IInv
  BY SpinStarts, McsStarts, ClhStarts, HtStarts, OptikStarts, ScalarStarts, SeqStarts, RWStarts
     DEF IInv

LEMMA StaysInvariant == ASSUME IInv, [Next \/ AllDone]_vars PROVE IInv'
  BY WhichStays, SpinStays, McsStays, ClhStays, HtStays, OptikStays, ScalarStays, SeqStays,
     RWStays DEF IInv

\* The inductive invariant of every lock holds in every state of the run.
THEOREM Invariance == FairSpec => []IInv
  BY StartsInvariant, StaysInvariant, PTL DEF FairSpec

\* No section of another kind is open while a thread changes the layout under the
\* readers-writer lock (LayoutRWLOCK).
THEOREM RWLockExcludes == FairSpec => []ReadersExclude
  <1>1. IInv => ReadersExclude
    <2> SUFFICES ASSUME which = "rwlock", RW!IInv PROVE RW!ReadersExclude
      BY DEF IInv, ReadersExclude
    <2> QED
      BY SameThreads DEF RW!IInv, RW!SlotInv, RW!Holds, RW!ReadersExclude
  <1> QED
    BY <1>1, Invariance, PTL

\* The version of the sequence lock is odd exactly while the layout changes, and one thread
\* at a time holds its lock.
THEOREM SeqLockTells == FairSpec => []VersionTellsChange
  <1>1. IInv => VersionTellsChange
    BY SameSeq, SameTells, QP!InvariantTells DEF IInv, VersionTellsChange
  <1> QED
    BY <1>1, Invariance, PTL

\* A thread that has locked an OPTIK lock with the version it had noted finds what the lock
\* protects as it was.
THEOREM OptikTells == FairSpec => []SuccessMeansUnchanged
  <1>1. IInv => SuccessMeansUnchanged
    BY DEF IInv, SuccessMeansUnchanged, O!IInv
  <1> QED
    BY <1>1, Invariance, PTL

\* A scalar readers-writer lock lets one writer in, alone, or readers, and its counts say so.
THEOREM ScalarTells == FairSpec => []CountTellsInside
  <1>1. IInv => CountTellsInside
    BY DEF IInv, CountTellsInside, R!IInv
  <1> QED
    BY <1>1, Invariance, PTL

-----------------------------------------------------------------------------
(* Every lock as the abstract lock *)

LEMMA LockRefines ==
    ASSUME IInv, [Next \/ AllDone]_vars
    PROVE  [Abstract!Next]_(Abstract!vars)
  <1>1. which' = which
    BY WhichStays
  <1>2. CASE which \in {"spin", "mcs", "clh", "hticket", "optik"}
    BY <1>2, SpinRefines, McsRefines, ClhRefines, HtRefines, OptikRefines DEF IInv
  <1>3. CASE which \notin {"spin", "mcs", "clh", "hticket", "optik"}
    <2>1. line' = line
      BY <1>3 DEF Next, Frame, Call, Step, AllDone, vars
    <2>2. \A t \in Thread : Phase(t) = "outside" /\ Phase(t)' = "outside"
      BY <1>1, <1>3 DEF Phase
    <2>3. [t \in Thread |-> Phase(t)]' = [t \in Thread |-> Phase(t)]
      BY <2>2
    <2>4. Fair' = Fair
      BY <1>1, <1>3 DEF Fair
    <2> QED
      BY <2>1, <2>3, <2>4 DEF Abstract!vars
  <1> QED
    BY <1>2, <1>3

LEMMA LockStarts ==
    ASSUME Init
    PROVE  Abstract!Init
  <1>1. line = <<>>
    BY DEF Init, SP!Init, M!Init, C!Init, InitMyLine
  <1>2. \A t \in Thread : Phase(t) = "outside"
    BY DEF Init, Phase, SP!Init, SP!Phase, M!Init, M!Phase, C!Init, C!Phase, H!Init, H!Phase,
       O!Init, O!Phase
  <1>3. Fair \in BOOLEAN
    BY DEF Fair
  <1> QED
    BY <1>1, <1>2, <1>3 DEF Abstract!Init

\* Every lock is a lock: one thread is inside at a time, whatever lock it is; the ticket, MCS
\* and CLH locks let threads in in the order in which they came, and no trylock overtakes
\* those that wait.
THEOREM LocksImplement == FairSpec => ImplementsLock
  BY LockStarts, LockRefines, Invariance, PTL DEF FairSpec, ImplementsLock, Abstract!Spec

-----------------------------------------------------------------------------
(* The sequence lock and the readers-writer lock as layout locks *)


\* What the sections look like under another lock.
LEMMA NoSections ==
    ASSUME which \notin {"seqlock", "rwlock"}, which' = which
    PROVE  UNCHANGED LayoutLock!vars
  BY DEF LayoutLock!vars, Modes, Mode, Valid

LEMMA SeqSections ==
    ASSUME which = "seqlock", which' = which, valid \in [Thread -> BOOLEAN],
           valid' \in [Thread -> BOOLEAN], [QP!Abstract!Next]_(QP!Abstract!vars)
    PROVE  [LayoutLock!Next]_(LayoutLock!vars)
  <1>1. /\ Modes = [t \in Thread |-> QP!Mode(t)] /\ Modes' = [t \in Thread |-> QP!Mode(t)']
        /\ \A t \in Thread : Modes[t] = QP!Mode(t)
    BY DEF Modes, Mode, Q!Mode, QP!Mode
  <1>2. Valid = valid /\ Valid' = valid'
    BY DEF Valid
  <1>3. LayoutLock!NoChanger <=> QP!Abstract!NoChanger
    BY <1>1 DEF LayoutLock!NoChanger, QP!Abstract!NoChanger
  <1>4. LayoutLock!NoChanger = QP!Abstract!NoChanger
    BY <1>3 DEF LayoutLock!NoChanger, QP!Abstract!NoChanger
  <1>5. LayoutLock!NoWriter <=> QP!Abstract!NoWriter
    BY <1>1 DEF LayoutLock!NoWriter, QP!Abstract!NoWriter
  <1>6. CASE UNCHANGED QP!Abstract!vars
    BY <1>1, <1>2, <1>6 DEF QP!Abstract!vars, LayoutLock!vars
  <1>7. ASSUME NEW t \in Thread,
               QP!Abstract!BeginRead(t) \/ QP!Abstract!EndRead(t) \/ QP!Abstract!RefuseRead(t)
        PROVE  LayoutLock!BeginRead(t) \/ LayoutLock!EndRead(t) \/ LayoutLock!RefuseRead(t)
    BY <1>1, <1>2, <1>4, <1>7 DEF QP!Abstract!BeginRead, LayoutLock!BeginRead,
       QP!Abstract!EndRead, LayoutLock!EndRead, QP!Abstract!RefuseRead, LayoutLock!RefuseRead
  <1>8. ASSUME NEW t \in Thread, QP!Abstract!BeginWrite(t) \/ QP!Abstract!EndWrite(t)
        PROVE  LayoutLock!BeginWrite(t) \/ LayoutLock!EndWrite(t)
    BY <1>1, <1>2, <1>3, <1>8 DEF QP!Abstract!BeginWrite, LayoutLock!BeginWrite,
       QP!Abstract!EndWrite, LayoutLock!EndWrite
  <1>9. ASSUME NEW t \in Thread, QP!Abstract!BeginChange(t) \/ QP!Abstract!EndChange(t)
        PROVE  LayoutLock!BeginChange(t) \/ LayoutLock!EndChange(t)
    BY <1>1, <1>2, <1>3, <1>5, <1>9 DEF QP!Abstract!BeginChange, LayoutLock!BeginChange,
       QP!Abstract!EndChange, LayoutLock!EndChange
  <1> QED
    BY <1>6, <1>7, <1>8, <1>9 DEF QP!Abstract!Next, LayoutLock!Next

LEMMA RWSections ==
    ASSUME which = "rwlock", which' = which, valid \in [Thread -> BOOLEAN],
           valid' \in [Thread -> BOOLEAN], [P!Abstract!Next]_(P!Abstract!vars)
    PROVE  [LayoutLock!Next]_(LayoutLock!vars)
  <1>1. /\ Modes = [t \in P!Thread |-> P!Mode(t)] /\ Modes' = [t \in P!Thread |-> P!Mode(t)']
        /\ \A t \in Thread : Modes[t] = P!Mode(t)
    BY SameThreads DEF Modes, Mode, RW!Mode, P!Mode
  <1>2. Valid = valid /\ Valid' = valid'
    BY DEF Valid
  <1>3. LayoutLock!NoChanger <=> P!Abstract!NoChanger
    BY <1>1, SameThreads DEF LayoutLock!NoChanger, P!Abstract!NoChanger
  <1>4. LayoutLock!NoChanger = P!Abstract!NoChanger
    BY <1>3 DEF LayoutLock!NoChanger, P!Abstract!NoChanger
  <1>5. LayoutLock!NoWriter <=> P!Abstract!NoWriter
    BY <1>1, SameThreads DEF LayoutLock!NoWriter, P!Abstract!NoWriter
  <1>6. CASE UNCHANGED P!Abstract!vars
    BY <1>1, <1>2, <1>6 DEF P!Abstract!vars, LayoutLock!vars
  <1>7. ASSUME NEW t \in Thread,
               P!Abstract!BeginRead(t) \/ P!Abstract!EndRead(t) \/ P!Abstract!RefuseRead(t)
        PROVE  LayoutLock!BeginRead(t) \/ LayoutLock!EndRead(t) \/ LayoutLock!RefuseRead(t)
    BY <1>1, <1>2, <1>4, <1>7 DEF P!Abstract!BeginRead, LayoutLock!BeginRead,
       P!Abstract!EndRead, LayoutLock!EndRead, P!Abstract!RefuseRead, LayoutLock!RefuseRead
  <1>8. ASSUME NEW t \in Thread, P!Abstract!BeginWrite(t) \/ P!Abstract!EndWrite(t)
        PROVE  LayoutLock!BeginWrite(t) \/ LayoutLock!EndWrite(t)
    BY <1>1, <1>2, <1>3, <1>8 DEF P!Abstract!BeginWrite, LayoutLock!BeginWrite,
       P!Abstract!EndWrite, LayoutLock!EndWrite
  <1>9. ASSUME NEW t \in Thread, P!Abstract!BeginChange(t) \/ P!Abstract!EndChange(t)
        PROVE  LayoutLock!BeginChange(t) \/ LayoutLock!EndChange(t)
    BY <1>1, <1>2, <1>3, <1>5, <1>9, SameThreads DEF P!Abstract!BeginChange, LayoutLock!BeginChange,
       P!Abstract!EndChange, LayoutLock!EndChange
  <1> QED
    BY <1>6, <1>7, <1>8, <1>9, SameThreads DEF P!Abstract!Next, LayoutLock!Next

LEMMA StepRefines ==
    ASSUME IInv, IInv', [Next \/ AllDone]_vars
    PROVE  [LayoutLock!Next]_(LayoutLock!vars)
  <1>1. which' = which
    BY WhichStays
  <1>2. CASE which \notin {"seqlock", "rwlock"}
    BY <1>1, <1>2, NoSections
  <1>3. CASE which = "seqlock"
    <2>1. valid \in [Thread -> BOOLEAN] /\ valid' \in [Thread -> BOOLEAN]
      BY <1>1, <1>3 DEF IInv, Q!IInv, Q!TypeOK
    <2>2. QP!IInv
      BY <1>3, SameSeq DEF IInv
    <2>3. [QP!Abstract!Next]_(QP!Abstract!vars)
      BY <1>3, <2>2, SeqSteps, SeqAssumption, QP!StepRefines
    <2> QED
      BY <1>1, <1>3, <2>1, <2>3, SeqSections
  <1>4. CASE which = "rwlock"
    <2>1. valid \in [Thread -> BOOLEAN] /\ valid' \in [Thread -> BOOLEAN]
      BY <1>1, <1>4, SameThreads DEF IInv, RW!IInv, RW!TypeOK
    <2>2. P!IInv
      BY <1>4, SameRW DEF IInv
    <2>3. [P!Abstract!Next]_(P!Abstract!vars)
      BY <1>4, <2>2, RWSteps, SlotsAssumption, P!StepRefines
    <2> QED
      BY <1>1, <1>4, <2>1, <2>3, RWSections
  <1> QED
    BY <1>2, <1>3, <1>4

LEMMA StartRefines ==
    ASSUME Init
    PROVE  LayoutLock!Init
  <1>1. ASSUME which = "seqlock"
        PROVE  \A t \in Thread : Mode(t) = "out" /\ valid[t] = FALSE
    BY <1>1 DEF Init, Q!Init, Mode, Q!Mode
  <1>2. ASSUME which = "rwlock"
        PROVE  \A t \in Thread : Mode(t) = "out" /\ valid[t] = FALSE
    BY <1>2, SameThreads DEF Init, RW!Init, Mode, RW!Mode
  <1>3. \A t \in Thread : Modes[t] = "out" /\ Valid[t] = FALSE
    BY <1>1, <1>2 DEF Modes, Mode, Valid
  <1> QED
    BY <1>3 DEF LayoutLock!Init, Modes, Valid

\* Sections of the sequence lock and of the readers-writer lock behave as those of a layout
\* lock: none is trusted that a layout change overlapped.
THEOREM Refinement == FairSpec => ImplementsLayoutLock
  BY StartRefines, StepRefines, Invariance, PTL DEF FairSpec, ImplementsLayoutLock, LayoutLock!Spec
=============================================================================
