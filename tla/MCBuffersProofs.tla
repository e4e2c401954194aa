--------------------------- MODULE MCBuffersProofs ---------------------------
(***************************************************************************)
(* What the proofs about store buffers say of MCBuffers: the lookup of     *)
(* treelets that it runs beside the queues and stacks has the same         *)
(* invariant and the same steps as LayoutLockTSO.                          *)
(***************************************************************************)
EXTENDS MCBuffers, TLAPS

TP == INSTANCE LayoutLockTSOProofs WITH N <- LookupThreads, buf <- storeBuf, pc <- at

LEMMA LookupAssumption == TP!TSOAssumption
  BY BuffersAssumption DEF TSO!TSOAssumption, TP!TSOAssumption

\* What the two names of the specification stand for is the same.
LEMMA SameSets ==
    /\ TSO!Threads = TP!Threads /\ TSO!Treelet = TP!Treelet /\ TSO!Loc = TP!Loc
    /\ TSO!PCs = TP!PCs
  BY DEF TSO!Threads, TP!Threads, TSO!Treelet, TP!Treelet, TSO!Loc, TP!Loc, TSO!PCs, TP!PCs

LEMMA SameInvariant == TSO!IInv <=> TP!IInv
  <1> USE SameSets
  <1>1. TSO!TypeOK <=> TP!TypeOK
    BY DEF TSO!TypeOK, TP!TypeOK
  <1>2. TSO!IndexInv <=> TP!IndexInv
    BY DEF TSO!IndexInv, TP!IndexInv
  <1>3. TSO!BufferInv <=> TP!BufferInv
    <2>1. \A t \in TP!Threads : TSO!OrderOf(t) <=> TP!OrderOf(t)
      BY DEF TSO!OrderOf, TP!OrderOf
    <2>2. \A t \in TP!Threads : \A e : TSO!MayHold(t, e) <=> TP!MayHold(t, e)
      BY DEF TSO!MayHold, TP!MayHold, TSO!Leaving, TP!Leaving
    <2> QED
      BY <2>1, <2>2 DEF TSO!BufferInv, TP!BufferInv
  <1>4. \A t \in TP!Threads : \A l, v : TSO!Waits(t, l, v) <=> TP!Waits(t, l, v)
    BY DEF TSO!Waits, TP!Waits
  <1>5. \A t \in TP!Threads : TSO!Publishes(t) <=> TP!Publishes(t)
    BY DEF TSO!Publishes, TP!Publishes
  <1>6. /\ \A t \in TP!Threads, x \in TP!Treelet : TSO!HasTreelet(t, x) <=> TP!HasTreelet(t, x)
        /\ \A t, s \in TP!Threads : TSO!HasSlot(t, s) <=> TP!HasSlot(t, s)
    BY <1>4 DEF TSO!HasTreelet, TP!HasTreelet, TSO!HasSlot, TP!HasSlot, TSO!InTreelet, TP!InTreelet,
           TSO!InChange, TP!InChange
  <1>7. TSO!LockInv <=> TP!LockInv
    BY <1>6 DEF TSO!LockInv, TP!LockInv
  <1>8. TSO!HeadInv <=> TP!HeadInv
    BY <1>5, <1>6 DEF TSO!HeadInv, TP!HeadInv
  <1>9. TSO!MarkInv <=> TP!MarkInv
    BY <1>4, <1>5 DEF TSO!MarkInv, TP!MarkInv, TSO!Changes, TP!Changes, TSO!Marked, TP!Marked,
           TSO!SeesChange, TP!SeesChange
  <1>10. /\ TSO!UsesLiveTreelet <=> TP!UsesLiveTreelet
         /\ TSO!TreeletMutex <=> TP!TreeletMutex
    BY DEF TSO!UsesLiveTreelet, TP!UsesLiveTreelet, TSO!TreeletMutex, TP!TreeletMutex
  <1> QED
    BY <1>1, <1>2, <1>3, <1>7, <1>8, <1>9, <1>10 DEF TSO!IInv, TP!IInv

LEMMA LookupStarts == ASSUME Init, which = "lookup" PROVE TSO!IInv
  <1>1. TP!Init
    BY SameSets DEF Init, TSO!Init, TP!Init
  <1> QED
    BY <1>1, LookupAssumption, TP!StartsInvariant, SameInvariant

LEMMA LookupSteps == ASSUME TSO!Next PROVE TP!Next
  <1> USE SameSets DEF TSO!Goto, TP!Goto, TSO!Loop, TP!Loop, TSO!Store, TP!Store, TSO!CAS, TP!CAS,
                       TSO!Fence, TP!Fence, TSO!Load, TP!Load, TSO!Pending, TP!Pending,
                       TSO!isWriterActive, TP!isWriterActive
  <1>1. PICK t \in TP!Threads : TSO!StartLookup(t) \/ TSO!StartLayoutChange(t) \/ TSO!Step(t)
                                  \/ TSO!Drain(t)
    BY DEF TSO!Next
  <1>2. /\ TSO!StartLookup(t) => TP!StartLookup(t)
        /\ TSO!StartLayoutChange(t) => TP!StartLayoutChange(t)
        /\ TSO!Drain(t) => TP!Drain(t)
    BY DEF TSO!StartLookup, TP!StartLookup, TSO!StartLayoutChange, TP!StartLayoutChange,
           TSO!Drain, TP!Drain
  <1>3. (TSO!Find(t) => TP!Find(t)) /\ (TSO!Acquire(t) => TP!Acquire(t))
    BY DEF TSO!Find, TP!Find, TSO!Acquire, TP!Acquire
  <1>4. (TSO!Check(t) => TP!Check(t)) /\ (TSO!ResetTest(t) => TP!ResetTest(t))
    BY DEF TSO!Check, TP!Check, TSO!ResetTest, TP!ResetTest
  <1>5. (TSO!ResetClear(t) => TP!ResetClear(t)) /\ (TSO!ResetRecheck(t) => TP!ResetRecheck(t))
    BY DEF TSO!ResetClear, TP!ResetClear, TSO!ResetRecheck, TP!ResetRecheck
  <1>6. (TSO!ResetSet(t) => TP!ResetSet(t)) /\ (TSO!Refused(t) => TP!Refused(t))
    BY DEF TSO!ResetSet, TP!ResetSet, TSO!Refused, TP!Refused
  <1>7. (TSO!FinishUsing(t) => TP!FinishUsing(t)) /\ (TSO!WriteLockSlot(t) => TP!WriteLockSlot(t))
    BY DEF TSO!FinishUsing, TP!FinishUsing, TSO!WriteLockSlot, TP!WriteLockSlot
  <1>8. (TSO!SetDirty(t) => TP!SetDirty(t)) /\ (TSO!FenceChange(t) => TP!FenceChange(t))
    BY DEF TSO!SetDirty, TP!SetDirty, TSO!FenceChange, TP!FenceChange
  <1>9. (TSO!LoadRoot(t) => TP!LoadRoot(t)) /\ (TSO!Gather(t) => TP!Gather(t))
    BY DEF TSO!LoadRoot, TP!LoadRoot, TSO!Gather, TP!Gather
  <1>10. (TSO!Publish(t) => TP!Publish(t)) /\ (TSO!Free(t) => TP!Free(t))
    BY DEF TSO!Publish, TP!Publish, TSO!Free, TP!Free
  <1>11. TSO!WriteUnlockSlot(t) => TP!WriteUnlockSlot(t)
    BY DEF TSO!WriteUnlockSlot, TP!WriteUnlockSlot
  <1> QED
    BY <1>1, <1>2, <1>3, <1>4, <1>5, <1>6, <1>7, <1>8, <1>9, <1>10, <1>11
       DEF TSO!Step, TSO!Lookup, TSO!Change, TP!Step, TP!Lookup, TP!Change, TP!Next

LEMMA LookupStays ==
    ASSUME which = "lookup", TSO!IInv, [Next \/ AllDone]_vars
    PROVE  TSO!IInv'
  <1>1. [TP!Next]_(TP!vars)
    <2>1. CASE UNCHANGED vars
      BY <2>1 DEF vars, lookup, TP!vars
    <2>2. CASE Next
      BY <2>2, LookupSteps DEF Next
    <2>3. CASE AllDone
      BY <2>3 DEF AllDone
    <2> QED
      BY <2>1, <2>2, <2>3
  <1>2. TP!IInv'
    BY <1>1, LookupAssumption, TP!StaysInvariant, SameInvariant
  <1> QED
    BY <1>2, SameInvariant, PTL

-----------------------------------------------------------------------------
\* The lookup of treelets with store buffers keeps its inductive invariant in the run's own
\* specification.
THEOREM Invariance == Spec => []IInv
  <1>1. Init => IInv
    BY LookupStarts DEF IInv
  <1>2. IInv /\ [Next \/ AllDone]_vars => IInv'
    <2>1. [Next \/ AllDone]_vars => which' = which
      BY DEF Next, AllDone, vars
    <2> QED
      BY <2>1, LookupStays DEF IInv
  <1> QED
    BY <1>1, <1>2, PTL DEF Spec

\* No thread is let through to a treelet that a layout change has emptied: getTreelet,
\* finishRead.
THEOREM LookupIsLive == Spec => []UsesLiveTreelet
  <1>1. IInv => UsesLiveTreelet
    BY DEF IInv, UsesLiveTreelet, TSO!IInv
  <1> QED
    BY <1>1, Invariance, PTL

\* One thread at a time has a treelet: tatas_acquire, tatas_release.
THEOREM LookupExcludes == Spec => []TreeletMutex
  <1>1. IInv => TreeletMutex
    BY DEF IInv, TreeletMutex, TSO!IInv
  <1> QED
    BY <1>1, Invariance, PTL
=============================================================================
