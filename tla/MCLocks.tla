------------------------------- MODULE MCLocks -------------------------------
(***************************************************************************)
(* The locks in one run: the first state chooses one.  The threads are     *)
(* numbers, of which odd and even ones are on two sockets.                 *)
(***************************************************************************)
EXTENDS Integers, Sequences, FiniteSets, Slots

CONSTANTS Wrap, LocalTickets, Floor, MaxOps, Null, Versions, Lag

VARIABLES which, pc, my, line, kind, word, ticket, curr, last, next, waiting, pred, locked,
          localNxt, localCur, globalNxt, globalCur, usage, version, held, noted, same, left,
          changed, readerCount, writerPendingCount, tmp, lock, start, valid, lag, state, i

Socket == [t \in Thread |-> t % 2]

SP == INSTANCE SpinLock
M == INSTANCE McsLock
C == INSTANCE ClhLock WITH First <- Null
H == INSTANCE HticketLock
O == INSTANCE OptikLock
R == INSTANCE ScalarRWLock
Q == INSTANCE SeqLock
RW == INSTANCE LayoutRWLock

ASSUME LocksAssumption ==
    /\ SP!SpinLockAssumption /\ M!McsLockAssumption /\ C!ClhLockAssumption
    /\ H!HticketAssumption /\ O!OptikLockAssumption
    /\ R!ThreadAssumption /\ Q!SeqLockAssumption

vars == <<which, pc, my, line, kind, word, ticket, curr, last, next, waiting, pred, locked,
          localNxt, localCur, globalNxt, globalCur, usage, version, held, noted, same, left,
          changed, readerCount, writerPendingCount, tmp, lock, start, valid, lag, state, i>>

-----------------------------------------------------------------------------
(* Where they stay when the lock is another one *)

InitMyLine == my = <<>> /\ line = <<>>
InitKind == kind = "none" /\ ticket = 0
InitSpin == word = "free" /\ curr = 0
InitQueue == last = Null /\ pred = <<>>
InitMcs == next = <<>> /\ waiting = <<>>
InitClh == locked = <<>>
InitHticket == localNxt = <<>> /\ localCur = <<>> /\ globalNxt = 0 /\ globalCur = 0
InitOptik ==
    /\ usage = "none" /\ held = FALSE /\ noted = <<>> /\ same = <<>>
    /\ left = 0 /\ changed = <<>>
InitScalar == readerCount = 0 /\ writerPendingCount = 0 /\ tmp = <<>>
InitSeq == lock = FALSE /\ start = <<>> /\ lag = <<>>
InitValid == valid = <<>>
InitSlots == state = <<>> /\ i = <<>>
InitVersion == version = 0

Init ==
    \/ /\ which = "spin" /\ SP!Init
       /\ InitQueue /\ InitMcs /\ InitClh /\ InitHticket /\ InitOptik /\ InitScalar
       /\ InitVersion /\ InitSeq /\ InitValid /\ InitSlots
    \/ /\ which = "mcs" /\ M!Init
       /\ my = <<>>
       /\ InitKind /\ InitSpin /\ InitClh /\ InitHticket /\ InitOptik /\ InitScalar
       /\ InitVersion /\ InitSeq /\ InitValid /\ InitSlots
    \/ /\ which = "clh" /\ C!Init
       /\ InitKind /\ InitSpin /\ InitMcs /\ InitHticket /\ InitOptik /\ InitScalar
       /\ InitVersion /\ InitSeq /\ InitValid /\ InitSlots
    \/ /\ which = "hticket" /\ H!Init
       /\ line = <<>>
       /\ InitKind /\ InitSpin /\ InitQueue /\ InitMcs /\ InitClh /\ InitOptik /\ InitScalar
       /\ InitVersion /\ InitSeq /\ InitValid /\ InitSlots
    \/ /\ which = "optik" /\ O!Init
       /\ line = <<>>
       /\ InitSpin /\ InitQueue /\ InitMcs /\ InitClh /\ InitHticket /\ InitScalar /\ InitSeq
       /\ InitValid /\ InitSlots
    \/ /\ \/ which = "scalar" /\ R!Init /\ InitVersion /\ InitSeq /\ InitValid /\ InitSlots
          \/ which = "seqlock" /\ Q!Init /\ InitScalar /\ InitSlots
          \/ which = "rwlock" /\ RW!Init /\ InitVersion /\ InitSeq /\ InitScalar
       /\ InitMyLine
       /\ InitKind /\ InitSpin /\ InitQueue /\ InitMcs /\ InitClh /\ InitHticket /\ InitOptik

spin == <<word, curr>>
queue == <<last, pred>>
mcs == <<next, waiting>>
hticket == <<localNxt, localCur, globalNxt, globalCur>>
optik == <<usage, held, noted, same, left, changed>>
scalar == <<readerCount, writerPendingCount, tmp>>
seq == <<lock, start, lag>>
slots == <<state, i>>

Frame ==
    /\ UNCHANGED which
    /\ which # "spin" => UNCHANGED spin
    /\ which \notin {"spin", "optik"} => UNCHANGED <<kind, ticket>>
    /\ which \notin {"mcs", "clh"} => UNCHANGED queue
    /\ which # "mcs" => UNCHANGED mcs
    /\ which # "clh" => UNCHANGED locked
    /\ which # "hticket" => UNCHANGED hticket
    /\ which # "optik" => UNCHANGED optik
    /\ which \notin {"optik", "seqlock"} => UNCHANGED version
    /\ which # "scalar" => UNCHANGED scalar
    /\ which # "seqlock" => UNCHANGED seq
    /\ which # "rwlock" => UNCHANGED slots
    /\ which \notin {"seqlock", "rwlock"} => UNCHANGED valid
    /\ which \in {"mcs", "scalar", "seqlock", "rwlock"} => UNCHANGED my
    /\ which \in {"hticket", "optik", "scalar", "seqlock", "rwlock"} => UNCHANGED line

Call(t) ==
    \/ which = "spin" /\ SP!Call(t)
    \/ which = "mcs" /\ M!Call(t)
    \/ which = "clh" /\ C!Call(t)
    \/ which = "hticket" /\ H!Call(t)
    \/ which = "optik" /\ O!Call(t)
    \/ which = "scalar" /\ (R!CallReadLock(t) \/ R!write_lock(t))
    \/ which = "seqlock" /\ (Q!CallStartRead(t) \/ Q!CallStartLayoutChange(t))
    \/ which = "rwlock" /\ RW!Call(t)

Step(t) ==
    \/ which = "spin" /\ SP!Step(t)
    \/ which = "mcs" /\ M!Step(t)
    \/ which = "clh" /\ C!Step(t)
    \/ which = "hticket" /\ H!Step(t)
    \/ which = "optik" /\ O!Step(t)
    \/ which = "scalar" /\ (R!Inside(t) \/ R!Close(t))
    \/ which = "seqlock" /\ (Q!Inside(t) \/ Q!finishRead(t) \/ Q!finishLayoutChange(t))
    \/ which = "rwlock" /\ (RW!Inside(t) \/ RW!Close(t))

\* The threads have used up their operations on an OPTIK lock.
AllDone ==
    /\ which = "optik"
    /\ left = 0
    /\ \A t \in Thread : pc[t] \in {"outside", "deleted"}
    /\ UNCHANGED vars

Next == (\E t \in Thread : Call(t) \/ Step(t)) /\ Frame

\* Threads run on within an operation, and sections are finite; nobody has to come.
FairSpec ==
    /\ Init /\ [][Next \/ AllDone]_vars
    /\ \A t \in Thread : WF_vars(Step(t) /\ Frame)

-----------------------------------------------------------------------------
Phase(t) ==
    CASE which = "spin" -> SP!Phase(t)
      [] which = "mcs" -> M!Phase(t)
      [] which = "clh" -> C!Phase(t)
      [] which = "hticket" -> H!Phase(t)
      [] which = "optik" -> O!Phase(t)
      [] OTHER -> "outside"

Fair == which \in {"mcs", "clh"} \/ (which = "spin" /\ kind = "ticket")

\* One thread is inside a lock at a time, whatever lock it is (tas_lock, ttas_lock,
\* ticket_lock, mcs_lock_lock, clh_acquire, htlock_lock, optik_lock, and their trylock and
\* unlock); the ticket, MCS and CLH locks let them in in the order in which they came, and
\* no trylock overtakes those that wait.
Abstract ==
    INSTANCE LockSpec WITH
        fifo <- Fair,
        phase <- [t \in Thread |-> Phase(t)]
ImplementsLock == Abstract!Spec

\* Whoever has come to a fair lock gets in: a hand-over is never lost, between the swap
\* and the link of a node, between the two numbers of a ticket lock, or when numbers wrap.
AllEnter == \A t \in Thread : Fair /\ Phase(t) = "waiting" ~> Phase(t) = "inside"

\* Of the threads that wait for another lock, somebody gets in: the local tickets of a
\* socket do not run out for good, and no version stays odd.
SomeEnters ==
    (\E t \in Thread : Phase(t) = "waiting") ~> (\E t \in Thread : Phase(t) = "inside")

\* OptikLock!SuccessMeansUnchanged
SuccessMeansUnchanged == which = "optik" => O!SuccessMeansUnchanged

\* ScalarRWLock!CountTellsInside
CountTellsInside == which = "scalar" => R!CountTellsInside

\* ScalarRWLock!SomeWriterEnters
SomeWriterEnters ==
    which = "scalar" /\ R!At({"wcas"}) # {} ~> which = "scalar" /\ R!At({"writing"}) # {}

\* SeqLock!VersionTellsChange
VersionTellsChange == which = "seqlock" => Q!VersionTellsChange

\* Sections of the sequence lock and of the readers-writer lock behave as those of a
\* layout lock (SeqLock!ImplementsSpec, LayoutRWLock!ImplementsSpec).
Mode(t) ==
    IF which = "seqlock" THEN Q!Mode(t) ELSE IF which = "rwlock" THEN RW!Mode(t) ELSE "out"
Modes == [t \in Thread |-> Mode(t)]
Valid == [t \in Thread |-> which \in {"seqlock", "rwlock"} /\ valid[t]]
LayoutLock == INSTANCE LayoutLockSpec WITH mode <- Modes, valid <- Valid
ImplementsLayoutLock == LayoutLock!Spec

\* LayoutRWLock!ReadersExclude
ReadersExclude == which = "rwlock" => RW!ReadersExclude

\* The inductive invariants the proofs about the locks rest on
IInv ==
    /\ which = "spin" => SP!IInv
    /\ which = "mcs" => M!IInv
    /\ which = "clh" => C!IInv
    /\ which = "hticket" => H!IInv
    /\ which = "optik" => O!IInv
    /\ which = "scalar" => R!IInv
    /\ which = "seqlock" => Q!IInv
    /\ which = "rwlock" => RW!IInv

\* SeqLock!RetryEnds
RetryEnds == which = "seqlock" => Q!RetryEnds

\* SeqLock!SomeChangeStarts, LayoutRWLock!SomeChangeStarts
SomeChangeStarts ==
    /\ which = "seqlock" /\ (\E t \in Thread : pc[t] = "locking")
          ~> \E t \in Thread : pc[t] = "changing"
    /\ which = "rwlock" => RW!SomeChangeStarts

FloorMC == -2
=============================================================================
