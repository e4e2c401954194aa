------------------------------- MODULE SeqLock -------------------------------
(***************************************************************************)
(* SeqLock, the layout lock of src/DLTree/src/bst-seqlock-cohen/llock.h: a *)
(* version number that is odd while the layout changes, and a lock that    *)
(* orders the layout changes.  It has no write sections (startWrite and    *)
(* finishWrite assert false).                                              *)
(*                                                                         *)
(* The version is an unsigned int that wraps around: there are Versions of *)
(* them.  A reader cannot tell a version from the one Versions increments  *)
(* later, so the lock keeps its promise only to a read section that fewer  *)
(* than half as many layout changes overlap; lag counts them, and Lag      *)
(* bounds it.                                                              *)
(***************************************************************************)
EXTENDS Integers, FiniteSets

CONSTANTS
    Thread,
    Versions,  \* values of vertype: 2^32 in the code
    Lag        \* bound: layout changes that may begin during one read section

SeqLockAssumption ==
    /\ Versions \in Nat /\ Versions % 2 = 0
    /\ Lag \in Nat /\ 2 * Lag < Versions

VARIABLES
    version,  \* even: no layout change in progress
    lock,     \* locked or not
    pc,
    start,    \* start[t]: the version thread t's read section began with
    valid,    \* history: no layout change overlaps t's read section
    lag       \* history: how many have begun during it

vars == <<version, lock, pc, start, valid, lag>>

PCs == {"idle", "starting", "reading", "again", "locking", "opening", "changing", "unlocking"}

TypeOK ==
    /\ version \in 0..(Versions - 1)
    /\ lock \in BOOLEAN
    /\ pc \in [Thread -> PCs]
    /\ start \in [Thread -> 0..(Versions - 1)]
    /\ valid \in [Thread -> BOOLEAN]
    /\ lag \in [Thread -> 0..Lag]

Init ==
    /\ version = 0
    /\ lock = FALSE
    /\ pc = [t \in Thread |-> "idle"]
    /\ start = [t \in Thread |-> 0]
    /\ valid = [t \in Thread |-> FALSE]
    /\ lag = [t \in Thread |-> 0]

Goto(t, l) == pc' = [pc EXCEPT ![t] = l]

Reading == {t \in Thread : pc[t] = "reading"}

\* No layout change is between its two increments of the version.
NoChanger == \A t \in Thread : pc[t] # "changing"

-----------------------------------------------------------------------------
CallStartRead(t) ==
    /\ pc[t] = "idle"
    /\ Goto(t, "starting")
    /\ UNCHANGED <<version, lock, start, valid, lag>>

\* Mutant: an odd version is as good as an even one.
startRead_Odd(t) ==
    /\ pc[t] \in {"starting", "again"}
    /\ start' = [start EXCEPT ![t] = version]
    /\ valid' = [valid EXCEPT ![t] = NoChanger]
    /\ Goto(t, "reading")
    /\ UNCHANGED <<version, lock, lag>>

\* The load of startRead that finds the version even; the others are repeated.  A
\* section that was refused starts over.
startRead(t) ==
    /\ pc[t] \in {"starting", "again"}
    /\ version % 2 = 0
    /\ start' = [start EXCEPT ![t] = version]
    /\ valid' = [valid EXCEPT ![t] = NoChanger]
    /\ Goto(t, "reading")
    /\ UNCHANGED <<version, lock, lag>>

\* Mutant: the verdict is the wrong way round.
finishRead_Inverted(t) ==
    /\ pc[t] = "reading"
    /\ Goto(t, IF version = start[t] THEN "again" ELSE "idle")
    /\ start' = [start EXCEPT ![t] = 0]
    /\ valid' = [valid EXCEPT ![t] = FALSE]
    /\ lag' = [lag EXCEPT ![t] = 0]
    /\ UNCHANGED <<version, lock>>

finishRead(t) ==
    /\ pc[t] = "reading"
    /\ Goto(t, IF version = start[t] THEN "idle" ELSE "again")
    /\ start' = [start EXCEPT ![t] = 0]
    /\ valid' = [valid EXCEPT ![t] = FALSE]
    /\ lag' = [lag EXCEPT ![t] = 0]
    /\ UNCHANGED <<version, lock>>

-----------------------------------------------------------------------------
CallStartLayoutChange(t) ==
    /\ pc[t] = "idle"
    /\ Goto(t, "locking")
    /\ UNCHANGED <<version, lock, start, valid, lag>>

\* Mutant: the lock is not looked at.
takeLock_Blind(t) ==
    /\ pc[t] = "locking"
    /\ lock' = TRUE
    /\ Goto(t, "opening")
    /\ UNCHANGED <<version, start, valid, lag>>

\* The CAS of startLayoutChange that succeeds.
takeLock(t) ==
    /\ pc[t] = "locking"
    /\ ~lock
    /\ lock' = TRUE
    /\ Goto(t, "opening")
    /\ UNCHANGED <<version, start, valid, lag>>

Increment == version' = (version + 1) % Versions

openChange(t) ==
    /\ pc[t] = "opening"
    /\ \A u \in Reading : lag[u] < Lag
    /\ Increment
    /\ valid' = [u \in Thread |-> FALSE]
    /\ lag' = [u \in Thread |-> IF u \in Reading THEN lag[u] + 1 ELSE lag[u]]
    /\ Goto(t, "changing")
    /\ UNCHANGED <<lock, start>>

finishLayoutChange(t) ==
    /\ pc[t] = "changing"
    /\ Increment
    /\ Goto(t, "unlocking")
    /\ UNCHANGED <<lock, start, valid, lag>>

\* Mutant: what a build with NDEBUG does, where the assertion around the CAS
\* that releases the lock is compiled away.
releaseLock_NDEBUG(t) ==
    /\ pc[t] = "unlocking"
    /\ Goto(t, "idle")
    /\ UNCHANGED <<version, lock, start, valid, lag>>

\* The CAS inside the assertion at the end of finishLayoutChange.
releaseLock(t) ==
    /\ pc[t] = "unlocking"
    /\ lock
    /\ lock' = FALSE
    /\ Goto(t, "idle")
    /\ UNCHANGED <<version, start, valid, lag>>

-----------------------------------------------------------------------------
Inside(t) == startRead(t) \/ takeLock(t) \/ openChange(t) \/ releaseLock(t)

Step(t) ==
    \/ CallStartRead(t) \/ finishRead(t)
    \/ CallStartLayoutChange(t) \/ finishLayoutChange(t)
    \/ Inside(t)

Next == \E t \in Thread : Step(t)

Spec == Init /\ [][Next]_vars

\* A thread inside the lock's code runs on, and sections are finite.
FairSpec ==
    /\ Spec
    /\ \A t \in Thread : /\ WF_vars(Inside(t))
                         /\ WF_vars(finishRead(t))
                         /\ WF_vars(finishLayoutChange(t))

-----------------------------------------------------------------------------
\* The version is odd exactly while the layout changes, and only the holder of
\* the lock moves it: a reader that finds it even finds the layout at rest.
VersionTellsChange ==
    /\ (version % 2 = 1) <=> ~NoChanger
    /\ Cardinality({t \in Thread : pc[t] \in {"opening", "changing", "unlocking"}})
         = IF lock THEN 1 ELSE 0

Mode(t) ==
    IF pc[t] \in {"reading", "changing"} THEN pc[t]
    ELSE IF pc[t] = "again" THEN "refused"
    ELSE "out"

\* The inductive invariant behind it, and behind the refinement below.

\* Thread t has taken the lock and not given it back.
Holds(t) == pc[t] \in {"opening", "changing", "unlocking"}

LockInv ==
    /\ lock <=> \E t \in Thread : Holds(t)
    /\ \A t, u \in Thread : Holds(t) /\ Holds(u) => t = u

VersionInv == (version % 2 = 1) <=> ~NoChanger

\* How often the version has moved since the read section of t began: twice for each
\* change, but once for one in progress.
Moved(t) == 2 * lag[t] - (version % 2)

\* What a reader noted is as far behind as the changes it overlaps have moved the
\* version; its section is valid until the first of them.
ReaderInv(t) ==
    /\ IF lag[t] = 0 THEN valid[t] = TRUE /\ version % 2 = 0 ELSE valid[t] = FALSE
    /\ version \in {start[t] + Moved(t), start[t] + Moved(t) - Versions}

LagInv ==
    \A t \in Thread :
        IF pc[t] = "reading" THEN ReaderInv(t) ELSE lag[t] = 0 /\ valid[t] = FALSE

IInv == TypeOK /\ LockInv /\ VersionInv /\ LagInv

\* Sections of the seqlock behave as those of a layout lock.
Abstract == INSTANCE LayoutLockSpec WITH mode <- [t \in Thread |-> Mode(t)]
ImplementsSpec == Abstract!Spec

\* Once nobody wants to change the layout any more, every read section that was
\* refused is sooner or later accepted.
RetryEnds ==
    \A t \in Thread :
        <>[](\A u \in Thread : pc[u] \notin {"locking", "opening", "changing", "unlocking"})
          => (pc[t] = "again" ~> pc[t] = "idle")

\* A layout change that began makes room for the next one: of the threads that
\* wait for the lock one always gets it.
SomeChangeStarts ==
    (\E t \in Thread : pc[t] = "locking") ~> (\E t \in Thread : pc[t] = "changing")
=============================================================================
