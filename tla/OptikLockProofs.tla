--------------------------- MODULE OptikLockProofs ---------------------------
(***************************************************************************)
(* For any number of threads and any number of operations: one thread at a *)
(* time has an OPTIK lock, of each of the three kinds, and a thread that   *)
(* has locked with the version it had noted finds nothing changed.         *)
(*                                                                         *)
(* The proof follows the parts of the inductive invariant IInv.  What a    *)
(* step does to them depends on what it does to the lock: it leaves the    *)
(* lock alone, takes it, passes on or draws a ticket, or gives it back.    *)
(***************************************************************************)
EXTENDS OptikLock, TLAPS

\* A deleted version is odd: it looks locked.
LEMMA DeletedIsOdd == Deleted \in Int /\ Deleted \notin Nat /\ Deleted % 2 = 1
  <1>1. ASSUME NEW v \in Int, v + 1 = 0 PROVE v % 2 = 1
    BY <1>1
  <1>2. Deleted \in Int /\ Deleted \notin Nat /\ Deleted + 1 = 0
    BY DEF Deleted
  <1> QED
    BY <1>1, <1>2

\* A step of thread t leaves the others where they are.
LEMMA StepIsLocal ==
    ASSUME TypeOK, NEW t \in Thread, Call(t) \/ Step(t)
    PROVE  /\ kind' = kind /\ usage' = usage
           /\ \A u \in Thread \ {t} : /\ pc'[u] = pc[u] /\ noted'[u] = noted[u]
                                    /\ my'[u] = my[u] /\ same'[u] = same[u]
  BY DEF TypeOK, Call, Step, Locking, Note, TrylockVersion, TrylockVersionWaits, Trylock,
         TrylockVdelete, Lock, DrawTicket, TrylockVersionTakes, TrylockVersionCompares, LockCas,
         Served, LoadSeparate, CasSeparate, Unlock, FreeSeparate, Unlockv, Revert, Inside,
         Outside, Changes, Goto

Notes == [version : VersionNumbers, ticket : Int, held : BOOLEAN]

\* What the steps are made of keeps its types.
LEMMA InsideType ==
    ASSUME TypeOK, NEW t \in Thread, NEW result \in BOOLEAN, Inside(t, result)
    PROVE  /\ pc' \in [Thread -> PCs] /\ same' \in [Thread -> BOOLEAN]
           /\ noted' \in [Thread -> Notes] /\ changed' \in [Thread -> BOOLEAN]
  BY DEF TypeOK, Inside, Goto, PCs, Notes

LEMMA NothingType == Nothing \in Notes
  BY DEF Nothing, Notes, VersionNumbers

LEMMA OutsideType ==
    ASSUME TypeOK, NEW t \in Thread, Outside(t)
    PROVE  /\ pc' \in [Thread -> PCs] /\ same' \in [Thread -> BOOLEAN]
           /\ noted' \in [Thread -> Notes] /\ changed' \in [Thread -> BOOLEAN]
  BY NothingType DEF TypeOK, Outside, Goto, PCs, Notes

LEMMA TakeType ==
    ASSUME TypeOK, Take, LockIsFree
    PROVE  /\ version' \in VersionNumbers /\ (kind # "integer" => version' \in Nat)
           /\ ticket' \in Int /\ held' \in BOOLEAN
  <1>1. CASE kind = "integer"
    <2>1. version \in Nat
      BY <1>1, DeletedIsOdd DEF TypeOK, LockIsFree, IsLocked, VersionNumbers
    <2> QED
      BY <1>1, <2>1 DEF TypeOK, Take, VersionNumbers
  <1>2. CASE kind = "ticket"
    BY <1>2 DEF TypeOK, Take
  <1>3. CASE kind = "separate"
    BY <1>3 DEF TypeOK, Take
  <1> QED
    BY <1>1, <1>2, <1>3 DEF TypeOK

\* The thread inside can move the version forward, and, of the integer kind, back.
LEMMA InsideVersion ==
    ASSUME TypeOK, HoldInv, NEW t \in Thread, pc[t] = "inside"
    PROVE  version \in Nat /\ (kind = "integer" => version % 2 = 1 /\ version - 1 \in Nat)
  <1>1. CASE kind = "integer"
    <2>1. version \in Nat /\ version % 2 = 1
      BY <1>1 DEF TypeOK, HoldInv, Holds, VersionNumbers
    <2>2. 0 % 2 = 0
      OBVIOUS
    <2> QED
      BY <2>1, <2>2
  <1>2. CASE kind # "integer"
    BY <1>2 DEF TypeOK
  <1> QED
    BY <1>1, <1>2

LEMMA SameType == ASSUME NEW t PROVE IsSame(t) \in BOOLEAN
  BY DEF IsSame

\* To lock with a version means that the lock is free.
LEMMA NotedIsFree ==
    ASSUME TypeOK, NEW t \in Thread, IsSame(t), kind # "separate",
           ~IsLocked(noted[t].version, noted[t].ticket, FALSE)
    PROVE  LockIsFree
  BY DEF TypeOK, IsSame, IsLocked, LockIsFree

\* The two ends of TrylockVdelete.
Fails(t) ==
    /\ pc[t] = "noted"
    /\ Outside(t)
    /\ UNCHANGED <<kind, usage, version, ticket, held, my, left>>

Deletes(t) ==
    /\ pc[t] = "noted" /\ usage = "try" /\ kind # "separate"
    /\ LockIsFree /\ IsSame(t)
    /\ kind = "integer" => version' = Deleted /\ ticket' = ticket
    /\ kind = "ticket" => ticket' = version - 1 /\ version' = version
    /\ Goto(t, "deleted")
    /\ same' = [same EXCEPT ![t] = TRUE]
    /\ UNCHANGED <<kind, usage, held, noted, my, left, changed>>

LEMMA VdeleteCases ==
    ASSUME TypeOK, NEW t \in Thread, TrylockVdelete(t)
    PROVE  Deletes(t) \/ Fails(t)
  <1>1. CASE ~IsLocked(noted[t].version, noted[t].ticket, FALSE) /\ IsSame(t)
    <2>1. LockIsFree
      BY <1>1, NotedIsFree DEF TrylockVdelete
    <2> QED
      BY <1>1, <2>1 DEF TrylockVdelete, Deletes
  <1>2. CASE ~(~IsLocked(noted[t].version, noted[t].ticket, FALSE) /\ IsSame(t))
    BY <1>2 DEF TrylockVdelete, Fails
  <1> QED
    BY <1>1, <1>2

LEMMA TypeInductive ==
    ASSUME TypeOK, UsageInv, HoldInv, NEW t \in Thread, Call(t) \/ Step(t)
    PROVE  TypeOK'
  <1> USE DEF TypeOK, Goto, PCs
  <1>1. CASE Note(t)
    <2>1. [version |-> version, ticket |-> ticket, held |-> held] \in Notes
      BY DEF Notes
    <2>2. noted' \in [Thread -> Notes]
      BY <1>1, <2>1 DEF Note, Notes
    <2> QED
      BY <1>1, <2>2 DEF Note, Notes
  <1>2. CASE TrylockVersion(t)
    BY <1>2, NotedIsFree, TakeType, InsideType, OutsideType DEF TrylockVersion, Notes
  <1>3. CASE TrylockVersionWaits(t) \/ TrylockVersionTakes(t)
    BY <1>3, TakeType DEF TrylockVersionWaits, TrylockVersionTakes
  <1>12. CASE TrylockVersionCompares(t)
    BY <1>12, InsideType, OutsideType DEF TrylockVersionCompares, Notes
  <1>4. CASE Trylock(t)
    BY <1>4, TakeType, InsideType DEF Trylock, Notes
  <1>13. CASE LockCas(t)
    <2>1. (pc[t] = "casversion" /\ IsSame(t)) \in BOOLEAN
      OBVIOUS
    <2> QED
      BY <1>13, <2>1, TakeType, InsideType DEF LockCas, Notes
  <1>5. CASE TrylockVdelete(t)
    <2>1. CASE Deletes(t)
      <3>1. version' \in VersionNumbers /\ (kind # "integer" => version' \in Nat) /\ ticket' \in Int
        BY <2>1 DEF Deletes, VersionNumbers
      <3> QED
        BY <2>1, <3>1 DEF Deletes
    <2>2. CASE ~Deletes(t)
      BY <1>5, <2>2, VdeleteCases, OutsideType DEF Fails, Notes
    <2> QED
      BY <2>1, <2>2
  <1>6. ASSUME NEW compares \in BOOLEAN, Lock(t, compares) \/ DrawTicket(t, compares)
        PROVE  TypeOK'
    BY <1>6 DEF Lock, DrawTicket
  <1>7. CASE Served(t)
    <2>1. (pc[t] = "servedversion" /\ noted[t].version = my[t]) \in BOOLEAN
      OBVIOUS
    <2>2. my' \in [Thread -> Int]
      BY <1>7 DEF Served
    <2> QED
      BY <1>7, <2>1, <2>2, InsideType DEF Served, Notes
  <1>8. CASE LoadSeparate(t)
    <2>1. my' \in [Thread -> Int]
      BY <1>8 DEF LoadSeparate, VersionNumbers, Deleted
    <2> QED
      BY <1>8, <2>1 DEF LoadSeparate
  <1>14. CASE CasSeparate(t)
    <2>1. (my[t] = noted[t].version) \in BOOLEAN
      OBVIOUS
    <2> QED
      BY <1>14, <2>1, InsideType DEF CasSeparate, Notes
  <1>9. CASE Unlock(t)
    <2>1. version' \in Nat
      BY <1>9, InsideVersion DEF Unlock
    <2>2. noted' \in [Thread -> Notes] /\ changed' \in [Thread -> BOOLEAN]
      BY <1>9, NothingType DEF Unlock, Changes, Notes
    <2> QED
      BY <1>9, <2>1, <2>2 DEF Unlock, Notes, VersionNumbers
  <1>15. CASE FreeSeparate(t)
    BY <1>15 DEF FreeSeparate
  <1>10. CASE Unlockv(t)
    <2>1. version + 1 \in Nat
      BY <1>10, InsideVersion DEF Unlockv
    <2>2. [version |-> version + 1, ticket |-> ticket, held |-> held] \in Notes
      BY <2>1 DEF Notes, VersionNumbers
    <2>3. noted' \in [Thread -> Notes] /\ changed' \in [Thread -> BOOLEAN]
      BY <1>10, <2>2 DEF Unlockv, Changes, Notes
    <2> QED
      BY <1>10, <2>1, <2>3 DEF Unlockv, Notes, VersionNumbers
  <1>11. CASE Revert(t)
    <2>1. version' \in Nat /\ ticket' \in Int
      BY <1>11, InsideVersion DEF Revert
    <2> QED
      BY <1>11, <2>1, OutsideType DEF Revert, Notes, VersionNumbers
  <1> QED
    BY <1>1, <1>2, <1>3, <1>4, <1>5, <1>6, <1>7, <1>8, <1>9, <1>10, <1>11,
       <1>12, <1>13, <1>14, <1>15
       DEF Call, Step, Locking

LEMMA UsageInductive ==
    ASSUME TypeOK, UsageInv, NEW t \in Thread, Call(t) \/ Step(t)
    PROVE  UsageInv'
  <1> SUFFICES ASSUME NEW u \in Thread
               PROVE  UsageOf(u)'
    BY StepIsLocal DEF UsageInv, UsageOf
  <1>1. UsageOf(u)
    BY DEF UsageInv, UsageOf
  <1>2. CASE u # t
    BY <1>1, <1>2, StepIsLocal DEF UsageOf
  <1>3. CASE u = t
    <2> USE DEF TypeOK, Goto, Inside, Outside, UsageOf
    <2>1. CASE Note(t) \/ TrylockVersion(t) \/ Trylock(t)
      BY <1>1, <1>3, <2>1 DEF Note, TrylockVersion, Trylock
    <2>2. CASE TrylockVersionWaits(t) \/ TrylockVersionTakes(t) \/ TrylockVersionCompares(t)
      BY <1>1, <1>3, <2>2 DEF TrylockVersionWaits, TrylockVersionTakes, TrylockVersionCompares
    <2>3. CASE Deletes(t) \/ Fails(t)
      BY <1>1, <1>3, <2>3 DEF Deletes, Fails
    <2>4. ASSUME NEW compares \in BOOLEAN, Lock(t, compares) \/ DrawTicket(t, compares)
          PROVE  UsageOf(u)'
      BY <1>1, <1>3, <2>4 DEF Lock, DrawTicket
    <2>5. CASE LockCas(t) \/ Served(t)
      BY <1>1, <1>3, <2>5 DEF LockCas, Served
    <2>6. CASE LoadSeparate(t) \/ CasSeparate(t)
      <3>1. kind = "separate"
        BY <1>1, <1>3, <2>6 DEF LoadSeparate, CasSeparate, UsageInv, UsageOf
      <3> QED
        BY <1>1, <1>3, <2>6, <3>1 DEF LoadSeparate, CasSeparate
    <2>7. CASE Unlock(t) \/ FreeSeparate(t) \/ Unlockv(t) \/ Revert(t)
      BY <1>1, <1>3, <2>7 DEF Unlock, FreeSeparate, Unlockv, Revert
    <2> QED
      BY <2>1, <2>2, <2>3, <2>4, <2>5, <2>6, <2>7, VdeleteCases DEF Call, Step, Locking
  <1> QED
    BY <1>2, <1>3

-----------------------------------------------------------------------------
(* Who has the lock *)

LEMMA FreeIsUnheld ==
    ASSUME TypeOK, UsageInv, HoldInv, LockIsFree, NEW t \in Thread
    PROVE  ~Holds(t)
  <1>1. CASE kind = "ticket"
    <2>1. ticket = version
      BY <1>1 DEF LockIsFree, IsLocked
    <2>2. /\ pc[t] = "inside" => version < ticket
          /\ pc[t] = "deleted" => ticket < version
      BY <1>1 DEF HoldInv
    <2>3. pc[t] \notin {"compare", "free"}
      BY <1>1 DEF UsageInv, UsageOf
    <2>4. version \in Int /\ ticket \in Int
      BY <1>1 DEF TypeOK
    <2> QED
      BY <2>1, <2>2, <2>3, <2>4 DEF Holds
  <1>2. CASE kind # "ticket"
    BY <1>2 DEF TypeOK, HoldInv, LockIsFree, IsLocked
  <1> QED
    BY <1>1, <1>2

LEMMA TakeHolds ==
    ASSUME TypeOK, UsageInv, HoldInv, LockIsFree, Take, kind' = kind,
           NEW t \in Thread, Goto(t, "inside")
    PROVE  HoldInv'
  <1>1. /\ Holds(t)' /\ pc'[t] = "inside"
        /\ \A u \in Thread \ {t} : ~Holds(u)' /\ pc'[u] \notin {"inside", "deleted"}
    BY FreeIsUnheld DEF TypeOK, Holds, Goto
  <1>2. CASE kind = "integer"
    <2>1. version' = version + 1 /\ version \in Nat /\ version % 2 # 1
      BY <1>2, DeletedIsOdd DEF TypeOK, LockIsFree, IsLocked, Take, VersionNumbers
    <2>2. version' % 2 = 1 /\ version' # Deleted
      BY <2>1 DEF Deleted
    <2> QED
      BY <1>1, <1>2, <2>2 DEF HoldInv
  <1>3. CASE kind = "ticket"
    <2>1. version' < ticket'
      BY <1>3 DEF TypeOK, LockIsFree, IsLocked, Take
    <2> QED
      BY <1>1, <1>3, <2>1 DEF HoldInv
  <1>4. CASE kind = "separate"
    BY <1>1, <1>4 DEF HoldInv, Take
  <1> QED
    BY <1>2, <1>3, <1>4 DEF TypeOK

\* A thread that neither takes nor gives up the lock leaves it as it is.
LEMMA QuietHolds ==
    ASSUME TypeOK, HoldInv, NEW t \in Thread, NEW l, Goto(t, l),
           pc[t] \notin {"inside", "compare", "free", "deleted"},
           l \notin {"inside", "compare", "free", "deleted"},
           UNCHANGED <<kind, version, ticket, held>>
    PROVE  HoldInv'
  <1>1. \A u \in Thread : Holds(u)' <=> Holds(u)
    BY DEF TypeOK, Goto, Holds
  <1>2. \A u \in Thread : Holds(u) => pc'[u] = pc[u]
    BY DEF TypeOK, Goto, Holds
  <1>3. \A u \in Thread : pc'[u] \in {"inside", "deleted"} => pc[u] = pc'[u]
    BY DEF TypeOK, Goto
  <1> QED
    BY <1>1, <1>2, <1>3 DEF HoldInv

LEMMA HoldInductive ==
    ASSUME TypeOK, UsageInv, HoldInv, TicketInv, NEW t \in Thread, Call(t) \/ Step(t)
    PROVE  HoldInv'
  <1> USE DEF TypeOK, HoldInv, Holds, Goto, Inside, Outside
  <1>1. CASE Note(t)
    BY <1>1 DEF Note
  <1>2. CASE TrylockVersion(t)
    <2>1. CASE ~IsLocked(noted[t].version, noted[t].ticket, FALSE) /\ IsSame(t)
      <3>1. LockIsFree
        BY <1>2, <2>1, NotedIsFree DEF TrylockVersion
      <3>2. Take /\ kind' = kind /\ Goto(t, "inside")
        BY <1>2, <2>1 DEF TrylockVersion
      <3> QED
        BY <3>1, <3>2, TakeHolds
    <2>2. CASE ~(~IsLocked(noted[t].version, noted[t].ticket, FALSE) /\ IsSame(t))
      <3>1. /\ pc[t] = "noted" /\ Goto(t, "outside")
            /\ UNCHANGED <<kind, version, ticket, held>>
        BY <1>2, <2>2 DEF TrylockVersion
      <3> QED
        BY <3>1, QuietHolds
    <2> QED
      BY <2>1, <2>2
  <1>3. CASE TrylockVersionWaits(t)
    BY <1>3 DEF TrylockVersionWaits
  <1>4. CASE TrylockVersionTakes(t)
    BY <1>4 DEF TrylockVersionTakes, LockIsFree, Take, IsLocked, UsageInv, UsageOf
  <1>5. CASE TrylockVersionCompares(t)
    BY <1>5 DEF TrylockVersionCompares, UsageInv, UsageOf
  <1>6. CASE Trylock(t)
    BY <1>6, TakeHolds DEF Trylock
  <1>7. CASE LockCas(t)
    BY <1>7, TakeHolds DEF LockCas
  <1>8. CASE Deletes(t)
    <2>1. \A u \in Thread \ {t} : ~Holds(u)' /\ pc'[u] \notin {"inside", "deleted"}
      BY <1>8, FreeIsUnheld DEF Deletes
    <2>2. pc'[t] = "deleted"
      BY <1>8 DEF Deletes
    <2>3. CASE kind = "integer"
      BY <1>8, <2>1, <2>2, <2>3, DeletedIsOdd DEF Deletes
    <2>4. CASE kind = "ticket"
      BY <1>8, <2>1, <2>2, <2>4 DEF Deletes
    <2> QED
      BY <1>8, <2>3, <2>4 DEF Deletes
  <1>9. CASE Fails(t)
    BY <1>9 DEF Fails
  <1>10. ASSUME NEW compares \in BOOLEAN, Lock(t, compares)
         PROVE  HoldInv'
    BY <1>10 DEF Lock
  <1>11. ASSUME NEW compares \in BOOLEAN, DrawTicket(t, compares)
         PROVE  HoldInv'
    BY <1>11 DEF DrawTicket, UsageInv, UsageOf
  <1>12. CASE Served(t)
    BY <1>12 DEF Served, TicketInv, Draws, UsageInv, UsageOf
  <1>13. CASE LoadSeparate(t)
    BY <1>13 DEF LoadSeparate
  <1>14. CASE CasSeparate(t)
    BY <1>14 DEF CasSeparate, UsageInv, UsageOf
  <1>15. CASE Unlock(t)
    BY <1>15, InsideVersion DEF Unlock
  <1>16. CASE FreeSeparate(t)
    BY <1>16 DEF FreeSeparate, UsageInv, UsageOf
  <1>17. CASE Unlockv(t)
    <2>1. \A u \in Thread : ~Holds(u)' /\ pc'[u] \notin {"inside", "deleted"}
      BY <1>17 DEF Unlockv
    <2>2. CASE kind = "integer"
      <3>1. version' = version + 1 /\ version \in Nat /\ version % 2 = 1
        BY <1>17, <2>2, InsideVersion DEF Unlockv
      <3>2. version' % 2 # 1
        BY <3>1
      <3> QED
        BY <1>17, <2>1, <2>2, <3>2 DEF Unlockv
    <2>3. CASE kind = "ticket"
      BY <1>17, <2>1, <2>3 DEF Unlockv
    <2> QED
      BY <1>17, <2>2, <2>3 DEF Unlockv
  <1>18. CASE Revert(t)
    <2>1. \A u \in Thread : ~Holds(u)' /\ pc'[u] \notin {"inside", "deleted"}
      BY <1>18 DEF Revert
    <2>2. CASE kind = "integer"
      <3>1. version' = version - 1 /\ version \in Nat /\ version % 2 = 1
        BY <1>18, <2>2, InsideVersion DEF Revert
      <3>2. version' % 2 # 1
        BY <3>1
      <3> QED
        BY <1>18, <2>1, <2>2, <3>2 DEF Revert
    <2>3. CASE kind = "ticket"
      BY <1>18, <2>1, <2>3 DEF Revert
    <2> QED
      BY <1>18, <2>2, <2>3 DEF Revert
  <1> QED
    BY <1>1, <1>2, <1>3, <1>4, <1>5, <1>6, <1>7, <1>8, <1>9, <1>10, <1>11, <1>12, <1>13,
       <1>14, <1>15, <1>16, <1>17, <1>18, VdeleteCases DEF Call, Step, Locking

-----------------------------------------------------------------------------
(* The tickets *)

LEMMA FreeIsUndrawn ==
    ASSUME TypeOK, UsageInv, TicketInv, LockIsFree, NEW t \in Thread
    PROVE  ~Draws(t)
  <1>1. SUFFICES ASSUME Draws(t)
                 PROVE  FALSE
    OBVIOUS
  <1>2. kind = "ticket"
    BY <1>1 DEF Draws, UsageInv, UsageOf
  <1> QED
    BY <1>1, <1>2 DEF TypeOK, TicketInv, LockIsFree, IsLocked

LEMMA TakeDraws ==
    ASSUME TypeOK, UsageInv, HoldInv, TicketInv, LockIsFree, Take, kind = "ticket", my' = my,
           NEW t \in Thread, Goto(t, "inside")
    PROVE  TicketInv'
  <1>1. \A u \in Thread : ~Draws(u)'
    BY FreeIsUndrawn DEF TypeOK, Draws, Goto
  <1>2. version' <= ticket'
    BY DEF TypeOK, Take, LockIsFree, IsLocked
  <1> QED
    BY <1>1, <1>2 DEF TicketInv

\* Nobody draws a ticket, and nobody is let in.
LEMMA QuietDraws ==
    ASSUME TypeOK, TicketInv, kind' = kind, version' = version, ticket' = ticket,
           \A u \in Thread : /\ Draws(u)' => Draws(u) /\ my'[u] = my[u]
                             /\ pc'[u] = "inside" => pc[u] = "inside"
                             /\ pc[u] = "deleted" => pc'[u] = "deleted"
    PROVE  TicketInv'
  BY DEF TicketInv

LEMMA TicketInductive ==
    ASSUME TypeOK, UsageInv, UsageInv', HoldInv, TicketInv, NEW t \in Thread, Call(t) \/ Step(t)
    PROVE  TicketInv'
  <1>1. CASE kind # "ticket"
    <2>1. kind' # "ticket"
      BY <1>1, StepIsLocal
    <2>2. \A u \in Thread : ~Draws(u)'
      BY <2>1 DEF Draws, UsageInv, UsageOf
    <2> QED
      BY <2>1, <2>2 DEF TicketInv
  <1>2. CASE kind = "ticket"
    <2> USE <1>2 DEF TypeOK, TicketInv, Draws, Goto, Inside, Outside
    <2>1. CASE Note(t)
      BY <2>1 DEF Note
    <2>2. CASE TrylockVersion(t)
      <3>1. CASE ~IsLocked(noted[t].version, noted[t].ticket, FALSE) /\ IsSame(t)
        <4>1. LockIsFree
          BY <2>2, <3>1, NotedIsFree DEF TrylockVersion
        <4>2. Take /\ my' = my /\ Goto(t, "inside")
          BY <2>2, <3>1 DEF TrylockVersion
        <4> QED
          BY <4>1, <4>2, TakeDraws
      <3>2. CASE ~(~IsLocked(noted[t].version, noted[t].ticket, FALSE) /\ IsSame(t))
        <4>1. /\ UNCHANGED <<kind, version, ticket, my>>
              /\ pc' = [pc EXCEPT ![t] = "outside"] /\ pc[t] = "noted"
          BY <2>2, <3>2 DEF TrylockVersion
        <4> QED
          BY <4>1, QuietDraws
      <3> QED
        BY <3>1, <3>2
    <2>3. CASE Trylock(t)
      BY <2>3, TakeDraws DEF Trylock
    <2>4. CASE LockCas(t)
      BY <2>4, TakeDraws DEF LockCas
    <2>5. CASE Deletes(t)
      BY <2>5, FreeIsUndrawn DEF Deletes
    <2>6. CASE Fails(t)
      BY <2>6 DEF Fails
    <2>7. ASSUME NEW compares \in BOOLEAN, Lock(t, compares)
          PROVE  TicketInv'
      BY <2>7 DEF Lock
    <2>8. ASSUME NEW compares \in BOOLEAN, DrawTicket(t, compares)
          PROVE  TicketInv'
      <3>1. version <= ticket
        BY <2>8 DEF DrawTicket, UsageInv, UsageOf
      <3>2. \A u \in Thread : pc[u] = "inside" => version < ticket
        BY DEF HoldInv
      <3> QED
        BY <2>8, <3>1, <3>2 DEF DrawTicket
    <2>9. CASE Served(t)
      <3>1. \A u \in Thread : Draws(u)' => Draws(u) /\ my'[u] = my[u] /\ u # t
        BY <2>9 DEF Served
      <3>2. Draws(t) /\ version = my[t]
        BY <2>9 DEF Served
      <3>3. \A u \in Thread : pc'[u] = "inside" => pc[u] = "inside" \/ u = t
        BY <2>9 DEF Served
      <3>4. \A u \in Thread : pc[u] = "deleted" => pc'[u] = "deleted"
        BY <2>9 DEF Served
      <3>5. \A u \in Thread : Draws(u)' => version < my[u]
        <4>1. \A u \in Thread : Draws(u)' => version <= my[u] /\ my[u] # my[t]
          BY <3>1, <3>2
        <4>2. version \in Int /\ my \in [Thread -> Int]
          OBVIOUS
        <4> QED
          BY <3>2, <4>1, <4>2
      <3>6. kind' = kind /\ version' = version /\ ticket' = ticket
        BY <2>9 DEF Served
      <3> QED
        BY <3>1, <3>2, <3>3, <3>4, <3>5, <3>6
    <2>10. CASE TrylockVersionWaits(t) \/ LoadSeparate(t)
      BY <2>10 DEF TrylockVersionWaits, LoadSeparate, UsageInv
    <2>11. CASE TrylockVersionTakes(t) \/ TrylockVersionCompares(t) \/ CasSeparate(t)
                \/ FreeSeparate(t)
      BY <2>11 DEF TrylockVersionTakes, TrylockVersionCompares, CasSeparate, FreeSeparate,
                   UsageInv, UsageOf
    <2>12. CASE Unlock(t) \/ Unlockv(t)
      <3>1. /\ version < ticket
            /\ \A u \in Thread : u # t => pc[u] # "inside" /\ pc[u] # "deleted"
        BY <2>12 DEF HoldInv, Holds, Unlock, Unlockv
      <3>2. /\ version' = version + 1 /\ ticket' = ticket /\ kind' = kind
            /\ pc'[t] \in {"outside", "noted"}
            /\ \A u \in Thread \ {t} : pc'[u] = pc[u] /\ my'[u] = my[u]
        BY <2>12 DEF Unlock, Unlockv
      <3>3. \A u \in Thread : Draws(u)' => Draws(u) /\ my'[u] = my[u]
        BY <3>2
      <3>4. \A u \in Thread : Draws(u) => version < my[u]
        BY <2>12 DEF Unlock, Unlockv
      <3>5. version' <= ticket' /\ \A u \in Thread : pc'[u] # "inside"
        BY <3>1, <3>2
      <3> QED
        BY <3>2, <3>3, <3>4, <3>5
    <2>13. CASE Revert(t)
      <3>1. version < ticket
        BY <2>13 DEF HoldInv, Revert
      <3>2. \A u \in Thread : ~Draws(u)
        BY <2>13 DEF Revert, UsageInv, UsageOf
      <3> QED
        BY <2>13, <3>1, <3>2 DEF Revert
    <2> QED
      BY <2>1, <2>2, <2>3, <2>4, <2>5, <2>6, <2>7, <2>8, <2>9, <2>10, <2>11, <2>12, <2>13,
         VdeleteCases DEF Call, Step, Locking
  <1> QED
    BY <1>1, <1>2

-----------------------------------------------------------------------------
(* The versions noted *)

\* What the version of the integer kind is made of.
LEMMA Halves ==
    ASSUME NEW v \in Nat
    PROVE  /\ v % 2 \in {0, 1}
           /\ v % 2 = 0 => (v + 1) - ((v + 1) % 2) = v
           /\ v % 2 = 1 => /\ (v + 1) - ((v + 1) % 2) = v + 1
                           /\ (v - 1) - ((v - 1) % 2) = v - 1
  OBVIOUS

LEMMA BaseType ==
    ASSUME TypeOK, version # Deleted
    PROVE  version \in Nat /\ Base \in Int /\ 0 <= Base /\ Base <= version
           /\ version <= Base + (IF kind = "integer" THEN 1 ELSE 0)
  <1>1. version \in Nat
    BY DEF TypeOK, VersionNumbers
  <1>2. version % 2 \in {0, 1} /\ (version = 0 => version % 2 = 0)
    BY <1>1
  <1> QED
    BY <1>1, <1>2 DEF Base

\* A free lock has the version that a thread can note.
LEMMA FreeBase ==
    ASSUME TypeOK, LockIsFree
    PROVE  version # Deleted /\ Base = version
  <1>1. CASE kind = "integer"
    <2>1. version % 2 # 1
      BY <1>1 DEF LockIsFree, IsLocked
    <2>2. version # Deleted
      BY <2>1, DeletedIsOdd
    <2>3. version \in Nat
      BY <2>2 DEF TypeOK, VersionNumbers
    <2> QED
      BY <1>1, <2>1, <2>2, <2>3, Halves DEF Base
  <1>2. CASE kind # "integer"
    BY <1>2, DeletedIsOdd DEF TypeOK, Base
  <1> QED
    BY <1>1, <1>2

\* The thread inside has a version to move on from.
LEMMA InsideBase ==
    ASSUME TypeOK, HoldInv, NEW t \in Thread, pc[t] = "inside"
    PROVE  /\ version # Deleted
           /\ version \in Nat
           /\ kind = "integer" => version % 2 = 1 /\ Base = version - 1
           /\ kind # "integer" => Base = version
  BY InsideVersion, DeletedIsOdd DEF Base

\* The base changes with an unlock only.
Keeps == version' # Deleted => version # Deleted /\ Base' = Base

LEMMA TakeKeeps ==
    ASSUME TypeOK, LockIsFree, Take, kind' = kind
    PROVE  Keeps
  <1>1. version # Deleted /\ Base = version
    BY FreeBase
  <1>2. CASE kind = "integer"
    <2>1. version \in Nat /\ version % 2 = 0
      BY <1>1, <1>2, Halves DEF TypeOK, VersionNumbers, LockIsFree, IsLocked
    <2>2. version' = version + 1
      BY <1>2 DEF Take
    <2> QED
      BY <1>1, <1>2, <2>1, <2>2, Halves DEF Keeps, Base
  <1>3. CASE kind # "integer"
    BY <1>1, <1>3 DEF Take, TypeOK, Keeps, Base
  <1> QED
    BY <1>2, <1>3

LEMMA StepKeeps ==
    ASSUME TypeOK, HoldInv, NEW t \in Thread, Call(t) \/ Step(t), ~Unlock(t), ~Unlockv(t)
    PROVE  Keeps
  <1>1. kind' = kind
    BY StepIsLocal
  <1>2. CASE version' = version
    BY <1>1, <1>2 DEF Keeps, Base
  <1>3. CASE Take /\ LockIsFree
    BY <1>1, <1>3, TakeKeeps
  <1>4. CASE TrylockVersion(t)
    BY <1>2, <1>3, <1>4, NotedIsFree DEF TrylockVersion
  <1>5. CASE Deletes(t)
    <2>1. version' = Deleted \/ version' = version
      BY <1>5 DEF Deletes, TypeOK
    <2> QED
      BY <1>2, <2>1 DEF Keeps
  <1>6. CASE Revert(t)
    <2>1. CASE kind = "integer"
      <3>1. version' = version - 1 /\ pc[t] = "inside"
        BY <1>6, <2>1 DEF Revert
      <3>2. version # Deleted /\ version \in Nat /\ version % 2 = 1 /\ Base = version - 1
        BY <2>1, <3>1, InsideBase
      <3> QED
        BY <1>1, <2>1, <3>1, <3>2, Halves DEF Keeps, Base
    <2>2. CASE kind # "integer"
      BY <1>2, <1>6, <2>2 DEF Revert
    <2> QED
      BY <2>1, <2>2
  <1>7. ASSUME \/ Note(t) \/ TrylockVersionWaits(t) \/ TrylockVersionCompares(t) \/ Fails(t)
               \/ Served(t) \/ LoadSeparate(t) \/ CasSeparate(t) \/ FreeSeparate(t)
               \/ \E compares \in BOOLEAN : Lock(t, compares) \/ DrawTicket(t, compares)
        PROVE  version' = version
    BY <1>7 DEF Note, TrylockVersionWaits, TrylockVersionCompares, Fails, Served, LoadSeparate,
                CasSeparate, FreeSeparate, Lock, DrawTicket
  <1>8. ASSUME TrylockVersionTakes(t) \/ Trylock(t) \/ LockCas(t)
        PROVE  Take /\ LockIsFree
    BY <1>8 DEF TrylockVersionTakes, Trylock, LockCas
  <1> QED
    BY <1>2, <1>3, <1>4, <1>5, <1>6, <1>7, <1>8, VdeleteCases DEF Call, Step, Locking

\* What a thread knows of the version it has noted.
NotedOf(t) ==
    pc[t] # "outside" /\ version # Deleted =>
        /\ noted[t].version <= Base + (IF kind = "integer" THEN 1 ELSE 0)
        /\ changed[t] => noted[t].version < Base

\* A step of thread t that is no unlock and no note leaves all as they were, or outside.
LEMMA StepNotes ==
    ASSUME TypeOK, NEW t \in Thread, Call(t) \/ Step(t), ~Unlock(t), ~Unlockv(t), ~Note(t),
           NEW u \in Thread
    PROVE  \/ pc'[u] = "outside"
           \/ pc[u] # "outside" /\ noted'[u] = noted[u] /\ changed'[u] = changed[u]
  <1> USE DEF TypeOK, Inside, Outside, Goto
  <1>1. CASE TrylockVersion(t) \/ TrylockVersionWaits(t) \/ TrylockVersionTakes(t)
             \/ TrylockVersionCompares(t)
    BY <1>1 DEF TrylockVersion, TrylockVersionWaits, TrylockVersionTakes, TrylockVersionCompares
  <1>2. CASE Trylock(t) \/ Deletes(t) \/ Fails(t)
    BY <1>2 DEF Trylock, Deletes, Fails
  <1>3. CASE \E compares \in BOOLEAN : Lock(t, compares) \/ DrawTicket(t, compares)
    BY <1>3 DEF Lock, DrawTicket
  <1>4. CASE LockCas(t) \/ Served(t) \/ LoadSeparate(t) \/ CasSeparate(t)
    BY <1>4 DEF LockCas, Served, LoadSeparate, CasSeparate
  <1>5. CASE FreeSeparate(t) \/ Revert(t)
    BY <1>5 DEF FreeSeparate, Revert
  <1> QED
    BY <1>1, <1>2, <1>3, <1>4, <1>5, VdeleteCases DEF Call, Step, Locking

LEMMA NotedInductive ==
    ASSUME TypeOK, HoldInv, NotedInv, NEW t \in Thread, Call(t) \/ Step(t)
    PROVE  NotedInv'
  <1> SUFFICES ASSUME NEW u \in Thread
               PROVE  NotedOf(u)'
    BY DEF NotedInv, NotedOf
  <1>1. NotedOf(u) /\ kind' = kind
    BY StepIsLocal DEF NotedInv, NotedOf
  <1>2. CASE Note(t)
    <2>1. Keeps
      BY <1>2, <1>1 DEF Note, Keeps, Base
    <2>2. CASE u = t
      <3>1. noted'[u].version = version /\ ~changed'[u] /\ version' = version
        BY <1>2, <2>2 DEF Note, TypeOK
      <3> QED
        BY <1>1, <2>1, <3>1, BaseType DEF NotedOf, Keeps
    <2>3. CASE u # t
      <3>1. noted'[u] = noted[u] /\ changed'[u] = changed[u] /\ pc'[u] = pc[u]
        BY <1>2, <2>3 DEF Note, TypeOK, Goto
      <3> QED
        BY <1>1, <2>1, <3>1 DEF NotedOf, Keeps
    <2> QED
      BY <2>2, <2>3
  <1>3. CASE Unlock(t) \/ Unlockv(t)
    <2>1. pc[t] = "inside" /\ version' = version + 1
      BY <1>3 DEF Unlock, Unlockv
    <2>2. /\ version # Deleted /\ version \in Nat
          /\ Base \in Int /\ 0 <= Base
          /\ Base' = Base + (IF kind = "integer" THEN 2 ELSE 1)
          /\ Base' <= version'
      BY <1>1, <2>1, InsideBase, BaseType, Halves DEF Base
    <2>3. CASE u = t
      <3>1. ~changed'[u]
        BY <1>3, <2>3 DEF Unlock, Unlockv, Changes
      <3>3. noted'[u].version = 0 \/ noted'[u].version = version'
        BY <1>3, <2>3 DEF Unlock, Unlockv, Nothing, TypeOK
      <3>2. version' <= Base' + (IF kind = "integer" THEN 1 ELSE 0)
        BY <2>1, <2>2, BaseType
      <3> QED
        BY <1>1, <2>2, <3>1, <3>2, <3>3 DEF NotedOf
    <2>4. CASE u # t
      <3>1. noted'[u] = noted[u] /\ pc'[u] = pc[u]
        BY <1>3, <2>4 DEF Unlock, Unlockv, TypeOK, Goto
      <3>2. noted[u].version \in Int
        BY DeletedIsOdd DEF TypeOK, VersionNumbers
      <3> QED
        BY <1>1, <2>2, <3>1, <3>2 DEF NotedOf
    <2> QED
      BY <2>3, <2>4
  <1>4. CASE ~Note(t) /\ ~Unlock(t) /\ ~Unlockv(t)
    <2>1. Keeps
      BY <1>4, StepKeeps
    <2>2. \/ pc'[u] = "outside"
          \/ pc[u] # "outside" /\ noted'[u] = noted[u] /\ changed'[u] = changed[u]
      BY <1>4, StepNotes
    <2> QED
      BY <1>1, <2>1, <2>2 DEF NotedOf, Keeps
  <1> QED
    BY <1>2, <1>3, <1>4

-----------------------------------------------------------------------------
(* Success *)

\* The version noted is the one of a lock that was free.
LEMMA SameIsUnchanged ==
    ASSUME TypeOK, NotedInv, NEW t \in Thread, pc[t] # "outside",
           version # Deleted, Base = version, noted[t].version = version
    PROVE  ~changed[t]
  BY BaseType DEF NotedInv

SuccessOf(t) == pc[t] \in {"inside", "deleted"} /\ same[t] => ~changed[t]

LEMMA SuccessInductive ==
    ASSUME TypeOK, UsageInv, HoldInv, TicketInv, NotedInv, SuccessMeansUnchanged,
           NEW t \in Thread, Call(t) \/ Step(t)
    PROVE  SuccessMeansUnchanged'
  <1> SUFFICES ASSUME usage # "blind", NEW u \in Thread
               PROVE  SuccessOf(u)'
    BY StepIsLocal DEF SuccessMeansUnchanged, SuccessOf
  <1>1. SuccessOf(u)
    BY DEF SuccessMeansUnchanged, SuccessOf
  <1> USE DEF SuccessOf, TypeOK, Inside, Outside, Goto
  <1>2. CASE Note(t)
    BY <1>1, <1>2 DEF Note
  <1>3. CASE Unlock(t) \/ Unlockv(t)
    <2>1. CASE u = t
      BY <1>3, <2>1 DEF Unlock, Unlockv
    <2>2. CASE u # t
      <3>1. pc'[u] = pc[u] /\ pc[u] \notin {"inside", "deleted"}
        BY <1>3, <2>2 DEF Unlock, Unlockv, HoldInv, Holds
      <3> QED
        BY <3>1
    <2> QED
      BY <2>1, <2>2
  <1>4. CASE TrylockVersion(t)
    <2>1. CASE ~IsLocked(noted[t].version, noted[t].ticket, FALSE) /\ IsSame(t)
      <3>1. ~changed[t]
        BY <1>4, <2>1, NotedIsFree, FreeBase, SameIsUnchanged DEF TrylockVersion, IsSame
      <3> QED
        BY <1>1, <1>4, <2>1, <3>1 DEF TrylockVersion
    <2>2. CASE ~(~IsLocked(noted[t].version, noted[t].ticket, FALSE) /\ IsSame(t))
      BY <1>1, <1>4, <2>2 DEF TrylockVersion
    <2> QED
      BY <2>1, <2>2
  <1>5. CASE TrylockVersionCompares(t)
    <2>1. CASE IsSame(t)
      <3>1. version # Deleted /\ Base = version
        BY <1>5, DeletedIsOdd DEF TrylockVersionCompares, UsageInv, UsageOf, Base
      <3>2. ~changed[t]
        BY <1>5, <2>1, <3>1, SameIsUnchanged DEF TrylockVersionCompares, IsSame
      <3> QED
        BY <1>1, <1>5, <2>1, <3>2 DEF TrylockVersionCompares
    <2>2. CASE ~IsSame(t)
      BY <1>1, <1>5, <2>2 DEF TrylockVersionCompares
    <2> QED
      BY <2>1, <2>2
  <1>6. CASE Deletes(t)
    <2>1. ~changed[t]
      BY <1>6, FreeBase, SameIsUnchanged DEF Deletes, IsSame
    <2> QED
      BY <1>1, <1>6, <2>1 DEF Deletes
  <1>7. CASE LockCas(t)
    <2>1. CASE pc[t] = "casversion" /\ IsSame(t)
      <3>1. ~changed[t]
        BY <1>7, <2>1, FreeBase, SameIsUnchanged DEF LockCas, IsSame
      <3> QED
        BY <1>1, <1>7, <2>1, <3>1 DEF LockCas
    <2>2. CASE ~(pc[t] = "casversion" /\ IsSame(t))
      BY <1>1, <1>7, <2>2 DEF LockCas
    <2> QED
      BY <2>1, <2>2
  <1>8. CASE Served(t)
    <2>1. CASE pc[t] = "servedversion" /\ noted[t].version = my[t]
      <3>1. version # Deleted /\ Base = version
        BY <1>8, DeletedIsOdd DEF Served, UsageInv, UsageOf, Base
      <3>2. ~changed[t]
        BY <1>8, <2>1, <3>1, SameIsUnchanged DEF Served
      <3> QED
        BY <1>1, <1>8, <2>1, <3>2 DEF Served
    <2>2. CASE ~(pc[t] = "servedversion" /\ noted[t].version = my[t])
      BY <1>1, <1>8, <2>2 DEF Served
    <2> QED
      BY <2>1, <2>2
  <1>9. CASE LoadSeparate(t) \/ CasSeparate(t)
    BY <1>9 DEF LoadSeparate, CasSeparate, UsageInv, UsageOf
  <1>10. CASE TrylockVersionWaits(t) \/ TrylockVersionTakes(t) \/ Trylock(t) \/ Fails(t)
    BY <1>1, <1>10 DEF TrylockVersionWaits, TrylockVersionTakes, Trylock, Fails
  <1>11. CASE \E compares \in BOOLEAN : Lock(t, compares) \/ DrawTicket(t, compares)
    BY <1>1, <1>11 DEF Lock, DrawTicket
  <1>12. CASE FreeSeparate(t) \/ Revert(t)
    BY <1>1, <1>12 DEF FreeSeparate, Revert
  <1> QED
    BY <1>2, <1>3, <1>4, <1>5, <1>6, <1>7, <1>8, <1>9, <1>10, <1>11, <1>12, VdeleteCases
       DEF Call, Step, Locking

-----------------------------------------------------------------------------
(* The whole lock *)

LEMMA StartsInvariant ==
    ASSUME OptikLockAssumption, Init
    PROVE  IInv
  <1> USE DEF Init, OptikLockAssumption
  <1>1. version = 0 /\ 0 % 2 = 0 /\ version # Deleted
    BY DEF Deleted
  <1>2. TypeOK
    <2>1. version \in VersionNumbers /\ version \in Nat /\ ticket \in Int
      BY DEF VersionNumbers
    <2>5. held \in BOOLEAN
      OBVIOUS
    <2>2. noted \in [Thread -> Notes]
      BY NothingType
    <2>3. pc \in [Thread -> PCs] /\ my \in [Thread -> Int]
      BY DEF PCs
    <2>4. same \in [Thread -> BOOLEAN] /\ changed \in [Thread -> BOOLEAN]
      OBVIOUS
    <2> QED
      BY <2>1, <2>2, <2>3, <2>4, <2>5 DEF TypeOK, Notes
  <1>3. UsageInv /\ HoldInv /\ TicketInv
    BY <1>1 DEF UsageInv, UsageOf, HoldInv, Holds, TicketInv, Draws
  <1>4. NotedInv /\ SuccessMeansUnchanged
    BY DEF NotedInv, SuccessMeansUnchanged
  <1> QED
    BY <1>2, <1>3, <1>4 DEF IInv

LEMMA StaysInvariant ==
    ASSUME IInv, [Next]_vars
    PROVE  IInv'
  <1>1. ASSUME NEW t \in Thread, Call(t) \/ Step(t)
        PROVE  IInv'
    <2>1. TypeOK' /\ UsageInv'
      BY <1>1, TypeInductive, UsageInductive DEF IInv
    <2>2. HoldInv' /\ TicketInv'
      BY <1>1, <2>1, HoldInductive, TicketInductive DEF IInv
    <2>3. NotedInv' /\ SuccessMeansUnchanged'
      BY <1>1, NotedInductive, SuccessInductive DEF IInv
    <2> QED
      BY <2>1, <2>2, <2>3 DEF IInv
  <1>2. CASE UNCHANGED vars
    BY <1>2 DEF vars, IInv, TypeOK, UsageInv, UsageOf, HoldInv, Holds, TicketInv, Draws,
                NotedInv, Base, SuccessMeansUnchanged
  <1> QED
    BY <1>1, <1>2 DEF Next

-----------------------------------------------------------------------------
(* What a step looks like from outside *)

LEMMA PhaseMoves ==
    ASSUME IInv, NEW t \in Thread, Call(t) \/ Step(t)
    PROVE  /\ \A u \in Thread \ {t} : Phase(u)' = Phase(u)
           /\ \/ Phase(t)' = Phase(t)
              \/ Phase(t) = "outside" /\ Phase(t)' = "waiting"
              \/ Phase(t) = "inside" /\ Phase(t)' = "outside"
              \/ /\ Phase(t) # "inside" /\ Phase(t)' = "inside"
                 /\ \A u \in Thread : Phase(u) # "inside"
  <1>0. TypeOK /\ UsageInv /\ HoldInv /\ TicketInv /\ pc \in [Thread -> PCs]
    BY DEF IInv, TypeOK
  <1>1. \A u \in Thread \ {t} : Phase(u)' = Phase(u)
    BY <1>0, StepIsLocal DEF Phase
  <1>2. \A u \in Thread : Phase(u) = "inside" <=> Holds(u)
    BY <1>0 DEF Phase, Holds, PCs
  <1>free. LockIsFree => \A u \in Thread : Phase(u) # "inside"
    BY <1>0, <1>2, FreeIsUnheld
  <1> USE DEF Goto
  <1>3. CASE Note(t) \/ TrylockVersionWaits(t) \/ \E compares \in BOOLEAN : Lock(t, compares)
    BY <1>0, <1>1, <1>3 DEF Note, TrylockVersionWaits, Lock, Phase
  <1>4. CASE \E compares \in BOOLEAN : DrawTicket(t, compares)
    BY <1>0, <1>1, <1>4 DEF DrawTicket, Phase
  <1>5. CASE TrylockVersion(t) \/ TrylockVdelete(t)
    <2>1. pc[t] = "noted" /\ (pc'[t] = "outside" \/ (LockIsFree /\ pc'[t] \in {"inside", "deleted"}))
      BY <1>0, <1>5, NotedIsFree DEF TrylockVersion, TrylockVdelete, Inside, Outside
    <2> QED
      BY <1>1, <1>free, <2>1 DEF Phase
  <1>6. CASE Trylock(t) \/ TrylockVersionTakes(t) \/ LockCas(t)
    <2>1. /\ pc[t] \in {"noted", "trywait", "cas", "casversion"} /\ LockIsFree
          /\ pc'[t] \in {"inside", "compare"}
      BY <1>0, <1>6 DEF Trylock, TrylockVersionTakes, LockCas, Inside
    <2> QED
      BY <1>1, <1>free, <2>1 DEF Phase
  <1>7. CASE TrylockVersionCompares(t) \/ FreeSeparate(t) \/ Unlock(t) \/ Unlockv(t) \/ Revert(t)
    <2>1. /\ pc[t] \in {"compare", "free", "inside"}
          /\ pc'[t] \in {"inside", "outside", "free", "noted"}
      BY <1>0, <1>7 DEF TrylockVersionCompares, FreeSeparate, Unlock, Unlockv, Revert, Inside,
         Outside
    <2> QED
      BY <1>1, <2>1 DEF Phase
  <1>8. CASE Served(t)
    <2>1. pc[t] \in {"served", "servedversion"} /\ pc'[t] = "inside" /\ version = my[t]
      BY <1>0, <1>8 DEF Served, Inside
    <2>2. Draws(t) /\ kind = "ticket" /\ version \in Int /\ my[t] \in Int /\ ticket \in Int
      BY <1>0, <2>1 DEF Draws, UsageInv, UsageOf, TypeOK
    <2>3. ASSUME NEW u \in Thread, Holds(u)
          PROVE  FALSE
      <3>1. CASE pc[u] = "inside"
        BY <1>0, <2>1, <2>2, <3>1 DEF TicketInv
      <3>2. CASE pc[u] = "deleted"
        BY <1>0, <2>1, <2>2, <3>2 DEF TicketInv, HoldInv
      <3>3. CASE pc[u] \in {"compare", "free"}
        BY <1>0, <2>2, <3>3 DEF UsageInv, UsageOf
      <3> QED
        BY <2>3, <3>1, <3>2, <3>3 DEF Holds
    <2> QED
      BY <1>1, <1>2, <2>1, <2>3 DEF Phase
  <1>9. CASE LoadSeparate(t)
    BY <1>0, <1>1, <1>9 DEF LoadSeparate, Phase
  <1>10. CASE CasSeparate(t)
    <2>1. /\ pc[t] = "casseparate" /\ kind = "separate"
          /\ pc'[t] = "load" \/ (pc'[t] = "inside" /\ ~held)
      BY <1>0, <1>10 DEF CasSeparate, Inside, UsageInv, UsageOf
    <2>2. ~held => \A u \in Thread : ~Holds(u)
      BY <1>0, <2>1 DEF HoldInv
    <2> QED
      BY <1>1, <1>2, <2>1, <2>2 DEF Phase
  <1> QED
    BY <1>3, <1>4, <1>5, <1>6, <1>7, <1>8, <1>9, <1>10 DEF Call, Step, Locking

-----------------------------------------------------------------------------
(* The theorems *)

\* One thread at a time has the lock, and the inductive invariant holds in every state of
\* the locks of optik.h, whatever the threads do.
THEOREM Invariance ==
    ASSUME OptikLockAssumption
    PROVE  Spec => []IInv
  <1>1. Init => IInv
    BY StartsInvariant
  <1>2. IInv /\ [Next]_vars => IInv'
    BY StaysInvariant
  <1> QED
    BY <1>1, <1>2, PTL DEF Spec

\* A thread that has locked with the version it had noted (optik_trylock_version,
\* optik_trylock_vdelete, optik_lock_version but of the separate kind) finds what the lock
\* protects as it was when it noted the version.
THEOREM SuccessTells ==
    ASSUME OptikLockAssumption
    PROVE  Spec => []SuccessMeansUnchanged
  <1>1. IInv => SuccessMeansUnchanged
    BY DEF IInv
  <1> QED
    BY <1>1, Invariance, PTL
=============================================================================
