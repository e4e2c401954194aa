------------------------------ MODULE OptikLock ------------------------------
(***************************************************************************)
(* The OPTIK locks (src/DLTree/include/optik.h): locks with a version, so  *)
(* that a thread can note the version, read what the lock protects without *)
(* it, and then lock and learn whether anything has changed since.         *)
(*                                                                         *)
(*   "integer"   the version is odd while the lock is held                 *)
(*   "ticket"    a ticket lock, whose served number is the version         *)
(*   "separate"  a test-and-set lock and a version                         *)
(*                                                                         *)
(* As the callers do, the threads use a lock either with locks that wait   *)
(* (usage "wait") or with reverts and deletions (usage "try"): a revert    *)
(* of the ticket version would take the number of a thread that waits.     *)
(* usage "blind" is optik_lock_version of the separate kind.               *)
(* Loads right before a CAS of what they loaded are one step with it.      *)
(* Versions and tickets are numbers that do not wrap around: they have 64  *)
(* bits in the integer kind and 32 in the others, so it would take as many *)
(* critical sections while one thread has a version noted.                 *)
(***************************************************************************)
EXTENDS Integers, FiniteSets

CONSTANTS
    Thread,
    MaxOps           \* bound: versions the threads note, together

OptikLockAssumption == IsFiniteSet(Thread) /\ MaxOps \in Nat

VARIABLES
    kind, usage,
    version,      \* the version; Deleted for good
    ticket,       \* of "ticket": the next ticket
    held,         \* of "separate": the lock
    pc,           \* control points
    noted,        \* the version, ticket and lock a thread has noted
    my,           \* its ticket, or the version lock_version has read
    same,         \* the result of its last lock: the version was the one noted
    left,         \* versions that may still be noted
    changed       \* history: somebody has unlocked since the thread noted the version

vars == <<kind, usage, version, ticket, held, pc, noted, my, same, left, changed>>

Deleted == -1
Nothing == [version |-> 0, ticket |-> 0, held |-> FALSE]

Init ==
    /\ kind \in {"integer", "ticket", "separate"}
    /\ usage \in {"wait", "try", "blind"}
    /\ usage = "blind" => kind = "separate"
    /\ version = 0
    /\ ticket = 0
    /\ held = FALSE
    /\ pc = [t \in Thread |-> "outside"]
    /\ noted = [t \in Thread |-> Nothing]
    /\ my = [t \in Thread |-> 0]
    /\ same = [t \in Thread |-> FALSE]
    /\ left = MaxOps
    /\ changed = [t \in Thread |-> FALSE]

Goto(t, l) == pc' = [pc EXCEPT ![t] = l]

\* optik_is_locked, of the lock or of what a thread has noted
IsLocked(v, tk, h) ==
    \/ kind = "integer" /\ v % 2 = 1
    \/ kind = "ticket" /\ tk # v
    \/ kind = "separate" /\ h

LockIsFree == ~IsLocked(version, ticket, held)

\* The change that takes the free lock.
Take ==
    \/ kind = "integer" /\ version' = version + 1 /\ UNCHANGED <<ticket, held>>
    \/ kind = "ticket" /\ ticket' = ticket + 1 /\ UNCHANGED <<version, held>>
    \/ kind = "separate" /\ held' = TRUE /\ UNCHANGED <<version, ticket>>

\* The versions are the ones noted: optik_is_same_version.
IsSame(t) ==
    /\ noted[t].version = version
    /\ kind = "ticket" => noted[t].ticket = ticket

-----------------------------------------------------------------------------
Note(t) ==
    /\ pc[t] = "outside"
    /\ left > 0
    /\ left' = left - 1
    /\ noted' = [noted EXCEPT ![t] = [version |-> version, ticket |-> ticket, held |-> held]]
    /\ changed' = [changed EXCEPT ![t] = FALSE]
    /\ Goto(t, "noted")
    /\ UNCHANGED <<kind, usage, version, ticket, held, my, same>>

Inside(t, result) ==
    /\ Goto(t, "inside")
    /\ same' = [same EXCEPT ![t] = result]
    /\ UNCHANGED <<noted, changed>>

\* What a thread has noted is of no use to it any more.
Outside(t) ==
    /\ Goto(t, "outside")
    /\ same' = [same EXCEPT ![t] = FALSE]
    /\ noted' = [noted EXCEPT ![t] = Nothing]
    /\ changed' = [changed EXCEPT ![t] = FALSE]

\* Mutant: the lock is taken if it is free.
TrylockVersion_Blind(t) ==
    /\ pc[t] = "noted" /\ kind # "separate"
    /\ IF LockIsFree
         THEN Take /\ Inside(t, TRUE)
         ELSE UNCHANGED <<version, ticket, held>> /\ Outside(t)
    /\ UNCHANGED <<kind, usage, my, left>>

\* optik_trylock_version: the noted version was free, and is still there.
TrylockVersion(t) ==
    /\ pc[t] = "noted" /\ kind # "separate"
    /\ IF ~IsLocked(noted[t].version, noted[t].ticket, FALSE) /\ IsSame(t)
         THEN Take /\ Inside(t, TRUE)
         ELSE UNCHANGED <<version, ticket, held>> /\ Outside(t)
    /\ UNCHANGED <<kind, usage, my, left>>

\* optik_trylock_version of the separate kind waits for the lock ...
TrylockVersionWaits(t) ==
    /\ pc[t] = "noted" /\ kind = "separate" /\ usage # "blind"
    /\ Goto(t, "trywait")
    /\ UNCHANGED <<kind, usage, version, ticket, held, noted, my, same, left, changed>>

TrylockVersionTakes(t) ==
    /\ pc[t] = "trywait"
    /\ LockIsFree /\ Take
    /\ Goto(t, "compare")
    /\ UNCHANGED <<kind, usage, noted, my, same, left, changed>>

\* ... and gives it back when the version is not the one noted.
TrylockVersionCompares(t) ==
    /\ pc[t] = "compare"
    /\ IF IsSame(t) THEN Inside(t, TRUE) /\ UNCHANGED held
                    ELSE held' = FALSE /\ Outside(t)
    /\ UNCHANGED <<kind, usage, version, ticket, my, left>>

\* optik_trylock
Trylock(t) ==
    /\ pc[t] = "noted" /\ usage # "blind"
    /\ LockIsFree /\ Take
    /\ Inside(t, FALSE)
    /\ UNCHANGED <<kind, usage, my, left>>

\* optik_trylock_vdelete: the lock is never free again.  The ticket kind keeps the version
\* and moves the ticket behind it; the separate kind has no deletion.
TrylockVdelete(t) ==
    /\ pc[t] = "noted" /\ usage = "try" /\ kind # "separate"
    /\ IF ~IsLocked(noted[t].version, noted[t].ticket, FALSE) /\ IsSame(t)
         THEN /\ IF kind = "integer" THEN version' = Deleted /\ UNCHANGED ticket
                                     ELSE ticket' = version - 1 /\ UNCHANGED version
              /\ Goto(t, "deleted")
              /\ same' = [same EXCEPT ![t] = TRUE]
              /\ UNCHANGED <<noted, changed>>
         ELSE UNCHANGED <<version, ticket>> /\ Outside(t)
    /\ UNCHANGED <<kind, usage, held, my, left>>

-----------------------------------------------------------------------------
(* optik_lock, optik_lock_backoff and optik_lock_version(_backoff) *)

\* Integer: the CAS of an even version; the result compares the one it replaced.
Lock(t, compares) ==
    /\ pc[t] = "noted" /\ usage = "wait"
    /\ kind = "integer" \/ (kind = "separate" /\ ~compares)
    /\ Goto(t, IF compares THEN "casversion" ELSE "cas")
    /\ UNCHANGED <<kind, usage, version, ticket, held, noted, my, same, left, changed>>

LockCas(t) ==
    /\ pc[t] \in {"cas", "casversion"}
    /\ LockIsFree /\ Take
    /\ Inside(t, pc[t] = "casversion" /\ IsSame(t))
    /\ UNCHANGED <<kind, usage, my, left>>

\* Ticket: the result compares the ticket drawn.
DrawTicket(t, compares) ==
    /\ pc[t] = "noted" /\ usage = "wait" /\ kind = "ticket"
    /\ my' = [my EXCEPT ![t] = ticket]
    /\ ticket' = ticket + 1
    /\ Goto(t, IF compares THEN "servedversion" ELSE "served")
    /\ UNCHANGED <<kind, usage, version, held, noted, same, left, changed>>

Served(t) ==
    /\ pc[t] \in {"served", "servedversion"}
    /\ version = my[t]
    /\ Inside(t, pc[t] = "servedversion" /\ noted[t].version = my[t])
    /\ my' = [my EXCEPT ![t] = 0]
    /\ UNCHANGED <<kind, usage, version, ticket, held, left>>

\* Separate: optik_lock_version loads the lock, with its version, until it is free, and
\* then takes it, whatever the version is by then.
LoadSeparate(t) ==
    /\ pc[t] \in {"noted", "load"} /\ usage = "blind"
    /\ ~held
    /\ my' = [my EXCEPT ![t] = version]
    /\ Goto(t, "casseparate")
    /\ UNCHANGED <<kind, usage, version, ticket, held, noted, same, left, changed>>

CasSeparate(t) ==
    /\ pc[t] = "casseparate"
    /\ IF held THEN UNCHANGED <<held, same, noted, changed>> /\ Goto(t, "load")
               ELSE held' = TRUE /\ Inside(t, my[t] = noted[t].version)
    /\ UNCHANGED <<kind, usage, version, ticket, my, left>>

-----------------------------------------------------------------------------
(* optik_unlock, optik_unlockv, optik_revert *)

\* What the lock protects counts as changed for all others that have noted the version.
Changes(t) == changed' = [u \in Thread |-> u # t /\ pc[u] # "outside"]

\* The version moves on, which frees the lock except of the separate kind.
Unlock(t) ==
    /\ pc[t] = "inside"
    /\ version' = version + 1
    /\ Goto(t, IF kind = "separate" THEN "free" ELSE "outside")
    /\ my' = [my EXCEPT ![t] = 0]
    /\ same' = [same EXCEPT ![t] = FALSE]
    /\ noted' = [noted EXCEPT ![t] = Nothing]
    /\ Changes(t)
    /\ UNCHANGED <<kind, usage, ticket, held, left>>

FreeSeparate(t) ==
    /\ pc[t] = "free"
    /\ held' = FALSE
    /\ Goto(t, "outside")
    /\ UNCHANGED <<kind, usage, version, ticket, noted, my, same, left, changed>>

\* The atomic increment returns the new version, which its caller may go on with.
Unlockv(t) ==
    /\ pc[t] = "inside" /\ kind # "separate" /\ left > 0
    /\ left' = left - 1
    /\ version' = version + 1
    /\ noted' = [noted EXCEPT ![t] =
                   [version |-> version + 1, ticket |-> ticket, held |-> held]]
    /\ Goto(t, "noted")
    /\ my' = [my EXCEPT ![t] = 0]
    /\ same' = [same EXCEPT ![t] = FALSE]
    /\ Changes(t)
    /\ UNCHANGED <<kind, usage, ticket, held>>

\* The lock is freed with the version it had: nothing has changed.  (A revert of the
\* separate kind is an unlock.)
Revert(t) ==
    /\ pc[t] = "inside" /\ usage = "try" /\ kind # "separate"
    /\ IF kind = "integer" THEN version' = version - 1 /\ UNCHANGED ticket
                           ELSE ticket' = ticket - 1 /\ UNCHANGED version
    /\ Outside(t)
    /\ UNCHANGED <<kind, usage, held, my, left>>

-----------------------------------------------------------------------------
Call(t) == Note(t)

Locking(t) ==
    \/ TrylockVersion(t) \/ TrylockVersionWaits(t) \/ Trylock(t) \/ TrylockVdelete(t)
    \/ \E compares \in BOOLEAN : Lock(t, compares) \/ DrawTicket(t, compares)
    \/ TrylockVersionTakes(t) \/ TrylockVersionCompares(t) \/ LockCas(t) \/ Served(t)
    \/ LoadSeparate(t) \/ CasSeparate(t)

Step(t) == Locking(t) \/ Unlock(t) \/ FreeSeparate(t) \/ Unlockv(t) \/ Revert(t)

Next == \E t \in Thread : Call(t) \/ Step(t)

Spec == Init /\ [][Next]_vars

\* Who has noted a version does not wait yet; a lock that has been deleted is held by
\* the thread that has deleted it.
Phase(t) ==
    CASE pc[t] \in {"outside", "noted"} -> "outside"
      [] pc[t] \in {"trywait", "cas", "casversion", "served", "servedversion", "load",
                    "casseparate"} -> "waiting"
      [] OTHER -> "inside"

-----------------------------------------------------------------------------
\* A thread that has locked with the version it had noted finds what the lock protects
\* as it was when it noted it: nobody who was inside then or later has changed it
\* (optik_trylock_version, optik_trylock_vdelete, optik_lock_version but of the separate kind).
SuccessMeansUnchanged ==
    usage # "blind" =>
        \A t \in Thread : pc[t] \in {"inside", "deleted"} /\ same[t] => ~changed[t]

\* The inductive invariant behind it.

VersionNumbers == Nat \union {Deleted}
PCs == {"outside", "noted", "trywait", "compare", "cas", "casversion", "served",
        "servedversion", "load", "casseparate", "inside", "free", "deleted"}

TypeOK ==
    /\ kind \in {"integer", "ticket", "separate"}
    /\ usage \in {"wait", "try", "blind"}
    /\ version \in VersionNumbers /\ (kind # "integer" => version \in Nat)
    /\ ticket \in Int
    /\ held \in BOOLEAN
    /\ pc \in [Thread -> PCs]
    /\ noted \in [Thread -> [version : VersionNumbers, ticket : Int, held : BOOLEAN]]
    /\ my \in [Thread -> Int]
    /\ same \in [Thread -> BOOLEAN]
    /\ left \in Nat
    /\ changed \in [Thread -> BOOLEAN]

\* Each kind, and each usage, has its own control points.
UsageOf(t) ==
    /\ pc[t] \in {"trywait", "compare", "free", "load", "casseparate"} => kind = "separate"
    /\ pc[t] \in {"served", "servedversion"} => kind = "ticket" /\ usage = "wait"
    /\ pc[t] = "cas" => kind # "ticket"
    /\ pc[t] = "casversion" => kind = "integer"
    /\ pc[t] \in {"cas", "casversion"} => usage = "wait"
    /\ pc[t] = "deleted" => kind # "separate" /\ usage = "try"
    /\ pc[t] \in {"load", "casseparate"} => usage = "blind"

UsageInv ==
    /\ usage = "blind" => kind = "separate"
    /\ \A t \in Thread : UsageOf(t)

\* Thread t has the lock, a deleted one included.
Holds(t) == pc[t] \in {"inside", "compare", "free", "deleted"}

\* One thread has the lock, and the lock says so.
HoldInv ==
    /\ \A t, u \in Thread : Holds(t) /\ Holds(u) => t = u
    /\ kind = "integer" => (version % 2 = 1 <=> \E t \in Thread : Holds(t))
    /\ kind = "integer" => \A t \in Thread : Holds(t) => (version = Deleted <=> pc[t] = "deleted")
    /\ kind = "separate" => (held <=> \E t \in Thread : Holds(t))
    /\ kind = "ticket" => \A t \in Thread : /\ pc[t] = "inside" => version < ticket
                                            /\ pc[t] = "deleted" => ticket < version

Draws(t) == pc[t] \in {"served", "servedversion"}

\* The tickets drawn are all different, and none of them is that of the thread inside.
TicketInv ==
    /\ \A t \in Thread : Draws(t) => version <= my[t] /\ my[t] < ticket
    /\ \A t, u \in Thread : Draws(t) /\ Draws(u) /\ my[t] = my[u] => t = u
    /\ \A t, u \in Thread : Draws(t) /\ pc[u] = "inside" => version < my[t]
    /\ kind = "ticket" => version <= ticket \/ \E t \in Thread : pc[t] = "deleted"

\* The version the lock has, or had when it was taken.
Base == IF kind = "integer" THEN version - (version % 2) ELSE version

\* A change is behind what a thread has noted until the version has moved past it for good:
\* an odd version may come back after a revert, but is no version to lock with.
NotedInv ==
    \A t \in Thread :
        pc[t] # "outside" /\ version # Deleted =>
            /\ noted[t].version <= Base + (IF kind = "integer" THEN 1 ELSE 0)
            /\ changed[t] => noted[t].version < Base

IInv == TypeOK /\ UsageInv /\ HoldInv /\ TicketInv /\ NotedInv /\ SuccessMeansUnchanged

\* "version is accessed in critical section" (COMPILE, of the separate kind): the lock
\* that optik_lock_version has taken has the version that it compared.
VersionIsCurrent ==
    kind = "separate" =>
        \A t \in Thread : pc[t] = "inside" /\ same[t] => version = noted[t].version
=============================================================================
