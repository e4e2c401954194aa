----------------------------- MODULE HticketLock -----------------------------
(***************************************************************************)
(* The hierarchical ticket lock (src/DLTree/src/htlock.c).  The threads of *)
(* a socket share LocalTickets (NB_TICKETS_LOCAL) local tickets, given out *)
(* downwards.  Who draws -1 waits until they are used up, provides the     *)
(* next ones and gets a ticket of the global lock, with which it enters;   *)
(* it passes the lock on along the local tickets, and the last one gives   *)
(* the global lock back.                                                   *)
(*                                                                         *)
(* Bounds: global tickets are counted modulo Wrap (2^32), and the local    *)
(* counter stays where it is at Floor: all values below -1 are alike.      *)
(*                                                                         *)
(* A socket has at most LocalTickets + 1 threads: with one more, Refill    *)
(* may give out local tickets while the last ones are still in use,        *)
(* because localp->cur is NB_TICKETS_LOCAL not only when they are used up  *)
(* but also until the thread that has provided them first passes the lock  *)
(* on; a thread can then draw the ticket that is being served.             *)
(***************************************************************************)
EXTENDS Integers, Sequences, FiniteSets

CONSTANTS
    Thread,
    Socket,         \* Socket[t]: my_node
    LocalTickets,
    Wrap,
    Floor

Sockets == {Socket[t] : t \in Thread}

HticketAssumption ==
    /\ IsFiniteSet(Thread)
    /\ LocalTickets \in Nat \ {0}
    /\ \A s \in Sockets : Cardinality({t \in Thread : Socket[t] = s}) <= LocalTickets + 1
    /\ Wrap \in Nat /\ Wrap > Cardinality(Thread)
    /\ Floor \in Int /\ Floor < -1

VARIABLES
    localNxt, localCur,     \* of each socket
    globalNxt, globalCur,
    my,                     \* the ticket a thread has drawn; the value release has read
    pc

vars == <<localNxt, localCur, globalNxt, globalCur, my, pc>>

Init ==
    /\ localNxt = [s \in Sockets |-> 0]
    /\ localCur = [s \in Sockets |-> LocalTickets]
    /\ globalNxt = 0
    /\ globalCur = 0
    /\ my = [t \in Thread |-> 0]
    /\ pc = [t \in Thread |-> "outside"]

Goto(t, l) == pc' = [pc EXCEPT ![t] = l]

-----------------------------------------------------------------------------
(* htlock_lock *)

CallLock(t) ==
    /\ pc[t] = "outside"
    /\ Goto(t, "draw")
    /\ UNCHANGED <<localNxt, localCur, globalNxt, globalCur, my>>

\* local_ticket = DAF_U32(&localp->nxt)
Draw(t) ==
    /\ pc[t] = "draw"
    /\ LET s == Socket[t]
           n == localNxt[s] - 1
       IN /\ localNxt' = [localNxt EXCEPT ![s] = IF n < Floor THEN Floor ELSE n]
          /\ IF n < -1 THEN Goto(t, "draw") /\ UNCHANGED my
             ELSE /\ my' = [my EXCEPT ![t] = IF n = -1 THEN 0 ELSE n]
                  /\ Goto(t, IF n = -1 THEN "refill" ELSE "local")
    /\ UNCHANGED <<localCur, globalNxt, globalCur>>

\* htlock_wait_ticket
WaitLocal(t) ==
    /\ pc[t] = "local"
    /\ localCur[Socket[t]] = my[t]
    /\ Goto(t, "inside")
    /\ UNCHANGED <<localNxt, localCur, globalNxt, globalCur, my>>

\* The wait for localp->cur, then localp->nxt = NB_TICKETS_LOCAL.
Refill(t) ==
    /\ pc[t] = "refill"
    /\ localCur[Socket[t]] = LocalTickets
    /\ localNxt' = [localNxt EXCEPT ![Socket[t]] = LocalTickets]
    /\ Goto(t, "drawglobal")
    /\ UNCHANGED <<localCur, globalNxt, globalCur, my>>

\* global_ticket = FAI_U32(&globalp->nxt)
DrawGlobal(t) ==
    /\ pc[t] = "drawglobal"
    /\ my' = [my EXCEPT ![t] = globalNxt]
    /\ globalNxt' = (globalNxt + 1) % Wrap
    /\ Goto(t, "global")
    /\ UNCHANGED <<localNxt, localCur, globalCur>>

\* htlock_wait_global
WaitGlobal(t) ==
    /\ pc[t] = "global"
    /\ globalCur = my[t]
    /\ my' = [my EXCEPT ![t] = 0]
    /\ Goto(t, "inside")
    /\ UNCHANGED <<localNxt, localCur, globalNxt, globalCur>>

-----------------------------------------------------------------------------
(* htlock_release *)

\* Mutant: the lock is passed on within the socket even if nobody there has a ticket.
Release_AlwaysPasses(t) ==
    /\ pc[t] = "inside"
    /\ my' = [my EXCEPT ![t] = localCur[Socket[t]]]
    /\ Goto(t, IF localCur[Socket[t]] = 0 THEN "reset" ELSE "pass")
    /\ UNCHANGED <<localNxt, localCur, globalNxt, globalCur>>

\* local_nxt = CAS_U32(&localp->nxt, local_cur, 0); only who is inside writes localp->cur.
Release(t) ==
    /\ pc[t] = "inside"
    /\ LET s == Socket[t]
           cur == localCur[s]
       IN /\ localNxt' = [localNxt EXCEPT ![s] = IF @ = cur THEN 0 ELSE @]
          /\ my' = [my EXCEPT ![t] = cur]
          /\ Goto(t, IF cur = 0 \/ localNxt[s] = cur THEN "reset" ELSE "pass")
    /\ UNCHANGED <<localCur, globalNxt, globalCur>>

\* localp->cur = local_cur - 1
PassLocal(t) ==
    /\ pc[t] = "pass"
    /\ localCur' = [localCur EXCEPT ![Socket[t]] = my[t] - 1]
    /\ my' = [my EXCEPT ![t] = 0]
    /\ Goto(t, "outside")
    /\ UNCHANGED <<localNxt, globalNxt, globalCur>>

\* localp->cur = NB_TICKETS_LOCAL
Reset(t) ==
    /\ pc[t] = "reset"
    /\ localCur' = [localCur EXCEPT ![Socket[t]] = LocalTickets]
    /\ my' = [my EXCEPT ![t] = 0]
    /\ Goto(t, "giveback")
    /\ UNCHANGED <<localNxt, globalNxt, globalCur>>

\* l->global->cur++
GiveBack(t) ==
    /\ pc[t] = "giveback"
    /\ globalCur' = (globalCur + 1) % Wrap
    /\ Goto(t, "outside")
    /\ UNCHANGED <<localNxt, localCur, globalNxt, my>>

-----------------------------------------------------------------------------
(* htlock_trylock, which takes the global lock alone, and htlock_release_try *)

TryLock(t) ==
    /\ pc[t] = "outside"
    /\ globalCur = globalNxt
    /\ globalNxt' = (globalNxt + 1) % Wrap
    /\ Goto(t, "tried")
    /\ UNCHANGED <<localNxt, localCur, globalCur, my>>

ReleaseTry(t) ==
    /\ pc[t] = "tried"
    /\ Goto(t, "outside")
    /\ globalCur' = (globalCur + 1) % Wrap
    /\ UNCHANGED <<localNxt, localCur, globalNxt, my>>

-----------------------------------------------------------------------------
Call(t) == CallLock(t) \/ TryLock(t)
Step(t) ==
    \/ Draw(t) \/ WaitLocal(t) \/ Refill(t) \/ DrawGlobal(t) \/ WaitGlobal(t)
    \/ Release(t) \/ PassLocal(t) \/ Reset(t) \/ GiveBack(t) \/ ReleaseTry(t)

Next == \E t \in Thread : Call(t) \/ Step(t)

Spec == Init /\ [][Next]_vars

\* A thread is inside until it has passed the lock on.
Phase(t) ==
    CASE pc[t] = "outside" -> "outside"
      [] pc[t] \in {"draw", "local", "refill", "drawglobal", "global"} -> "waiting"
      [] OTHER -> "inside"

-----------------------------------------------------------------------------
(* The inductive invariant *)

TypeOK ==
    /\ localNxt \in [Sockets -> Floor .. LocalTickets]
    /\ localCur \in [Sockets -> 0 .. LocalTickets]
    /\ globalNxt \in 0 .. Wrap - 1 /\ globalCur \in 0 .. Wrap - 1
    /\ my \in [Thread -> Nat]
    /\ pc \in [Thread -> {"outside", "draw", "local", "refill", "drawglobal", "global",
                          "inside", "pass", "reset", "giveback", "tried"}]

\* The control points at which a thread has the global lock, those at which no thread of
\* its socket can have another batch of local tickets, and those before it has the lock
Holds(t) == pc[t] \in {"inside", "pass", "reset", "giveback", "tried"}
Deals(t) == pc[t] \in {"drawglobal", "global", "inside", "pass"}
Refills(t) == pc[t] \in {"drawglobal", "global"}

\* A socket has the lock from when it is passed on within it until it is reset.
Passes(s) == localCur[s] # LocalTickets

\* One thread has the lock, or one socket, of which one thread does or is about to.
HoldInv ==
    /\ \A t, u \in Thread : Holds(t) /\ Holds(u) => t = u
    /\ \A r, s \in Sockets : Passes(r) /\ Passes(s) => r = s
    /\ \A t \in Thread, s \in Sockets :
         Holds(t) /\ Passes(s) => Socket[t] = s /\ pc[t] \in {"inside", "pass", "reset"}

SomeoneDeals(s) == \E t \in Thread : Socket[t] = s /\ Deals(t)

\* The local tickets of a socket are in use.
Open(s) ==
    \/ SomeoneDeals(s)
    \/ Passes(s) /\ \A t \in Thread : Socket[t] = s => pc[t] # "reset"

\* The local tickets drawn and not served yet are those from Bottom to below Top.
Top(s) == IF SomeoneDeals(s) THEN localCur[s] ELSE localCur[s] + 1
Bottom(s) == IF localNxt[s] < 0 THEN 0 ELSE localNxt[s]
Local(s) == {t \in Thread : Socket[t] = s /\ pc[t] = "local"}

LocalInv ==
    \A s \in Sockets :
        IF Open(s)
        THEN /\ Bottom(s) <= localCur[s]
             /\ Cardinality(Local(s)) = Top(s) - Bottom(s)
             /\ \A t \in Local(s) : Bottom(s) <= my[t] /\ my[t] < Top(s)
             /\ \A t, u \in Local(s) : my[t] = my[u] => t = u
        ELSE Local(s) = {} /\ Bottom(s) = 0

\* Who has drawn -1 is alone with it, and so is who provides the next local tickets.
DealInv ==
    /\ \A t \in Thread : pc[t] = "refill" => localNxt[Socket[t]] < 0
    /\ \A t, u \in Thread : Socket[t] = Socket[u] =>
         /\ pc[t] = "refill" /\ pc[u] = "refill" => t = u
         /\ Deals(t) /\ Deals(u) => t = u
    /\ \A t \in Thread : Refills(t) => ~Passes(Socket[t])
    /\ \A t \in Thread : pc[t] = "pass" =>
         my[t] = localCur[Socket[t]] /\ Bottom(Socket[t]) < my[t]

\* How far a global ticket is from the one that is served
Ahead(n) == IF globalCur <= n THEN n - globalCur ELSE n + Wrap - globalCur

Held == IF (\E t \in Thread : Holds(t)) \/ (\E s \in Sockets : Passes(s)) THEN 1 ELSE 0
Global == {t \in Thread : pc[t] = "global"}

\* The global tickets drawn are different and not served yet, and they have not wrapped.
GlobalInv ==
    /\ Ahead(globalNxt) = Held + Cardinality(Global)
    /\ \A t \in Global : /\ my[t] \in 0 .. Wrap - 1
                         /\ Held <= Ahead(my[t]) /\ Ahead(my[t]) < Ahead(globalNxt)
    /\ \A t, u \in Global : my[t] = my[u] => t = u

IInv == TypeOK /\ HoldInv /\ LocalInv /\ DealInv /\ GlobalInv
=============================================================================
