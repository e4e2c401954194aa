------------------------------- MODULE SpinLock -------------------------------
(***************************************************************************)
(* The locks of src/DLTree/include/lock_if.h on one word: test-and-set     *)
(* ("tas"), test and test-and-set ("ttas") and the ticket lock ("ticket"). *)
(* Tickets are counted modulo Wrap, 2^32 in the code; a lock works as long *)
(* as there are fewer threads than that.                                   *)
(***************************************************************************)
EXTENDS Naturals, Sequences, FiniteSets, Functions

CONSTANTS Thread, Wrap

SpinLockAssumption ==
    /\ IsFiniteSet(Thread)
    /\ Wrap \in Nat /\ Wrap > Cardinality(Thread)

VARIABLES
    kind,     \* "tas", "ttas" or "ticket"
    word,     \* of "tas" and "ttas": TAS_LCKD, held, or TAS_FREE
    ticket,   \* of "ticket": the next ticket to draw
    curr,     \* of "ticket": the ticket that is served
    pc,       \* control points
    my,       \* the ticket a thread has drawn
    line      \* history: the threads that wait, in the order of their tickets

vars == <<kind, word, ticket, curr, pc, my, line>>

Init ==
    /\ kind \in {"tas", "ttas", "ticket"}
    /\ word = "free"
    /\ ticket = 0
    /\ curr = 0
    /\ pc = [t \in Thread |-> "outside"]
    /\ my = [t \in Thread |-> 0]
    /\ line = <<>>

Goto(t, l) == pc' = [pc EXCEPT ![t] = l]

-----------------------------------------------------------------------------
(* TAS and TTAS *)

CallLock(t) ==
    /\ kind \in {"tas", "ttas"} /\ pc[t] = "outside"
    /\ Goto(t, IF kind = "tas" THEN "cas" ELSE "look")
    /\ UNCHANGED <<kind, word, ticket, curr, my, line>>

\* while (*l == TTAS_LCKD)
Look(t) ==
    /\ pc[t] = "look"
    /\ word = "free"
    /\ Goto(t, "cas")
    /\ UNCHANGED <<kind, word, ticket, curr, my, line>>

\* CAS_UTYPE(l, TAS_FREE, TAS_LCKD), which "tas" repeats and "ttas" comes back to.
Cas(t) ==
    /\ pc[t] = "cas"
    /\ IF word = "free" THEN word' = "held" /\ Goto(t, "inside")
       ELSE UNCHANGED word /\ Goto(t, IF kind = "tas" THEN "cas" ELSE "look")
    /\ UNCHANGED <<kind, ticket, curr, my, line>>

\* tas_trylock, ttas_trylock; a failure changes nothing.
TryLock(t) ==
    /\ kind \in {"tas", "ttas"} /\ pc[t] = "outside"
    /\ word = "free" /\ word' = "held"
    /\ Goto(t, "inside")
    /\ UNCHANGED <<kind, ticket, curr, my, line>>

Unlock(t) ==
    /\ kind \in {"tas", "ttas"} /\ pc[t] = "inside"
    /\ word' = "free"
    /\ Goto(t, "outside")
    /\ UNCHANGED <<kind, ticket, curr, my, line>>

-----------------------------------------------------------------------------
(* The ticket lock *)

\* ticket = FAI_U32(&l->ticket)
Draw(t) ==
    /\ kind = "ticket" /\ pc[t] = "outside"
    /\ my' = [my EXCEPT ![t] = ticket]
    /\ ticket' = (ticket + 1) % Wrap
    /\ Goto(t, "wait")
    /\ line' = Append(line, t)
    /\ UNCHANGED <<kind, word, curr>>

Served(t) ==
    /\ pc[t] = "wait"
    /\ curr = my[t]
    /\ Goto(t, "inside")
    /\ line' = Tail(line)
    /\ UNCHANGED <<kind, word, ticket, curr, my>>

\* Mutant: the CAS covers the ticket alone, not the ticket that is served.
TryTicket_Half(t) ==
    /\ kind = "ticket" /\ pc[t] = "outside"
    /\ ticket' = (ticket + 1) % Wrap
    /\ Goto(t, "inside")
    /\ UNCHANGED <<kind, word, curr, my, line>>

\* ticket_trylock: the CAS of the two numbers, which are equal; or nothing.
TryTicket(t) ==
    /\ kind = "ticket" /\ pc[t] = "outside"
    /\ curr = ticket
    /\ ticket' = (ticket + 1) % Wrap
    /\ Goto(t, "inside")
    /\ UNCHANGED <<kind, word, curr, my, line>>

\* l->curr++, by the one thread inside
Serve(t) ==
    /\ kind = "ticket" /\ pc[t] = "inside"
    /\ curr' = (curr + 1) % Wrap
    /\ my' = [my EXCEPT ![t] = 0]
    /\ Goto(t, "outside")
    /\ UNCHANGED <<kind, word, ticket, line>>

-----------------------------------------------------------------------------
Call(t) == CallLock(t) \/ TryLock(t) \/ Draw(t) \/ TryTicket(t)
Step(t) == Look(t) \/ Cas(t) \/ Unlock(t) \/ Served(t) \/ Serve(t)

Next == \E t \in Thread : Call(t) \/ Step(t)

Spec == Init /\ [][Next]_vars

Phase(t) ==
    IF pc[t] \in {"outside", "inside"} THEN pc[t] ELSE "waiting"

-----------------------------------------------------------------------------
(* The inductive invariant *)

TypeOK ==
    /\ kind \in {"tas", "ttas", "ticket"}
    /\ word \in {"free", "held"}
    /\ ticket \in 0 .. Wrap - 1 /\ curr \in 0 .. Wrap - 1
    /\ pc \in [Thread -> {"outside", "look", "cas", "wait", "inside"}]
    /\ my \in [Thread -> 0 .. Wrap - 1]
    /\ line \in Seq(Thread)

\* One thread is inside, and the word says so.
HoldInv ==
    /\ \A t, u \in Thread : pc[t] = "inside" /\ pc[u] = "inside" => t = u
    /\ kind # "ticket" =>
         /\ word = "held" <=> \E t \in Thread : pc[t] = "inside"
         /\ line = <<>>
    /\ \A t \in Thread : pc[t] \in {"look", "cas"} => kind # "ticket"

LineInv ==
    /\ IsInjective(line)
    /\ Range(line) = {t \in Thread : pc[t] = "wait"}

\* How far a ticket is from the one that is served
Ahead(n) == IF curr <= n THEN n - curr ELSE n + Wrap - curr

Held == IF \E t \in Thread : pc[t] = "inside" THEN 1 ELSE 0

\* The tickets drawn follow the one that is served, without a gap, in the order of the line.
TicketInv ==
    kind = "ticket" =>
        /\ \A k \in DOMAIN line : Ahead(my[line[k]]) = Held + k - 1
        /\ Ahead(ticket) = Held + Len(line)

IInv == TypeOK /\ HoldInv /\ LineInv /\ TicketInv
=============================================================================
