-------------------------------- MODULE Stack --------------------------------
(***************************************************************************)
(* The concurrent stacks (the directories stack-... of src/DLTree/src): a  *)
(* list from top, changed                                                  *)
(*   "cas"    by CAS (Treiber)                                             *)
(*   "lock"   under the lock                                               *)
(*   "optik"  under the lock if its version is the one noted before top    *)
(*            was read                                                     *)
(*   "elim"   as "optik"; but an insertion and a deletion that could not   *)
(*            have the lock may exchange a node: each looks for the other  *)
(*            in its array, or offers its node in its own for a while      *)
(* one access to shared memory at a time.  A lock is its version, odd      *)
(* while it is held.  Freed nodes may be allocated again (Ssmem); "elim"   *)
(* does not free them: its calls of ssmem_free are commented out, so that  *)
(* every node it allocates is lost in the end.  Its header, the same as    *)
(* that of stack-optik1, says that it does not work properly, and not in   *)
(* what; this model finds no fault in its answers, Spots being the places  *)
(* of the elimination array.                                               *)
(***************************************************************************)
EXTENDS Integers, Sequences, FiniteSets

CONSTANTS
    Thread,       \* positive numbers
    Programs,     \* bound: the operations each thread calls, one of several ways
    MaxInitial,   \* bound: elements at the start
    Spots,        \* the places of an elimination array
    Builds        \* the programs

StackAssumption ==
    /\ IsFiniteSet(Thread) /\ Thread \subseteq Nat \ {0}
    /\ \A p \in Programs : p \in [Thread -> Seq({"insert", "delete"})]
    /\ MaxInitial \in Nat

VARIABLES
    build,        \* the program: [by, gc]
    nodes,        \* the nodes: [val, next]
    top, lock,
    pushe, pope,  \* the nodes that insertions, and deletions, offer at each spot
    pc,           \* control points
    op, arg,      \* the operation of each thread, and the value it inserts
    res,          \* the value it returns
    own,          \* its new node
    hd, nx,       \* what it has loaded: top, and the node after it or the partner's
    ver,          \* the version it has noted
    left,         \* the operations it still has to call
    sawEmpty,     \* history: the stack was empty since the call
    ts, limbo     \* the memory allocator

localVars == <<own, hd, nx, ver>>
stackVars == <<top, lock, pushe, pope>>
vars == <<build, nodes, stackVars, pc, op, arg, res, localVars, left, sawEmpty, ts, limbo>>

Memory == INSTANCE Ssmem

Null == 0
None == <<0, 0>>    \* 0, what a deletion returns that finds nothing

\* The programs.
Treiber   == [by |-> "cas",   gc |-> TRUE]
Locked    == [by |-> "lock",  gc |-> TRUE]
Optik     == [by |-> "optik", gc |-> TRUE]
Optik2    == [by |-> "elim",  gc |-> FALSE]

Goto(t, l) == pc' = [pc EXCEPT ![t] = l]

-----------------------------------------------------------------------------
Contents ==
    LET from[n \in 0..Len(nodes), d \in 0..Len(nodes)] ==
          IF n = Null \/ d = 0 THEN <<>>
          ELSE <<nodes[n].val>> \o from[nodes[n].next, d - 1]
    IN from[top, Len(nodes)]

\* mstack_new leaves the lock alone, which in fresh memory is 0.
InitStack ==
    /\ build \in Builds
    /\ \E k \in 0..MaxInitial :
          /\ nodes = [i \in 1..k |-> [val |-> <<0, i>>, next |-> i - 1]]
          /\ top = k
    /\ lock = 0
    /\ pushe = [s \in Spots |-> Null]
    /\ pope = [s \in Spots |-> Null]

Init ==
    /\ InitStack
    /\ pc = [t \in Thread |-> "idle"]
    /\ op = [t \in Thread |-> "insert"]
    /\ arg = [t \in Thread |-> None]
    /\ res = [t \in Thread |-> None]
    /\ own = [t \in Thread |-> Null]
    /\ hd = [t \in Thread |-> Null]
    /\ nx = [t \in Thread |-> Null]
    /\ ver = [t \in Thread |-> 0]
    /\ left \in Programs
    /\ sawEmpty = [t \in Thread |-> FALSE]
    /\ ts = [t \in {u \in Thread : left[u] # <<>>} |-> 0]
    /\ limbo = [t \in Thread |-> {}]

\* Where an attempt begins.
First ==
    CASE build.by = "cas" -> "top" [] build.by = "lock" -> "lock"
      [] build.by \in {"optik", "elim"} -> "note"

Invoke(t) ==
    /\ pc[t] = "idle"
    /\ left[t] # <<>>
    /\ left' = [left EXCEPT ![t] = Tail(@)]
    /\ op' = [op EXCEPT ![t] = Head(left[t])]
    /\ arg' = [arg EXCEPT ![t] = IF Head(left[t]) = "insert" THEN <<t, Len(left[t])>> ELSE None]
    /\ Goto(t, IF Head(left[t]) = "insert" THEN "alloc" ELSE First)
    /\ UNCHANGED <<build, nodes, stackVars, res, localVars, ts, limbo>>

\* With "elim", insert allocates a node for every attempt and forgets the one before,
\* which nobody else has: it is as good as reused.
NewNode(t) ==
    /\ pc[t] = "alloc"
    /\ \E id \in 1..(Len(nodes) + 1) :
          /\ Memory!Alloc(t, [val |-> arg[t], next |-> Null], id)
          /\ own' = [own EXCEPT ![t] = id]
    /\ Goto(t, First)
    /\ UNCHANGED <<build, stackVars, op, arg, res, hd, nx, ver, left>>

Return(t) ==
    /\ pc[t] = "return"
    /\ Goto(t, "idle")
    /\ res' = [res EXCEPT ![t] = None]
    /\ own' = [own EXCEPT ![t] = Null]
    /\ hd' = [hd EXCEPT ![t] = Null]
    /\ nx' = [nx EXCEPT ![t] = Null]
    /\ ver' = [ver EXCEPT ![t] = 0]
    /\ UNCHANGED <<build, nodes, stackVars, op, arg, left, ts, limbo>>

-----------------------------------------------------------------------------
(* The lock: LOCK_A, UNLOCK_A, and the integer version of the OPTIK locks *)

IsFree(v) == v % 2 = 0

Note(t) ==
    /\ pc[t] = "note"
    /\ ver' = [ver EXCEPT ![t] = lock]
    /\ Goto(t, "top")
    /\ UNCHANGED <<build, nodes, stackVars, op, arg, res, own, hd, nx, left, ts, limbo>>

Acquire(t) ==
    /\ pc[t] = "lock"
    /\ IsFree(lock)
    /\ lock' = lock + 1
    /\ Goto(t, "top")
    /\ UNCHANGED <<build, nodes, top, pushe, pope, op, arg, res, localVars, left, ts, limbo>>

\* optik_trylock_version
TryVersion(t) ==
    /\ pc[t] = "trylock"
    /\ IF IsFree(ver[t]) /\ lock = ver[t]
         THEN lock' = lock + 1 /\ Goto(t, "set")
         ELSE UNCHANGED lock /\ Goto(t, IF build.by = "elim" THEN "seek" ELSE "note")
    /\ UNCHANGED <<build, nodes, top, pushe, pope, op, arg, res, localVars, left, ts, limbo>>

Release(t) ==
    /\ pc[t] = "unlock"
    /\ lock' = lock + 1
    /\ Goto(t, IF op[t] = "insert" \/ hd[t] = Null THEN "return" ELSE "free")
    /\ UNCHANGED <<build, nodes, top, pushe, pope, op, arg, res, localVars, left, ts, limbo>>

-----------------------------------------------------------------------------
(* Insert and delete *)

\* Where an operation goes that has loaded top; a deletion that finds no node is over.
AfterTop(t) ==
    CASE op[t] = "delete" /\ top = Null -> IF build.by = "lock" THEN "unlock" ELSE "return"
      [] op[t] = "delete" /\ build.by = "cas" /\ top # Null -> "next"
      [] build.by = "lock" /\ (op[t] = "insert" \/ top # Null) -> "set"
      [] op[t] = "insert" /\ build.by = "cas" -> "topcas"
      [] build.by \in {"optik", "elim"} /\ (op[t] = "insert" \/ top # Null) -> "trylock"

\* An insertion points its node, which nobody else sees, to the top.
LoadTop(t) ==
    /\ pc[t] = "top"
    /\ hd' = [hd EXCEPT ![t] = top]
    /\ nodes' = IF op[t] = "insert" THEN [nodes EXCEPT ![own[t]].next = top] ELSE nodes
    /\ Goto(t, AfterTop(t))
    /\ UNCHANGED <<build, stackVars, op, arg, res, own, nx, ver, left, ts, limbo>>

LoadNext(t) ==
    /\ pc[t] = "next"
    /\ nx' = [nx EXCEPT ![t] = nodes[hd[t]].next]
    /\ Goto(t, "topcas")
    /\ UNCHANGED <<build, nodes, stackVars, op, arg, res, own, hd, ver, left, ts, limbo>>

\* CAS(&qu->top, top, node), CAS(&qu->top, top, top->next)
TopCas(t) ==
    /\ pc[t] = "topcas"
    /\ IF top = hd[t]
         THEN IF op[t] = "insert" THEN top' = own[t] /\ Goto(t, "return")
                                  ELSE top' = nx[t] /\ Goto(t, "free")
         ELSE UNCHANGED top /\ Goto(t, "top")
    /\ UNCHANGED <<build, nodes, lock, pushe, pope, op, arg, res, localVars, left, ts, limbo>>

\* The change, by the thread that has the lock.
SetTop(t) ==
    /\ pc[t] = "set"
    /\ top' = IF op[t] = "insert" THEN own[t] ELSE nodes[hd[t]].next
    /\ Goto(t, "unlock")
    /\ UNCHANGED <<build, nodes, lock, pushe, pope, op, arg, res, localVars, left, ts, limbo>>

FreeTop(t) ==
    /\ pc[t] = "free"
    /\ Memory!Free(t, hd[t], build.gc)
    /\ Goto(t, "value")
    /\ UNCHANGED <<build, nodes, stackVars, op, arg, res, localVars, left>>

LoadValue(t) ==
    /\ pc[t] = "value"
    /\ res' = [res EXCEPT ![t] = nodes[hd[t]].val]
    /\ Goto(t, "return")
    /\ UNCHANGED <<build, nodes, stackVars, op, arg, localVars, left, ts, limbo>>

-----------------------------------------------------------------------------
(* Elimination: the spot is random, the time an offer stands is any *)

\* SWAP(&qu->pope[spot], NULL), SWAP(&qu->pushe[spot], NULL): takes what the other side
\* offers.  A deletion has its value with the node, an insertion still has to give it.
Seek(t) ==
    /\ pc[t] = "seek"
    /\ \E s \in Spots :
         LET n == IF op[t] = "insert" THEN pope[s] ELSE pushe[s]
         IN /\ nx' = [nx EXCEPT ![t] = n]
            /\ IF op[t] = "insert"
                 THEN /\ pope' = [pope EXCEPT ![s] = Null] /\ UNCHANGED <<pushe, res>>
                      /\ Goto(t, IF n = Null THEN "offer" ELSE "give")
                 ELSE /\ pushe' = [pushe EXCEPT ![s] = Null] /\ UNCHANGED pope
                      /\ IF n = Null THEN Goto(t, "offer") /\ UNCHANGED res
                         ELSE Goto(t, "return") /\ res' = [res EXCEPT ![t] = nodes[n].val]
    /\ UNCHANGED <<build, nodes, top, lock, op, arg, own, hd, ver, left, ts, limbo>>

\* nodee->val = val, for which the deletion may be waiting.
Give(t) ==
    /\ pc[t] = "give"
    /\ nodes' = [nodes EXCEPT ![nx[t]].val = arg[t]]
    /\ Goto(t, "return")
    /\ UNCHANGED <<build, stackVars, op, arg, res, localVars, left, ts, limbo>>

\* The CAS of the node into a spot that is free, else the next attempt.  A deletion
\* allocates a node without a value to offer.
Offer(t) ==
    /\ pc[t] = "offer"
    /\ \E s \in Spots :
         IF op[t] = "insert"
           THEN /\ IF pushe[s] = Null
                     THEN pushe' = [pushe EXCEPT ![s] = own[t]] /\ Goto(t, "retract")
                     ELSE UNCHANGED pushe /\ Goto(t, "note")
                /\ UNCHANGED <<nodes, own, pope>>
           ELSE /\ IF pope[s] = Null
                     THEN LET n == IF own[t] = Null THEN Len(nodes) + 1 ELSE own[t]
                          IN /\ nodes' = IF own[t] = Null
                                           THEN Append(nodes, [val |-> None, next |-> Null])
                                           ELSE nodes
                             /\ own' = [own EXCEPT ![t] = n]
                             /\ pope' = [pope EXCEPT ![s] = n]
                             /\ Goto(t, "retract")
                     ELSE UNCHANGED <<nodes, own, pope>> /\ Goto(t, "note")
                /\ UNCHANGED pushe
    /\ UNCHANGED <<build, top, lock, op, arg, res, hd, nx, ver, left, ts, limbo>>

\* Mutant: the node is withdrawn by a store, and the attempt taken as failed.
Retract_Store(t) ==
    /\ pc[t] = "retract"
    /\ pushe' = [s \in Spots |-> IF pushe[s] = own[t] THEN Null ELSE pushe[s]]
    /\ pope' = [s \in Spots |-> IF pope[s] = own[t] THEN Null ELSE pope[s]]
    /\ Goto(t, "note")
    /\ UNCHANGED <<build, nodes, top, lock, op, arg, res, localVars, left, ts, limbo>>

\* The CAS that takes the node back; when it fails the other side has it.
Retract(t) ==
    /\ pc[t] = "retract"
    /\ IF \E s \in Spots : own[t] \in {pushe[s], pope[s]}
         THEN /\ pushe' = [s \in Spots |-> IF pushe[s] = own[t] THEN Null ELSE pushe[s]]
              /\ pope' = [s \in Spots |-> IF pope[s] = own[t] THEN Null ELSE pope[s]]
              /\ Goto(t, "note")
         ELSE /\ UNCHANGED <<pushe, pope>>
              /\ Goto(t, IF op[t] = "insert" THEN "return" ELSE "await")
    /\ UNCHANGED <<build, nodes, top, lock, op, arg, res, localVars, left, ts, limbo>>

\* while (!nodee->val)
Await(t) ==
    /\ pc[t] = "await"
    /\ nodes[own[t]].val # None
    /\ res' = [res EXCEPT ![t] = nodes[own[t]].val]
    /\ Goto(t, "return")
    /\ UNCHANGED <<build, nodes, stackVars, op, arg, localVars, left, ts, limbo>>

-----------------------------------------------------------------------------
Step(t) ==
    \/ NewNode(t) \/ Note(t) \/ Acquire(t) \/ TryVersion(t) \/ Release(t)
    \/ LoadTop(t) \/ LoadNext(t) \/ TopCas(t) \/ SetTop(t) \/ FreeTop(t) \/ LoadValue(t)
    \/ Seek(t) \/ Give(t) \/ Offer(t) \/ Retract(t) \/ Await(t)
    \/ Return(t)

\* Whether the node that t offers has been taken, and given its value.
IsTaken(t) == pc[t] = "retract" /\ \A s \in Spots : own[t] \notin {pushe[s], pope[s]}
IsGiven(t) == (pc[t] = "await" \/ IsTaken(t)) /\ nodes[own[t]].val # None

\* An operation takes effect where it changes the top, or, with its partner, where the
\* deletion takes the insertion's node or the insertion gives the deletion its value.
Phase(t) ==
    IF pc[t] = "idle" THEN "idle"
    ELSE IF \/ pc[t] \in {"unlock", "free", "value", "return"}
            \/ op[t] = "insert" /\ IsTaken(t)
            \/ op[t] = "delete" /\ IsGiven(t)
      THEN "done"
    ELSE "pending"

Result(t) ==
    IF Phase(t) # "done" THEN None
    ELSE IF op[t] = "delete" /\ IsGiven(t) THEN nodes[own[t]].val
    ELSE IF op[t] = "delete" /\ pc[t] \in {"unlock", "free", "value"} /\ hd[t] # Null
      THEN nodes[hd[t]].val
    ELSE res[t]

RecordEmpty ==
    sawEmpty' = [t \in Thread |->
                   /\ Phase(t)' = "pending" /\ op'[t] = "delete"
                   /\ top' = Null \/ (Phase(t) = "pending" /\ sawEmpty[t])]

Next == (\E t \in Thread : Invoke(t) \/ Step(t)) /\ RecordEmpty

Spec == Init /\ [][Next]_vars

\* A thread inside an operation runs on; nobody has to invoke one.
FairSpec == Spec /\ \A t \in Thread : WF_vars(Step(t) /\ RecordEmpty)

-----------------------------------------------------------------------------
\* The stack is a linearizable LIFO stack, whatever the CASes and versions that fail,
\* the nodes that are popped, freed, reused and pushed again while another thread still
\* compares with them, and the exchanges past the stack (mstack_treiber_insert,
\* mstack_treiber_delete, mstack_optik_insert, mstack_optik_delete).
Abstract ==
    INSTANCE BufferSpec WITH
        Value <- Nat \X Nat,
        lifo <- TRUE,
        contents <- Contents,
        phase <- [t \in Thread |-> Phase(t)],
        res <- [t \in Thread |-> Result(t)],
        empty <- sawEmpty
ImplementsStack == Abstract!Spec

\* Every operation returns: no lock stays taken, no deletion waits for a value that
\* nobody gives it, and attempts do not fail for ever.
AllReturn == \A t \in Thread : pc[t] # "idle" ~> pc[t] = "idle"
=============================================================================
