-------------------------------- MODULE Queue --------------------------------
(***************************************************************************)
(* The concurrent queues (the directories queue-... of src/DLTree/src): a  *)
(* list from head, whose first node is a dummy, to tail.  The programs     *)
(* combine three insertions                                                *)
(*   "lock"   under tail_lock                                              *)
(*   "cas"    links the node and moves the tail by CAS (Michael and Scott) *)
(*   "optik"  under tail_lock if its version is the one noted before       *)
(* and five deletions                                                      *)
(*   "lock"     under head_lock                                            *)
(*   "cas"      moves the head by CAS and reads the value at the end       *)
(*   "casval"   the same, but reads the value before it frees the old head *)
(*   "version"  locks head_lock, and starts again under the lock when the  *)
(*              version is not the one noted before                        *)
(*   "try"      locks head_lock if it has the version noted before         *)
(* one access to shared memory at a time.  A lock is its version, odd      *)
(* while it is held; LOCK_A takes it, whatever the implementation, when it *)
(* is free.  Built with GC, the default, freed nodes may be allocated      *)
(* again (Ssmem).  Three deletions, "cas", "version" and "try", then read  *)
(* a value that may not be there any more: took[t] has what it was.        *)
(***************************************************************************)
EXTENDS Integers, Sequences, FiniteSets

CONSTANTS
    Thread,       \* positive numbers
    Programs,     \* bound: the operations each thread calls, one of several ways
    MaxInitial,   \* bound: elements at the start
    Builds        \* the programs

QueueAssumption ==
    /\ IsFiniteSet(Thread) /\ Thread \subseteq Nat \ {0}
    /\ \A p \in Programs : p \in [Thread -> Seq({"insert", "delete"})]
    /\ MaxInitial \in Nat

VARIABLES
    build,        \* the program: [enq, deq, gc]
    nodes,        \* the nodes: [val, next]
    head, tail,
    headLock, tailLock,
    pc,           \* control points
    op, arg,      \* the operation of each thread, and the value it inserts
    res,          \* the value it returns
    own,          \* insert: the new node
    hd, tl, nx,   \* what it has loaded: head, tail, a node's next
    ver,          \* the version it has noted; Held once it reads under the lock
    left,         \* the operations it still has to call
    sawEmpty,     \* history: the queue was empty since the call
    took,         \* history: the value of the node it has moved the head to, at that moment
    ts, limbo     \* the memory allocator

localVars == <<own, hd, tl, nx, ver>>
queueVars == <<head, tail, headLock, tailLock>>
vars == <<build, nodes, queueVars, pc, op, arg, res, localVars, left, sawEmpty, took, ts, limbo>>

Memory == INSTANCE Ssmem

Null == 0
None == <<0, 0>>    \* 0, what a deletion returns that finds nothing
Held == -1

\* The programs.
MsLb     == [enq |-> "lock",  deq |-> "lock",    gc |-> TRUE]
MsHybrid == [enq |-> "lock",  deq |-> "casval",  gc |-> TRUE]
MsLf     == [enq |-> "cas",   deq |-> "cas",     gc |-> TRUE]
Optik0   == [enq |-> "lock",  deq |-> "version", gc |-> TRUE]
Optik1   == [enq |-> "lock",  deq |-> "try",     gc |-> TRUE]
Optik2   == [enq |-> "cas",   deq |-> "try",     gc |-> TRUE]
Optik2a  == [enq |-> "optik", deq |-> "try",     gc |-> TRUE]

\* The same built with GC=0.
NoGC(b) == [b EXCEPT !.gc = FALSE]

Goto(t, l) == pc' = [pc EXCEPT ![t] = l]
At(t, o, l) == op[t] = o /\ pc[t] = l

-----------------------------------------------------------------------------
\* The elements: the values of the nodes after the dummy.
Contents ==
    LET from[n \in 0..Len(nodes), d \in 0..Len(nodes)] ==
          IF n = Null \/ d = 0 THEN <<>>
          ELSE <<nodes[n].val>> \o from[nodes[n].next, d - 1]
    IN from[nodes[head].next, Len(nodes)]

IsEmpty == nodes[head].next = Null

InitQueue ==
    /\ build \in Builds
    /\ \E k \in 0..MaxInitial :
          /\ nodes = [i \in 1..(k + 1) |->
                        [val |-> <<0, i - 1>>, next |-> IF i <= k THEN i + 1 ELSE Null]]
          /\ tail = k + 1
    /\ head = 1
    /\ headLock = 0
    /\ tailLock = 0

Init ==
    /\ InitQueue
    /\ pc = [t \in Thread |-> "idle"]
    /\ op = [t \in Thread |-> "insert"]
    /\ arg = [t \in Thread |-> None]
    /\ res = [t \in Thread |-> None]
    /\ own = [t \in Thread |-> Null]
    /\ hd = [t \in Thread |-> Null]
    /\ tl = [t \in Thread |-> Null]
    /\ nx = [t \in Thread |-> Null]
    /\ ver = [t \in Thread |-> 0]
    /\ left \in Programs
    /\ sawEmpty = [t \in Thread |-> FALSE]
    /\ took = [t \in Thread |-> None]
    /\ ts = [t \in {u \in Thread : left[u] # <<>>} |-> 0]
    /\ limbo = [t \in Thread |-> {}]

\* Where insert begins once it has its node, and delete.
FirstOf(o) ==
    IF o = "insert"
      THEN CASE build.enq = "lock" -> "lock" [] build.enq = "cas" -> "tail"
             [] build.enq = "optik" -> "note"
      ELSE CASE build.deq = "lock" -> "lock" [] build.deq \in {"cas", "casval"} -> "head"
             [] build.deq \in {"version", "try"} -> "note"

Invoke(t) ==
    /\ pc[t] = "idle"
    /\ left[t] # <<>>
    /\ left' = [left EXCEPT ![t] = Tail(@)]
    /\ op' = [op EXCEPT ![t] = Head(left[t])]
    /\ arg' = [arg EXCEPT ![t] = IF Head(left[t]) = "insert" THEN <<t, Len(left[t])>> ELSE None]
    /\ Goto(t, IF Head(left[t]) = "insert" THEN "alloc" ELSE FirstOf("delete"))
    /\ UNCHANGED <<build, nodes, queueVars, res, localVars, ts, limbo>>

NewNode(t) ==
    /\ pc[t] = "alloc"
    /\ \E id \in 1..(Len(nodes) + 1) :
          /\ Memory!Alloc(t, [val |-> arg[t], next |-> Null], id)
          /\ own' = [own EXCEPT ![t] = id]
    /\ Goto(t, FirstOf("insert"))
    /\ UNCHANGED <<build, queueVars, op, arg, res, hd, tl, nx, ver, left>>

Return(t) ==
    /\ pc[t] = "return"
    /\ Goto(t, "idle")
    /\ res' = [res EXCEPT ![t] = None]
    /\ own' = [own EXCEPT ![t] = Null]
    /\ hd' = [hd EXCEPT ![t] = Null]
    /\ tl' = [tl EXCEPT ![t] = Null]
    /\ nx' = [nx EXCEPT ![t] = Null]
    /\ ver' = [ver EXCEPT ![t] = 0]
    /\ UNCHANGED <<build, nodes, queueVars, op, arg, left, ts, limbo>>

-----------------------------------------------------------------------------
(* The locks: LOCK_A, UNLOCK_A, and the integer version of the OPTIK locks.  An *)
(* insertion uses tail_lock, a deletion head_lock.                              *)

LockOf(t) == IF op[t] = "insert" THEN tailLock ELSE headLock

Lock(t, v) ==
    IF op[t] = "insert" THEN tailLock' = v /\ UNCHANGED headLock
                        ELSE headLock' = v /\ UNCHANGED tailLock

IsFree(v) == v % 2 = 0

\* optik_t version = lock
Note(t) ==
    /\ pc[t] = "note"
    /\ ver' = [ver EXCEPT ![t] = LockOf(t)]
    /\ Goto(t, IF op[t] = "insert" THEN "tail" ELSE "head")
    /\ UNCHANGED <<build, nodes, queueVars, op, arg, res, own, hd, tl, nx, left, ts, limbo>>

\* LOCK_A
Acquire(t) ==
    /\ pc[t] = "lock"
    /\ IsFree(LockOf(t))
    /\ Lock(t, LockOf(t) + 1)
    /\ Goto(t, IF op[t] = "insert" THEN "tail" ELSE "head")
    /\ UNCHANGED <<build, nodes, head, tail, op, arg, res, localVars, left, ts, limbo>>

\* Mutant: the lock is taken, but it is not compared with the version noted.
AcquireVersion_Unchecked(t) ==
    /\ pc[t] = "lockver"
    /\ IsFree(headLock)
    /\ headLock' = headLock + 1
    /\ Goto(t, "advance")
    /\ UNCHANGED <<build, nodes, head, tail, tailLock, op, arg, res, localVars, left, ts, limbo>>

\* optik_lock_version_backoff: waits for the lock; head and next are loaded again if
\* the lock has been taken since the version was noted.
AcquireVersion(t) ==
    /\ pc[t] = "lockver"
    /\ IsFree(headLock)
    /\ headLock' = headLock + 1
    /\ IF headLock = ver[t]
         THEN Goto(t, "advance") /\ UNCHANGED ver
         ELSE Goto(t, "head") /\ ver' = [ver EXCEPT ![t] = Held]
    /\ UNCHANGED <<build, nodes, head, tail, tailLock, op, arg, res, own, hd, tl, nx,
                   left, ts, limbo>>

\* optik_trylock_version: not at all, or if the lock is free and has that version.
TryVersion(t) ==
    /\ pc[t] = "trylock"
    /\ IF IsFree(ver[t]) /\ LockOf(t) = ver[t]
         THEN Lock(t, ver[t] + 1) /\ Goto(t, IF op[t] = "insert" THEN "link" ELSE "advance")
         ELSE UNCHANGED <<headLock, tailLock>> /\ Goto(t, "note")
    /\ UNCHANGED <<build, nodes, head, tail, op, arg, res, localVars, left, ts, limbo>>

\* Where a deletion goes that finds nothing, when it has the lock.
AfterEmpty == "unlock"

\* UNLOCK_A, optik_unlock
Release(t) ==
    /\ pc[t] = "unlock"
    /\ Lock(t, LockOf(t) + 1)
    /\ Goto(t, IF op[t] = "insert" \/ nx[t] = Null THEN "return" ELSE "free")
    /\ UNCHANGED <<build, nodes, head, tail, op, arg, res, localVars, left, ts, limbo>>

-----------------------------------------------------------------------------
(* Loads *)

LoadHead(t) ==
    /\ pc[t] = "head"
    /\ hd' = [hd EXCEPT ![t] = head]
    /\ Goto(t, IF build.deq \in {"cas", "casval"} THEN "tail" ELSE "next")
    /\ UNCHANGED <<build, nodes, queueVars, op, arg, res, own, tl, nx, ver, left, ts, limbo>>

LoadTail(t) ==
    /\ pc[t] = "tail"
    /\ tl' = [tl EXCEPT ![t] = tail]
    /\ Goto(t, IF op[t] = "insert" /\ build.enq = "lock" THEN "link" ELSE "next")
    /\ UNCHANGED <<build, nodes, queueVars, op, arg, res, own, hd, nx, ver, left, ts, limbo>>

\* Where a deletion goes with the head it has and the node after it.
AfterNext(t, next) ==
    CASE build.deq \in {"cas", "casval"} -> "check"
      [] build.deq = "lock" -> IF next = Null THEN AfterEmpty ELSE "value"
      [] build.deq = "try"  -> IF next = Null THEN "return" ELSE "trylock"
      [] build.deq = "version" ->
           IF ver[t] = Held THEN (IF next = Null THEN AfterEmpty ELSE "advance")
                            ELSE (IF next = Null THEN "return" ELSE "lockver")

\* tail->next for an insertion, head->next for a deletion.
LoadNext(t) ==
    /\ pc[t] = "next"
    /\ LET next == nodes[IF op[t] = "insert" THEN tl[t] ELSE hd[t]].next
       IN /\ nx' = [nx EXCEPT ![t] = next]
          /\ Goto(t, IF op[t] = "insert" THEN "check" ELSE AfterNext(t, next))
    /\ UNCHANGED <<build, nodes, queueVars, op, arg, res, own, hd, tl, ver, left, ts, limbo>>

\* Whether head or tail is still what it was, and what to do then.
Check(t) ==
    /\ pc[t] = "check"
    /\ IF op[t] = "insert"
         THEN IF tail # tl[t] THEN Goto(t, FirstOf("insert"))
              ELSE IF nx[t] # Null THEN Goto(t, "help")
              ELSE Goto(t, IF build.enq = "cas" THEN "linkcas" ELSE "trylock")
         ELSE IF head # hd[t] THEN Goto(t, "head")
              ELSE IF hd[t] # tl[t] THEN Goto(t, "headcas")
              ELSE Goto(t, IF nx[t] = Null THEN "return" ELSE "help")
    /\ UNCHANGED <<build, nodes, queueVars, op, arg, res, localVars, left, ts, limbo>>

\* The tail lags behind: CAS(&qu->tail, tail, next), and from the start.
Help(t) ==
    /\ pc[t] = "help"
    /\ tail' = IF tail = tl[t] THEN nx[t] ELSE tail
    /\ Goto(t, FirstOf(op[t]))
    /\ UNCHANGED <<build, nodes, head, headLock, tailLock, op, arg, res, localVars,
                   left, ts, limbo>>

-----------------------------------------------------------------------------
(* Insert: link the node to the last one, then move the tail *)

\* tail->next = node, under tail_lock
Link(t) ==
    /\ pc[t] = "link"
    /\ nodes' = [nodes EXCEPT ![tl[t]].next = own[t]]
    /\ Goto(t, "swing")
    /\ UNCHANGED <<build, queueVars, op, arg, res, localVars, left, ts, limbo>>

Swing(t) ==
    /\ pc[t] = "swing"
    /\ tail' = own[t]
    /\ Goto(t, "unlock")
    /\ UNCHANGED <<build, nodes, head, headLock, tailLock, op, arg, res, localVars,
                   left, ts, limbo>>

\* Mutant: the node after the tail is overwritten.
LinkCas_Store(t) ==
    /\ pc[t] = "linkcas"
    /\ nodes' = [nodes EXCEPT ![tl[t]].next = own[t]]
    /\ Goto(t, "swingcas")
    /\ UNCHANGED <<build, queueVars, op, arg, res, localVars, left, ts, limbo>>

\* CAS(&tail->next, NULL, node)
LinkCas(t) ==
    /\ pc[t] = "linkcas"
    /\ IF nodes[tl[t]].next = Null
         THEN nodes' = [nodes EXCEPT ![tl[t]].next = own[t]] /\ Goto(t, "swingcas")
         ELSE UNCHANGED nodes /\ Goto(t, "tail")
    /\ UNCHANGED <<build, queueVars, op, arg, res, localVars, left, ts, limbo>>

\* CAS(&qu->tail, tail, node), which fails when others have helped.
SwingCas(t) ==
    /\ pc[t] = "swingcas"
    /\ tail' = IF tail = tl[t] THEN own[t] ELSE tail
    /\ Goto(t, "return")
    /\ UNCHANGED <<build, nodes, head, headLock, tailLock, op, arg, res, localVars,
                   left, ts, limbo>>

-----------------------------------------------------------------------------
(* Delete: the next node becomes the dummy, and the old dummy is freed *)

\* Where a deletion goes that has moved the head by CAS.
AfterHead == IF build.deq = "casval" THEN "value" ELSE "free"

HeadCas(t) ==
    /\ pc[t] = "headcas"
    /\ IF head = hd[t] THEN head' = nx[t] /\ Goto(t, AfterHead)
                       ELSE UNCHANGED head /\ Goto(t, "head")
    /\ UNCHANGED <<build, nodes, tail, headLock, tailLock, op, arg, res, localVars,
                   left, ts, limbo>>

\* qu->head = head_new, under head_lock
Advance(t) ==
    /\ pc[t] = "advance"
    /\ head' = nx[t]
    /\ Goto(t, "unlock")
    /\ UNCHANGED <<build, nodes, tail, headLock, tailLock, op, arg, res, localVars,
                   left, ts, limbo>>

\* The value is read under the lock, right after the CAS, or at the end, when the old
\* head has been freed.
ReadsLate == build.deq \notin {"lock", "casval"}

LoadValue(t) ==
    /\ pc[t] = "value"
    /\ res' = [res EXCEPT ![t] = nodes[nx[t]].val]
    /\ Goto(t, IF ReadsLate THEN "return" ELSE IF build.deq = "lock" THEN "advance" ELSE "free")
    /\ UNCHANGED <<build, nodes, queueVars, op, arg, localVars, left, ts, limbo>>

FreeHead(t) ==
    /\ pc[t] = "free"
    /\ Memory!Free(t, hd[t], build.gc)
    /\ Goto(t, IF ReadsLate THEN "value" ELSE "return")
    /\ UNCHANGED <<build, nodes, queueVars, op, arg, res, localVars, left>>

-----------------------------------------------------------------------------
Step(t) ==
    \/ NewNode(t) \/ Note(t) \/ Acquire(t) \/ AcquireVersion(t) \/ TryVersion(t) \/ Release(t)
    \/ LoadHead(t) \/ LoadTail(t) \/ LoadNext(t) \/ Check(t) \/ Help(t)
    \/ Link(t) \/ Swing(t) \/ LinkCas(t) \/ SwingCas(t)
    \/ HeadCas(t) \/ Advance(t) \/ LoadValue(t) \/ FreeHead(t) \/ Return(t)

\* An operation takes effect where it links its node, or moves the head.
Phase(t) ==
    IF pc[t] = "idle" THEN "idle"
    ELSE IF \/ pc[t] \in {"swing", "swingcas", "unlock", "free", "return"}
            \/ pc[t] = "value" /\ build.deq # "lock"
      THEN "done"
    ELSE "pending"

\* What the deletion returns, also while it still has to read it.  If it reads a node that
\* may have been reused (ReadsLive), it counts as returning what the node had.
Result(t) ==
    IF Phase(t) # "done" THEN None
    ELSE IF res[t] = None \/ (ReadsLate /\ build.gc) THEN took[t]
    ELSE res[t]

RecordEmpty ==
    sawEmpty' = [t \in Thread |->
                   /\ Phase(t)' = "pending" /\ op'[t] = "delete"
                   /\ IsEmpty' \/ (Phase(t) = "pending" /\ sawEmpty[t])]

RecordTaken ==
    took' = [t \in Thread |->
               IF Phase(t)' # "done" THEN None
               ELSE IF Phase(t) = "done" THEN took[t]
               ELSE IF head' # head THEN nodes'[head'].val
               ELSE None]

Record == RecordEmpty /\ RecordTaken

Next == (\E t \in Thread : Invoke(t) \/ Step(t)) /\ Record

Spec == Init /\ [][Next]_vars

\* A thread inside an operation runs on; nobody has to invoke one.
FairSpec == Spec /\ \A t \in Thread : WF_vars(Step(t) /\ Record)

-----------------------------------------------------------------------------
\* The queue is a linearizable FIFO queue: no interleaving of the two ends, of
\* helpers that move the tail, and of nodes that are freed and reused loses,
\* duplicates or reorders an element, or lets a deletion report an empty queue that
\* never was (queue_ms_insert, queue_ms_delete, queue_optik_insert, ...).
Abstract ==
    INSTANCE BufferSpec WITH
        Value <- Nat \X Nat,
        lifo <- FALSE,
        contents <- Contents,
        phase <- [t \in Thread |-> Phase(t)],
        res <- [t \in Thread |-> Result(t)],
        empty <- sawEmpty
ImplementsQueue == Abstract!Spec

\* "After some memory is alloced and/or freed, the thread should not access ANY
\* ssmem-protected memory that was read (the reference were taken) before the current
\* alloc or free invocation" (ssmem.h): the node whose value a deletion is about to read
\* is not the new node of an insertion that has yet to link it.
ReadsLive ==
    \A t, u \in Thread :
        pc[t] = "value" => ~(op[u] = "insert" /\ Phase(u) = "pending" /\ own[u] = nx[t])

\* Every operation returns: no lock stays taken, and of operations that make one
\* another start again one always gets through.
AllReturn == \A t \in Thread : pc[t] # "idle" ~> pc[t] = "idle"
=============================================================================
