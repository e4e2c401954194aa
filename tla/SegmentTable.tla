----------------------------- MODULE SegmentTable -----------------------------
(***************************************************************************)
(* The hash tables after Java's ConcurrentHashMap, whose segments grow:    *)
(*   "java"    src/DLTree/src/hashtable-java/concurrent_hash_map2.c, with  *)
(*             a lock for each segment, and updates that look without it   *)
(*             first (CHM_READ_ONLY_FAIL)                                  *)
(*   "optik"   src/DLTree/src/hashtable-java_optik/concurrent_hash_map.c,  *)
(*             where updates look without the lock, and take it only if    *)
(*             its version is the one they began with                      *)
(* A segment is a table of buckets, which are chains in no order.  An      *)
(* insertion that would fill it makes a new segment of twice the size with *)
(* new and some of the old nodes, and puts it in the place of the old one, *)
(* which others may still be reading and whose lock is never released.     *)
(* Keys of different segments have nothing in common: there is one here.   *)
(*                                                                         *)
(* Every load that a thread does without the lock is a step of its own, so *)
(* are the acquisition, the store that others see, and the release.        *)
(***************************************************************************)
EXTENDS Integers, Sequences, FiniteSets, SequencesExt

CONSTANTS
    Thread,
    Key,       \* positive
    MaxOps,    \* bound: operations of the threads together
    Capacity,  \* numbers of buckets of the first segment: powers of 2
    LoadFactor,  \* CHM_LOAD_FACTOR: 3 on Tilera, 1 elsewhere
    Builds     \* of {"java", "optik"}

SegmentTableAssumption ==
    /\ IsFiniteSet(Key) /\ Key \subseteq Nat \ {0}
    /\ MaxOps \in Nat /\ Capacity \subseteq Nat \ {0} /\ LoadFactor \in Nat \ {0}
    /\ Builds \subseteq {"java", "optik"}

VARIABLES
    build,
    nodes,       \* the nodes allocated: [key, next, freed]
    segs,        \* the segments made: [table, size, version]
    segment,     \* set->segments[seg_num]
    pc,          \* control points
    op, key,     \* the operation of each thread and its key
    res,         \* its result, from the instant at which it takes effect
    seg,         \* the segment it has loaded
    ver,         \* and that one's version
    pred, curr,  \* where its walk is; 0 is the bucket, or the end
    left,        \* operations that may still be invoked
    seen         \* history: whether key[t] was in the table since the call

localVars == <<seg, ver, pred, curr>>
vars == <<build, nodes, segs, segment, pc, op, key, res, localVars, left, seen>>

Null == 0
Goto(t, l) == pc' = [pc EXCEPT ![t] = l]

-----------------------------------------------------------------------------
\* The bucket of key k in a table of n, counted from 1.
hash(k, n) == (k % n) + 1

\* The nodes of a chain that begins at h.
Chain(ns, h) ==
    LET walk[d \in 0..Len(ns)] ==
          IF d = 0 THEN h ELSE IF walk[d - 1] = Null THEN Null ELSE ns[walk[d - 1]].next
    IN SelectSeq([d \in 1..Len(ns) |-> walk[d - 1]], LAMBDA n : n # Null)

size_limit(s) == LoadFactor * Len(segs[s].table)
Bucket(s, k) == segs[s].table[hash(k, Len(segs[s].table))]

Linked == UNION {ToSet(Chain(nodes, h)) : h \in ToSet(segs[segment].table)}
Contents == {nodes[n].key : n \in Linked}

Node(k, next) == [key |-> k, next |-> next, freed |-> 0]
Segment(table, size) == [table |-> table, size |-> size, version |-> 0]

\* Insertions and removals made before: any chains that have not filled the table.
Init ==
    /\ build \in Builds
    /\ \E n \in Capacity : \E order \in SetToAllKPermutations(Key) :
          LET after(j) ==
                LET next == {m \in j + 1..Len(order) : hash(order[m], n) = hash(order[j], n)}
                IN IF next = {} THEN Null ELSE CHOOSE m \in next : \A o \in next : m <= o
              first(b) ==
                LET all == {m \in 1..Len(order) : hash(order[m], n) = b}
                IN IF all = {} THEN Null ELSE CHOOSE m \in all : \A o \in all : m <= o
          IN /\ Len(order) < LoadFactor * n
             /\ nodes = [j \in 1..Len(order) |-> Node(order[j], after(j))]
             /\ segs = <<Segment([b \in 1..n |-> first(b)], Len(order))>>
    /\ segment = 1
    /\ pc = [t \in Thread |-> "idle"]
    /\ op = [t \in Thread |-> "search"]
    /\ key = [t \in Thread |-> CHOOSE k \in Key : TRUE]
    /\ res = [t \in Thread |-> FALSE]
    /\ seg = [t \in Thread |-> 1]
    /\ ver = [t \in Thread |-> 0]
    /\ pred = [t \in Thread |-> Null]
    /\ curr = [t \in Thread |-> Null]
    /\ left = MaxOps
    /\ seen = [t \in Thread |-> {}]

Phase(t) ==
    CASE pc[t] = "idle" -> "idle"
      [] pc[t] = "return" \/ res[t] -> "done"
      [] OTHER -> "pending"

Invoke(t) ==
    /\ pc[t] = "idle"
    /\ left > 0
    /\ left' = left - 1
    /\ \E o \in {"search", "insert", "remove"}, k \in Key :
          /\ op' = [op EXCEPT ![t] = o]
          /\ key' = [key EXCEPT ![t] = k]
          /\ seen' = [seen EXCEPT ![t] = {k \in Contents}]
    /\ Goto(t, "start")
    /\ UNCHANGED <<build, nodes, segs, segment, res, localVars>>

\* The operation returns; its local variables are forgotten.
Finish(t, result) ==
    /\ Goto(t, "return")
    /\ res' = [res EXCEPT ![t] = result]
    /\ seg' = [seg EXCEPT ![t] = 1]
    /\ ver' = [ver EXCEPT ![t] = 0]
    /\ pred' = [pred EXCEPT ![t] = Null]
    /\ curr' = [curr EXCEPT ![t] = Null]

Return(t) ==
    /\ pc[t] = "return"
    /\ Goto(t, "idle")
    /\ op' = [op EXCEPT ![t] = "search"]
    /\ key' = [key EXCEPT ![t] = CHOOSE k \in Key : TRUE]
    /\ res' = [res EXCEPT ![t] = FALSE]
    /\ seen' = [seen EXCEPT ![t] = {}]
    /\ UNCHANGED <<build, nodes, segs, segment, localVars, left>>

-----------------------------------------------------------------------------
(* The walk without a lock: chm_get, chm_contains, and the updates over OPTIK *)

\* The load of the segment.
Start(t) ==
    /\ pc[t] = "start"
    /\ seg' = [seg EXCEPT ![t] = segment]
    /\ Goto(t, IF build = "optik" /\ op[t] # "search" THEN "version" ELSE "bucket")
    /\ UNCHANGED <<build, nodes, segs, segment, op, key, res, ver, pred, curr, left, seen>>

Version(t) ==
    /\ pc[t] = "version"
    /\ ver' = [ver EXCEPT ![t] = segs[seg[t]].version]
    /\ Goto(t, "bucket")
    /\ UNCHANGED <<build, nodes, segs, segment, op, key, res, seg, pred, curr, left, seen>>

First(t) ==
    /\ pc[t] = "bucket"
    /\ pred' = [pred EXCEPT ![t] = Null]
    /\ curr' = [curr EXCEPT ![t] = Bucket(seg[t], key[t])]
    /\ Goto(t, "walk")
    /\ UNCHANGED <<build, nodes, segs, segment, op, key, res, seg, ver, left, seen>>

Found(t) == curr[t] # Null /\ nodes[curr[t]].key = key[t]
AtEnd(t) == curr[t] = Null \/ Found(t)

\* What the key's presence means for the operation: it has nothing to do.
Settled(t, present) ==
    \/ op[t] = "search"
    \/ op[t] = "insert" /\ present
    \/ op[t] = "remove" /\ ~present

Walk(t) ==
    /\ pc[t] = "walk" /\ ~AtEnd(t)
    /\ pred' = [pred EXCEPT ![t] = curr[t]]
    /\ curr' = [curr EXCEPT ![t] = nodes[curr[t]].next]
    /\ UNCHANGED <<build, nodes, segs, segment, pc, op, key, res, seg, ver, left, seen>>

WalkEnd(t) ==
    /\ pc[t] = "walk" /\ AtEnd(t)
    /\ IF Settled(t, Found(t)) THEN Finish(t, op[t] = "search" /\ Found(t))
       ELSE /\ Goto(t, IF build = "optik" THEN "trylock_version" ELSE "reload")
            /\ UNCHANGED <<res, localVars>>
    /\ UNCHANGED <<build, nodes, segs, segment, op, key, left, seen>>

-----------------------------------------------------------------------------
(* The lock *)

\* Mutant: whatever the version is.
CanLock_AnyVersion(s, v) == segs[s].version % 2 = 0

CanLock(s, v) == v % 2 = 0 /\ segs[s].version = v

\* optik_trylock_version; if it fails, the operation begins again.
TryLockVersion(t) ==
    /\ pc[t] = "trylock_version"
    /\ IF CanLock(seg[t], ver[t])
         THEN segs' = [segs EXCEPT ![seg[t]].version = @ + 1] /\ Goto(t, "update")
         ELSE UNCHANGED segs /\ Goto(t, "start")
    /\ UNCHANGED <<build, nodes, segment, op, key, res, localVars, left, seen>>

\* Mutant: the segment that has been loaded before.
Reload_Once(t) ==
    /\ pc[t] = "reload"
    /\ Goto(t, "trylock")
    /\ UNCHANGED <<build, nodes, segs, segment, op, key, res, localVars, left, seen>>

\* The segment is loaded again before each attempt.
Reload(t) ==
    /\ pc[t] = "reload"
    /\ seg' = [seg EXCEPT ![t] = segment]
    /\ Goto(t, "trylock")
    /\ UNCHANGED <<build, nodes, segs, segment, op, key, res, ver, pred, curr, left, seen>>

\* With the lock, the walk through the bucket, where nobody changes anything.
TryLock(t) ==
    /\ pc[t] = "trylock"
    /\ LET s == seg[t]
           chain == Chain(nodes, Bucket(s, key[t]))
           at == {i \in DOMAIN chain : nodes[chain[i]].key = key[t]}
           i == IF at = {} THEN Len(chain) + 1 ELSE CHOOSE j \in at : \A o \in at : j <= o
       IN CASE segs[s].version % 2 = 1 ->
                 Goto(t, "reload") /\ UNCHANGED <<segs, res, localVars>>
            [] segs[s].version % 2 = 0 /\ Settled(t, at # {}) ->
                 UNCHANGED segs /\ Finish(t, FALSE)
            [] OTHER ->
                 /\ segs' = [segs EXCEPT ![s].version = @ + 1]
                 /\ pred' = [pred EXCEPT ![t] = IF i = 1 THEN Null ELSE chain[i - 1]]
                 /\ curr' = [curr EXCEPT ![t] = IF at = {} THEN Null ELSE chain[i]]
                 /\ Goto(t, "update")
                 /\ UNCHANGED <<res, seg, ver>>
    /\ UNCHANGED <<build, nodes, segment, op, key, left, seen>>

-----------------------------------------------------------------------------
(* The update *)

\* Mutant: nodes are moved to their new chains, not copied.
chm_seg_rehash_Moves(table) ==
    LET n == 2 * Len(table)
        idx(m) == hash(nodes[m].key, n)
        clone(r, m) ==
            [nodes |-> [r.nodes EXCEPT ![m].next = r.table[idx(m)]],
             table |-> [r.table EXCEPT ![idx(m)] = m]]
        move(r, h) == FoldLeft(clone, r, Chain(nodes, h))
    IN FoldLeft(move, [nodes |-> nodes, table |-> [b \in 1..n |-> Null]], table)

\* The table of twice the size.  Of each chain, the last nodes that go to one bucket are
\* used as they are, and the ones before them are copied and given back.
chm_seg_rehash(table) ==
    LET n == 2 * Len(table)
        idx(m) == hash(nodes[m].key, n)
        clone(r, m) ==
            [nodes |-> Append([r.nodes EXCEPT ![m].freed = @ + 1],
                              Node(nodes[m].key, r.table[idx(m)])),
             table |-> [r.table EXCEPT ![idx(m)] = Len(r.nodes) + 1]]
        last_run(c) ==
            CHOOSE j \in DOMAIN c :
                /\ \A i \in j..Len(c) : idx(c[i]) = idx(c[j])
                /\ j > 1 => idx(c[j - 1]) # idx(c[j])
        move(r, h) ==
            IF h = Null THEN r
            ELSE LET c == Chain(nodes, h)
                     j == last_run(c)
                 IN FoldLeft(clone, [r EXCEPT !.table[idx(c[j])] = c[j]], SubSeq(c, 1, j - 1))
    IN FoldLeft(move, [nodes |-> nodes, table |-> [b \in 1..n |-> Null]], table)

\* The operations in progress on the same key see that it is now in the table, or not.
RecordSeen(t) ==
    seen' = [u \in Thread |->
               IF u # t /\ key[u] = key[t] /\ Phase(u) = "pending"
                 THEN seen[u] \union {op[t] = "insert"}
               ELSE seen[u]]

\* The bucket, or the node before, leads to n.
Store(ns, t, n) ==
    IF pred[t] = Null
      THEN /\ nodes' = ns
           /\ segs' = [segs EXCEPT ![seg[t]].table[hash(key[t], Len(segs[seg[t]].table))] = n,
                                   ![seg[t]].size = IF op[t] = "insert" THEN @ + 1 ELSE @ - 1]
      ELSE /\ nodes' = [ns EXCEPT ![pred[t]].next = n]
           /\ segs' = [segs EXCEPT ![seg[t]].size = IF op[t] = "insert" THEN @ + 1 ELSE @ - 1]

IsFull(t) == segs[seg[t]].size + 1 >= size_limit(seg[t])

Put(t) ==
    /\ pc[t] = "update" /\ op[t] = "insert" /\ ~IsFull(t)
    /\ Store(Append(nodes, Node(key[t], Null)), t, Len(nodes) + 1)
    /\ res' = [res EXCEPT ![t] = TRUE]
    /\ RecordSeen(t)
    /\ Goto(t, "unlock")
    /\ UNCHANGED <<build, segment, op, key, localVars, left>>

\* The new segment, with the new node in front of its chain, takes the place of the old.
Grow(t) ==
    /\ pc[t] = "update" /\ op[t] = "insert" /\ IsFull(t)
    /\ LET old == segs[seg[t]]
           new == chm_seg_rehash(old.table)
           b == hash(key[t], Len(new.table))
           n == Len(new.nodes) + 1
       IN /\ nodes' = Append(new.nodes, Node(key[t], new.table[b]))
          /\ segs' = Append(segs, Segment([new.table EXCEPT ![b] = n], old.size + 1))
          /\ segment' = Len(segs) + 1
    /\ RecordSeen(t)
    /\ Finish(t, TRUE)
    /\ UNCHANGED <<build, op, key, left>>

Rem(t) ==
    /\ pc[t] = "update" /\ op[t] = "remove"
    /\ Store([nodes EXCEPT ![curr[t]].freed = @ + 1], t, nodes[curr[t]].next)
    /\ res' = [res EXCEPT ![t] = TRUE]
    /\ RecordSeen(t)
    /\ Goto(t, "unlock")
    /\ UNCHANGED <<build, segment, op, key, localVars, left>>

Unlock(t) ==
    /\ pc[t] = "unlock"
    /\ segs' = [segs EXCEPT ![seg[t]].version = @ + 1]
    /\ Finish(t, TRUE)
    /\ UNCHANGED <<build, nodes, segment, op, key, left, seen>>

-----------------------------------------------------------------------------
Step(t) ==
    \/ Start(t) \/ Version(t) \/ First(t) \/ Walk(t) \/ WalkEnd(t)
    \/ TryLockVersion(t) \/ Reload(t) \/ TryLock(t)
    \/ Put(t) \/ Grow(t) \/ Rem(t) \/ Unlock(t) \/ Return(t)

Next == \E t \in Thread : Invoke(t) \/ Step(t)

Spec == Init /\ [][Next]_vars

\* A thread inside an operation runs on; nobody has to invoke one.
FairSpec == Spec /\ \A t \in Thread : WF_vars(Step(t))

-----------------------------------------------------------------------------
\* Every key is in its bucket, once, and the segment is never full:
\* no update works on a segment that has been replaced, or on a chain that has changed
\* since its walk (chm_put, chm_rem, chm_seg_rehash).
TableIsWhole ==
    LET table == segs[segment].table
    IN /\ \A b \in DOMAIN table :
             \A n \in ToSet(Chain(nodes, table[b])) : hash(nodes[n].key, Len(table)) = b
       /\ \A m, n \in Linked : nodes[m].key = nodes[n].key => m = n
       /\ segs[segment].size = Cardinality(Linked)
       /\ segs[segment].size < size_limit(segment)

\* Nodes are given back once, and not while the table leads to them (chm_rem, and the
\* copies of chm_seg_rehash).
FreedOnce ==
    LET linked == Linked
    IN \A n \in DOMAIN nodes : nodes[n].freed <= (IF n \in linked THEN 0 ELSE 1)

\* Nodes that are no longer in the table keep their pointers: searches in an old segment
\* come to an end, and nothing is linked behind a node that has been copied.
RemovedStayed == \A n \in DOMAIN nodes \ Linked : nodes'[n].next = nodes[n].next
RemovedIsFrozen == [][RemovedStayed]_vars

\* The table is a linearizable set, also while it grows.
Abstract ==
    INSTANCE IntervalSetSpec WITH
        contents <- Contents,
        full <- FALSE,
        phase <- [t \in Thread |-> Phase(t)],
        seen <- [t \in Thread |-> IF Phase(t) = "pending" THEN seen[t] ELSE {}]
ImplementsSet == Abstract!Spec

\* Nobody waits for ever at the lock of a segment that has been replaced.
AllReturn == \A t \in Thread : pc[t] # "idle" ~> pc[t] = "idle"
=============================================================================
