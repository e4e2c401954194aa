------------------------------- MODULE ArrayMap -------------------------------
(***************************************************************************)
(* The maps that are an array of keys and values, searched slot by slot:   *)
(*   "optik"   src/DLTree/src/map-optik/set-optik.c, with an OPTIK lock:   *)
(*             operations scan without the lock, and take it only if the   *)
(*             version is the one they began with; a search only compares  *)
(*             the version                                                 *)
(*   "lock"    src/DLTree/src/map-lock/set-lockb.c, with one lock          *)
(* The bucket of hashtable-map_optik is the first one.                     *)
(*                                                                         *)
(* Every load and store of a key, a value or the version is a step, but    *)
(* under the lock of the second map, where nobody else looks; the load and *)
(* the CAS of optik_trylock_version are one step.  A key of 0 is a free    *)
(* slot.  The value an operation brings is its number, so that no two are  *)
(* the same.                                                               *)
(***************************************************************************)
EXTENDS Integers, Sequences, FiniteSets

CONSTANTS
    Thread,
    Key,       \* positive
    MaxOps,    \* bound: operations of the threads together
    Sizes,     \* of the arrays
    Builds     \* of {"optik", "lock"}

ArrayMapAssumption ==
    /\ IsFiniteSet(Key) /\ Key \subseteq Nat \ {0}
    /\ MaxOps \in Nat /\ Sizes \subseteq Nat \ {0}
    /\ Builds \subseteq {"optik", "lock"}

VARIABLES
    build,
    array,       \* array[i]: [key, val]
    version,     \* of the OPTIK lock, odd while it is locked; the other lock likewise
    pc,          \* control points
    op, key,     \* the operation of each thread and its key
    val,         \* the value it brings, or has found
    res,         \* its result: whether it has succeeded
    ver,         \* the version it began with
    slot,        \* where its scan is
    free,        \* free_idx: the last free slot it has seen, or 0
    left,        \* operations that may still be invoked
    bound        \* history: what key[t] was bound to since the call, 0 if to nothing

scanVars == <<ver, slot, free>>
vars == <<build, array, version, pc, op, key, val, res, scanVars, left, bound>>

Slot == DOMAIN array
Size == Len(array)
Goto(t, l) == pc' = [pc EXCEPT ![t] = l]

\* The slots that hold key k; what it is bound to, which is not in its slot yet between
\* the two stores of an insertion.
At(k) == {i \in Slot : array[i].key = k}
InSlot(k) == IF At(k) = {} THEN 0 ELSE array[CHOOSE i \in At(k) : TRUE].val
Binding(k) ==
    LET storing == {t \in Thread : pc[t] = "stored" /\ key[t] = k}
    IN IF storing = {} THEN InSlot(k) ELSE val[CHOOSE t \in storing : TRUE]

Contents == {array[i].key : i \in Slot} \ {0}

\* Insertions and removals made before: any arrangement, up to the names of the keys,
\* of values that nobody brings.
Init ==
    /\ build \in Builds
    /\ \E size \in Sizes :
          /\ array \in {a \in [1..size -> [key : Key \union {0}, val : {MaxOps + 1}]] :
                          \A i \in 1..size : a[i].key # 0 =>
                              {k \in Key : k <= a[i].key} = {a[j].key : j \in 1..i} \ {0}
                              /\ \A j \in 1..size : a[j].key = a[i].key => j = i}
    /\ version = 0
    /\ pc = [t \in Thread |-> "idle"]
    /\ op = [t \in Thread |-> "search"]
    /\ key = [t \in Thread |-> CHOOSE k \in Key : TRUE]
    /\ val = [t \in Thread |-> 0]
    /\ res = [t \in Thread |-> FALSE]
    /\ ver = [t \in Thread |-> 0]
    /\ slot = [t \in Thread |-> 1]
    /\ free = [t \in Thread |-> 0]
    /\ left = MaxOps
    /\ bound = [t \in Thread |-> {}]

Invoke(t) ==
    /\ pc[t] = "idle"
    /\ left > 0
    /\ left' = left - 1
    /\ \E o \in {"search", "insert", "remove"}, k \in Key :
          /\ op' = [op EXCEPT ![t] = o]
          /\ key' = [key EXCEPT ![t] = k]
          /\ val' = [val EXCEPT ![t] = IF o = "insert" THEN left ELSE 0]
          /\ bound' = [bound EXCEPT ![t] = {Binding(k)}]
    /\ Goto(t, "start")
    /\ UNCHANGED <<build, array, version, res, scanVars>>

\* The operation has its result.
Finish(t, result) ==
    /\ Goto(t, "return")
    /\ res' = [res EXCEPT ![t] = result]
    /\ ver' = [ver EXCEPT ![t] = 0]
    /\ slot' = [slot EXCEPT ![t] = 1]
    /\ free' = [free EXCEPT ![t] = 0]

Return(t) ==
    /\ pc[t] = "return"
    /\ Goto(t, "idle")
    /\ op' = [op EXCEPT ![t] = "search"]
    /\ key' = [key EXCEPT ![t] = CHOOSE k \in Key : TRUE]
    /\ res' = [res EXCEPT ![t] = FALSE]
    /\ val' = [val EXCEPT ![t] = 0]
    /\ bound' = [bound EXCEPT ![t] = {}]
    /\ UNCHANGED <<build, array, version, scanVars, left>>

\* The operations in progress on key k see what it is bound to now.
RecordBound(k, now) ==
    bound' = [u \in Thread |->
                IF key[u] = k /\ pc[u] \notin {"idle", "return"} THEN bound[u] \union {now}
                ELSE bound[u]]

IsLocked(ver0) == ver0 % 2 = 1

-----------------------------------------------------------------------------
(* The scan, over the OPTIK lock *)

\* A search waits for an even version (optik_get_version_wait); the others load it.
Start(t) ==
    /\ pc[t] = "start" /\ build = "optik"
    /\ op[t] = "search" => ~IsLocked(version)
    /\ ver' = [ver EXCEPT ![t] = version]
    /\ slot' = [slot EXCEPT ![t] = 1]
    /\ free' = [free EXCEPT ![t] = 0]
    /\ Goto(t, "scan")
    /\ UNCHANGED <<build, array, version, op, key, val, res, left, bound>>

FreeSeen(t) ==
    IF op[t] = "insert" /\ array[slot[t]].key = 0 THEN slot[t] ELSE free[t]

\* The load of a slot's key that is not the one, before the last slot and at it.
ScanOn(t) ==
    /\ pc[t] = "scan" /\ slot[t] < Size
    /\ array[slot[t]].key # key[t]
    /\ free' = [free EXCEPT ![t] = FreeSeen(t)]
    /\ slot' = [slot EXCEPT ![t] = @ + 1]
    /\ UNCHANGED <<build, array, version, pc, op, key, val, res, ver, left, bound>>

ScanEnd(t) ==
    /\ pc[t] = "scan" /\ slot[t] = Size
    /\ array[slot[t]].key # key[t]
    /\ IF op[t] = "insert"
         THEN /\ free' = [free EXCEPT ![t] = FreeSeen(t)]
              /\ Goto(t, "lock") /\ UNCHANGED <<res, ver, slot>>
         ELSE Finish(t, FALSE)
    /\ UNCHANGED <<build, array, version, op, key, val, left, bound>>

\* The load of the key itself.
ScanHit(t) ==
    /\ pc[t] = "scan"
    /\ array[slot[t]].key = key[t]
    /\ CASE op[t] = "search" -> Goto(t, "value") /\ UNCHANGED <<res, scanVars>>
         [] op[t] = "insert" -> Finish(t, FALSE)
         [] op[t] = "remove" -> Goto(t, "lock") /\ UNCHANGED <<res, scanVars>>
    /\ UNCHANGED <<build, array, version, op, key, val, left, bound>>

LoadValue(t) ==
    /\ pc[t] = "value"
    /\ val' = [val EXCEPT ![t] = array[slot[t]].val]
    /\ Goto(t, "same")
    /\ UNCHANGED <<build, array, version, op, key, res, scanVars, left, bound>>

\* Mutant: the search trusts the key and the value it has loaded one after the other.
SameVersion_Any(t) ==
    /\ pc[t] = "same"
    /\ Finish(t, TRUE)
    /\ UNCHANGED <<build, array, version, op, key, val, left, bound>>

\* optik_is_same_version, or goto restart.
SameVersion(t) ==
    /\ pc[t] = "same"
    /\ IF ver[t] = version
         THEN Finish(t, TRUE) /\ UNCHANGED val
         ELSE /\ Goto(t, "start") /\ val' = [val EXCEPT ![t] = 0]
              /\ UNCHANGED <<res, scanVars>>
    /\ UNCHANGED <<build, array, version, op, key, left, bound>>

-----------------------------------------------------------------------------
(* The update *)

\* Mutant: the lock is taken whatever the version.
CanLock_AnyVersion(ver0) == ~IsLocked(version)

CanLock(ver0) == ~IsLocked(ver0) /\ version = ver0

\* optik_trylock_version, or goto restart.  An insertion with no free slot fails.
LockVersion(t) ==
    /\ pc[t] = "lock"
    /\ IF CanLock(ver[t])
         THEN /\ version' = version + 1
              /\ Goto(t, IF op[t] = "insert" /\ free[t] = 0 THEN "failed" ELSE "write")
         ELSE UNCHANGED version /\ Goto(t, "start")
    /\ UNCHANGED <<build, array, op, key, val, res, scanVars, left, bound>>

StoreKey(t) ==
    /\ pc[t] = "write" /\ op[t] = "insert"
    /\ array' = [array EXCEPT ![free[t]].key = key[t]]
    /\ RecordBound(key[t], val[t])
    /\ Goto(t, "stored")
    /\ UNCHANGED <<build, version, op, key, val, res, scanVars, left>>

StoreValue(t) ==
    /\ pc[t] = "stored"
    /\ array' = [array EXCEPT ![free[t]].val = val[t]]
    /\ Goto(t, "unlock")
    /\ UNCHANGED <<build, version, op, key, val, res, scanVars, left, bound>>

Clear(t) ==
    /\ pc[t] = "write" /\ op[t] = "remove"
    /\ val' = [val EXCEPT ![t] = array[slot[t]].val]
    /\ array' = [array EXCEPT ![slot[t]].key = 0]
    /\ RecordBound(key[t], 0)
    /\ Goto(t, "unlock")
    /\ UNCHANGED <<build, version, op, key, res, scanVars, left>>

Unlock(t) ==
    /\ pc[t] \in {"unlock", "failed"}
    /\ version' = version + 1
    /\ Finish(t, pc[t] = "unlock")
    /\ UNCHANGED <<build, array, op, key, val, left, bound>>

-----------------------------------------------------------------------------
(* The map with one lock: an insertion stores the key as the value, too *)

Acquire(t) ==
    /\ pc[t] = "start" /\ build = "lock"
    /\ ~IsLocked(version)
    /\ version' = version + 1
    /\ Goto(t, "locked")
    /\ UNCHANGED <<build, array, op, key, val, res, scanVars, left, bound>>

Locked(t) ==
    /\ pc[t] = "locked"
    /\ LET here == At(key[t])
           room == {i \in Slot : array[i].key = 0}
           last == CHOOSE i \in room : \A j \in room : j <= i
       IN CASE op[t] = "search" ->
                 /\ val' = [val EXCEPT ![t] = InSlot(key[t])]
                 /\ Goto(t, IF here = {} THEN "failed" ELSE "unlock")
                 /\ UNCHANGED <<array, bound>>
            [] op[t] = "remove" /\ here # {} ->
                 /\ val' = [val EXCEPT ![t] = InSlot(key[t])]
                 /\ array' = [i \in Slot |-> IF i \in here THEN [array[i] EXCEPT !.key = 0] ELSE array[i]]
                 /\ RecordBound(key[t], 0)
                 /\ Goto(t, "unlock")
            [] op[t] = "insert" /\ here = {} /\ room # {} ->
                 /\ array' = [array EXCEPT ![last] = [key |-> key[t], val |-> key[t]]]
                 /\ RecordBound(key[t], key[t])
                 /\ Goto(t, "unlock") /\ UNCHANGED val
            [] OTHER -> Goto(t, "failed") /\ UNCHANGED <<array, val, bound>>
    /\ UNCHANGED <<build, version, op, key, res, scanVars, left>>

-----------------------------------------------------------------------------
Step(t) ==
    \/ Start(t) \/ ScanOn(t) \/ ScanEnd(t) \/ ScanHit(t) \/ LoadValue(t) \/ SameVersion(t)
    \/ LockVersion(t) \/ StoreKey(t) \/ StoreValue(t) \/ Clear(t) \/ Unlock(t)
    \/ Acquire(t) \/ Locked(t)
    \/ Return(t)

Next == \E t \in Thread : Invoke(t) \/ Step(t)

Spec == Init /\ [][Next]_vars

\* A thread inside an operation runs on; nobody has to invoke one.
FairSpec == Spec /\ \A t \in Thread : WF_vars(Step(t))

-----------------------------------------------------------------------------
\* No key is in two slots, whichever slots concurrent insertions have found free.
KeysOnce == \A k \in Contents : Cardinality(At(k)) = 1

\* What a search or a removal returns is a value its key was bound to during the
\* operation, though keys and values are loaded and stored one after the other, and
\* slots are used again for other keys (optik_map_contains, optik_map_remove).
ReturnsBoundValue ==
    \A t \in Thread :
        pc[t] = "return" /\ res[t] /\ op[t] # "insert" => val[t] \in bound[t] \ {0}

Phase(t) ==
    IF pc[t] = "idle" THEN "idle"
    ELSE IF pc[t] \in {"stored", "unlock", "failed", "return"} THEN "done"
    ELSE "pending"

\* The result, from the instant at which the operation has taken effect.
Result(t) == res[t] \/ pc[t] \in {"stored", "unlock"}

Seen(t) == IF Phase(t) = "pending" THEN {b # 0 : b \in bound[t]} ELSE {}

IsFull == Cardinality(Contents) = Size

\* The map is a linearizable set of keys; an insertion fails, too, when there is no
\* free slot.
Abstract ==
    INSTANCE IntervalSetSpec WITH
        contents <- Contents,
        full <- IsFull,
        phase <- [t \in Thread |-> Phase(t)],
        res <- [t \in Thread |-> Result(t)],
        seen <- [t \in Thread |-> Seen(t)]
ImplementsSet == Abstract!Spec

\* Operations that restart return in the end.
AllReturn == \A t \in Thread : pc[t] # "idle" ~> pc[t] = "idle"
=============================================================================
