-------------------------------- MODULE MCSets --------------------------------
(***************************************************************************)
(* The structures that hold a set of keys, but for the Dynamic-Layout tree *)
(* as a whole, in one run: the first state chooses one.  The lists, the    *)
(* other search trees, the skip lists (one of them is a priority queue),   *)
(* the array maps and the hash tables are concurrent; a treelet and the    *)
(* search through the backbone are parts of the Dynamic-Layout tree that a *)
(* lock guards.                                                            *)
(***************************************************************************)
EXTENDS Integers, Sequences

CONSTANTS
    Thread, Key,
    MarkedBuilds, MarkedOps, LockedBuilds, LockedOps, PughRoRemoves,  \* of the lists
    OptikOps,                                         \* MaxOps of the list of OPTIK locks
    TkOps, AravindKey, AravindOps, EllenOps,          \* of the search trees
    SkipOps, FraserBuilds, FraserOps, LevelMax,       \* of the skip lists
    MapBuilds, MapOps, Sizes,                         \* of the array maps
    TableKey, TableBuilds, TableOps, Capacity, LoadFactor,  \* of the hash tables
    TreeletKey,                                       \* Key of a treelet
    L, MaxTotal, MaxDepth                             \* of the backbone

VARIABLES
    which, build,                     \* the structure, and which program of the module
    nodes, pc, op, key, res, left, seen,
    x1, x2, x3, x4, x5, x6, x7, x8, x9  \* the other variables of the structure

ML == INSTANCE MarkedList WITH Builds <- MarkedBuilds, MaxOps <- MarkedOps,
        pred <- x1, curr <- x2, after <- x3, cnxt <- x4, mark <- x5
LL == INSTANCE LockedList WITH Builds <- LockedBuilds, MaxOps <- LockedOps,
        pred <- x1, curr <- x2, locks <- x3, glock <- x4, ver <- x5
OL == INSTANCE OptikList WITH MaxOps <- OptikOps,
        pred <- x1, curr <- x2, predVer <- x3, currVer <- x4, cnxt <- x5
TK == INSTANCE BstTk WITH MaxOps <- TkOps,
        pred <- x1, curr <- x2, ppred <- x3, predVer <- x4, ppredVer <- x5, right <- x6,
        pright <- x7
AV == INSTANCE BstAravind WITH Key <- AravindKey, MaxOps <- AravindOps,
        ancestor <- x1, successor <- x2, parent <- x3, leaf <- x4, tag <- x5, mine <- x6,
        frozen <- x7
EL == INSTANCE BstEllen WITH MaxOps <- EllenOps,
        gp <- x1, p <- x2, l <- x3, gpupdate <- x4, pupdate <- x5, mine <- x6,
        infos <- x7, stack <- x8
SL == INSTANCE SkipList WITH MaxOps <- SkipOps,
        pred <- x1, level <- x2, preds <- x3, succs <- x4, victim <- x5, height <- x6,
        found <- x7, locks <- x8
FS == INSTANCE FraserSkip WITH Builds <- FraserBuilds, MaxOps <- FraserOps,
        pred <- x1, level <- x2, preds <- x3, succs <- x4, victim <- x5, height <- x6,
        curr <- x7, after <- x8, still <- x9
AM == INSTANCE ArrayMap WITH Builds <- MapBuilds, MaxOps <- MapOps,
        array <- x1, version <- x2, val <- x3, ver <- x4, slot <- x5, free <- x6,
        bound <- x7
SG == INSTANCE SegmentTable WITH Key <- TableKey, Builds <- TableBuilds, MaxOps <- TableOps,
        pred <- x1, curr <- x2, ver <- x3, segs <- x4, segment <- x5, seg <- x6
TR == INSTANCE Treelet WITH Key <- TreeletKey,
        root <- x1, last <- x2
BB == INSTANCE Backbone WITH
        total <- x1, key <- x2, first <- x3, len <- x4, depth <- x5

ASSUME SetsAssumption ==
    /\ ML!MarkedListAssumption /\ LL!LockedListAssumption /\ OL!OptikListAssumption
    /\ TK!BstTkAssumption /\ AV!BstAravindAssumption /\ EL!BstEllenAssumption
    /\ SL!SkipListAssumption /\ FS!FraserAssumption /\ AM!ArrayMapAssumption
    /\ SG!SegmentTableAssumption
    /\ TR!KeyAssumption /\ BB!BackboneAssumption

call == <<pc, op, key, res, left>>
extra == <<x1, x2, x3, x4, x5, x6, x7, x8, x9>>
vars == <<which, build, nodes, call, seen, extra>>

-----------------------------------------------------------------------------
\* Where variables stay that the structure does not have.
NoBuild == build = "none"
NoNodes == nodes = <<>> /\ seen = [t \in Thread |-> {}]
No6to9 == x6 = <<>> /\ x7 = <<>> /\ x8 = <<>> /\ x9 = <<>>
No3to9 == x3 = <<>> /\ x4 = <<>> /\ x5 = <<>> /\ No6to9
No8to9 == x8 = <<>> /\ x9 = <<>>

Init ==
    \/ which = "marked" /\ ML!Init /\ No6to9
    \/ which = "locked" /\ LL!Init /\ No6to9
    \/ which = "optik" /\ OL!Init /\ NoBuild /\ No6to9
    \/ which = "tk" /\ TK!Init /\ NoBuild /\ No8to9
    \/ which = "aravind" /\ AV!Init /\ NoBuild /\ No8to9
    \/ which = "ellen" /\ EL!Init /\ NoBuild /\ x9 = <<>>
    \/ which = "skip" /\ SL!Init /\ NoBuild /\ x9 = <<>>
    \/ which = "fraser" /\ FS!Init
    \/ which = "map" /\ AM!Init /\ NoNodes /\ No8to9
    \/ which = "segments" /\ SG!Init /\ x7 = <<>> /\ No8to9
    \/ /\ \/ which = "treelet" /\ TR!Init /\ No3to9
          \/ which = "backbone" /\ BB!Init /\ No6to9
       /\ pc = [t \in Thread |-> "idle"]
       /\ op = [t \in Thread |-> "search"]
       /\ key = [t \in Thread |-> CHOOSE k \in Key : TRUE]
       /\ res = [t \in Thread |-> FALSE]
       /\ left = 0
       /\ NoBuild /\ NoNodes

\* What the steps of each structure leave alone.
Frame ==
    /\ UNCHANGED which
    /\ CASE which \in {"marked", "locked"} -> UNCHANGED <<x6, x7, x8, x9>>
         [] which = "optik" -> UNCHANGED <<build, x6, x7, x8, x9>>
         [] which \in {"tk", "aravind"} -> UNCHANGED <<build, x8, x9>>
         [] which \in {"ellen", "skip"} -> UNCHANGED <<build, x9>>
         [] which = "fraser" -> TRUE
         [] which = "map" -> UNCHANGED <<nodes, seen, x8, x9>>
         [] which = "segments" -> UNCHANGED <<x7, x8, x9>>
         [] which = "treelet" ->
               UNCHANGED <<build, nodes, call, seen, x3, x4, x5, x6, x7, x8, x9>>
         [] which = "backbone" -> UNCHANGED <<build, nodes, call, seen, x6, x7, x8, x9>>

Invoke(t) ==
    \/ which = "marked" /\ ML!Invoke(t)
    \/ which = "locked" /\ LL!Invoke(t)
    \/ which = "optik" /\ OL!Invoke(t)
    \/ which = "tk" /\ TK!Invoke(t)
    \/ which = "aravind" /\ AV!Invoke(t)
    \/ which = "ellen" /\ EL!Invoke(t)
    \/ which = "skip" /\ SL!Invoke(t)
    \/ which = "fraser" /\ FS!Invoke(t)
    \/ which = "map" /\ AM!Invoke(t)
    \/ which = "segments" /\ SG!Invoke(t)

Step(t) ==
    \/ which = "marked" /\ ML!Step(t)
    \/ which = "locked" /\ LL!Step(t)
    \/ which = "optik" /\ OL!Step(t)
    \/ which = "tk" /\ TK!Step(t)
    \/ which = "aravind" /\ AV!Step(t)
    \/ which = "ellen" /\ EL!Step(t)
    \/ which = "skip" /\ SL!Step(t)
    \/ which = "fraser" /\ FS!Step(t)
    \/ which = "map" /\ AM!Step(t)
    \/ which = "segments" /\ SG!Step(t)

Sequential ==
    \/ which = "treelet" /\ TR!Next
    \/ which = "backbone" /\ BB!Next

Next == (Sequential \/ \E t \in Thread : Invoke(t) \/ Step(t)) /\ Frame

\* A thread inside an operation runs on; nobody has to invoke one.
FairSpec ==
    /\ Init /\ [][Next]_vars
    /\ \A t \in Thread : WF_vars(Step(t) /\ Frame)

-----------------------------------------------------------------------------
\* One of them is no set.
IsQueue == which = "fraser" /\ FS!IsQueue

Phase(t) ==
    CASE which = "marked" -> ML!Phase(t)
      [] which = "locked" -> LL!Phase(t)
      [] which = "optik" -> OL!Phase(t)
      [] which = "tk" -> TK!Phase(t)
      [] which = "aravind" -> AV!Phase(t)
      [] which = "ellen" -> EL!Phase(t)
      [] which = "skip" -> SL!Phase(t)
      [] which = "fraser" /\ ~IsQueue -> FS!Phase(t)
      [] which = "map" -> AM!Phase(t)
      [] which = "segments" -> SG!Phase(t)
      [] OTHER -> "idle"

Contents ==
    CASE which = "marked" -> ML!Contents
      [] which = "locked" -> LL!Contents
      [] which = "optik" -> OL!Contents
      [] which = "tk" -> TK!Contents
      [] which = "aravind" -> AV!Contents
      [] which = "ellen" -> EL!Contents
      [] which = "skip" -> SL!Contents
      [] which = "fraser" /\ ~IsQueue -> FS!Contents
      [] which = "map" -> AM!Contents
      [] which = "segments" -> SG!Contents
      [] OTHER -> {}

Result(t) ==
    CASE which \in {"optik", "tk"} -> res[t] \/ pc[t] = "unlock"
      [] which = "map" -> AM!Result(t)
      [] OTHER -> ~IsQueue /\ res[t]

Seen(t) ==
    IF Phase(t) # "pending" THEN {}
    ELSE IF which = "map" THEN AM!Seen(t)
    ELSE seen[t]

\* Every one of them but the priority queue is a linearizable set (ImplementsSet of MarkedList, LockedList,
\* OptikList, BstTk, BstAravind, BstEllen, SkipList, FraserSkip, ArrayMap and
\* SegmentTable): what set_contains, set_insert and set_delete promise.  Only an array map is ever full.
Abstract ==
    INSTANCE IntervalSetSpec WITH
        Key <- Key \union AravindKey \union TableKey,
        contents <- Contents,
        phase <- [t \in Thread |-> Phase(t)],
        op <- [t \in Thread |-> IF IsQueue THEN "search" ELSE op[t]],
        key <- [t \in Thread |-> IF IsQueue THEN CHOOSE k \in Key : TRUE ELSE key[t]],
        res <- [t \in Thread |-> Result(t)],
        seen <- [t \in Thread |-> Seen(t)],
        full <- which = "map" /\ AM!IsFull
ImplementsSet == Abstract!Spec

\* FraserSkip!ImplementsPriorityQueue
Priority ==
    INSTANCE PrioritySpec WITH
        contents <- IF IsQueue THEN FS!Contents ELSE {},
        phase <- [t \in Thread |-> IF IsQueue THEN FS!Phase(t) ELSE "idle"],
        op <- [t \in Thread |-> IF IsQueue /\ op[t] # "search" THEN op[t] ELSE "insert"],
        key <- [t \in Thread |-> IF IsQueue THEN key[t] ELSE CHOOSE k \in Key : TRUE],
        res <- [t \in Thread |-> IsQueue /\ res[t]],
        seen <- [t \in Thread |-> IF IsQueue THEN FS!Seen(t) ELSE {}],
        still <- [t \in Thread |-> IF IsQueue THEN FS!Still(t) ELSE {}]
ImplementsPriorityQueue == Priority!Spec

\* No race of updates and helpers loses a node, breaks the order or doubles a key:
\* ListIsWhole of the lists and of the skip lists, TreeIsWhole of the trees, KeysOnce of the array maps,
\* TableIsWhole of the hash tables.
IsWhole ==
    CASE which = "marked" -> ML!ListIsWhole
      [] which = "locked" -> LL!ListIsWhole
      [] which = "optik" -> OL!ListIsWhole
      [] which = "tk" -> TK!TreeIsWhole
      [] which = "aravind" -> AV!TreeIsWhole
      [] which = "ellen" -> EL!TreeIsWhole
      [] which = "skip" -> SL!ListIsWhole
      [] which = "fraser" -> FS!ListIsWhole
      [] which = "map" -> AM!KeysOnce
      [] which = "segments" -> SG!TableIsWhole
      [] OTHER -> TRUE

\* Nodes are given back once, and not while the structure leads to them: FreedOnce of
\* MarkedList, LockedList, BstTk, BstAravind, BstEllen, SkipList, FraserSkip and
\* SegmentTable.
FreedOnce ==
    CASE which = "marked" -> ML!FreedOnce
      [] which = "locked" -> LL!FreedOnce
      [] which = "tk" -> TK!FreedOnce
      [] which = "aravind" -> AV!FreedOnce
      [] which = "ellen" -> EL!FreedOnce
      [] which = "skip" -> SL!FreedOnce
      [] which = "fraser" -> FS!FreedOnce
      [] which = "segments" -> SG!FreedOnce
      [] OTHER -> TRUE

\* Nothing is linked behind or under a node that has been removed: RemovedIsFrozen of
\* the lists, the trees, the skip lists and the hash tables.
RemovedStayed ==
    /\ which = "marked" => ML!RemovedStayed
    /\ which = "locked" => LL!RemovedStayed
    /\ which = "optik" => OL!RemovedStayed
    /\ which = "tk" => TK!RemovedStayed
    /\ which = "aravind" => AV!RemovedStayed
    /\ which = "ellen" => EL!RemovedStayed
    /\ which = "skip" => SL!RemovedStayed
    /\ which = "fraser" => FS!RemovedStayed
    /\ which = "segments" => SG!RemovedStayed
RemovedIsFrozen == [][RemovedStayed]_vars

\* ArrayMap!ReturnsBoundValue
ReturnsBoundValue == which = "map" => AM!ReturnsBoundValue

\* Every operation returns, though it begins again when another one was in its way:
\* locks are taken in the order of the list or up the tree, and no two threads disturb
\* each other for ever (AllReturn of each structure).  MaxOps
\* bounds the operations, so all of them return if all threads are idle in the end.
AllReturn == <>[](\A t \in Thread : pc[t] = "idle")

\* Treelet!ItemsAreSorted, Treelet!ActsAsSet
ItemsAreSorted == which = "treelet" => TR!ItemsAreSorted
ActsAsSet == which = "treelet" => TR!ActsAsSet

\* Backbone!PartHoldsKey, Backbone!SearchCounts
PartHoldsKey == which = "backbone" => BB!PartHoldsKey
SearchCounts == which = "backbone" => BB!SearchCounts
=============================================================================
