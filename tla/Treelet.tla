------------------------------- MODULE Treelet -------------------------------
(***************************************************************************)
(* A treelet of the Dynamic-Layout tree: the search tree of class          *)
(* globalLockTree, whose root is in the object itself and whose two        *)
(* subtrees are the ordinary ones of class noLockHelper.  Its operations   *)
(* run one at a time, under the treelet's lock.  A tree is Nil or a node   *)
(* [key, left, right]; assigning through the pointer a search ended at is  *)
(* rebuilding the path to it.                                              *)
(***************************************************************************)
EXTENDS Naturals, Sequences, SequencesExt, FiniteSets

CONSTANT Key    \* positive: 0 is INVALID_KEY_SMALL

KeyAssumption == IsFiniteSet(Key) /\ Key \subseteq Nat \ {0}

VARIABLES
    root,    \* [key, left, right]: key_, left.head, right.head
    last     \* history: the last call and what it returned, and the items before it

vars == <<root, last>>

Nil == <<>>
TreeNode(k, l, r) == [key |-> k, left |-> l, right |-> r]

-----------------------------------------------------------------------------
(* class noLockHelper *)

RECURSIVE search(_, _), insert(_, _), remove(_, _), minKey(_), dropMin(_),
          build(_), addItems(_)

search(n, k) ==
    /\ n # Nil
    /\ \/ k = n.key
       \/ k < n.key /\ search(n.left, k)
       \/ k > n.key /\ search(n.right, k)

\* The subtree with key k in it, where the search for it ends.
insert(n, k) ==
    IF n = Nil THEN TreeNode(k, Nil, Nil)
    ELSE IF k < n.key THEN [n EXCEPT !.left = insert(@, k)]
    ELSE IF k > n.key THEN [n EXCEPT !.right = insert(@, k)]
    ELSE n

\* Mutant: the successor's right subtree is lost when it is unlinked.
dropMin_LosesRight(n) == IF n.left = Nil THEN Nil ELSE [n EXCEPT !.left = dropMin(@)]

\* The smallest key of a tree that has one, and the tree without it (removeMin).
minKey(n) == IF n.left = Nil THEN n.key ELSE minKey(n.left)
dropMin(n) == IF n.left = Nil THEN n.right ELSE [n EXCEPT !.left = dropMin(@)]

\* What takes the place of node n: a child, or its successor, which is the right
\* child or the leftmost node below that.
deleteNode(n) ==
    IF n.right = Nil THEN n.left
    ELSE IF n.left = Nil THEN n.right
    ELSE IF n.right.left = Nil THEN [n.right EXCEPT !.left = n.left]
    ELSE TreeNode(minKey(n.right), n.left, dropMin(n.right))

remove(n, k) ==
    IF n = Nil THEN Nil
    ELSE IF k < n.key THEN [n EXCEPT !.left = remove(@, k)]
    ELSE IF k > n.key THEN [n EXCEPT !.right = remove(@, k)]
    ELSE deleteNode(n)

\* The balanced tree over a sorted sequence.
build(s) ==
    IF s = <<>> THEN Nil
    ELSE LET mid == Len(s) \div 2 + 1
         IN TreeNode(s[mid], build(SubSeq(s, 1, mid - 1)), build(SubSeq(s, mid + 1, Len(s))))

addItems(n) == IF n = Nil THEN <<>> ELSE addItems(n.left) \o <<n.key>> \o addItems(n.right)

-----------------------------------------------------------------------------
(* class globalLockTree *)

Empty == TreeNode(0, Nil, Nil)

\* The constructor over the sorted keys s.
Construct(s) ==
    LET mid == Len(s) \div 2 + 1
    IN IF s = <<>> THEN Empty
       ELSE TreeNode(s[mid], build(SubSeq(s, 1, mid - 1)), build(SubSeq(s, mid + 1, Len(s))))

Items(x) == IF x.key = 0 THEN <<>> ELSE addItems(x.left) \o <<x.key>> \o addItems(x.right)

Contents == Range(Items(root))

Answer(o, k, r) == last' = [op |-> o, key |-> k, res |-> r, before |-> Contents]

SearchKey(k) ==
    /\ Answer("search", k, \/ k = root.key
                           \/ k < root.key /\ search(root.left, k)
                           \/ k > root.key /\ search(root.right, k))
    /\ UNCHANGED root

InsertKey(k) ==
    \/ /\ root.key = 0
       /\ root' = [root EXCEPT !.key = k]
       /\ Answer("insert", k, TRUE)
    \/ /\ root.key = k
       /\ Answer("insert", k, FALSE)
       /\ UNCHANGED root
    \/ /\ root.key \notin {0, k}
       /\ LET side == IF k < root.key THEN "left" ELSE "right"
          IN /\ Answer("insert", k, ~search(root[side], k))
             /\ root' = [root EXCEPT ![side] = insert(@, k)]

\* Mutant: the left subtree is not looked at when the right one is empty.
RootWithoutKey_ForgetsLeft ==
    IF root.right # Nil
      THEN TreeNode(minKey(root.right), root.left, dropMin(root.right))
      ELSE [root EXCEPT !.key = 0]

\* The root's key goes: its successor comes up, or the top of the left subtree with
\* that node's subtrees on both sides, or the treelet is empty.
RootWithoutKey ==
    IF root.right # Nil
      THEN TreeNode(minKey(root.right), root.left, dropMin(root.right))
    ELSE IF root.left # Nil
      THEN TreeNode(root.left.key, root.left.left, root.left.right)
    ELSE [root EXCEPT !.key = 0]

RemoveKey(k) ==
    \/ /\ k = root.key
       /\ root' = RootWithoutKey
       /\ Answer("remove", k, TRUE)
    \/ /\ k # root.key
       /\ LET side == IF k < root.key THEN "left" ELSE "right"
          IN /\ Answer("remove", k, search(root[side], k))
             /\ root' = [root EXCEPT ![side] = remove(@, k)]

\* A layout change builds a new treelet over a range of the gathered keys.
Rebuild ==
    \E first \in 1..(Len(Items(root)) + 1) : \E end \in (first - 1)..Len(Items(root)) :
        /\ root' = Construct(SubSeq(Items(root), first, end))
        /\ last' = [op |-> "rebuild", key |-> first, res |-> TRUE,
                    before |-> Range(SubSeq(Items(root), first, end))]

Init ==
    /\ root = Empty
    /\ last = [op |-> "rebuild", key |-> 0, res |-> TRUE, before |-> {}]

Next == Rebuild \/ \E k \in Key : SearchKey(k) \/ InsertKey(k) \/ RemoveKey(k)

Spec == Init /\ [][Next]_vars

-----------------------------------------------------------------------------
\* The items come out of the tree in order and once each, the root's key among them,
\* and a root without a key has nothing below it: a key left there would be lost to
\* addItems and to the count (gatherAll, constructBigNode rely on both).
ItemsAreSorted ==
    /\ \A a, b \in 1..Len(Items(root)) : a < b => Items(root)[a] < Items(root)[b]
    /\ root.key = 0 => root = Empty

\* Every operation answers for, and does to the items, what it does for a set: the
\* deletions that move a successor up lose and invent no key.
ActsAsSet ==
    LET present == last.key \in last.before
    IN CASE last.op = "search" -> last.res = present /\ Contents = last.before
         [] last.op = "insert" -> last.res = ~present /\ Contents = last.before \union {last.key}
         [] last.op = "remove" -> last.res = present /\ Contents = last.before \ {last.key}
         [] last.op = "rebuild" -> Contents = last.before
=============================================================================
