------------------------------ MODULE Backbone ------------------------------
(***************************************************************************)
(* How a search finds its way down the backbone (layoutTree.hpp): a node   *)
(* keeps its 15 separators in the order of a binary heap, constructBigNode *)
(* fills them in from the sorted vector of all keys, buildFromV and        *)
(* expandLeafBigNode divide the vector among the 16 children, and          *)
(* asmsearch finds the child in four comparisons.  A behaviour is the      *)
(* search for one key through a backbone built over one vector; DLTree     *)
(* has the same nodes with their separators in order.                      *)
(***************************************************************************)
EXTENDS Naturals, FiniteSets, Functions

CONSTANTS
    L,          \* levels of comparisons in a node: 4
    MaxTotal,   \* bound: keys in the vector
    MaxDepth    \* bound: nodes between the root and a treelet

BackboneAssumption == L \in Nat \ {0} /\ MaxTotal \in Nat /\ MaxDepth \in Nat

B == 2^L

VARIABLES
    total,      \* length of the vector
    key,        \* the key searched for
    first, len, \* the part of the vector below the node the search is at
    depth       \* nodes passed

vars == <<total, key, first, len, depth>>

\* The sorted vector, from 0 as in the code; the odd keys are absent.
v == [j \in 0..(total - 1) |-> 2 * (j + 1)]

\* Where child c of a node over len keys from first on begins.
Begin(f, n, c) == f + (c * n) \div B

\* Mutant: the separator is the first key that goes right.
separator_Right(f, n, idxx) == IF f + idxx >= total THEN 0 ELSE v[f + idxx]

\* The last key that goes left of the cut idxx.
separator(f, n, idxx) == IF f + idxx <= 0 THEN 0 ELSE v[f + idxx - 1]

\* keys[1 .. B - 1] of a node, level by level: position 2^l + i cuts at the odd
\* multiple 2 * i + 1 of delta, which halves from level to level.
constructBigNode(f, n) ==
    LET level(h) == CHOOSE l \in 0..(L - 1) : 2^l <= h /\ h < 2^(l + 1)
        delta(l) == B \div 2^(l + 1)
        cut(h) == (2 * (h - 2^level(h)) + 1) * delta(level(h))
    IN [h \in 1..(B - 1) |-> separator(f, n, (cut(h) * n) \div B)]

\* Mutant: a key equal to a separator goes right.
asmsearch_Left(k, keys) ==
    LET idx[l \in 0..L] ==
          IF l = 0 THEN 1 ELSE 2 * idx[l - 1] + (IF k >= keys[idx[l - 1]] THEN 1 ELSE 0)
    IN idx[L] - B

\* The child the search for k goes on to.
asmsearch(k, keys) ==
    LET idx[l \in 0..L] ==
          IF l = 0 THEN 1 ELSE 2 * idx[l - 1] + (IF k > keys[idx[l - 1]] THEN 1 ELSE 0)
    IN idx[L] - B

Init ==
    /\ total \in 0..MaxTotal
    /\ key \in 1..(2 * MaxTotal + 1)
    /\ first = 0
    /\ len = total
    /\ depth = 0

partLength(f, n, c) == Begin(f, n, c + 1) - Begin(f, n, c)

Descend ==
    /\ depth < MaxDepth
    /\ LET c == asmsearch(key, constructBigNode(first, len))
       IN /\ first' = Begin(first, len, c)
          /\ len' = partLength(first, len, c)
    /\ depth' = depth + 1
    /\ UNCHANGED <<total, key>>

Next == Descend

Spec == Init /\ [][Next]_vars

-----------------------------------------------------------------------------
\* The part of the vector the search has come to is the one the key belongs to: all
\* keys before it are smaller and all keys after it are larger, parts that are
\* empty and separators that are equal or 0 included.  A key that is in the tree
\* is found, and one that is inserted here is found again.
PartHoldsKey ==
    /\ \A j \in 0..(first - 1) : v[j] < key
    /\ \A j \in (first + len)..(total - 1) : v[j] > key

\* The comparisons in heap order count the separators smaller than the key.
SearchCounts ==
    LET keys == constructBigNode(first, len)
    IN asmsearch(key, keys) = Cardinality({h \in 1..(B - 1) : keys[h] < key})
=============================================================================
