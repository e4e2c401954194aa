----------------------------- MODULE DLTreeProofs -----------------------------
(***************************************************************************)
(* For any number of threads, any keys and any number of children to a     *)
(* node: the Dynamic-Layout tree is a linearizable set, a thread that has  *)
(* its treelet has one that is part of the tree, keys are where walks look *)
(* for them, and the count of the keys is exact.                           *)
(*                                                                         *)
(* The proof follows the parts of the inductive invariant IInv.  Most      *)
(* steps leave the backbone alone (they are "quiet"): for these the shape  *)
(* of the backbone and the place of every key stay, and the walks and the  *)
(* treelets' locks are followed.  The steps of a layout change's work are  *)
(* taken one by one: for each, the nodes still to come to and the keys     *)
(* that walks lead to each node are given anew.  Then come the theorems:   *)
(* what is reachable, where routes end, and what a step does to the        *)
(* contents of the tree and to the counts.                                 *)
(***************************************************************************)
EXTENDS DLTree, WellFoundedInduction, FiniteSetTheorems, SequenceTheorems, TLAPS

-----------------------------------------------------------------------------
(* Numbers, sets in order, and the parts of the vector *)

\* A set of naturals that is not empty has a least element: what induction there is here is
\* by the least counterexample.
LEMMA LeastNatural ==
    ASSUME NEW S \in SUBSET Nat, S # {}
    PROVE  \E n \in S : \A m \in S : n <= m
<1> DEFINE R == OpToRel(<, Nat)
<1>1. IsWellFoundedOn(R, Nat)
  BY NatLessThanWellFounded
<1>2. PICK n \in S : \A m \in S : ~(<<m, n>> \in R)
  <2> HIDE DEF R
  <2> QED  BY <1>1, WFMin
<1>3. ASSUME NEW m \in S, m < n PROVE FALSE
  <2>1. m \in Nat /\ n \in Nat
    OBVIOUS
  <2>2. <<m, n>> \in OpToRel(<, Nat)
    BY <2>1, <1>3, Zenon DEF OpToRel
  <2> QED  BY <1>2, <2>2
<1> QED
  BY <1>3

\* There are at least two children to a node.
LEMMA BType == B \in Nat /\ B > 1
BY DLTreeAssumption

\* Keys are finitely many positive numbers, and there is one.
LEMMA KeyType == Key \subseteq Nat /\ 0 \notin Key /\ IsFiniteSet(Key) /\ Key # {}
BY DLTreeAssumption

\* What a division by B returns.
LEMMA Quotient ==
    ASSUME NEW n \in Nat
    PROVE  /\ n \div B \in Nat
           /\ B * (n \div B) <= n
           /\ n < B * (n \div B) + B
BY BType, SMTT(60)

\* A larger number divided is no smaller.
LEMMA QuotientMonotone ==
    ASSUME NEW m \in Nat, NEW n \in Nat, m <= n
    PROVE  m \div B <= n \div B
<1> DEFINE p == m \div B
           q == n \div B
<1>1. p \in Nat /\ q \in Nat /\ B * p <= m /\ n < B * q + B
  BY Quotient
<1>2. B * p < B * (q + 1)
  <2>1. B * p \in Nat /\ B * q \in Nat /\ B * (q + 1) = B * q + B
    BY <1>1, BType
  <2> QED  BY <1>1, <2>1, BType
<1>3. p < q + 1
  <2> HIDE DEF p, q
  <2>1. ASSUME q + 1 <= p PROVE FALSE
    <3>1. PICK d \in Nat : p = q + 1 + d
      <4>1. p - (q + 1) \in Nat /\ p = q + 1 + (p - (q + 1))
        BY <1>1, <2>1
      <4> QED  BY <4>1
    <3>2. B * p = B * (q + 1) + B * d
      BY <1>1, <3>1, BType
    <3>3. B * d \in Nat /\ B * (q + 1) \in Nat /\ B * p \in Nat
      BY <1>1, <3>1, BType
    <3> QED  BY <1>2, <3>2, <3>3
  <2> QED  BY <1>1, <2>1
<1> QED
  BY <1>1, <1>3

\* Where the parts begin: the first at the first key, one after the other, up to the last key.
LEMMA BeginBounds ==
    ASSUME NEW first \in Nat, NEW len \in Nat
    PROVE  /\ \A c \in Nat : Begin(first, len, c) \in Nat /\ first <= Begin(first, len, c)
           /\ Begin(first, len, 0) = first
           /\ Begin(first, len, B) = first + len
           /\ \A c, d \in Nat : c <= d => Begin(first, len, c) <= Begin(first, len, d)
<1>1. ASSUME NEW c \in Nat PROVE c * len \in Nat /\ (c * len) \div B \in Nat
  <2>1. c * len \in Nat
    OBVIOUS
  <2> QED  BY <2>1, Quotient
<1>2. Begin(first, len, 0) = first
  <2>1. 0 * len = 0 /\ 0 \div B = 0
    BY BType
  <2> QED  BY <2>1 DEF Begin
<1>3. Begin(first, len, B) = first + len
  <2>1. (B * len) \div B = len
    <3>1. B * len \in Nat
      BY BType
    <3> DEFINE q == (B * len) \div B
    <3>2. q \in Nat /\ B * q <= B * len /\ B * len < B * q + B
      BY <3>1, Quotient
    <3> HIDE DEF q
    <3>3. q <= len
      BY <3>2, BType, SMTT(30)
    <3>4. len <= q
      BY <3>2, BType, SMTT(30)
    <3>5. q = len
      BY <3>2, <3>3, <3>4
    <3> QED  BY <3>5 DEF q
  <2> QED  BY <2>1 DEF Begin
<1>4. ASSUME NEW c \in Nat, NEW d \in Nat, c <= d PROVE Begin(first, len, c) <= Begin(first, len, d)
  <2>1. c * len <= d * len
    <3>1. PICK e \in Nat : d = c + e
      <4>1. d - c \in Nat /\ d = c + (d - c)
        BY <1>4
      <4> QED  BY <4>1
    <3>2. d * len = c * len + e * len /\ e * len \in Nat /\ c * len \in Nat
      BY <3>1
    <3> QED  BY <3>2
  <2>2. c * len \in Nat /\ d * len \in Nat
    OBVIOUS
  <2>3. (c * len) \div B <= (d * len) \div B
    BY <2>1, <2>2, QuotientMonotone
  <2>4. (c * len) \div B \in Nat /\ (d * len) \div B \in Nat
    BY <1>1
  <2> QED  BY <2>3, <2>4 DEF Begin
<1>5. ASSUME NEW c \in Nat PROVE Begin(first, len, c) \in Nat /\ first <= Begin(first, len, c)
  BY <1>1 DEF Begin
<1> QED
  BY <1>2, <1>3, <1>4, <1>5

\* Every key of the vector is in one of the parts.
LEMMA SomePart ==
    ASSUME NEW first \in Nat, NEW len \in Nat, NEW l \in (first + 1)..(first + len)
    PROVE  \E c \in 1..B : l \in (Begin(first, len, c - 1) + 1)..Begin(first, len, c)
<1> DEFINE S == {c \in Nat : l <= Begin(first, len, c)}
<1>1. B \in S
  BY BeginBounds, BType
<1>2. PICK c \in S : \A d \in S : c <= d
  <2> HIDE DEF S
  <2>1. S \in SUBSET Nat
    BY DEF S
  <2> QED  BY <1>1, <2>1, LeastNatural
<1>3. c \in Nat /\ c <= B /\ l <= Begin(first, len, c)
  BY <1>1, <1>2
<1>4. c # 0
  BY <1>3, BeginBounds
<1>5. c - 1 \in Nat /\ ~(l <= Begin(first, len, c - 1))
  BY <1>2, <1>3, <1>4
<1>6. Begin(first, len, c - 1) \in Nat /\ Begin(first, len, c) \in Nat
  BY <1>3, <1>5, BeginBounds
<1>7. c \in 1..B /\ l \in (Begin(first, len, c - 1) + 1)..Begin(first, len, c)
  BY <1>3, <1>4, <1>5, <1>6, BType
<1> QED
  BY <1>7

\* The child of a node with separators q that asmsearch chooses for key k.
ChildOf(q, k) == 1 + Cardinality({c \in 1..(B - 1) : k > q[c]})

\* asmsearch chooses one of the children.
LEMMA ChildType ==
    ASSUME NEW q \in [1..(B - 1) -> Nat], NEW k \in Nat
    PROVE  1 + Cardinality({c \in 1..(B - 1) : k > q[c]}) \in 1..B
<1> DEFINE S == {c \in 1..(B - 1) : k > q[c]}
<1>1. B - 1 \in Nat /\ 1 \in Int /\ IsFiniteSet(1..(B - 1)) /\ Cardinality(1..(B - 1)) = B - 1
  <2>1. B - 1 \in Nat /\ 1 <= B - 1
    BY BType
  <2> QED  BY <2>1, FS_Interval
<1>2. Cardinality(S) \in Nat /\ Cardinality(S) <= B - 1
  <2>1. S \in SUBSET (1..(B - 1))
    OBVIOUS
  <2> HIDE DEF S
  <2>2. IsFiniteSet(S) /\ Cardinality(S) <= Cardinality(1..(B - 1))
    BY <1>1, <2>1, FS_Subset
  <2> QED  BY <1>1, <2>2, FS_CardinalityType
<1> HIDE DEF S
<1>3. 1 + Cardinality(S) \in 1..B
  BY <1>2, BType
<1> QED
  BY <1>3 DEF S

\* It chooses no later child for a smaller key.
LEMMA ChildMonotone ==
    ASSUME NEW q \in [1..(B - 1) -> Nat], NEW k \in Nat, NEW m \in Nat, k <= m
    PROVE  1 + Cardinality({c \in 1..(B - 1) : k > q[c]}) <= 1 + Cardinality({c \in 1..(B - 1) : m > q[c]})
<1> DEFINE S == {c \in 1..(B - 1) : k > q[c]}
           T == {c \in 1..(B - 1) : m > q[c]}
<1>1. IsFiniteSet(1..(B - 1))
  BY BType, FS_Interval
<1>2. S \subseteq T /\ T \subseteq 1..(B - 1)
  OBVIOUS
<1>3. Cardinality(S) \in Nat /\ Cardinality(T) \in Nat /\ Cardinality(S) <= Cardinality(T)
  <2> HIDE DEF S, T
  <2>1. IsFiniteSet(T) /\ IsFiniteSet(S)
    BY <1>1, <1>2, FS_Subset
  <2> QED  BY <1>2, <2>1, FS_Subset, FS_CardinalityType
<1> HIDE DEF S, T
<1>4. 1 + Cardinality(S) <= 1 + Cardinality(T)
  BY <1>3
<1> QED
  BY <1>4 DEF S, T

\* constructBigNode: with the separators of a vector in order, a key of part c is led to child c.
LEMMA SeparatorsLead ==
    ASSUME NEW w \in Seq(Key), \A j, l \in 1..Len(w) : j < l => w[j] < w[l],
           NEW first \in Nat, NEW len \in Nat, first + len <= Len(w),
           NEW c \in 1..B, NEW l \in (Begin(first, len, c - 1) + 1)..Begin(first, len, c)
    PROVE  /\ Separators(w, first, len) \in [1..(B - 1) -> Key \union {0}]
           /\ l \in 1..Len(w)
           /\ ChildOf(Separators(w, first, len), w[l]) = c
<1> DEFINE b(d) == Begin(first, len, d)
           q == Separators(w, first, len)
<1>1. \A d \in Nat : b(d) \in Nat
  BY BeginBounds
<1>2. \A d, e \in Nat : d <= e => b(d) <= b(e)
  BY BeginBounds
<1>3. \A d \in 0..B : b(d) <= Len(w)
  <2>1. b(B) <= Len(w)
    BY BeginBounds
  <2>2. \A d \in 0..B : d \in Nat /\ B \in Nat /\ d <= B
    BY BType
  <2>3. \A d \in 0..B : b(d) <= b(B)
    BY <1>2, <2>2
  <2>4. \A d \in 0..B : b(d) \in Nat /\ b(B) \in Nat /\ Len(w) \in Nat
    BY SMTT(30), <1>1, <2>2
  <2> HIDE DEF b
  <2> QED  BY <2>1, <2>3, <2>4
<1>4. \A d \in 1..(B - 1) : q[d] = IF b(d) <= 0 THEN 0 ELSE w[b(d)]
  BY DEF Separators
<1>5. c - 1 \in Nat /\ c \in Nat /\ c \in 0..B /\ c - 1 \in 0..B
  BY BType
<1>6. l \in 1..Len(w)
  <2>1. b(c - 1) \in Nat /\ b(c) \in Nat /\ b(c) <= Len(w) /\ l \in (b(c - 1) + 1)..b(c)
    BY <1>1, <1>3, <1>5
  <2>2. Len(w) \in Nat
    OBVIOUS
  <2> HIDE DEF b
  <2> QED  BY <2>1, <2>2
<1>7. \A d \in 1..(B - 1) : b(d) \in Nat /\ b(d) <= Len(w) /\ d \in Nat
  <2>1. \A d \in 1..(B - 1) : d \in Nat /\ d \in 0..B
    BY BType
  <2> HIDE DEF b
  <2> QED  BY <1>1, <1>3, <2>1
<1>13. \A j \in 1..Len(w) : w[j] \in Nat /\ w[j] > 0
  <2>1. \A j \in 1..Len(w) : w[j] \in Key
    OBVIOUS
  <2>2. \A k \in Key : k \in Nat /\ k > 0
    BY KeyType
  <2> QED  BY <2>1, <2>2
<1>8. q \in [1..(B - 1) -> Key \union {0}]
  <2>1. \A d \in 1..(B - 1) : q[d] \in Key \union {0}
    <3> HIDE DEF b, q
    <3>1. ASSUME NEW d \in 1..(B - 1), b(d) > 0 PROVE w[b(d)] \in Key
      <4>1. b(d) \in 1..Len(w)
        BY <1>7, <3>1
      <4> QED  BY <4>1
    <3> QED  BY <1>4, <1>7, <3>1
  <2>2. q = [d \in 1..(B - 1) |-> q[d]]
    BY DEF Separators
  <2> HIDE DEF q
  <2> QED  BY <2>1, <2>2
<1>9. \A d \in 1..(B - 1) : w[l] > q[d] <=> d <= c - 1
  <2> SUFFICES ASSUME NEW d \in 1..(B - 1) PROVE w[l] > q[d] <=> d <= c - 1
    OBVIOUS
  <2>0. w[l] \in Nat /\ w[l] > 0
    BY <1>6, <1>13
  <2>1. b(d) \in Nat /\ b(d) <= Len(w) /\ d \in Nat /\ b(c - 1) \in Nat /\ b(c) \in Nat
    BY <1>1, <1>5, <1>7
  <2>2. b(c - 1) < l /\ l <= b(c)
    BY <2>1
  <2>3. q[d] = IF b(d) <= 0 THEN 0 ELSE w[b(d)]
    BY <1>4
  <2>4. CASE d <= c - 1
    <3>1. b(d) <= b(c - 1)
      BY <1>2, <1>5, <2>1, <2>4
    <3>2. b(d) < l
      BY <2>1, <2>2, <3>1, <1>6
    <3>3. CASE b(d) <= 0
      BY <2>0, <2>3, <2>4, <3>3
    <3>4. CASE b(d) > 0
      <4>1. b(d) \in 1..Len(w)
        BY <2>1, <3>4
      <4>2. w[b(d)] < w[l]
        BY <1>6, <3>2, <4>1
      <4>3. w[b(d)] \in Nat
        BY <4>1, <1>13
      <4> HIDE DEF b, q
      <4> QED  BY <2>0, <2>1, <2>3, <2>4, <3>4, <4>2, <4>3
    <3> QED  BY <2>1, <3>3, <3>4
  <2>5. CASE ~(d <= c - 1)
    <3>1. b(c) <= b(d)
      <4>1. c <= d
        BY <1>5, <2>1, <2>5
      <4> QED  BY <1>2, <1>5, <2>1, <4>1
    <3>2. b(d) \in 1..Len(w) /\ l <= b(d)
      <4> HIDE DEF b
      <4> QED  BY <1>6, <2>1, <2>2, <3>1
    <3>3. w[b(d)] \in Nat /\ w[l] <= w[b(d)]
      <4>1. CASE l = b(d)
        BY <2>0, <4>1
      <4>2. CASE l # b(d)
        <5>1. l < b(d)
          BY <1>6, <3>2, <4>2
        <5>2. w[l] < w[b(d)] /\ w[b(d)] \in Nat
          <6> HIDE DEF b
          <6> QED  BY <1>6, <3>2, <5>1, <1>13
        <5> QED  BY <5>2, <2>0
      <4> QED  BY <4>1, <4>2
    <3>4. q[d] = w[b(d)]
      BY <2>3, <3>2
    <3> HIDE DEF b, q
    <3> QED  BY <2>0, <2>5, <3>3, <3>4
  <2> QED  BY <2>4, <2>5
<1>10. {d \in 1..(B - 1) : w[l] > q[d]} = 1..(c - 1)
  <2>1. \A d : d \in 1..(c - 1) <=> d \in 1..(B - 1) /\ d <= c - 1
    BY <1>5, BType
  <2> HIDE DEF q
  <2> QED  BY <1>9, <2>1
<1>11. Cardinality(1..(c - 1)) = c - 1
  <2>1. c - 1 >= 1 \/ c - 1 = 0
    BY <1>5
  <2>2. CASE c - 1 >= 1
    <3>1. Cardinality(1..(c - 1)) = (c - 1) - 1 + 1
      BY <1>5, <2>2, FS_Interval
    <3> QED  BY <3>1, <1>5
  <2>3. CASE c - 1 = 0
    <3>1. 1..(c - 1) = {}
      BY <2>3
    <3> QED  BY <2>3, <3>1, FS_EmptySet
  <2> QED  BY <2>1, <2>2, <2>3
<1>12. 1 + Cardinality({d \in 1..(B - 1) : w[l] > q[d]}) = c
  <2>1. 1 + (c - 1) = c
    BY <1>5
  <2> HIDE DEF q
  <2> QED  BY <1>10, <1>11, <2>1
<1>14. ChildOf(q, w[l]) = c
  <2> HIDE DEF q
  <2> QED  BY <1>12 DEF ChildOf
<1> QED
  BY <1>6, <1>8, <1>14

Sorted(w) == \A j, l \in 1..Len(w) : j < l => w[j] < w[l]

\* A finite set of naturals can be put in order.
LEMMA OrderExists ==
    ASSUME NEW S \in SUBSET Nat, IsFiniteSet(S)
    PROVE  \E w \in [1..Cardinality(S) -> S] :
               \A j, l \in 1..Cardinality(S) : j < l => w[j] < w[l]
<1> DEFINE Good(T) == \E w \in [1..Cardinality(T) -> T] :
                          \A j, l \in 1..Cardinality(T) : j < l => w[j] < w[l]
           Bad == {n \in Nat : \E T \in SUBSET Nat : IsFiniteSet(T) /\ Cardinality(T) = n /\ ~Good(T)}
<1>1. SUFFICES Bad = {}
  <2>1. Cardinality(S) \in Nat
    BY FS_CardinalityType
  <2> HIDE DEF Good
  <2>2. Bad = {} => Good(S)
    BY <2>1
  <2> QED  BY <2>2 DEF Good
<1>2. SUFFICES ASSUME NEW n \in Bad, \A m \in Bad : n <= m PROVE FALSE
  <2> HIDE DEF Bad
  <2>1. Bad \in SUBSET Nat
    BY DEF Bad
  <2> QED  BY <2>1, LeastNatural
<1>3. PICK T \in SUBSET Nat : IsFiniteSet(T) /\ Cardinality(T) = n /\ ~Good(T)
  <2> HIDE DEF Good
  <2> QED  OBVIOUS
<1>4. n \in Nat
  OBVIOUS
<1>5. T # {}
  <2>1. ASSUME T = {} PROVE FALSE
    <3>1. Cardinality(T) = 0
      BY <2>1, FS_EmptySet
    <3>2. [j \in 1..0 |-> 0] \in [1..0 -> T]
      OBVIOUS
    <3>3. \E w \in [1..0 -> T] : \A j, l \in 1..0 : j < l => w[j] < w[l]
      <4>1. \A j : j \notin 1..0
        OBVIOUS
      <4> QED  BY <3>2, <4>1
    <3>4. Good(T)
      BY <3>1, <3>3
    <3> QED  BY <1>3, <3>4
  <2> QED  BY <2>1
<1>6. PICK m \in T : \A k \in T : m <= k
  BY <1>5, LeastNatural
<1> DEFINE R == T \ {m}
<1>7. IsFiniteSet(R) /\ Cardinality(R) = n - 1 /\ n - 1 \in Nat
  <2> HIDE DEF Good
  <2>1. IsFiniteSet(R) /\ Cardinality(R) = n - 1
    BY <1>3, <1>6, FS_RemoveElement
  <2> HIDE DEF R
  <2>2. Cardinality(R) \in Nat
    BY <2>1, FS_CardinalityType
  <2> QED  BY <2>1, <2>2
<1>8. Good(R)
  <2> HIDE DEF Good
  <2>1. n - 1 \notin Bad
    <3> HIDE DEF Bad
    <3> QED  BY <1>2, <1>4
  <2>2. R \in SUBSET Nat
    OBVIOUS
  <2> HIDE DEF R
  <2> QED  BY <1>7, <2>1, <2>2
<1>9. PICK u \in [1..(n - 1) -> R] : \A j, l \in 1..(n - 1) : j < l => u[j] < u[l]
  BY <1>7, <1>8
<1> DEFINE w == [j \in 1..n |-> IF j = 1 THEN m ELSE u[j - 1]]
<1> HIDE DEF Good, Bad
<1>10. \A j \in 1..n : j # 1 => j - 1 \in 1..(n - 1)
  BY <1>4
<1>11. w \in [1..n -> T]
  BY <1>6, <1>9, <1>10
<1>12. ASSUME NEW j \in 1..n, NEW l \in 1..n, j < l PROVE w[j] < w[l]
  <2>1. l # 1 /\ l - 1 \in 1..(n - 1) /\ w[l] = u[l - 1]
    BY <1>4, <1>12
  <2>2. CASE j = 1
    <3>1. u[l - 1] \in R
      BY <2>1, <1>9
    <3>2. u[l - 1] \in Nat /\ m \in Nat /\ m <= u[l - 1] /\ m # u[l - 1]
      BY <3>1, <1>6
    <3> QED  BY <2>1, <2>2, <3>2
  <2>3. CASE j # 1
    BY <1>4, <1>9, <1>10, <1>12, <2>1, <2>3
  <2> QED  BY <2>2, <2>3
<1>13. Good(T)
  <2> HIDE DEF w
  <2> QED  BY <1>3, <1>11, <1>12 DEF Good
<1> QED
  BY <1>3, <1>13

\* addItems returns the keys of a treelet, all of them, in order.
LEMMA InOrderProperties ==
    ASSUME NEW S \in SUBSET Key
    PROVE  /\ InOrder(S) \in Seq(Key)
           /\ Sorted(InOrder(S))
           /\ Range(InOrder(S)) = S
           /\ \A j \in 1..Len(InOrder(S)) : InOrder(S)[j] \in S
<1> DEFINE w == InOrder(S)
<1>1. IsFiniteSet(S) /\ S \in SUBSET Nat /\ Cardinality(S) \in Nat
  BY KeyType, FS_Subset, FS_CardinalityType
<1>2. w \in [1..Cardinality(S) -> S] /\ \A j, l \in 1..Cardinality(S) : j < l => w[j] < w[l]
  BY <1>1, OrderExists DEF InOrder
<1> HIDE DEF w
<1>3. w \in Seq(Key) /\ Len(w) = Cardinality(S)
  <2>1. w \in [1..Cardinality(S) -> Key]
    BY <1>2
  <2>2. PICK n \in Nat : n = Cardinality(S)
    BY <1>1
  <2>3. w \in Seq(Key)
    BY <2>1, <2>2, SeqDef
  <2> QED  BY <2>1, <2>2, <2>3
<1>4. w \in Injection(1..Cardinality(S), S)
  <2>1. ASSUME NEW j \in 1..Cardinality(S), NEW l \in 1..Cardinality(S), w[j] = w[l] PROVE j = l
    <3>1. w[j] \in Nat /\ w[l] \in Nat /\ j \in Nat /\ l \in Nat
      <4>1. w[j] \in S /\ w[l] \in S
        BY <1>2
      <4>2. \A k \in 1..Cardinality(S) : k \in Nat
        BY <1>1
      <4> QED  BY <1>1, <4>1, <4>2
    <3> QED  BY <1>2, <2>1, <3>1
  <2> QED  BY <1>2, <2>1 DEF Injection, IsInjective
<1>5. w \in Surjection(1..Cardinality(S), S)
  <2>1. Cardinality(1..Cardinality(S)) = Cardinality(S)
    BY <1>1, FS_Interval
  <2> QED  BY <1>1, <1>4, <2>1, FS_Injection
<1>6. Range(w) = S
  BY <1>2, <1>5 DEF Range, Surjection
<1> QED
  BY <1>2, <1>3, <1>6 DEF w, Sorted

-----------------------------------------------------------------------------
(* Types, and what a step leaves alone *)

LockType ==
    /\ state \in [Thread -> SlotStates] /\ dirty \in [Thread -> {0, 1}]
    /\ pc \in [Thread -> PCs] /\ i \in [Thread -> Thread]
NodeType == [keys : [1..(B - 1) -> Key \union {0}], next : [1..B -> Object]]
TreeType == [locked : BOOLEAN, items : SUBSET Key]
ShapeType == head \in Object /\ nodes \in Seq(NodeType) /\ trees \in Seq(TreeType) /\ Len(trees) > 1
CountType ==
    /\ {fuzzySize, enlargeWhen, shrinkWhen, backboneSize} \subseteq Int
    /\ heuristic \in [Thread -> (-(Flush + 1))..Flush]
    /\ sz \in [Thread -> Int] /\ limit \in [Thread -> Int]
    /\ left \in [Thread -> 0..MaxOps]
OpType ==
    /\ at \in [Thread -> ControlPoints]
    /\ op \in [Thread -> {"search", "insert", "remove"}]
    /\ key \in [Thread -> Key] /\ res \in [Thread -> BOOLEAN]
WalkType == cur \in [Thread -> Object] /\ idx \in [Thread -> 1..B]
ChangeType == v \in [Thread -> Seq(Key)] /\ todo \in [Thread -> Seq(Tasks)]

\* The type invariant, in the parts that the steps keep for different reasons.
LEMMA TypeParts ==
    TypeOK <=> LockType /\ ShapeType /\ CountType /\ OpType /\ WalkType /\ ChangeType
BY DEF TypeOK, LockType, NodeType, TreeType, ShapeType, CountType, OpType, WalkType, ChangeType

\* A step of thread t changes no variable of another one, but for the slots of the lock.
Stays(t, u) ==
    /\ at'[u] = at[u] /\ pc'[u] = pc[u] /\ i'[u] = i[u]
    /\ op'[u] = op[u] /\ key'[u] = key[u] /\ res'[u] = res[u] /\ left'[u] = left[u]
    /\ cur'[u] = cur[u] /\ idx'[u] = idx[u] /\ sz'[u] = sz[u] /\ limit'[u] = limit[u]
    /\ v'[u] = v[u] /\ todo'[u] = todo[u] /\ heuristic'[u] = heuristic[u]

\* Threads number the slots from 1 to N.
LEMMA SlotNumbers ==
    /\ 1 \in Thread
    /\ \A s \in Thread : s \in Nat /\ 1 <= s /\ s <= N /\ (s # N => s + 1 \in Thread)
BY SlotsAssumption DEF Thread

\* A step of a loop over the slots moves its own thread only.
LEMMA LoopStays ==
    ASSUME LockType, NEW t \in Thread, NEW l \in PCs, LoopStep(t, l)
    PROVE  /\ pc' \in [Thread -> PCs] /\ i' \in [Thread -> Thread]
           /\ \A u \in Thread : u # t => pc'[u] = pc[u] /\ i'[u] = i[u]
<1>1. i[t] \in Thread
  BY DEF LockType
<1>2. CASE i[t] = N
  BY <1>2, SlotNumbers DEF LockType, LoopStep
<1>3. CASE i[t] # N
  <2>1. i[t] + 1 \in Thread
    BY <1>1, <1>3, SlotNumbers
  <2> QED  BY <1>3, <2>1 DEF LockType, LoopStep
<1> QED
  BY <1>2, <1>3

\* A step within the layout lock's code moves its own thread only.
LEMMA InsideStays ==
    ASSUME LockType, NEW t \in Thread, Inside(t)
    PROVE  LockType' /\ \A u \in Thread : u # t => pc'[u] = pc[u] /\ i'[u] = i[u]
<1>1. CASE resetDirty(t)
  BY <1>1 DEF resetDirty, resetDirtyTest, resetDirtyClear, resetDirtyRecheck, resetDirtySet, LockType, PCs
<1>2. CASE readLock(t)
  BY <1>2 DEF readLock, LockType, PCs, SlotStates
<1>3. CASE writeLockSlot(t)
  <2>1. "dirtying" \in PCs
    BY DEF PCs
  <2> QED  BY <1>3, <2>1, LoopStays DEF writeLockSlot, LockType, SlotStates
<1>4. CASE setDirty(t)
  <2>1. "changing" \in PCs
    BY DEF PCs
  <2> QED  BY <1>4, <2>1, LoopStays DEF setDirty, LockType
<1>5. CASE writeUnlockSlot(t)
  <2>1. "idle" \in PCs
    BY DEF PCs
  <2> QED  BY <1>5, <2>1, LoopStays DEF writeUnlockSlot, LockType, SlotStates
<1> QED
  BY <1>1, <1>2, <1>3, <1>4, <1>5 DEF Inside

\* A step of a search, an insertion or a removal leaves the other threads' variables alone.
LEMMA LookupStays ==
    ASSUME TypeOK, NEW t \in Thread, NEW u \in Thread, u # t, Lookup(t)
    PROVE  Stays(t, u)
<1> USE TypeParts DEF LockType, CountType, OpType, WalkType, ChangeType, Stays, Goto,
        lockVars, treeVars, sizeVars, opVars, walkVars, countVars, changeVars
<1>1. CASE Start(t)
  BY <1>1 DEF Start, startRead
<1>2. CASE Choose(t)
  BY <1>2 DEF Choose
<1>3. CASE Hop(t)
  BY <1>3 DEF Hop
<1>4. CASE Acquire(t)
  BY <1>4 DEF Acquire
<1>5. CASE Accept(t)
  BY <1>5 DEF Accept, finishReadTrue
<1>6. CASE Refuse(t)
  BY <1>6 DEF Refuse, finishReadFalse
<1>7. CASE Retry(t)
  BY <1>7 DEF Retry
<1>8. CASE Operate(t)
  BY SMTT(30), <1>8 DEF Operate
<1>9. CASE Release(t)
  BY <1>9 DEF Release, Return
<1> QED
  BY <1>1, <1>2, <1>3, <1>4, <1>5, <1>6, <1>7, <1>8, <1>9 DEF Lookup

\* So does a step of incSize or decSize,
LEMMA CountStays ==
    ASSUME TypeOK, NEW t \in Thread, NEW u \in Thread, u # t, Count(t)
    PROVE  Stays(t, u)
<1> USE TypeParts DEF LockType, CountType, OpType, WalkType, ChangeType, Stays, Goto,
        lockVars, treeVars, sizeVars, opVars, walkVars, countVars, changeVars
<1>1. CASE FlushCount(t)
  BY <1>1 DEF FlushCount
<1>2. CASE ReadLimit(t)
  BY <1>2 DEF ReadLimit, startRead
<1>3. CASE LimitRefused(t)
  BY <1>3 DEF LimitRefused, finishReadFalse
<1>4. CASE LimitAccepted(t)
  BY SMTT(30), <1>4 DEF LimitAccepted, finishReadTrue, FinishCount, Return
<1> QED
  BY <1>1, <1>2, <1>3, <1>4 DEF Count

\* and a step of a layout change.
LEMMA ChangeStays ==
    ASSUME TypeOK, NEW t \in Thread, NEW u \in Thread, u # t, Change(t)
    PROVE  Stays(t, u)
<1> USE TypeParts DEF LockType, CountType, OpType, WalkType, ChangeType, Stays, Goto,
        lockVars, treeVars, sizeVars, opVars, walkVars, countVars, changeVars
<1>1. CASE EnterChange(t)
  BY <1>1 DEF EnterChange, startLayoutChange
<1>2. CASE LeaveEarly(t)
  BY <1>2 DEF LeaveEarly, finishLayoutChange
<1>3. CASE ShrinkByEnlarge(t)
  BY <1>3 DEF ShrinkByEnlarge
<1>4. CASE Enlarge(t)
  BY <1>4 DEF Enlarge
<1>5. CASE RootAcquire(t)
  BY <1>5 DEF RootAcquire
<1>6. CASE RootReplace(t)
  BY <1>6 DEF RootReplace
<1>7. CASE RootFree(t)
  BY <1>7 DEF RootFree
<1>8. CASE GatherNode(t)
  BY <1>8 DEF GatherNode
<1>9. CASE GatherAcquire(t)
  BY <1>9 DEF GatherAcquire
<1>10. CASE GatherTake(t)
  BY <1>10 DEF GatherTake
<1>11. CASE GatherFree(t)
  BY SMTT(30), <1>11 DEF GatherFree
<1>12. CASE BuildNode(t)
  BY <1>12 DEF BuildNode
<1>13. CASE BuildChild(t)
  BY <1>13 DEF BuildChild
<1>14. CASE LeaveChange(t)
  BY <1>14 DEF LeaveChange, finishLayoutChange
<1>15. CASE Left(t)
  BY <1>15 DEF Left, FinishCount, Return
<1> QED
  BY <1>1, <1>2, <1>3, <1>4, <1>5, <1>6, <1>7, <1>8, <1>9, <1>10, <1>11, <1>12, <1>13, <1>14,
     <1>15 DEF Change

\* No step touches another thread's variables.
LEMMA OthersStay ==
    ASSUME TypeOK, NEW t \in Thread, Invoke(t) \/ Step(t)
    PROVE  \A u \in Thread : u # t => Stays(t, u)
<1> SUFFICES ASSUME NEW u \in Thread, u # t PROVE Stays(t, u)
  OBVIOUS
<1>1. CASE Invoke(t)
  BY <1>1, TypeParts DEF Invoke, LockType, CountType, OpType, WalkType, ChangeType, Stays, Goto,
     lockVars, treeVars, sizeVars, opVars, walkVars, countVars, changeVars
<1>2. CASE InsideLock(t)
  <2>1. pc'[u] = pc[u] /\ i'[u] = i[u]
    BY <1>2, InsideStays, TypeParts DEF InsideLock
  <2> QED  BY <1>2, <2>1 DEF InsideLock, Stays, treeVars, sizeVars, opVars, walkVars, countVars, changeVars
<1>3. CASE Lookup(t)
  BY <1>3, LookupStays
<1>4. CASE Count(t)
  BY <1>4, CountStays
<1>5. CASE Change(t)
  BY <1>5, ChangeStays
<1> QED
  BY <1>1, <1>2, <1>3, <1>4, <1>5 DEF Step

-----------------------------------------------------------------------------
(* The control points *)

\* A step of a search, an insertion or a removal keeps the lock's code in step with the tree's.
LEMMA LookupControl ==
    ASSUME TypeOK, ControlInv, NEW t \in Thread, Lookup(t)
    PROVE  Control(t)'
<1>1. Control(t)
  BY DEF ControlInv
<1>2. LockType /\ OpType
  BY TypeParts
<1> USE <1>1, <1>2 DEF LockType, OpType, Control, Rebuilds, Goto, lockVars, opVars
<1>3. CASE Start(t)
  BY <1>3 DEF Start, startRead
<1>4. CASE Choose(t)
  BY <1>4 DEF Choose
<1>5. CASE Hop(t)
  BY <1>5 DEF Hop
<1>6. CASE Acquire(t)
  BY <1>6 DEF Acquire
<1>7. CASE Accept(t)
  BY <1>7 DEF Accept, finishReadTrue
<1>8. CASE Refuse(t)
  BY <1>8 DEF Refuse, finishReadFalse
<1>9. CASE Retry(t)
  BY <1>9 DEF Retry
<1>10. CASE Operate(t)
  BY <1>10 DEF Operate
<1>11. CASE Release(t)
  BY <1>11 DEF Release, Return
<1> QED
  BY <1>3, <1>4, <1>5, <1>6, <1>7, <1>8, <1>9, <1>10, <1>11 DEF Lookup

\* So does a step of incSize or decSize,
LEMMA CountControl ==
    ASSUME TypeOK, ControlInv, NEW t \in Thread, Count(t)
    PROVE  Control(t)'
<1>1. Control(t)
  BY DEF ControlInv
<1>2. LockType /\ OpType
  BY TypeParts
<1> USE <1>1, <1>2 DEF LockType, OpType, Control, Rebuilds, Goto, lockVars, opVars
<1>3. CASE FlushCount(t)
  BY <1>3 DEF FlushCount
<1>4. CASE ReadLimit(t)
  BY <1>4 DEF ReadLimit, startRead
<1>5. CASE LimitRefused(t)
  BY <1>5 DEF LimitRefused, finishReadFalse
<1>6. CASE LimitAccepted(t)
  BY <1>6 DEF LimitAccepted, finishReadTrue, FinishCount, Return
<1> QED
  BY <1>3, <1>4, <1>5, <1>6 DEF Count

\* a step of a layout change,
LEMMA ChangeControl ==
    ASSUME TypeOK, ControlInv, NEW t \in Thread, Change(t)
    PROVE  Control(t)'
<1>1. Control(t)
  BY DEF ControlInv
<1>2. LockType /\ OpType
  BY TypeParts
<1> USE <1>1, <1>2 DEF LockType, OpType, Control, Rebuilds, Goto, lockVars, opVars
<1>3. CASE EnterChange(t)
  BY <1>3 DEF EnterChange, startLayoutChange
<1>4. CASE LeaveEarly(t)
  BY <1>4 DEF LeaveEarly, finishLayoutChange
<1>5. CASE ShrinkByEnlarge(t)
  BY <1>5 DEF ShrinkByEnlarge
<1>6. CASE Enlarge(t)
  BY <1>6 DEF Enlarge
<1>7. CASE RootAcquire(t)
  BY <1>7 DEF RootAcquire
<1>8. CASE RootReplace(t)
  BY <1>8 DEF RootReplace
<1>9. CASE RootFree(t)
  BY <1>9 DEF RootFree
<1>10. CASE GatherNode(t)
  BY <1>10 DEF GatherNode
<1>11. CASE GatherAcquire(t)
  BY <1>11 DEF GatherAcquire
<1>12. CASE GatherTake(t)
  BY <1>12 DEF GatherTake
<1>13. CASE GatherFree(t)
  BY <1>13 DEF GatherFree
<1>14. CASE BuildNode(t)
  BY <1>14 DEF BuildNode
<1>15. CASE BuildChild(t)
  BY <1>15 DEF BuildChild
<1>16. CASE LeaveChange(t)
  BY <1>16 DEF LeaveChange, finishLayoutChange
<1>17. CASE Left(t)
  BY <1>17 DEF Left, FinishCount, Return
<1> QED
  BY <1>3, <1>4, <1>5, <1>6, <1>7, <1>8, <1>9, <1>10, <1>11, <1>12, <1>13, <1>14, <1>15, <1>16,
     <1>17 DEF Change

\* and a step within the layout lock's code.
LEMMA InsideControl ==
    ASSUME TypeOK, ControlInv, NEW t \in Thread, InsideLock(t)
    PROVE  Control(t)'
<1>1. Control(t)
  BY DEF ControlInv
<1>2. LockType /\ OpType
  BY TypeParts
<1> USE <1>1, <1>2 DEF LockType, OpType, Control, Rebuilds, InsideLock, opVars
<1>3. CASE resetDirty(t)
  BY <1>3 DEF resetDirty, resetDirtyTest, resetDirtyClear, resetDirtyRecheck, resetDirtySet, ControlPoints
<1>4. CASE readLock(t)
  BY <1>4 DEF readLock, ControlPoints
<1>5. CASE writeLockSlot(t)
  BY <1>5 DEF writeLockSlot, LoopStep, ControlPoints
<1>6. CASE setDirty(t)
  BY <1>6 DEF setDirty, LoopStep, ControlPoints
<1>7. CASE writeUnlockSlot(t)
  BY <1>7 DEF writeUnlockSlot, LoopStep, ControlPoints
<1> QED
  BY <1>3, <1>4, <1>5, <1>6, <1>7 DEF Inside

\* Every step keeps the lock's code in step with the tree's.
LEMMA ControlStep ==
    ASSUME TypeOK, ControlInv, NEW t \in Thread, Invoke(t) \/ Step(t)
    PROVE  ControlInv'
<1>1. ASSUME NEW u \in Thread, u # t PROVE Control(u)'
  BY <1>1, OthersStay DEF Stays, ControlInv, Control, Rebuilds
<1>2. Control(t)'
  <2>1. CASE Invoke(t)
    BY <2>1, TypeParts DEF Invoke, Goto, lockVars, ControlInv, Control, OpType, Rebuilds
  <2> QED
    BY <2>1, LookupControl, CountControl, ChangeControl, InsideControl DEF Step
<1> QED
  BY <1>1, <1>2 DEF ControlInv

-----------------------------------------------------------------------------
(* The slots of the layout lock *)

\* What a step does to the lock that is not one of the lock's own loops: it gives nothing.
Tame(t) ==
    /\ state' = state /\ dirty' = dirty
    /\ \A s \in Thread : Holds(t, s)' => Holds(t, s)
    /\ Stuck(t)' => i'[t] = 1
    /\ pc'[t] = "changing" => pc[t] = "changing"
    /\ pc'[t] = "dirtying" => pc[t] = "dirtying" /\ i'[t] = i[t]
    /\ pc[t] \in {"recheck", "redirty"} => pc'[t] = pc[t]

\* A step of a lookup gives back no slot and clears no flag a layout change has set.
LEMMA LookupTame ==
    ASSUME TypeOK, ControlInv, SlotInv, NEW t \in Thread, Lookup(t)
    PROVE  Tame(t)
<1>1. Control(t) /\ (Stuck(t) => i[t] = 1) /\ i[t] \in Thread
  BY TypeParts DEF ControlInv, SlotInv, LockType
<1>2. LockType /\ OpType
  BY TypeParts
<1>3. \A s \in Thread : s \in Nat /\ 1 <= s
  BY SlotNumbers
<1> USE <1>1, <1>2, <1>3 DEF LockType, OpType, Control, Rebuilds, Tame, Holds, Stuck, Goto, lockVars, opVars
<1>4. CASE Start(t)
  BY <1>4 DEF Start, startRead
<1>5. CASE Choose(t)
  BY <1>5 DEF Choose
<1>6. CASE Hop(t)
  BY <1>6 DEF Hop
<1>7. CASE Acquire(t)
  BY <1>7 DEF Acquire
<1>8. CASE Accept(t)
  BY <1>8 DEF Accept, finishReadTrue
<1>9. CASE Refuse(t)
  BY <1>9 DEF Refuse, finishReadFalse
<1>10. CASE Retry(t)
  BY <1>10 DEF Retry
<1>11. CASE Operate(t)
  BY <1>11 DEF Operate
<1>12. CASE Release(t)
  BY <1>12 DEF Release, Return
<1> QED
  BY <1>4, <1>5, <1>6, <1>7, <1>8, <1>9, <1>10, <1>11, <1>12 DEF Lookup

\* Nor does a step of incSize or decSize,
LEMMA CountTame ==
    ASSUME TypeOK, ControlInv, SlotInv, NEW t \in Thread, Count(t)
    PROVE  Tame(t)
<1>1. Control(t) /\ (Stuck(t) => i[t] = 1) /\ i[t] \in Thread
  BY TypeParts DEF ControlInv, SlotInv, LockType
<1>2. LockType /\ OpType
  BY TypeParts
<1>3. \A s \in Thread : s \in Nat /\ 1 <= s
  BY SlotNumbers
<1> USE <1>1, <1>2, <1>3 DEF LockType, OpType, Control, Rebuilds, Tame, Holds, Stuck, Goto, lockVars, opVars
<1>4. CASE FlushCount(t)
  BY <1>4 DEF FlushCount
<1>5. CASE ReadLimit(t)
  BY <1>5 DEF ReadLimit, startRead
<1>6. CASE LimitRefused(t)
  BY <1>6 DEF LimitRefused, finishReadFalse
<1>7. CASE LimitAccepted(t)
  BY <1>7 DEF LimitAccepted, finishReadTrue, FinishCount, Return
<1> QED
  BY <1>4, <1>5, <1>6, <1>7 DEF Count

\* nor one of a layout change, outside the loops of the lock.
LEMMA ChangeTame ==
    ASSUME TypeOK, ControlInv, SlotInv, NEW t \in Thread, Change(t)
    PROVE  Tame(t)
<1>1. Control(t) /\ (Stuck(t) => i[t] = 1) /\ i[t] \in Thread
  BY TypeParts DEF ControlInv, SlotInv, LockType
<1>2. LockType /\ OpType
  BY TypeParts
<1>3. \A s \in Thread : s \in Nat /\ 1 <= s
  BY SlotNumbers
<1> USE <1>1, <1>2, <1>3 DEF LockType, OpType, Control, Rebuilds, Tame, Holds, Stuck, Goto, lockVars, opVars
<1>4. CASE EnterChange(t)
  BY <1>4 DEF EnterChange, startLayoutChange
<1>5. CASE LeaveEarly(t)
  BY <1>5 DEF LeaveEarly, finishLayoutChange
<1>6. CASE ShrinkByEnlarge(t)
  BY <1>6 DEF ShrinkByEnlarge
<1>7. CASE Enlarge(t)
  BY <1>7 DEF Enlarge
<1>8. CASE RootAcquire(t)
  BY <1>8 DEF RootAcquire
<1>9. CASE RootReplace(t)
  BY <1>9 DEF RootReplace
<1>10. CASE RootFree(t)
  BY <1>10 DEF RootFree
<1>11. CASE GatherNode(t)
  BY <1>11 DEF GatherNode
<1>12. CASE GatherAcquire(t)
  BY <1>12 DEF GatherAcquire
<1>13. CASE GatherTake(t)
  BY <1>13 DEF GatherTake
<1>14. CASE GatherFree(t)
  BY <1>14 DEF GatherFree
<1>15. CASE BuildNode(t)
  BY <1>15 DEF BuildNode
<1>16. CASE BuildChild(t)
  BY <1>16 DEF BuildChild
<1>17. CASE LeaveChange(t)
  BY <1>17 DEF LeaveChange, finishLayoutChange
<1>18. CASE Left(t)
  BY <1>18 DEF Left, FinishCount, Return
<1> QED
  BY <1>4, <1>5, <1>6, <1>7, <1>8, <1>9, <1>10, <1>11, <1>12, <1>13, <1>14, <1>15, <1>16, <1>17,
     <1>18 DEF Change

\* What such a step does to the lock leaves the slots with their holders.
LEMMA TameKeepsSlots ==
    ASSUME TypeOK, SlotInv, NEW t \in Thread, \A u \in Thread : u # t => Stays(t, u), Tame(t)
    PROVE  SlotInv'
<1>1. \A w, s \in Thread : Holds(w, s)' => Holds(w, s)
  BY DEF Stays, Tame, Holds, Stuck
<1>2. \A w \in Thread : Stuck(w)' => i'[w] = 1
  BY DEF Stays, Tame, Stuck, SlotInv
<1>3. \A w, s \in Thread :
        pc'[w] = "changing" \/ (pc'[w] = "dirtying" /\ s < i'[w])
          => dirty'[s] = 1 \/ pc'[s] \in {"recheck", "redirty"}
  BY DEF Stays, Tame, SlotInv
<1>4. state' = state
  BY DEF Tame
<1> HIDE DEF Holds
<1> QED
  BY <1>1, <1>2, <1>3, <1>4 DEF SlotInv

\* The steps within the layout lock's code keep them too: the CAS of write_lock, the stores
\* of its release, and a reader that clears its flag and looks again.
LEMMA InsideSlots ==
    ASSUME TypeOK, ControlInv, SlotInv, NEW t \in Thread, InsideLock(t)
    PROVE  SlotInv'
<1>1. LockType /\ OpType /\ Control(t) /\ i[t] \in Thread /\ (pc[t] \in PCs)
  BY TypeParts DEF ControlInv, LockType
<1>2. \A u \in Thread : u # t => Stays(t, u)
  BY OthersStay DEF Step
<1>3. at' = at /\ op' = op
  BY DEF InsideLock, opVars
<1>4. \A s \in Thread : s \in Nat /\ 1 <= s /\ s <= N
  BY SlotNumbers
<1>5. \A w, s \in Thread : w # t => (Holds(w, s)' <=> Holds(w, s))
  BY <1>2 DEF Stays, Holds, Stuck
<1>6. \A w \in Thread : w # t => (Stuck(w)' <=> Stuck(w)) /\ i'[w] = i[w] /\ pc'[w] = pc[w]
  BY <1>2 DEF Stays, Stuck
<1>7. \A w, s \in Thread : pc[w] = "changing" \/ (pc[w] = "dirtying" /\ s < i[w]) => Holds(w, s)
  BY DEF Holds
<1>8. CASE resetDirtyTest(t)
  <2>1. Tame(t)
    BY <1>1, <1>3, <1>8 DEF resetDirtyTest, Tame, Holds, Stuck, LockType
  <2> QED  BY <1>2, <2>1, TameKeepsSlots
<1>9. CASE resetDirtyClear(t) \/ resetDirtyRecheck(t) \/ resetDirtySet(t)
  <2>1. /\ state' = state /\ i' = i /\ pc[t] \in {"clear", "recheck", "redirty"}
        /\ pc'[t] \in {"recheck", "redirty", "again"}
        /\ \A s \in Thread : s # t => dirty'[s] = dirty[s]
    BY <1>1, <1>9 DEF resetDirtyClear, resetDirtyRecheck, resetDirtySet, LockType
  <2>2. \A s \in Thread : ~Holds(t, s)' /\ ~Holds(t, s)
    BY <2>1 DEF Holds, Stuck
  <2>3. \A w, s \in Thread : Holds(w, s)' <=> Holds(w, s)
    BY <1>5, <2>2
  <2>4. \A w \in Thread : Stuck(w)' => i'[w] = 1
    BY <1>6, <2>1 DEF SlotInv, Stuck
  <2>5. ASSUME NEW w \in Thread, NEW s \in Thread,
               pc'[w] = "changing" \/ (pc'[w] = "dirtying" /\ s < i'[w])
        PROVE  dirty'[s] = 1 \/ pc'[s] \in {"recheck", "redirty"}
    <3>1. w # t /\ (pc[w] = "changing" \/ (pc[w] = "dirtying" /\ s < i[w]))
      BY <1>6, <2>1, <2>5
    <3>2. dirty[s] = 1 \/ pc[s] \in {"recheck", "redirty"}
      BY <3>1 DEF SlotInv
    <3>3. CASE s # t
      BY <1>6, <2>1, <3>2, <3>3
    <3>4. CASE s = t
      <4>1. state[t] = "WriterActive"
        BY <1>7, <3>1, <3>4 DEF SlotInv
      <4> QED  BY <1>1, <1>9, <3>2, <3>4, <4>1
               DEF resetDirtyClear, resetDirtyRecheck, resetDirtySet, LockType, isWriterActive
    <3> QED  BY <3>3, <3>4
  <2> QED  BY <2>1, <2>3, <2>4, <2>5 DEF SlotInv
<1>10. CASE readLock(t)
  BY <1>1, <1>10 DEF readLock, Control, Rebuilds, OpType, ControlPoints
<1>11. CASE writeLockSlot(t)
  <2>1. ~Stuck(t)
    BY <1>1, <1>11, <1>4 DEF SlotInv, Holds, writeLockSlot
  <2>2. /\ pc[t] = "wlock" /\ dirty' = dirty /\ state[i[t]] = "Inactive"
        /\ state' = [state EXCEPT ![i[t]] = "WriterActive"]
        /\ \/ i[t] = N /\ pc'[t] = "dirtying" /\ i'[t] = 1
           \/ i[t] # N /\ pc'[t] = "wlock" /\ i'[t] = i[t] + 1
    BY <1>1, <1>11 DEF writeLockSlot, LoopStep, LockType
  <2>3. \A s \in Thread : Holds(t, s)' => Holds(t, s) \/ s = i[t]
    BY <1>1, <1>3, <1>4, <2>1, <2>2 DEF Holds, Stuck
  <2>4. \A w \in Thread : ~Holds(w, i[t])
    BY <1>1, <2>2 DEF SlotInv
  <2>5. \A w, s \in Thread : Holds(w, s)' => state'[s] = "WriterActive"
    BY <1>1, <1>5, <2>2, <2>3 DEF SlotInv, LockType
  <2>6. \A u, w, s \in Thread : Holds(u, s)' /\ Holds(w, s)' => u = w
    BY <1>5, <2>3, <2>4 DEF SlotInv
  <2>7. \A w \in Thread : Stuck(w)' => i'[w] = 1
    BY <1>3, <1>6, <2>1, <2>2 DEF SlotInv, Stuck
  <2>8. ASSUME NEW w \in Thread, NEW s \in Thread,
               pc'[w] = "changing" \/ (pc'[w] = "dirtying" /\ s < i'[w])
        PROVE  dirty'[s] = 1 \/ pc'[s] \in {"recheck", "redirty"}
    <3>1. w # t
      BY <1>4, <2>2, <2>8
    <3>2. dirty[s] = 1 \/ pc[s] \in {"recheck", "redirty"}
      BY <1>6, <2>8, <3>1 DEF SlotInv
    <3> QED  BY <1>6, <2>2, <3>2
  <2> QED  BY <2>5, <2>6, <2>7, <2>8 DEF SlotInv
<1>12. CASE setDirty(t)
  <2>1. /\ pc[t] = "dirtying" /\ state' = state
        /\ dirty' = [dirty EXCEPT ![i[t]] = 1]
        /\ \/ i[t] = N /\ pc'[t] = "changing" /\ i'[t] = 1
           \/ i[t] # N /\ pc'[t] = "dirtying" /\ i'[t] = i[t] + 1
    BY <1>1, <1>12 DEF setDirty, LoopStep, LockType
  <2>2. \A s \in Thread : Holds(t, s)' /\ Holds(t, s) /\ ~Stuck(t)'
    BY <2>1 DEF Holds, Stuck
  <2>3. \A w, s \in Thread : Holds(w, s)' <=> Holds(w, s)
    BY <1>5, <2>2
  <2>4. \A w \in Thread : Stuck(w)' => i'[w] = 1
    BY <1>6, <2>2 DEF SlotInv
  <2>5. ASSUME NEW w \in Thread, NEW s \in Thread,
               pc'[w] = "changing" \/ (pc'[w] = "dirtying" /\ s < i'[w])
        PROVE  dirty'[s] = 1 \/ pc'[s] \in {"recheck", "redirty"}
    <3>1. CASE s = i[t]
      BY <2>1, <3>1 DEF LockType, SlotInv, TypeOK
    <3>2. CASE s # i[t]
      <4>1. pc[w] = "changing" \/ (pc[w] = "dirtying" /\ s < i[w])
        BY <1>1, <1>4, <1>6, <2>1, <2>5, <3>2
      <4>2. dirty[s] = 1 \/ pc[s] \in {"recheck", "redirty"}
        BY <4>1 DEF SlotInv
      <4> QED  BY <1>1, <1>6, <2>1, <3>2, <4>2 DEF LockType
    <3> QED  BY <3>1, <3>2
  <2> QED  BY <2>1, <2>3, <2>4, <2>5 DEF SlotInv
<1>13. CASE writeUnlockSlot(t)
  <2>1. /\ pc[t] = "wunlock" /\ dirty' = dirty
        /\ state' = [state EXCEPT ![i[t]] = "Inactive"]
        /\ \/ i[t] = N /\ pc'[t] = "idle" /\ i'[t] = 1
           \/ i[t] # N /\ pc'[t] = "wunlock" /\ i'[t] = i[t] + 1
    BY <1>1, <1>13 DEF writeUnlockSlot, LoopStep, LockType
  <2>2. \A s \in Thread : Holds(t, s)' => Holds(t, s) /\ s # i[t]
    BY <1>1, <1>4, <2>1 DEF Holds, Stuck
  <2>3. Holds(t, i[t]) /\ ~Stuck(t)'
    BY <1>1, <1>4, <2>1 DEF Holds, Stuck
  <2>4. \A w, s \in Thread : Holds(w, s)' => Holds(w, s) /\ s # i[t]
    BY <1>1, <1>5, <2>2, <2>3 DEF SlotInv
  <2>5. \A w, s \in Thread : Holds(w, s)' => state'[s] = "WriterActive"
    BY <1>1, <2>1, <2>4 DEF SlotInv, LockType
  <2>6. \A u, w, s \in Thread : Holds(u, s)' /\ Holds(w, s)' => u = w
    BY <2>4 DEF SlotInv
  <2>7. \A w \in Thread : Stuck(w)' => i'[w] = 1
    BY <1>6, <2>3 DEF SlotInv
  <2>8. \A w, s \in Thread :
          pc'[w] = "changing" \/ (pc'[w] = "dirtying" /\ s < i'[w])
            => dirty'[s] = 1 \/ pc'[s] \in {"recheck", "redirty"}
    BY <1>6, <2>1 DEF SlotInv
  <2> QED  BY <2>5, <2>6, <2>7, <2>8 DEF SlotInv
<1>14. resetDirty(t) \/ readLock(t) \/ writeLockSlot(t) \/ setDirty(t) \/ writeUnlockSlot(t)
  BY DEF InsideLock, Inside
<1> QED
  BY <1>8, <1>9, <1>10, <1>11, <1>12, <1>13, <1>14 DEF resetDirty

\* Every slot has one holder after every step.
LEMMA SlotStep ==
    ASSUME TypeOK, ControlInv, SlotInv, NEW t \in Thread, Invoke(t) \/ Step(t)
    PROVE  SlotInv'
<1>1. CASE InsideLock(t)
  BY <1>1, InsideSlots
<1>2. CASE Invoke(t)
  <2>1. Tame(t)
    BY <1>2, TypeParts DEF Invoke, Goto, lockVars, ControlInv, Control, OpType, Tame, Holds, Stuck
  <2> QED  BY <1>2, <2>1, OthersStay, TameKeepsSlots
<1>3. CASE Lookup(t) \/ Count(t) \/ Change(t)
  <2>1. Tame(t)
    BY <1>3, LookupTame, CountTame, ChangeTame
  <2> QED  BY <2>1, OthersStay, TameKeepsSlots
<1> QED
  BY <1>1, <1>2, <1>3 DEF Step

\* A thread that changes the layout does so alone, and no walk is accepted meanwhile.
LEMMA ChangesAlone ==
    ASSUME TypeOK, ControlInv, SlotInv, NEW t \in Thread, pc[t] = "changing"
    PROVE  /\ \A u \in Thread : Rebuilds(u) => u = t
           /\ \A u \in Thread : ~(pc[u] = "reading" /\ dirty[u] = 0)
<1>1. \A u \in Thread : pc[u] = "changing" => \A s \in Thread : Holds(u, s)
  BY DEF Holds
<1>2. \A u \in Thread : Rebuilds(u) => u = t
  BY <1>1 DEF ControlInv, Control, SlotInv
<1>3. \A u \in Thread : dirty[u] = 1 \/ pc[u] \in {"recheck", "redirty"}
  BY DEF SlotInv
<1> QED
  BY <1>2, <1>3

-----------------------------------------------------------------------------
(* The counts *)

Busy == {"flush", "limit", "limited", "enlarge", "enlarging", "shrink", "shrinking", "root", "newroot",
         "oldroot", "gather", "take", "drop", "build", "leaving"}

CountFrame(t) ==
    /\ fuzzySize' = fuzzySize /\ enlargeWhen' = enlargeWhen /\ shrinkWhen' = shrinkWhen
    /\ backboneSize' = backboneSize /\ heuristic' = heuristic
    /\ sz' = sz /\ limit' = limit /\ left' = left
    /\ at[t] \in Busy => at'[t] \in Busy

\* A lookup counts nothing until it releases its treelet.
LEMMA LookupCounts ==
    ASSUME TypeOK, NEW t \in Thread, Lookup(t), ~Release(t)
    PROVE  CountFrame(t)
<1>1. OpType
  BY TypeParts
<1> USE <1>1 DEF OpType, CountFrame, Goto, sizeVars, opVars, countVars, Busy
<1>2. CASE Start(t)
  BY <1>2 DEF Start
<1>3. CASE Choose(t)
  BY <1>3 DEF Choose
<1>4. CASE Hop(t)
  BY <1>4 DEF Hop
<1>5. CASE Acquire(t)
  BY <1>5 DEF Acquire
<1>6. CASE Accept(t)
  BY <1>6 DEF Accept
<1>7. CASE Refuse(t)
  BY <1>7 DEF Refuse
<1>8. CASE Retry(t)
  BY <1>8 DEF Retry
<1>9. CASE Operate(t)
  BY <1>9 DEF Operate
<1> QED
  BY <1>2, <1>3, <1>4, <1>5, <1>6, <1>7, <1>8, <1>9 DEF Lookup

\* A layout change counts nothing but where it is called and where it ends.
LEMMA ChangeCounts ==
    ASSUME TypeOK, NEW t \in Thread, Change(t), ~(ShrinkByEnlarge(t) \/ Enlarge(t) \/ Left(t))
    PROVE  CountFrame(t)
<1>1. OpType
  BY TypeParts
<1> USE <1>1 DEF OpType, CountFrame, Goto, sizeVars, opVars, countVars, Busy
<1>2. CASE EnterChange(t)
  BY <1>2 DEF EnterChange
<1>3. CASE LeaveEarly(t)
  BY <1>3 DEF LeaveEarly
<1>4. CASE RootAcquire(t)
  BY <1>4 DEF RootAcquire
<1>5. CASE RootReplace(t)
  BY <1>5 DEF RootReplace
<1>6. CASE RootFree(t)
  BY <1>6 DEF RootFree
<1>7. CASE GatherNode(t)
  BY <1>7 DEF GatherNode
<1>8. CASE GatherAcquire(t)
  BY <1>8 DEF GatherAcquire
<1>9. CASE GatherTake(t)
  BY <1>9 DEF GatherTake
<1>10. CASE GatherFree(t)
  BY <1>10 DEF GatherFree
<1>11. CASE BuildNode(t)
  BY <1>11 DEF BuildNode
<1>12. CASE BuildChild(t)
  BY <1>12 DEF BuildChild
<1>13. CASE LeaveChange(t)
  BY <1>13 DEF LeaveChange
<1> QED
  BY <1>2, <1>3, <1>4, <1>5, <1>6, <1>7, <1>8, <1>9, <1>10, <1>11, <1>12, <1>13 DEF Change

\* A step that counts nothing keeps the counts within their bounds.
LEMMA CountFrameKeeps ==
    ASSUME TypeOK, Counted, NEW t \in Thread, \A u \in Thread : u # t => Stays(t, u), CountFrame(t), OpType'
    PROVE  Counted' /\ CountType'
<1>1. CountType'
  BY TypeParts DEF CountType, CountFrame
<1>2. \A l \in ControlPoints : l \notin Busy <=> l \in {"idle", "start", "walk", "hop", "held", "own", "release"}
  BY DEF ControlPoints, Busy
<1>3. \A u \in Thread : at[u] \in Busy => at'[u] \in Busy
  BY DEF Stays, CountFrame
<1>4. \A u \in Thread : at[u] \in ControlPoints /\ at'[u] \in ControlPoints
  BY TypeParts DEF OpType
<1>5. heuristic' = heuristic
  BY DEF CountFrame
<1>6. Counted'
  BY <1>2, <1>3, <1>4, <1>5 DEF Counted
<1> QED
  BY <1>1, <1>6

\* The threshold of a flush is at least one.
LEMMA FlushType == Flush \in Nat /\ Flush # 0 /\ MaxOps \in Nat
BY DLTreeAssumption

\* An operation changes the number of keys by one at most, and a search not at all.
LEMMA GainType ==
    ASSUME OpType, NEW t \in Thread
    PROVE  /\ Gain(t) \in {-1, 0, 1}
           /\ op[t] = "insert" => Gain(t) \in {0, 1}
           /\ op[t] = "remove" => Gain(t) \in {-1, 0}
           /\ op[t] = "search" => Gain(t) = 0
BY DEF OpType, Gain

\* No count grows past the threshold: what is due is flushed before the next operation.
LEMMA CountedStep ==
    ASSUME TypeOK, Counted, NEW t \in Thread, Invoke(t) \/ Step(t), OpType'
    PROVE  Counted' /\ CountType'
<1>1. CountType /\ OpType
  BY TypeParts
<1>2. \A u \in Thread : u # t => Stays(t, u)
  BY OthersStay
<1>3. \A u \in Thread : u # t => at'[u] = at[u] /\ heuristic'[u] = heuristic[u]
  BY <1>2 DEF Stays
<1>4. \A l \in ControlPoints : l \notin Busy <=> l \in {"idle", "start", "walk", "hop", "held", "own", "release"}
  BY DEF ControlPoints, Busy
<1>5. ASSUME at'[t] \in Busy \/ heuristic'[t] \in (-Flush)..(Flush - 1) PROVE Counted'
  <2>1. at'[t] \in ControlPoints
    BY DEF OpType
  <2> QED  BY <1>3, <1>4, <1>5, <2>1 DEF Counted
<1>6. CASE Invoke(t)
  <2>1. heuristic' = heuristic /\ at[t] = "idle" /\ UNCHANGED <<sizeVars, countVars>>
    BY <1>6 DEF Invoke, sizeVars
  <2>2. left' \in [Thread -> 0..MaxOps]
    BY <1>1, <1>6, FlushType DEF Invoke, CountType
  <2> QED  BY <1>1, <1>5, <2>1, <2>2 DEF Counted, CountType, sizeVars, countVars
<1>7. CASE Lookup(t) /\ ~Release(t)
  BY <1>2, <1>7, LookupCounts, CountFrameKeeps
<1>8. CASE Release(t)
  <2>1. heuristic' = [heuristic EXCEPT ![t] = @ + Gain(t)]
    BY <1>8 DEF Release
  <2>2. heuristic[t] \in (-Flush)..(Flush - 1) /\ at[t] = "release"
    BY <1>8 DEF Release, Counted
  <2>3. heuristic'[t] = heuristic[t] + Gain(t)
    BY <1>1, <2>1 DEF CountType
  <2>4. heuristic'[t] \in (-(Flush + 1))..Flush
    BY <1>1, <2>2, <2>3, FlushType, GainType
  <2>5. heuristic' \in [Thread -> (-(Flush + 1))..Flush]
    BY <1>1, <2>1, <2>3, <2>4 DEF CountType
  <2>6. CASE \/ op[t] = "insert" /\ heuristic'[t] >= Flush
             \/ op[t] = "remove" /\ heuristic'[t] < -Flush
    <3>1. at'[t] = "flush" /\ left' = left
      BY <1>1, <1>8, <2>6 DEF Release, Goto, OpType, opVars
    <3>2. Counted'
      BY <1>5, <3>1 DEF Busy
    <3> QED
      BY <1>1, <1>8, <2>5, <3>1, <3>2 DEF Release, CountType, countVars
  <2>7. CASE ~(\/ op[t] = "insert" /\ heuristic'[t] >= Flush
               \/ op[t] = "remove" /\ heuristic'[t] < -Flush)
    <3>1. left' = left
      BY <1>8, <2>7 DEF Release, Return
    <3>2. op[t] \in {"search", "insert", "remove"}
      BY <1>1 DEF OpType
    <3>3. heuristic'[t] \in (-Flush)..(Flush - 1)
      BY <1>1, <2>2, <2>3, <2>7, <3>2, FlushType, GainType
    <3> QED
      BY <1>1, <1>5, <1>8, <2>5, <3>1, <3>3 DEF Release, CountType, countVars
  <2> QED  BY <2>6, <2>7
<1>9. CASE FlushCount(t)
  <2>1. at'[t] \in Busy /\ heuristic' = heuristic
    BY <1>1, <1>9 DEF FlushCount, Goto, Busy, OpType
  <2>2. fuzzySize' \in Int /\ sz' \in [Thread -> Int]
    BY <1>1, <1>9, FlushType DEF FlushCount, CountType
  <2> QED  BY <1>1, <1>5, <1>9, <2>1, <2>2 DEF FlushCount, CountType, opVars
<1>10. CASE ReadLimit(t)
  <2>1. at'[t] \in Busy /\ heuristic' = heuristic
    BY <1>1, <1>10 DEF ReadLimit, Goto, Busy, OpType, sizeVars
  <2> QED  BY <1>1, <1>5, <1>10, <2>1 DEF ReadLimit, CountType, opVars, sizeVars
<1>11. CASE LimitRefused(t)
  <2>1. at'[t] \in Busy /\ heuristic' = heuristic
    BY <1>1, <1>11 DEF LimitRefused, Goto, Busy, OpType, sizeVars
  <2> QED  BY <1>1, <1>5, <1>11, <2>1 DEF LimitRefused, CountType, opVars, sizeVars, countVars
<1>12. ASSUME FinishCount(t) PROVE Counted' /\ CountType'
  <2>1. heuristic' = [heuristic EXCEPT ![t] = 0] /\ heuristic'[t] = 0
    BY <1>1, <1>12 DEF FinishCount, CountType
  <2>2. heuristic'[t] \in (-Flush)..(Flush - 1) /\ 0 \in (-(Flush + 1))..Flush
    BY <2>1, FlushType
  <2>3. heuristic' \in [Thread -> (-(Flush + 1))..Flush]
    BY <1>1, <2>1, <2>2 DEF CountType
  <2> QED  BY <1>1, <1>5, <1>12, <2>2, <2>3 DEF FinishCount, Return, CountType
<1>13. CASE LimitAccepted(t)
  <2>1. \/ FinishCount(t)
        \/ at'[t] \in Busy /\ UNCHANGED <<sizeVars, opVars, countVars>>
    BY <1>1, <1>13 DEF LimitAccepted, Goto, Busy, OpType
  <2> QED  BY <1>1, <1>5, <1>12, <2>1 DEF CountType, opVars, sizeVars, countVars
<1>14. CASE Left(t)
  BY <1>12, <1>14 DEF Left
<1>15. CASE ShrinkByEnlarge(t)
  <2>1. at'[t] \in Busy
    BY <1>1, <1>15 DEF ShrinkByEnlarge, Goto, Busy, OpType
  <2>2. Unsigned(sz[t]) \div B \in Int
    <3>1. sz[t] \in Int
      BY <1>1 DEF CountType
    <3>2. Unsigned(sz[t]) \in Nat
      BY <3>1 DEF Unsigned, Word
    <3> QED  BY <3>2, Quotient
  <2>3. sz' \in [Thread -> Int]
    BY <1>1, <1>15, <2>2 DEF ShrinkByEnlarge, CountType
  <2> QED  BY <1>1, <1>5, <1>15, <2>1, <2>3 DEF ShrinkByEnlarge, CountType, opVars, sizeVars
<1>16. CASE Enlarge(t)
  <2>1. at'[t] \in Busy
    BY <1>1, <1>16 DEF Enlarge, Goto, Busy, OpType
  <2>2. backboneSize' \in Int
    BY <1>1, <1>16, BType DEF Enlarge, CountType
  <2>3. enlargeWhen' \in Int /\ shrinkWhen' \in Int
    <3>1. backboneSize' * B \in Int /\ backboneSize' \div 4 \in Int
      BY <2>2, BType
    <3> QED  BY <1>16, <3>1 DEF Enlarge
  <2> QED  BY <1>1, <1>5, <1>16, <2>1, <2>2, <2>3 DEF Enlarge, CountType, opVars, countVars
<1>17. CASE Change(t) /\ ~(ShrinkByEnlarge(t) \/ Enlarge(t) \/ Left(t))
  BY <1>2, <1>17, ChangeCounts, CountFrameKeeps
<1>18. CASE InsideLock(t)
  <2>1. CountFrame(t)
    BY <1>18 DEF InsideLock, CountFrame, sizeVars, opVars, countVars
  <2> QED  BY <1>2, <2>1, CountFrameKeeps
<1> QED
  BY <1>6, <1>7, <1>8, <1>9, <1>10, <1>11, <1>13, <1>14, <1>15, <1>16, <1>17, <1>18 DEF Step, Count

-----------------------------------------------------------------------------
(* Objects, and what the assignments of the code do to the tree *)

\* An object is a node or a treelet that exists, and NULL_TREE is a treelet.
LEMMA ObjectCases ==
    /\ \A n : IsNode(Node(n)) /\ ~IsNode(Tree(n)) /\ Node(n)[2] = n /\ Tree(n)[2] = n
    /\ \A n, m : Node(n) # Tree(m) /\ (Node(n) = Node(m) <=> n = m) /\ (Tree(n) = Tree(m) <=> n = m)
    /\ NullTree = Tree(1) /\ ~IsNode(NullTree)
    /\ \A x \in Object :
         \/ IsNode(x) /\ x[2] \in 1..Len(nodes) /\ x = Node(x[2])
         \/ ~IsNode(x) /\ x[2] \in 1..Len(trees) /\ x = Tree(x[2])
    /\ \A n \in 1..Len(nodes) : Node(n) \in Object
    /\ \A n \in 1..Len(trees) : Tree(n) \in Object
BY DEF Object, IsNode, Node, Tree, NullTree

\* The parts of a slot, and the object in it.
LEMMA SlotParts ==
    ASSUME ShapeType
    PROVE  /\ \A n \in 1..Len(nodes), c \in 1..B : <<n, c>> \in Slots
           /\ \A e \in Slots : /\ e[1] \in 1..Len(nodes) /\ e[2] \in 1..B /\ e = <<e[1], e[2]>>
                               /\ Link(e) \in Object
           /\ \A n \in 1..Len(nodes) : nodes[n] \in NodeType
           /\ \A n \in 1..Len(trees) : trees[n] \in TreeType /\ trees[n].items \in SUBSET Key
           /\ Len(nodes) \in Nat /\ Len(trees) \in Nat
<1>1. \A n \in 1..Len(nodes) : nodes[n] \in NodeType
  BY DEF ShapeType
<1>2. \A n \in 1..Len(trees) : trees[n] \in TreeType
  BY DEF ShapeType
<1>3. \A n \in 1..Len(nodes), c \in 1..B : nodes[n].next[c] \in Object
  BY <1>1 DEF NodeType
<1>4. \A e \in Slots : e[1] \in 1..Len(nodes) /\ e[2] \in 1..B /\ e = <<e[1], e[2]>>
  BY DEF Slots
<1>5. Len(nodes) \in Nat /\ Len(trees) \in Nat
  BY DEF ShapeType
<1> QED
  BY <1>1, <1>2, <1>3, <1>4, <1>5 DEF Slots, Link, TreeType

\* Locking or unlocking a treelet changes its lock and nothing else.
LEMMA LockUpdate ==
    ASSUME ShapeType, NEW n \in 1..Len(trees), NEW b \in BOOLEAN,
           trees' = [trees EXCEPT ![n].locked = b]
    PROVE  /\ trees' \in Seq(TreeType) /\ Len(trees') = Len(trees)
           /\ \A m \in 1..Len(trees) : /\ trees'[m].items = trees[m].items
                                       /\ trees'[m].locked = IF m = n THEN b ELSE trees[m].locked
<1>1. trees[n] \in TreeType /\ trees \in Seq(TreeType)
  BY DEF ShapeType
<1> DEFINE r == [trees[n] EXCEPT !.locked = b]
<1>2. r \in TreeType /\ r.items = trees[n].items /\ r.locked = b
  BY <1>1 DEF TreeType
<1>3. trees' = [trees EXCEPT ![n] = r]
  OBVIOUS
<1> HIDE DEF r
<1> QED
  BY <1>1, <1>2, <1>3

\* Putting a key in or taking one out changes one treelet's keys and nothing else.
LEMMA ItemsUpdate ==
    ASSUME ShapeType, NEW n \in 1..Len(trees), NEW s \in SUBSET Key,
           trees' = [trees EXCEPT ![n].items = s]
    PROVE  /\ trees' \in Seq(TreeType) /\ Len(trees') = Len(trees)
           /\ \A m \in 1..Len(trees) : /\ trees'[m].items = IF m = n THEN s ELSE trees[m].items
                                       /\ trees'[m].locked = trees[m].locked
<1>1. trees[n] \in TreeType /\ trees \in Seq(TreeType)
  BY DEF ShapeType
<1> DEFINE r == [trees[n] EXCEPT !.items = s]
<1>2. r \in TreeType /\ r.items = s /\ r.locked = trees[n].locked
  BY <1>1 DEF TreeType
<1>3. trees' = [trees EXCEPT ![n] = r]
  OBVIOUS
<1> HIDE DEF r
<1> QED
  BY <1>1, <1>2, <1>3

\* Freeing a treelet touches no other.
LEMMA FreeUpdate ==
    ASSUME ShapeType, NEW x \in Object, ~IsNode(x), FreeTreelet(x)
    PROVE  /\ trees' \in Seq(TreeType) /\ Len(trees') = Len(trees)
           /\ \A m \in 1..Len(trees) : trees'[m].items \subseteq trees[m].items
           /\ \A m \in 1..Len(trees) : m # x[2] => trees'[m] = trees[m]
<1>1. x[2] \in 1..Len(trees) /\ trees \in Seq(TreeType) /\ Items(x) \subseteq Key
  BY ObjectCases, SlotParts DEF ShapeType, Items
<1>2. PICK s \in SUBSET Items(x) : trees' = [trees EXCEPT ![x[2]] = [locked |-> FALSE, items |-> s]]
  BY DEF FreeTreelet
<1>3. [locked |-> FALSE, items |-> s] \in TreeType
  BY <1>1 DEF TreeType
<1> QED
  BY <1>1, <1>2, <1>3 DEF Items

\* Writing one element of a sequence leaves its length and the others.
LEMMA NodeUpdate ==
    ASSUME NEW T, NEW q \in Seq(T), NEW n \in 1..Len(q), NEW r \in T
    PROVE  /\ [q EXCEPT ![n] = r] \in Seq(T)
           /\ Len([q EXCEPT ![n] = r]) = Len(q)
           /\ \A m \in 1..Len(q) : [q EXCEPT ![n] = r][m] = IF m = n THEN r ELSE q[m]
BY ExceptSeq

\* nodes[n].next[c] = x
LinkSet(n, c, x) == [nodes EXCEPT ![n].next[c] = x]

\* What that assignment does, for the objects of S.
LinkIsSet(n, c, x, S) ==
    LET q == LinkSet(n, c, x)
    IN  /\ q \in Seq([keys : [1..(B - 1) -> Key \union {0}], next : [1..B -> S]])
        /\ Len(q) = Len(nodes)
        /\ \A m \in 1..Len(nodes) : q[m].keys = nodes[m].keys
        /\ \A m \in 1..Len(nodes), d \in 1..B :
             q[m].next[d] = IF m = n /\ d = c THEN x ELSE nodes[m].next[d]

\* Storing a pointer in a node changes that slot and nothing else.
LEMMA LinkUpdate ==
    ASSUME ShapeType, NEW n \in 1..Len(nodes), NEW c \in 1..B, NEW S, Object \subseteq S, NEW x \in S
    PROVE  LinkIsSet(n, c, x, S)
<1> DEFINE r == [nodes[n] EXCEPT !.next[c] = x]
<1>1. nodes[n] \in NodeType
  BY DEF ShapeType
<1>2. r = [nodes[n] EXCEPT !.next = [nodes[n].next EXCEPT ![c] = x]]
  OBVIOUS
<1>3. [nodes[n].next EXCEPT ![c] = x] \in [1..B -> S]
  BY <1>1 DEF NodeType
<1>4. /\ r \in [keys : [1..(B - 1) -> Key \union {0}], next : [1..B -> S]]
      /\ r.keys = nodes[n].keys
      /\ \A d \in 1..B : r.next[d] = IF d = c THEN x ELSE nodes[n].next[d]
  BY <1>1, <1>2, <1>3 DEF NodeType
<1>5. [nodes EXCEPT ![n].next[c] = x] = [nodes EXCEPT ![n] = r]
  OBVIOUS
<1> HIDE DEF r
<1> DEFINE q == [nodes EXCEPT ![n] = r]
<1>6. /\ q \in Seq([keys : [1..(B - 1) -> Key \union {0}], next : [1..B -> S]])
      /\ Len(q) = Len(nodes)
      /\ \A m \in 1..Len(nodes) : q[m] = IF m = n THEN r ELSE nodes[m]
  <2> DEFINE T == [keys : [1..(B - 1) -> Key \union {0}], next : [1..B -> S]]
  <2>1. NodeType \subseteq T
    BY DEF NodeType
  <2>2. r \in T
    BY <1>4
  <2> HIDE DEF T
  <2>3. nodes \in Seq(T)
    BY <2>1, SeqMonotonic DEF ShapeType
  <2>4. q \in Seq(T) /\ Len(q) = Len(nodes)
    BY <2>2, <2>3, NodeUpdate
  <2>5. \A m \in 1..Len(nodes) : q[m] = IF m = n THEN r ELSE nodes[m]
    BY <2>2, <2>3, NodeUpdate
  <2> QED  BY <2>4, <2>5 DEF T
<1> HIDE DEF q
<1>7. \A m \in 1..Len(nodes) : q[m].keys = nodes[m].keys
  BY <1>4, <1>6
<1>8. \A m \in 1..Len(nodes), d \in 1..B :
        q[m].next[d] = IF m = n /\ d = c THEN x ELSE nodes[m].next[d]
  BY <1>4, <1>6
<1>9. LinkSet(n, c, x) = q
  BY <1>5 DEF q, LinkSet
<1> QED
  BY <1>6, <1>7, <1>8, <1>9 DEF LinkIsSet

\* nodes[n].keys = w
KeysSet(n, w) == [nodes EXCEPT ![n].keys = w]

KeysAreSet(n, w) ==
    LET q == KeysSet(n, w)
    IN  /\ q \in Seq(NodeType) /\ Len(q) = Len(nodes)
        /\ \A m \in 1..Len(nodes) : /\ q[m].keys = IF m = n THEN w ELSE nodes[m].keys
                                    /\ q[m].next = nodes[m].next

\* Storing the separators of a node changes them and nothing else.
LEMMA KeysUpdate ==
    ASSUME ShapeType, NEW n \in 1..Len(nodes), NEW w \in [1..(B - 1) -> Key \union {0}]
    PROVE  KeysAreSet(n, w)
<1> DEFINE r == [nodes[n] EXCEPT !.keys = w]
<1>1. nodes[n] \in NodeType
  BY DEF ShapeType
<1>2. r \in NodeType /\ r.keys = w /\ r.next = nodes[n].next
  BY <1>1 DEF NodeType
<1>3. [nodes EXCEPT ![n].keys = w] = [nodes EXCEPT ![n] = r]
  OBVIOUS
<1> HIDE DEF r
<1> DEFINE q == [nodes EXCEPT ![n] = r]
<1>4. /\ q \in Seq(NodeType) /\ Len(q) = Len(nodes)
      /\ \A m \in 1..Len(nodes) : q[m] = IF m = n THEN r ELSE nodes[m]
  <2>1. r \in NodeType /\ nodes \in Seq(NodeType)
    BY <1>2 DEF ShapeType
  <2> QED  BY <2>1, NodeUpdate
<1> HIDE DEF q
<1>5. \A m \in 1..Len(nodes) : /\ q[m].keys = IF m = n THEN w ELSE nodes[m].keys
                               /\ q[m].next = nodes[m].next
  BY <1>2, <1>4
<1>6. KeysSet(n, w) = q
  BY <1>3 DEF q, KeysSet
<1> QED
  BY <1>4, <1>5, <1>6 DEF KeysAreSet

-----------------------------------------------------------------------------
(* The operations and the lock keep their types *)

\* Every step keeps the types of the lock's variables.
LEMMA LockTypeStep ==
    ASSUME TypeOK, NEW t \in Thread, Invoke(t) \/ Step(t)
    PROVE  LockType'
<1>1. LockType /\ 1 \in Thread
  BY TypeParts, SlotNumbers
<1>2. CASE UNCHANGED lockVars
  BY <1>1, <1>2 DEF LockType, lockVars
<1>3. CASE startRead(t) \/ finishReadTrue(t) \/ finishReadFalse(t) \/ finishLayoutChange(t)
  BY <1>1, <1>3 DEF LockType, PCs, startRead, finishReadTrue, finishReadFalse, finishLayoutChange
<1>4. CASE startLayoutChange(t)
  BY <1>1, <1>4 DEF LockType, PCs, startLayoutChange
<1>5. CASE ShrinkByEnlarge(t)
  BY <1>1, <1>5 DEF LockType, PCs, ShrinkByEnlarge
<1>6. CASE Inside(t)
  BY <1>1, <1>6, InsideStays
<1>7. CASE Lookup(t)
  BY <1>2, <1>3, <1>7 DEF Lookup, Start, Choose, Hop, Acquire, Accept, Refuse, Retry, Operate, Release
<1>8. CASE Count(t)
  BY <1>2, <1>3, <1>8 DEF Count, FlushCount, ReadLimit, LimitRefused, LimitAccepted
<1>9. CASE Change(t)
  BY <1>2, <1>3, <1>4, <1>5, <1>9 DEF Change, EnterChange, LeaveEarly, Enlarge, RootAcquire, RootReplace,
     RootFree, GatherNode, GatherAcquire, GatherTake, GatherFree, BuildNode, BuildChild, LeaveChange, Left
<1> QED
  BY <1>2, <1>6, <1>7, <1>8, <1>9 DEF Step, InsideLock, Invoke

\* A step of a lookup keeps the types of the operations' variables.
LEMMA LookupOpType ==
    ASSUME TypeOK, NEW t \in Thread, Lookup(t)
    PROVE  OpType'
<1>1. OpType
  BY TypeParts
<1> USE <1>1 DEF OpType, ControlPoints, Goto, opVars
<1>2. CASE Start(t)
  BY <1>2 DEF Start
<1>3. CASE Choose(t)
  BY <1>3 DEF Choose
<1>4. CASE Hop(t)
  BY <1>4 DEF Hop
<1>5. CASE Acquire(t)
  BY <1>5 DEF Acquire
<1>6. CASE Accept(t)
  BY <1>6 DEF Accept
<1>7. CASE Refuse(t)
  BY <1>7 DEF Refuse
<1>8. CASE Retry(t)
  BY <1>8 DEF Retry
<1>9. CASE Operate(t)
  <2> DEFINE present == key[t] \in Items(cur[t])
  <2>1. \E b \in BOOLEAN : res' = [res EXCEPT ![t] = b]
    <3>1. present \in BOOLEAN /\ (~present) \in BOOLEAN
      OBVIOUS
    <3>2. res' = [res EXCEPT ![t] = present] \/ res' = [res EXCEPT ![t] = ~present]
      BY <1>9 DEF Operate
    <3> HIDE DEF present
    <3> QED  BY <3>1, <3>2
  <2> QED  BY <1>9, <2>1 DEF Operate
<1>10. CASE Release(t)
  BY <1>10 DEF Release, Return
<1> QED
  BY <1>2, <1>3, <1>4, <1>5, <1>6, <1>7, <1>8, <1>9, <1>10 DEF Lookup

\* So does a step of incSize or decSize,
LEMMA CountOpType ==
    ASSUME TypeOK, NEW t \in Thread, Count(t)
    PROVE  OpType'
<1>1. OpType
  BY TypeParts
<1> USE <1>1 DEF OpType, ControlPoints, Goto, opVars
<1>2. CASE FlushCount(t)
  BY <1>2 DEF FlushCount
<1>3. CASE ReadLimit(t)
  BY <1>3 DEF ReadLimit
<1>4. CASE LimitRefused(t)
  BY <1>4 DEF LimitRefused
<1>5. CASE LimitAccepted(t)
  BY <1>5 DEF LimitAccepted, FinishCount, Return
<1> QED
  BY <1>2, <1>3, <1>4, <1>5 DEF Count

\* and a step of a layout change.
LEMMA ChangeOpType ==
    ASSUME TypeOK, NEW t \in Thread, Change(t)
    PROVE  OpType'
<1>1. OpType
  BY TypeParts
<1> USE <1>1 DEF OpType, ControlPoints, Goto, opVars
<1>2. CASE EnterChange(t)
  BY <1>2 DEF EnterChange
<1>3. CASE LeaveEarly(t)
  BY <1>3 DEF LeaveEarly
<1>4. CASE ShrinkByEnlarge(t)
  BY <1>4 DEF ShrinkByEnlarge
<1>5. CASE Enlarge(t)
  BY <1>5 DEF Enlarge
<1>6. CASE RootAcquire(t)
  BY <1>6 DEF RootAcquire
<1>7. CASE RootReplace(t)
  BY <1>7 DEF RootReplace
<1>8. CASE RootFree(t)
  BY <1>8 DEF RootFree
<1>9. CASE GatherNode(t)
  BY <1>9 DEF GatherNode
<1>10. CASE GatherAcquire(t)
  BY <1>10 DEF GatherAcquire
<1>11. CASE GatherTake(t)
  BY <1>11 DEF GatherTake
<1>12. CASE GatherFree(t)
  BY <1>12 DEF GatherFree
<1>13. CASE BuildNode(t)
  BY <1>13 DEF BuildNode
<1>14. CASE BuildChild(t)
  BY <1>14 DEF BuildChild
<1>15. CASE LeaveChange(t)
  BY <1>15 DEF LeaveChange
<1>16. CASE Left(t)
  BY <1>16 DEF Left, FinishCount, Return
<1> QED
  BY <1>2, <1>3, <1>4, <1>5, <1>6, <1>7, <1>8, <1>9, <1>10, <1>11, <1>12, <1>13, <1>14, <1>15,
     <1>16 DEF Change

\* Every step keeps the types of the operations' variables.
LEMMA OpTypeStep ==
    ASSUME TypeOK, NEW t \in Thread, Invoke(t) \/ Step(t)
    PROVE  OpType'
<1>1. CASE Invoke(t)
  <2>1. Work[t] \subseteq {"search", "insert", "remove"}
    BY DLTreeAssumption
  <2> QED  BY <1>1, <2>1, TypeParts DEF Invoke, OpType, ControlPoints, Goto
<1>2. CASE InsideLock(t)
  BY <1>2, TypeParts DEF InsideLock, OpType, opVars
<1> QED
  BY <1>1, <1>2, LookupOpType, CountOpType, ChangeOpType DEF Step

-----------------------------------------------------------------------------
(* What is known of a state *)

Known(U, K) ==
    /\ TypeOK /\ ControlInv /\ Counted /\ SlotInv /\ TreeletInv
    /\ LinkInv /\ LeafInv /\ ChangeInv
    /\ U \in SUBSET (1..Len(nodes)) /\ K \in [1..Len(nodes) -> SUBSET Key]
    /\ CoverInv(U) /\ PlaceInv(U, K)

\* What is known of a state, part by part.
LEMMA KnownParts ==
    ASSUME NEW U, NEW K, Known(U, K)
    PROVE  /\ TypeOK /\ ControlInv /\ Counted /\ SlotInv /\ TreeletInv /\ LinkInv /\ LeafInv /\ ChangeInv
           /\ LockType /\ ShapeType /\ CountType /\ OpType /\ WalkType /\ ChangeType
           /\ U \in SUBSET (1..Len(nodes)) /\ K \in [1..Len(nodes) -> SUBSET Key]
           /\ CoverInv(U) /\ KeyInv(U, K) /\ GatherInv(K) /\ BuildInv(K) /\ WalkInv(K)
BY TypeParts DEF Known, PlaceInv

\* The thread that rebuilds the tree is the only one, and no walk is accepted meanwhile.
LEMMA RebuildsAlone ==
    ASSUME NEW U, NEW K, Known(U, K), NEW t \in Thread, Rebuilds(t)
    PROVE  /\ pc[t] = "changing"
           /\ \A u \in Thread : u # t => ~Rebuilds(u)
           /\ \A u \in Thread : u # t => ~Gathers(u) /\ at[u] # "build" /\ at[u] # "oldroot"
           /\ \A u \in Thread : ~(pc[u] = "reading" /\ dirty[u] = 0)
           /\ Building <=> at[t] = "build"
<1>1. pc[t] = "changing"
  BY KnownParts DEF ControlInv, Control
<1>2. /\ \A u \in Thread : Rebuilds(u) => u = t
      /\ \A u \in Thread : ~(pc[u] = "reading" /\ dirty[u] = 0)
  BY <1>1, KnownParts, ChangesAlone
<1>3. \A u \in Thread : Gathers(u) \/ at[u] = "build" \/ at[u] = "oldroot" => Rebuilds(u)
  BY DEF Gathers, Rebuilds
<1> QED
  BY <1>1, <1>2, <1>3 DEF Building

\* The nodes still to come to hang from those that are to be visited.
LEMMA NothingToCome ==
    ASSUME NEW U, NEW K, Known(U, K), NEW t \in Thread, CoverOf(t, U),
           \A n \in U : <<n, 0>> \notin Places(t)
    PROVE  U = {}
<1>1. SUFFICES ASSUME U # {} PROVE FALSE
  OBVIOUS
<1>2. U \in SUBSET Nat
  BY KnownParts, SlotParts
<1>3. PICK n \in U : \A m \in U : n <= m
  BY <1>1, <1>2, LeastNatural
<1>4. PICK e \in Slots : e[1] \in U /\ Link(e) = Node(n)
  BY DEF CoverOf
<1>5. e[1] < n
  BY <1>4, KnownParts, ObjectCases DEF LinkInv
<1>6. n <= e[1] /\ n \in Nat /\ e[1] \in Nat
  BY <1>2, <1>3, <1>4
<1> QED
  BY <1>5, <1>6

\* The treelet of a thread that may work on it, and where it is in the tree.
LEMMA OwnedSlot ==
    ASSUME NEW U, NEW K, Known(U, K), NEW t \in Thread, at[t] = "own"
    PROVE  /\ cur[t] \in Object /\ ~IsNode(cur[t]) /\ cur[t] # NullTree /\ trees[cur[t][2]].locked
           /\ \/ nodes = <<>> /\ cur[t] = head
              \/ nodes # <<>> /\ \E e \in Slots : Link(e) = cur[t] /\ Filled(e) /\ key[t] \in KeysOf(K, e)
<1>1. cur[t] \in Object /\ ~IsNode(cur[t]) /\ trees[cur[t][2]].locked
  BY KnownParts DEF WalkType, TreeletInv, Has
<1>2. Leads(K, cur[t], key[t])
  BY KnownParts DEF WalkInv
<1>3. CASE nodes = <<>> /\ cur[t] = head
  BY <1>1, <1>3, KnownParts, ObjectCases DEF LinkInv
<1>4. CASE \E e \in Slots : cur[t] = Link(e) /\ Filled(e) /\ key[t] \in KeysOf(K, e)
  <2>1. nodes # <<>>
    BY <1>4 DEF Slots
  <2> QED  BY <1>1, <1>4, <2>1 DEF Filled, Empty
<1>5. CASE \E n \in 1..Len(nodes) : cur[t] = Node(n) /\ key[t] \in K[n]
  BY <1>1, <1>5, ObjectCases
<1> QED
  BY <1>2, <1>3, <1>4, <1>5 DEF Leads, Filled, Empty

-----------------------------------------------------------------------------
(* Where a key can be *)

\* Key k is in the root, in a treelet of a leaf, or in the vector of a layout change.
InRoot(k) == nodes = <<>> /\ k \in Items(head)
InLeaf(k) == \E e \in Slots : ~IsNode(Link(e)) /\ k \in Items(Link(e))
InVector(k) == \E u \in Thread : k \in Range(v[u])
Kept(k) == InRoot(k) \/ InLeaf(k) \/ InVector(k)
SameKept == \A k : Kept(k)' <=> Kept(k)

-----------------------------------------------------------------------------
(* Steps that leave the backbone as it is *)

\* What a step does to treelet m: nothing, or what the thread that has it may do.
Works(t, m) ==
    \/ trees'[m].items = trees[m].items
    \/ at[t] = "own" /\ cur[t] = Tree(m) /\ trees'[m].items \subseteq trees[m].items \union {key[t]}

\* No node moves, and thread t is not rebuilding.
QuietFrame(t) ==
    /\ head' = head /\ nodes' = nodes /\ v' = v /\ todo' = todo
    /\ trees' \in Seq(TreeType) /\ Len(trees') = Len(trees)
    /\ \A m \in 1..Len(trees) : Works(t, m)
    /\ ~Rebuilds(t) /\ ~Rebuilds(t)'
    /\ at'[t] = "own" => \A u \in Thread : ~Rebuilds(u)

QuietChange(t) == EnterChange(t) \/ LeaveEarly(t) \/ ShrinkByEnlarge(t) \/ Left(t)
Quiet(t) ==
    \/ Invoke(t) \/ Lookup(t) \/ Count(t) \/ QuietChange(t) \/ InsideLock(t)

\* A thread that looks for its treelet or has it has a treelet, or a node.
LEMMA CurCases ==
    ASSUME NEW U, NEW K, Known(U, K), NEW t \in Thread
    PROVE  /\ cur[t] \in Object
           /\ IsNode(cur[t]) => cur[t][2] \in 1..Len(nodes) /\ cur[t] = Node(cur[t][2])
           /\ ~IsNode(cur[t]) => cur[t][2] \in 1..Len(trees) /\ cur[t] = Tree(cur[t][2])
           /\ Has(t) => ~IsNode(cur[t]) /\ trees[cur[t][2]].locked
           /\ at[t] = "hop" => IsNode(cur[t])
<1>1. cur[t] \in Object
  BY KnownParts DEF WalkType
<1> QED
  BY <1>1, ObjectCases, KnownParts DEF TreeletInv, WalkInv

\* A step that leaves the treelets alone works on none.
LEMMA TreesSame ==
    ASSUME ShapeType, NEW t \in Thread, trees' = trees
    PROVE  /\ trees' \in Seq(TreeType) /\ Len(trees') = Len(trees)
           /\ \A m \in 1..Len(trees) : Works(t, m)
BY DEF ShapeType, Works

\* A step of a lookup leaves the backbone and the layout change's variables alone; it touches
\* the treelet it has locked at most.
LEMMA LookupQuiet ==
    ASSUME NEW U, NEW K, Known(U, K), NEW t \in Thread, Lookup(t)
    PROVE  QuietFrame(t)
<1>1. OpType /\ ShapeType /\ Control(t)
  BY KnownParts DEF ControlInv
<1>2. at[t] \in {"start", "walk", "hop", "held", "own", "release"}
  BY DEF Lookup, Start, Choose, Hop, Acquire, Accept, Refuse, Retry, Operate, Release
<1>3. at'[t] \in {"start", "walk", "hop", "held", "own", "release", "flush", "idle"}
  BY <1>1 DEF OpType, Goto, Lookup, Start, Choose, Hop, Acquire, Accept, Refuse, Retry, Operate, Release, Return
<1>4. ~Rebuilds(t) /\ ~Rebuilds(t)'
  BY <1>2, <1>3 DEF Rebuilds
<1>5. head' = head /\ nodes' = nodes /\ v' = v /\ todo' = todo
  BY DEF treeVars, changeVars, Lookup, Start, Choose, Hop, Acquire, Accept, Refuse, Retry, Operate, Release
<1>6. at'[t] = "own" => \A u \in Thread : ~Rebuilds(u)
  <2>1. ASSUME at'[t] = "own" PROVE Accept(t)
    <3>1. ~(Start(t) \/ Choose(t) \/ Hop(t) \/ Acquire(t) \/ Retry(t) \/ Operate(t) \/ Release(t))
      BY <1>1, <2>1 DEF OpType, Goto, Start, Choose, Hop, Acquire, Retry, Operate, Release, Return
    <3>2. ~Refuse(t)
      BY <1>1, <2>1 DEF Refuse, OpType
    <3> QED  BY <3>1, <3>2 DEF Lookup
  <2>2. Accept(t) => pc[t] = "reading" /\ dirty[t] = 0
    BY DEF Accept, finishReadTrue
  <2> QED  BY <2>1, <2>2, RebuildsAlone
<1>7. /\ trees' \in Seq(TreeType) /\ Len(trees') = Len(trees)
      /\ \A m \in 1..Len(trees) : Works(t, m)
  <2>1. CASE trees' = trees
    BY <1>1, <2>1, TreesSame
  <2>2. CASE Acquire(t) \/ Retry(t) \/ Release(t)
    <3>1. cur[t][2] \in 1..Len(trees)
      BY <2>2, CurCases DEF Has, Acquire, Retry, Release
    <3>2. \E b \in BOOLEAN : trees' = [trees EXCEPT ![cur[t][2]].locked = b]
      BY <2>2 DEF Acquire, Retry, Release, Lock, Unlock
    <3> QED  BY <1>1, <3>1, <3>2, LockUpdate DEF Works
  <2>3. CASE Start(t) \/ Choose(t) \/ Hop(t) \/ Accept(t) \/ Refuse(t)
    BY <2>1, <2>3 DEF Start, Choose, Hop, Accept, Refuse, treeVars
  <2>4. CASE Operate(t)
    <3>1. cur[t][2] \in 1..Len(trees) /\ cur[t] = Tree(cur[t][2]) /\ at[t] = "own"
      BY <2>4, CurCases DEF Has, Operate
    <3>2. trees[cur[t][2]].items \in SUBSET Key /\ key[t] \in Key
      BY <1>1, <3>1, SlotParts DEF OpType
    <3>3. CASE trees' = trees
      BY <2>1, <3>3
    <3>4. ASSUME NEW s \in SUBSET Key, s \subseteq trees[cur[t][2]].items \union {key[t]},
                 trees' = [trees EXCEPT ![cur[t][2]].items = s]
          PROVE  /\ trees' \in Seq(TreeType) /\ Len(trees') = Len(trees)
                 /\ \A m \in 1..Len(trees) : Works(t, m)
      <4>1. /\ trees' \in Seq(TreeType) /\ Len(trees') = Len(trees)
            /\ \A m \in 1..Len(trees) : trees'[m].items = IF m = cur[t][2] THEN s ELSE trees[m].items
        BY <1>1, <3>1, <3>4, ItemsUpdate
      <4> QED  BY <3>1, <3>4, <4>1 DEF Works
    <3>5. \/ trees' = trees
          \/ SetItems(cur[t], Items(cur[t]) \union {key[t]})
          \/ SetItems(cur[t], Items(cur[t]) \ {key[t]})
      BY <2>4 DEF Operate
    <3>6. \/ trees' = trees
          \/ \E s \in SUBSET Key : /\ s \subseteq trees[cur[t][2]].items \union {key[t]}
                                  /\ trees' = [trees EXCEPT ![cur[t][2]].items = s]
      <4>1. /\ trees[cur[t][2]].items \union {key[t]} \in SUBSET Key
            /\ trees[cur[t][2]].items \ {key[t]} \in SUBSET Key
        BY <3>2
      <4> QED  BY <3>5, <4>1 DEF SetItems, Items
    <3> QED  BY <3>3, <3>4, <3>6
  <2> QED  BY <2>2, <2>3, <2>4 DEF Lookup
<1> QED
  BY <1>4, <1>5, <1>6, <1>7 DEF QuietFrame

\* So do a new operation, the counting, the steps of a layout change before and after its
\* work on the tree, and the layout lock: these touch no treelet either.
LEMMA OtherQuiet ==
    ASSUME NEW U, NEW K, Known(U, K), NEW t \in Thread,
           Invoke(t) \/ Count(t) \/ QuietChange(t) \/ InsideLock(t)
    PROVE  QuietFrame(t) /\ trees' = trees /\ cur' = cur /\ idx' = idx /\ at'[t] # "own"
           /\ (at'[t] \in {"walk", "hop", "held"} => at'[t] = at[t] /\ key' = key)
<1>1. OpType /\ ShapeType /\ Control(t)
  BY KnownParts DEF ControlInv
<1>2. head' = head /\ nodes' = nodes /\ v' = v /\ todo' = todo /\ trees' = trees /\ cur' = cur /\ idx' = idx
  BY DEF treeVars, changeVars, walkVars, Invoke, Count, FlushCount, ReadLimit, LimitRefused, LimitAccepted,
         QuietChange, EnterChange, LeaveEarly, ShrinkByEnlarge, Left, InsideLock
<1>3. /\ ~Rebuilds(t) /\ ~Rebuilds(t)' /\ at'[t] # "own"
      /\ at'[t] \in {"walk", "hop", "held"} => at'[t] = at[t] /\ key' = key
  <2>1. CASE Invoke(t)
    BY <1>1, <2>1 DEF Invoke, Goto, OpType, Rebuilds
  <2>2. CASE Count(t)
    BY <1>1, <2>2 DEF Goto, OpType, Rebuilds, Count, FlushCount, ReadLimit, LimitRefused, LimitAccepted,
       FinishCount, Return
  <2>3. CASE QuietChange(t)
    BY <1>1, <2>3 DEF Goto, OpType, Rebuilds, QuietChange, EnterChange, LeaveEarly, ShrinkByEnlarge, Left,
       FinishCount, Return
  <2>4. CASE InsideLock(t)
    <3>1. pc[t] \notin {"changing", "idle"} /\ at' = at /\ key' = key
      BY <2>4 DEF InsideLock, Inside, opVars, resetDirty, resetDirtyTest, resetDirtyClear, resetDirtyRecheck,
         resetDirtySet, readLock, writeLockSlot, setDirty, writeUnlockSlot
    <3> QED  BY <1>1, <3>1 DEF Control, Rebuilds
  <2> QED  BY <2>1, <2>2, <2>3, <2>4
<1> QED
  BY <1>1, <1>2, <1>3, TreesSame DEF QuietFrame

\* The definitions the invariants are made of have the same values after such a step.
LEMMA QuietSame ==
    ASSUME NEW U, NEW K, Known(U, K), NEW t \in Thread, \A u \in Thread : u # t => Stays(t, u),
           QuietFrame(t)
    PROVE  /\ Slots' = Slots /\ Len(nodes') = Len(nodes) /\ Object' = Object
           /\ \A e : Link(e)' = Link(e) /\ (Empty(e)' <=> Empty(e)) /\ (Filled(e)' <=> Filled(e))
           /\ \A e \in Slots : ~IsNode(Link(e)) =>
                \/ Items(Link(e))' = Items(Link(e))
                \/ /\ at[t] = "own" /\ cur[t] = Link(e)
                   /\ Items(Link(e))' \subseteq Items(Link(e)) \union {key[t]}
           /\ \A e : KeysOf(K, e)' = KeysOf(K, e)
           /\ \A u \in Thread : Places(u)' = Places(u)
           /\ \A u \in Thread : (Rebuilds(u) \/ Rebuilds(u)') => at'[u] = at[u] /\ cur'[u] = cur[u]
           /\ \A u \in Thread : /\ Gathers(u)' <=> Gathers(u)
                                /\ at'[u] = "build" <=> at[u] = "build"
                                /\ at'[u] = "oldroot" <=> at[u] = "oldroot"
                                /\ at'[u] = "newroot" <=> at[u] = "newroot"
                                /\ at'[u] = "drop" <=> at[u] = "drop"
                                /\ at'[u] = "take" <=> at[u] = "take"
                                /\ at'[u] = "root" <=> at[u] = "root"
           /\ Building' <=> Building
<1>1. ShapeType /\ head' = head /\ nodes' = nodes /\ v' = v /\ todo' = todo
  BY KnownParts DEF QuietFrame
<1>2. Slots' = Slots /\ Len(nodes') = Len(nodes) /\ Object' = Object
  BY <1>1 DEF Slots, Object, QuietFrame
<1>3. \A e : Link(e)' = Link(e) /\ (Empty(e)' <=> Empty(e)) /\ (Filled(e)' <=> Filled(e))
  BY <1>1 DEF Link, Empty, Filled
<1>4. ASSUME NEW e \in Slots, ~IsNode(Link(e))
      PROVE  \/ Items(Link(e))' = Items(Link(e))
             \/ /\ at[t] = "own" /\ cur[t] = Link(e)
                /\ Items(Link(e))' \subseteq Items(Link(e)) \union {key[t]}
  <2>1. Link(e)[2] \in 1..Len(trees) /\ Link(e)' = Link(e) /\ Link(e) = Tree(Link(e)[2])
    BY <1>1, <1>3, <1>4, SlotParts, ObjectCases
  <2>2. Works(t, Link(e)[2])
    BY <2>1 DEF QuietFrame
  <2> QED  BY <2>1, <2>2 DEF Items, Works
<1>5. \A e : KeysOf(K, e)' = KeysOf(K, e)
  BY <1>1 DEF KeysOf, Child
<1>6. \A u \in Thread : Places(u)' = Places(u)
  BY <1>1 DEF Places
<1>7. \A u \in Thread : (Rebuilds(u) \/ Rebuilds(u)') => at'[u] = at[u] /\ cur'[u] = cur[u]
  BY DEF Stays, QuietFrame
<1>8. \A u \in Thread : /\ Gathers(u)' <=> Gathers(u)
                        /\ at'[u] = "build" <=> at[u] = "build"
                        /\ at'[u] = "oldroot" <=> at[u] = "oldroot"
                        /\ at'[u] = "newroot" <=> at[u] = "newroot"
                        /\ at'[u] = "drop" <=> at[u] = "drop"
                        /\ at'[u] = "take" <=> at[u] = "take"
                        /\ at'[u] = "root" <=> at[u] = "root"
  BY <1>7 DEF Gathers, Rebuilds
<1>9. Building' <=> Building
  BY <1>8 DEF Building
<1> QED
  BY <1>2, <1>3, <1>4, <1>5, <1>6, <1>7, <1>8, <1>9

\* A step that leaves the backbone alone keeps its shape and the place of every key.
LEMMA QuietKeeps ==
    ASSUME NEW U, NEW K, Known(U, K), NEW t \in Thread, \A u \in Thread : u # t => Stays(t, u),
           QuietFrame(t)
    PROVE  /\ ShapeType' /\ ChangeType' /\ LinkInv' /\ LeafInv' /\ ChangeInv'
           /\ CoverInv(U)' /\ KeyInv(U, K)' /\ GatherInv(K)' /\ BuildInv(K)'
<1>1. head' = head /\ nodes' = nodes /\ v' = v /\ todo' = todo
  BY DEF QuietFrame
<1>2. /\ Slots' = Slots /\ Len(nodes') = Len(nodes) /\ Object' = Object
      /\ \A e : Link(e)' = Link(e) /\ (Empty(e)' <=> Empty(e)) /\ (Filled(e)' <=> Filled(e))
      /\ \A u \in Thread : Places(u)' = Places(u)
      /\ Building' <=> Building
  BY QuietSame
<1>3. \A u \in Thread : /\ Gathers(u)' <=> Gathers(u)
                        /\ at'[u] = "build" <=> at[u] = "build"
                        /\ at'[u] = "oldroot" <=> at[u] = "oldroot"
                        /\ at'[u] = "newroot" <=> at[u] = "newroot"
                        /\ at'[u] = "drop" <=> at[u] = "drop"
                        /\ at'[u] = "take" <=> at[u] = "take"
                        /\ at'[u] = "root" <=> at[u] = "root"
  BY QuietSame
<1>4. \A u \in Thread : (Rebuilds(u) \/ Rebuilds(u)') => at'[u] = at[u] /\ cur'[u] = cur[u]
  BY QuietSame
<1>5. \A e : KeysOf(K, e)' = KeysOf(K, e)
  BY QuietSame
<1>6. \A e \in Slots : ~IsNode(Link(e)) =>
        \/ Items(Link(e))' = Items(Link(e))
        \/ /\ at[t] = "own" /\ cur[t] = Link(e)
           /\ Items(Link(e))' \subseteq Items(Link(e)) \union {key[t]}
  BY QuietSame
<1>61. at[t] = "own" => \A u \in Thread : at[u] \notin {"newroot", "oldroot", "build"}
  BY KnownParts DEF ChangeInv, ChangeOf
<1>7. ShapeType'
  <2>1. ShapeType
    BY KnownParts
  <2>2. TreeType' = TreeType /\ NodeType' = NodeType
    BY <1>2 DEF TreeType, NodeType
  <2> QED  BY <1>1, <1>2, <2>1, <2>2 DEF ShapeType, QuietFrame
<1>8. ChangeType'
  BY <1>1, <1>2, KnownParts DEF ChangeType, Tasks
<1>9. LinkInv'
  BY <1>1, <1>2, KnownParts DEF LinkInv
<1>10. LeafInv'
  BY <1>1, <1>2, <1>3, KnownParts DEF LeafInv
<1>11. ChangeInv'
  <2> SUFFICES ASSUME NEW u \in Thread
               PROVE  /\ at'[u] \in {"root", "newroot"} => nodes' = <<>>
                      /\ at'[u] = "newroot" => cur'[u] = head' /\ v'[u] = InOrder(Items(head))'
                      /\ at'[u] = "oldroot" => Len(nodes') = 1
                      /\ at'[u] \in {"oldroot", "drop"} => \A e \in Slots' : Link(e)' # cur'[u]
                      /\ Gathers(u)' => nodes' # <<>> /\ todo'[u] # <<>>
                      /\ at'[u] \in {"take", "drop"} => Head(todo'[u]).child > 0
                      /\ at'[u] = "take" => cur'[u] = Link(Place(Head(todo[u])))'
                      /\ at'[u] = "build" => nodes' # <<>>
                      /\ ~Gathers(u)' /\ at'[u] # "build" => todo'[u] = <<>>
                      /\ ~Gathers(u)' /\ at'[u] \notin {"newroot", "oldroot", "build"} => v'[u] = <<>>
                      /\ \A j, l \in 1..Len(v'[u]) : j < l => v'[u][j] < v'[u][l]
                      /\ at'[u] \in {"newroot", "oldroot", "build"} => \A w \in Thread : at'[w] # "own"
    BY DEF ChangeInv, ChangeOf
  <2>1. /\ at[u] \in {"root", "newroot"} => nodes = <<>>
        /\ at[u] = "newroot" => cur[u] = head /\ v[u] = InOrder(Items(head))
        /\ at[u] = "oldroot" => Len(nodes) = 1
        /\ at[u] \in {"oldroot", "drop"} => \A e \in Slots : Link(e) # cur[u]
        /\ Gathers(u) => nodes # <<>> /\ todo[u] # <<>>
        /\ at[u] \in {"take", "drop"} => Head(todo[u]).child > 0
        /\ at[u] = "take" => cur[u] = Link(Place(Head(todo[u])))
        /\ at[u] = "build" => nodes # <<>>
        /\ ~Gathers(u) /\ at[u] # "build" => todo[u] = <<>>
        /\ ~Gathers(u) /\ at[u] \notin {"newroot", "oldroot", "build"} => v[u] = <<>>
        /\ \A j, l \in 1..Len(v[u]) : j < l => v[u][j] < v[u][l]
        /\ at[u] \in {"newroot", "oldroot", "build"} => \A w \in Thread : at[w] # "own"
    BY KnownParts DEF ChangeInv, ChangeOf
  <2>2. at[u] \in {"newroot", "take", "oldroot", "drop", "build"} => cur'[u] = cur[u] /\ Rebuilds(u)
    BY <1>4 DEF Rebuilds
  <2>3. at[u] \in {"newroot", "oldroot", "build"} => \A w \in Thread : at'[w] # "own"
    <3>1. ASSUME at[u] \in {"newroot", "oldroot", "build"}, NEW w \in Thread, at'[w] = "own" PROVE FALSE
      <4>1. at[w] # "own" /\ Rebuilds(u)
        BY <2>1, <3>1 DEF Rebuilds
      <4>2. w = t
        BY <3>1, <4>1 DEF Stays
      <4> QED  BY <3>1, <4>1, <4>2 DEF QuietFrame
    <3> QED  BY <3>1
  <2>4. at[u] = "newroot" => Items(head)' = Items(head)
    <3>1. ASSUME at[u] = "newroot" PROVE Items(head)' = Items(head)
      <4>1. head = Tree(2) /\ 2 \in 1..Len(trees) /\ head[2] = 2
        BY <2>1, <3>1, KnownParts, ObjectCases DEF LinkInv, ShapeType
      <4> QED  BY <1>1, <1>61, <3>1, <4>1 DEF Items, QuietFrame, Works
    <3> QED  BY <3>1
  <2>5. at[u] = "newroot" => InOrder(Items(head))' = InOrder(Items(head))
    BY <2>4 DEF InOrder
  <2>6. Link(Place(Head(todo[u])))' = Link(Place(Head(todo[u])))
    BY <1>1 DEF Link, Place
  <2>7. /\ at'[u] \in {"root", "newroot"} => nodes' = <<>>
        /\ at'[u] = "newroot" => cur'[u] = head' /\ v'[u] = InOrder(Items(head))'
        /\ at'[u] = "oldroot" => Len(nodes') = 1
    BY <1>1, <1>3, <2>1, <2>2, <2>5
  <2>8. at'[u] \in {"oldroot", "drop"} => \A e \in Slots' : Link(e)' # cur'[u]
    BY <1>2, <1>3, <2>1, <2>2
  <2>9. /\ Gathers(u)' => nodes' # <<>> /\ todo'[u] # <<>>
        /\ at'[u] \in {"take", "drop"} => Head(todo'[u]).child > 0
        /\ at'[u] = "take" => cur'[u] = Link(Place(Head(todo[u])))'
        /\ at'[u] = "build" => nodes' # <<>>
        /\ ~Gathers(u)' /\ at'[u] # "build" => todo'[u] = <<>>
    BY <1>1, <1>3, <2>1, <2>2, <2>6
  <2>10. /\ ~Gathers(u)' /\ at'[u] \notin {"newroot", "oldroot", "build"} => v'[u] = <<>>
         /\ \A j, l \in 1..Len(v'[u]) : j < l => v'[u][j] < v'[u][l]
         /\ at'[u] \in {"newroot", "oldroot", "build"} => \A w \in Thread : at'[w] # "own"
    BY <1>1, <1>3, <2>1, <2>3
  <2> QED  BY <2>7, <2>8, <2>9, <2>10
<1>12. \A u \in Thread : CoverOf(u, U)' <=> CoverOf(u, U)
  BY <1>1, <1>2, <1>3 DEF CoverOf
<1>13. CoverInv(U)'
  BY <1>3, <1>12, KnownParts DEF CoverInv
<1>14. Ready(U)' = Ready(U)
  BY <1>2 DEF Ready
<1>15. Frontier(U)' = Frontier(U)
  BY <1>2, <1>3, <1>14 DEF Frontier
<1>16. KeyInv(U, K)'
  <2>1. KeyInv(U, K)
    BY KnownParts
  <2>2. nodes' # <<>> => K[1] = Key
    BY <1>1, <2>1 DEF KeyInv
  <2>3. ASSUME NEW e \in Slots', e[1] \in Ready(U)'
        PROVE  IF IsNode(Link(e)') THEN K[Link(e)'[2]] = KeysOf(K, e)'
               ELSE Items(Link(e))' \subseteq KeysOf(K, e)'
    <3>1. /\ e \in Slots /\ e[1] \in Ready(U) /\ Link(e)' = Link(e) /\ KeysOf(K, e)' = KeysOf(K, e)
          /\ IF IsNode(Link(e)) THEN K[Link(e)[2]] = KeysOf(K, e) ELSE Items(Link(e)) \subseteq KeysOf(K, e)
      BY <1>2, <1>5, <1>14, <2>1, <2>3 DEF KeyInv
    <3>2. ASSUME at[t] = "own", cur[t] = Link(e) PROVE key[t] \in KeysOf(K, e)
      <4>1. PICK f \in Slots : Link(f) = cur[t] /\ Filled(f) /\ key[t] \in KeysOf(K, f)
        <5>1. nodes # <<>>
          BY <3>1 DEF Slots
        <5> QED  BY <3>2, <5>1, OwnedSlot
      <4>2. f = e
        BY <3>1, <3>2, <4>1, KnownParts DEF LinkInv, Filled
      <4> QED  BY <4>1, <4>2
    <3> QED  BY <1>6, <3>1, <3>2
  <2>4. \A e, f \in Frontier(U)' : e # f => KeysOf(K, e)' \intersect KeysOf(K, f)' = {}
    BY <1>5, <1>15, <2>1 DEF KeyInv
  <2> QED  BY <2>2, <2>3, <2>4 DEF KeyInv
<1>17. GatherInv(K)'
  <2> SUFFICES ASSUME NEW u \in Thread, Gathers(u)' PROVE GatherOf(u, K)'
    BY DEF GatherInv
  <2>1. GatherOf(u, K) /\ (at'[u] = "drop" <=> at[u] = "drop")
    BY <1>3, KnownParts DEF GatherInv
  <2>2. \A j : Place(todo[u][j])' = Place(todo[u][j])
    BY <1>1 DEF Place
  <2>3. \A k \in Range(v'[u]) : \E e \in Slots' : Empty(e)' /\ k \in KeysOf(K, e)'
    BY <1>1, <1>2, <1>5, <2>1 DEF GatherOf
  <2>4. \A j \in 1..Len(todo'[u]) : j > 1 \/ at'[u] # "drop" =>
          \A k \in Range(v'[u]), m \in KeysOf(K, Place(todo[u][j]))' : k < m
    BY <1>1, <1>5, <2>1, <2>2 DEF GatherOf
  <2>5. \A j, l \in 1..Len(todo'[u]) : j < l =>
          \A k \in KeysOf(K, Place(todo[u][j]))', m \in KeysOf(K, Place(todo[u][l]))' : k < m
    BY <1>1, <1>5, <2>1, <2>2 DEF GatherOf
  <2> QED  BY <1>1, <2>3, <2>4, <2>5 DEF GatherOf
<1>18. BuildInv(K)'
  <2>1. BuildInv(K)
    BY KnownParts
  <2>2. \A u \in Thread : at'[u] \in {"oldroot", "build"} => at[u] \in {"oldroot", "build"}
    BY <1>3
  <2>3. \A k : From(k)' = From(k) /\ To(k)' = To(k)
    BY DEF From, To, Begin
  <2>4. \A k : KeysOf(K, Place(k))' = KeysOf(K, Place(k))
    BY <1>1 DEF KeysOf, Child, Place
  <2>5. \A u \in Thread : at'[u] \in {"oldroot", "build"} =>
          \A e \in Slots : ~IsNode(Link(e)) => Items(Link(e))' = Items(Link(e))
    BY <1>6, <1>61, <2>2
  <2> QED  BY <1>1, <1>2, <2>1, <2>2, <2>3, <2>4, <2>5 DEF BuildInv, BuildOf
<1> QED
  BY <1>7, <1>8, <1>9, <1>10, <1>11, <1>13, <1>16, <1>17, <1>18

\* A flag that is clear after a step was clear before, but for the thread's own, which is
\* cleared when no walk of its is under way.
LEMMA FlagsStay ==
    ASSUME TypeOK, NEW t \in Thread, Invoke(t) \/ Step(t)
    PROVE  /\ \A u \in Thread : u # t /\ dirty'[u] = 0 => dirty[u] = 0
           /\ dirty'[t] = 0 /\ pc'[t] = "reading" => dirty[t] = 0
<1>1. LockType
  BY TypeParts
<1>2. CASE dirty' = dirty
  BY <1>2
<1>3. CASE InsideLock(t)
  <2>1. CASE setDirty(t)
    BY <1>1, <2>1 DEF setDirty, LockType
  <2>2. CASE resetDirty(t)
    BY <1>1, <2>2 DEF resetDirty, resetDirtyTest, resetDirtyClear, resetDirtyRecheck, resetDirtySet, LockType
  <2> QED
    BY <1>2, <1>3, <2>1, <2>2 DEF InsideLock, Inside, readLock, writeLockSlot, writeUnlockSlot
<1>4. CASE Invoke(t)
  BY <1>2, <1>4 DEF Invoke, lockVars
<1>5. CASE Lookup(t)
  BY <1>2, <1>5 DEF Lookup, Start, startRead, Choose, Hop, Acquire, Accept, finishReadTrue, Refuse,
     finishReadFalse, Retry, Operate, Release, lockVars
<1>6. CASE Count(t)
  BY <1>2, <1>6 DEF Count, FlushCount, ReadLimit, startRead, LimitRefused, finishReadFalse,
     LimitAccepted, finishReadTrue, lockVars
<1>7. CASE Change(t)
  BY <1>2, <1>7 DEF Change, EnterChange, startLayoutChange, LeaveEarly, finishLayoutChange, ShrinkByEnlarge,
     Enlarge, RootAcquire, RootReplace, RootFree, GatherNode, GatherAcquire, GatherTake, GatherFree,
     BuildNode, BuildChild, LeaveChange, Left, lockVars
<1> QED
  BY <1>3, <1>4, <1>5, <1>6, <1>7 DEF Step

\* A walk that will be accepted, or a thread that has been.
Accepted(t) ==
    \/ at[t] \in {"walk", "hop", "held"} /\ pc[t] = "reading" /\ dirty[t] = 0
    \/ at[t] = "own"

\* What an accepted walk finds behind the slot for its key.
LEMMA NextObject ==
    ASSUME NEW U, NEW K, Known(U, K), NEW t \in Thread, at[t] = "hop"
    PROVE  /\ IsNode(cur[t]) /\ cur[t][2] \in 1..Len(nodes) /\ idx[t] \in 1..B
           /\ nodes[cur[t][2]].next[idx[t]] = Link(<<cur[t][2], idx[t]>>)
           /\ <<cur[t][2], idx[t]>> \in Slots
           /\ pc[t] = "reading" /\ dirty[t] = 0 => Leads(K, Link(<<cur[t][2], idx[t]>>), key[t])
<1>1. IsNode(cur[t]) /\ cur[t][2] \in 1..Len(nodes) /\ idx[t] \in 1..B /\ cur[t] = Node(cur[t][2])
  BY CurCases, KnownParts DEF WalkType
<1> DEFINE e == <<cur[t][2], idx[t]>>
<1>2. e \in Slots /\ nodes[cur[t][2]].next[idx[t]] = Link(e) /\ e[1] = cur[t][2] /\ e[2] = idx[t]
  BY <1>1, KnownParts, SlotParts DEF Link
<1>3. ASSUME pc[t] = "reading", dirty[t] = 0 PROVE Leads(K, Link(e), key[t])
  <2>1. \A u \in Thread : ~Rebuilds(u)
    BY <1>3, RebuildsAlone
  <2>2. ~Building /\ \A u \in Thread : ~Gathers(u) /\ at[u] # "build"
    BY <2>1 DEF Building, Gathers, Rebuilds
  <2>3. Leads(K, cur[t], key[t]) /\ idx[t] = Child(cur[t][2], key[t])
    BY <1>3, KnownParts DEF WalkInv
  <2>4. key[t] \in K[cur[t][2]]
    <3>1. nodes # <<>>
      BY <1>1
    <3>2. \A f \in Slots : Filled(f) => cur[t] # Link(f)
      BY <1>1 DEF Filled
    <3>3. PICK n \in 1..Len(nodes) : cur[t] = Node(n) /\ key[t] \in K[n]
      BY <2>3, <3>1, <3>2 DEF Leads
    <3> QED  BY <3>3, ObjectCases
  <2>5. key[t] \in KeysOf(K, e)
    <3>1. key[t] \in Key /\ idx[t] # 0
      BY <1>1, KnownParts DEF OpType
    <3> HIDE DEF e
    <3> QED  BY <1>2, <2>3, <2>4, <3>1 DEF KeysOf
  <2>6. e[1] \in Ready(U)
    BY <1>1, <2>2 DEF Ready
  <2>7. ~Empty(e)
    BY <1>2, <2>2, KnownParts DEF LeafInv
  <2>8. CASE IsNode(Link(e))
    <3>1. K[Link(e)[2]] = KeysOf(K, e)
      BY <1>2, <2>6, <2>8, KnownParts DEF KeyInv
    <3>2. Link(e)[2] \in 1..Len(nodes) /\ Link(e) = Node(Link(e)[2])
      BY <1>2, <2>8, KnownParts, SlotParts, ObjectCases
    <3> HIDE DEF e
    <3> QED  BY <2>5, <3>1, <3>2 DEF Leads
  <2>9. CASE ~IsNode(Link(e))
    BY <1>2, <2>5, <2>7, <2>9 DEF Leads, Filled
  <2> QED  BY <2>8, <2>9
<1> QED
  BY <1>1, <1>2, <1>3

\* A walk begins at the root.
LEMMA HeadLeads ==
    ASSUME NEW U, NEW K, Known(U, K), NEW k \in Key
    PROVE  Leads(K, head, k)
<1>1. CASE nodes = <<>>
  BY <1>1 DEF Leads
<1>2. CASE nodes # <<>>
  <2>1. head = Node(1) /\ K[1] = Key
    BY <1>2, KnownParts DEF LinkInv, KeyInv
  <2>2. 1 \in 1..Len(nodes)
    BY <1>2, KnownParts DEF ShapeType
  <2> QED  BY <2>1, <2>2 DEF Leads
<1> QED
  BY <1>1, <1>2

\* Steps of a walk, of one that ends, and others, by what they do to the treelet's lock.
LEMMA LookupWalks ==
    ASSUME NEW U, NEW K, Known(U, K), NEW t \in Thread, Lookup(t)
    PROVE  /\ cur' \in [Thread -> Object] /\ idx' \in [Thread -> 1..B]
           /\ Accepted(t)' => Leads(K, cur'[t], key'[t])
           /\ at'[t] = "hop" => IsNode(cur'[t]) /\ (dirty'[t] = 0 => idx'[t] = Child(cur'[t][2], key'[t]))
<1>1. LockType /\ OpType /\ WalkType /\ Control(t) /\ cur[t] \in Object /\ idx[t] \in 1..B /\ key[t] \in Key
  BY KnownParts DEF ControlInv, WalkType, OpType
<1>2. 1 \in 1..B
  BY BType
<1>3. WalkInv(K)
  BY KnownParts
<1> USE <1>1, <1>2 DEF LockType, OpType, WalkType, Goto, lockVars, treeVars, opVars, walkVars, Accepted, Control
<1>4. CASE Start(t)
  <2>1. head \in Object /\ Leads(K, head, key[t])
    BY HeadLeads, KnownParts DEF ShapeType
  <2> QED  BY <1>4, <2>1 DEF Start, startRead
<1>5. CASE Choose(t)
  <2>1. Child(cur[t][2], key[t]) \in 1..B
    <3>1. cur[t][2] \in 1..Len(nodes) /\ key[t] \in Nat
      BY <1>5, CurCases, KeyType DEF Choose
    <3>2. nodes[cur[t][2]].keys \in [1..(B - 1) -> Nat]
      BY <3>1, KnownParts, SlotParts, KeyType DEF NodeType
    <3> QED  BY <3>1, <3>2, ChildType DEF Child
  <2> QED  BY <1>3, <1>5, <2>1 DEF Choose, WalkInv
<1>6. CASE Hop(t)
  <2>1. /\ Link(<<cur[t][2], idx[t]>>) \in Object
        /\ nodes[cur[t][2]].next[idx[t]] = Link(<<cur[t][2], idx[t]>>)
        /\ pc[t] = "reading" /\ dirty[t] = 0 => Leads(K, Link(<<cur[t][2], idx[t]>>), key[t])
    BY <1>6, NextObject, KnownParts, SlotParts DEF Hop
  <2> QED  BY <1>6, <2>1 DEF Hop
<1>7. CASE Acquire(t)
  BY <1>3, <1>7 DEF Acquire, WalkInv
<1>8. CASE Accept(t)
  BY <1>3, <1>8 DEF Accept, finishReadTrue, WalkInv
<1>9. CASE Refuse(t)
  BY <1>9 DEF Refuse, finishReadFalse
<1>10. CASE Retry(t) \/ Release(t)
  <2>1. NullTree \in Object
    <3>1. 1 \in 1..Len(trees)
      BY KnownParts DEF ShapeType
    <3> QED  BY <3>1, ObjectCases
  <2>2. at'[t] \notin {"walk", "hop", "held", "own"}
    BY <1>10 DEF Retry, Release, Return
  <2>3. cur' = [cur EXCEPT ![t] = NullTree] /\ idx' = idx
    BY <1>10 DEF Retry, Release
  <2> QED  BY <2>1, <2>2, <2>3
<1>11. CASE Operate(t)
  BY <1>11 DEF Operate
<1> QED
  BY <1>4, <1>5, <1>6, <1>7, <1>8, <1>9, <1>10, <1>11 DEF Lookup

\* It keeps every walk on its way: a walk takes the child for its key, and a reader that is
\* told nothing has changed was where its key leads all the time.
LEMMA QuietWalks ==
    ASSUME NEW U, NEW K, Known(U, K), NEW t \in Thread, Quiet(t), Invoke(t) \/ Step(t), QuietFrame(t)
    PROVE  WalkType' /\ WalkInv(K)'
<1>1. \A u \in Thread : u # t => Stays(t, u)
  BY OthersStay, KnownParts
<1>2. /\ \A e : Link(e)' = Link(e) /\ (Filled(e)' <=> Filled(e)) /\ KeysOf(K, e)' = KeysOf(K, e)
      /\ Slots' = Slots /\ nodes' = nodes /\ head' = head /\ Object' = Object
  BY <1>1, QuietSame DEF QuietFrame
<1>3. \A x, k : Leads(K, x, k)' <=> Leads(K, x, k)
  BY <1>2 DEF Leads
<1>4. \A n, k : Child(n, k)' = Child(n, k)
  BY <1>2 DEF Child
<1>5. WalkInv(K) /\ WalkType /\ OpType
  BY KnownParts
<1>6. /\ \A u \in Thread : u # t /\ dirty'[u] = 0 => dirty[u] = 0
      /\ dirty'[t] = 0 /\ pc'[t] = "reading" => dirty[t] = 0
  BY FlagsStay, KnownParts
<1>7. ControlInv'
  BY KnownParts, ControlStep
<1>8. /\ cur' \in [Thread -> Object] /\ idx' \in [Thread -> 1..B]
      /\ Accepted(t)' => Leads(K, cur'[t], key'[t])
      /\ at'[t] = "hop" => IsNode(cur'[t]) /\ (dirty'[t] = 0 => idx'[t] = Child(cur'[t][2], key'[t]))
  <2>1. CASE Lookup(t)
    BY <2>1, LookupWalks
  <2>2. CASE Invoke(t) \/ Count(t) \/ QuietChange(t) \/ InsideLock(t)
    <3>1. /\ cur' = cur /\ idx' = idx /\ at'[t] # "own"
          /\ at'[t] \in {"walk", "hop", "held"} => at'[t] = at[t] /\ key' = key
      BY <2>2, OtherQuiet
    <3>2. Accepted(t)' => pc[t] = "reading" /\ dirty[t] = 0
      <4>1. ASSUME Accepted(t)' PROVE pc[t] = "reading" /\ dirty[t] = 0
        <5>1. dirty[t] = 0 /\ pc'[t] = "reading" /\ at'[t] = at[t] /\ at[t] \in {"walk", "hop", "held"}
          BY <1>6, <3>1, <4>1 DEF Accepted
        <5>2. CASE InsideLock(t)
          BY <5>1, <5>2, KnownParts DEF InsideLock, Inside, resetDirty, resetDirtyTest, resetDirtyClear,
             resetDirtyRecheck, resetDirtySet, readLock, writeLockSlot, setDirty, writeUnlockSlot, LockType, LoopStep
        <5>3. CASE Count(t)
          BY <5>1, <5>3 DEF Count, FlushCount, ReadLimit, LimitRefused, LimitAccepted
        <5>4. CASE Invoke(t) \/ QuietChange(t)
          BY <5>1, <5>4 DEF Invoke, QuietChange, EnterChange, LeaveEarly, ShrinkByEnlarge, Left
        <5> QED  BY <2>2, <5>1, <5>2, <5>3, <5>4
      <4> QED  BY <4>1
    <3>3. at'[t] = "hop" /\ dirty'[t] = 0 => dirty[t] = 0
      <4>1. at'[t] = "hop" => pc'[t] = "reading"
        BY <1>7 DEF ControlInv, Control
      <4> QED  BY <1>6, <4>1
    <3> QED  BY <1>5, <3>1, <3>2, <3>3 DEF Accepted, WalkInv, WalkType
  <2> QED  BY <2>1, <2>2 DEF Quiet
<1>9. WalkType'
  BY <1>2, <1>8 DEF WalkType
<1>10. ASSUME NEW u \in Thread
       PROVE  /\ Accepted(u)' => Leads(K, cur[u], key[u])'
              /\ at'[u] = "hop" => IsNode(cur'[u])
              /\ at'[u] = "hop" /\ dirty'[u] = 0 => idx'[u] = Child(cur[u][2], key[u])'
  <2>1. CASE u = t
    BY <1>3, <1>4, <1>8, <2>1
  <2>2. CASE u # t
    <3>1. at'[u] = at[u] /\ cur'[u] = cur[u] /\ key'[u] = key[u] /\ idx'[u] = idx[u] /\ pc'[u] = pc[u]
      BY <1>1, <2>2 DEF Stays
    <3>2. Accepted(u)' => Accepted(u)
      BY <1>6, <2>2, <3>1 DEF Accepted
    <3>3. Accepted(u) => Leads(K, cur[u], key[u])
      BY <1>5 DEF Accepted, WalkInv
    <3>4. Accepted(u)' => Leads(K, cur[u], key[u])'
      BY <1>3, <3>1, <3>2, <3>3
    <3>5. at'[u] = "hop" => IsNode(cur'[u])
      BY <1>5, <3>1 DEF WalkInv
    <3>6. at'[u] = "hop" /\ dirty'[u] = 0 => idx'[u] = Child(cur[u][2], key[u])'
      BY <1>4, <1>5, <1>6, <2>2, <3>1 DEF WalkInv
    <3> QED  BY <3>4, <3>5, <3>6
  <2> QED  BY <2>1, <2>2
<1> QED
  BY <1>9, <1>10 DEF WalkInv, Accepted

\* What a step does to the locks of the treelets: nothing, it takes a free one, or it
\* frees the one the thread has.
LEMMA LookupTreelets ==
    ASSUME NEW U, NEW K, Known(U, K), NEW t \in Thread, Lookup(t)
    PROVE  \/ (trees' = trees \/ Operate(t)) /\ (Has(t)' => Has(t) /\ cur'[t] = cur[t])
           \/ /\ ~IsNode(cur[t]) /\ cur'[t] = cur[t]
              /\ ~trees[cur[t][2]].locked
              /\ trees' = [trees EXCEPT ![cur[t][2]].locked = TRUE]
           \/ Has(t) /\ ~Has(t)' /\ trees' = [trees EXCEPT ![cur[t][2]].locked = FALSE]
<1>1. OpType /\ WalkType
  BY KnownParts
<1> USE <1>1 DEF OpType, WalkType, Goto, treeVars, walkVars
<1>2. CASE Start(t)
  BY <1>2 DEF Start, Has
<1>3. CASE Choose(t)
  BY <1>3 DEF Choose, Has
<1>4. CASE Hop(t)
  BY <1>4 DEF Hop, Has
<1>5. CASE Acquire(t)
  BY <1>5 DEF Acquire, Lock
<1>6. CASE Accept(t)
  BY <1>6 DEF Accept, Has
<1>7. CASE Refuse(t)
  BY <1>7 DEF Refuse, Has
<1>8. CASE Retry(t)
  BY <1>8 DEF Retry, Unlock, Has
<1>9. CASE Release(t)
  BY <1>9 DEF Release, Return, Unlock, Has
<1>10. CASE Operate(t)
  BY <1>10 DEF Operate, Has
<1> QED
  BY <1>2, <1>3, <1>4, <1>5, <1>6, <1>7, <1>8, <1>9, <1>10 DEF Lookup

\* A treelet's lock is still a lock after a step that takes it or frees it this way.
LEMMA TreeletsKeep ==
    ASSUME NEW U, NEW K, Known(U, K), NEW t \in Thread, \A u \in Thread : u # t => Stays(t, u),
           Len(trees') = Len(trees), trees'[1].items = {},
           \/ /\ \A m \in 1..Len(trees) : trees'[m].locked = trees[m].locked
              /\ Has(t)' => Has(t) /\ cur'[t] = cur[t]
           \/ /\ ~IsNode(cur'[t]) /\ cur'[t] \in Object /\ ~trees[cur'[t][2]].locked
              /\ \A m \in 1..Len(trees) : trees'[m].locked = IF m = cur'[t][2] THEN TRUE ELSE trees[m].locked
           \/ /\ Has(t) /\ ~Has(t)'
              /\ \A m \in 1..Len(trees) : m # cur[t][2] => trees'[m].locked = trees[m].locked
    PROVE  TreeletInv'
<1>1. TreeletInv
  BY KnownParts
<1>2. \A u \in Thread : u # t => (Has(u)' <=> Has(u)) /\ cur'[u] = cur[u]
  BY DEF Stays, Has
<1>3. \A u \in Thread : Has(u) => cur[u][2] \in 1..Len(trees) /\ cur[u] = Tree(cur[u][2])
  BY CurCases
<1>4. CASE /\ \A m \in 1..Len(trees) : trees'[m].locked = trees[m].locked
           /\ Has(t)' => Has(t) /\ cur'[t] = cur[t]
  BY <1>1, <1>2, <1>3, <1>4 DEF TreeletInv
<1>5. CASE /\ ~IsNode(cur'[t]) /\ cur'[t] \in Object /\ ~trees[cur'[t][2]].locked
           /\ \A m \in 1..Len(trees) : trees'[m].locked = IF m = cur'[t][2] THEN TRUE ELSE trees[m].locked
  <2>1. cur'[t][2] \in 1..Len(trees)
    BY <1>5, ObjectCases
  <2>2. \A u \in Thread : u # t /\ Has(u) => cur[u] # cur'[t]
    BY <1>1, <1>5 DEF TreeletInv
  <2>3. \A u \in Thread : Has(u)' => ~IsNode(cur'[u]) /\ trees'[cur'[u][2]].locked
    <3>1. ASSUME NEW u \in Thread, u # t, Has(u)' PROVE ~IsNode(cur'[u]) /\ trees'[cur'[u][2]].locked
      <4>1. Has(u) /\ cur'[u] = cur[u] /\ cur[u][2] \in 1..Len(trees)
        BY <1>2, <1>3, <3>1
      <4>2. ~IsNode(cur[u]) /\ trees[cur[u][2]].locked
        BY <1>1, <4>1 DEF TreeletInv
      <4> QED  BY <1>5, <4>1, <4>2
    <3>2. ~IsNode(cur'[t]) /\ trees'[cur'[t][2]].locked
      BY <1>5, <2>1
    <3> QED  BY <3>1, <3>2
  <2>4. \A u, w \in Thread : Has(u)' /\ Has(w)' /\ cur'[u] = cur'[w] => u = w
    BY <1>1, <1>2, <2>2 DEF TreeletInv
  <2> QED  BY <2>3, <2>4 DEF TreeletInv
<1>6. CASE /\ Has(t) /\ ~Has(t)'
           /\ \A m \in 1..Len(trees) : m # cur[t][2] => trees'[m].locked = trees[m].locked
  <2>1. \A u \in Thread : u # t /\ Has(u) => cur[u][2] # cur[t][2]
    <3>1. \A u \in Thread : u # t /\ Has(u) => cur[u] # cur[t]
      BY <1>1, <1>6 DEF TreeletInv
    <3> QED  BY <1>3, <1>6, <3>1
  <2>2. \A u \in Thread : Has(u)' => ~IsNode(cur'[u]) /\ trees'[cur'[u][2]].locked
    BY <1>1, <1>2, <1>3, <1>6, <2>1 DEF TreeletInv
  <2>3. \A u, w \in Thread : Has(u)' /\ Has(w)' /\ cur'[u] = cur'[w] => u = w
    BY <1>1, <1>2, <1>6 DEF TreeletInv
  <2> QED  BY <2>2, <2>3 DEF TreeletInv
<1> QED
  BY <1>4, <1>5, <1>6

\* It keeps one holder to a treelet's lock.
LEMMA QuietTreelets ==
    ASSUME NEW U, NEW K, Known(U, K), NEW t \in Thread, Quiet(t), Invoke(t) \/ Step(t), QuietFrame(t)
    PROVE  TreeletInv'
<1>1. \A u \in Thread : u # t => Stays(t, u)
  BY OthersStay, KnownParts
<1>2. ShapeType /\ TreeletInv /\ 1 \in 1..Len(trees)
  BY KnownParts DEF ShapeType
<1>3. Len(trees') = Len(trees) /\ trees'[1].items = {}
  <2>1. at[t] = "own" => cur[t] # Tree(1)
    BY OwnedSlot, ObjectCases
  <2> QED  BY <1>2, <2>1 DEF QuietFrame, TreeletInv, Works
<1>4. CASE trees' = trees /\ (Has(t)' => Has(t) /\ cur'[t] = cur[t])
  BY <1>1, <1>3, <1>4, TreeletsKeep
<1>5. CASE Lookup(t)
  <2>1. CASE /\ ~IsNode(cur[t]) /\ cur'[t] = cur[t]
             /\ ~trees[cur[t][2]].locked
             /\ trees' = [trees EXCEPT ![cur[t][2]].locked = TRUE]
    <3>1. cur[t][2] \in 1..Len(trees) /\ cur[t] \in Object
      BY <2>1, CurCases
    <3>2. \A m \in 1..Len(trees) : trees'[m].locked = IF m = cur[t][2] THEN TRUE ELSE trees[m].locked
      BY <1>2, <2>1, <3>1, LockUpdate
    <3>3. /\ ~IsNode(cur'[t]) /\ cur'[t] \in Object /\ ~trees[cur'[t][2]].locked
          /\ \A m \in 1..Len(trees) : trees'[m].locked = IF m = cur'[t][2] THEN TRUE ELSE trees[m].locked
      BY <2>1, <3>1, <3>2
    <3> QED  BY <1>1, <1>3, <3>3, TreeletsKeep
  <2>2. CASE Has(t) /\ ~Has(t)' /\ trees' = [trees EXCEPT ![cur[t][2]].locked = FALSE]
    <3>1. cur[t][2] \in 1..Len(trees) /\ cur[t] \in Object
      BY <2>2, CurCases
    <3>2. \A m \in 1..Len(trees) : m # cur[t][2] => trees'[m].locked = trees[m].locked
      BY <1>2, <2>2, <3>1, LockUpdate
    <3> QED  BY <1>1, <1>3, <2>2, <3>1, <3>2, TreeletsKeep
  <2>3. CASE Operate(t) /\ (Has(t)' => Has(t) /\ cur'[t] = cur[t])
    <3>1. \A m \in 1..Len(trees) : trees'[m].locked = trees[m].locked
      <4>1. cur[t][2] \in 1..Len(trees) /\ at[t] = "own"
        BY <2>3, CurCases DEF Has, Operate
      <4>2. trees[cur[t][2]].items \in SUBSET Key /\ key[t] \in Key
        BY <1>2, <4>1, SlotParts, KnownParts DEF OpType
      <4>3. \/ trees' = trees
            \/ \E s \in SUBSET Key : trees' = [trees EXCEPT ![cur[t][2]].items = s]
        BY <2>3, <4>2 DEF Operate, SetItems, Items
      <4> QED  BY <1>2, <4>1, <4>3, ItemsUpdate
    <3> QED  BY <1>1, <1>3, <2>3, <3>1, TreeletsKeep
  <2> QED  BY <1>4, <1>5, <2>1, <2>2, <2>3, LookupTreelets
<1>6. CASE Invoke(t) \/ Count(t) \/ QuietChange(t) \/ InsideLock(t)
  <2>1. /\ trees' = trees /\ cur' = cur /\ at'[t] # "own" /\ ~Rebuilds(t)'
        /\ at'[t] \in {"walk", "hop", "held"} => at'[t] = at[t]
    BY <1>6, OtherQuiet DEF QuietFrame
  <2>2. at'[t] = "release" => at[t] = "release"
    <3>1. OpType
      BY KnownParts
    <3> QED
      BY <1>6, <3>1 DEF OpType, Invoke, Count, QuietChange, InsideLock, Goto, FlushCount, ReadLimit, LimitRefused,
         LimitAccepted, FinishCount, Return, EnterChange, LeaveEarly, ShrinkByEnlarge, Left
  <2> QED  BY <1>4, <2>1, <2>2 DEF Has, Rebuilds
<1> QED
  BY <1>5, <1>6 DEF Quiet

\* What every step keeps.
LEMMA CommonStep ==
    ASSUME NEW U, NEW K, Known(U, K), NEW t \in Thread, Invoke(t) \/ Step(t)
    PROVE  LockType' /\ OpType' /\ CountType' /\ ControlInv' /\ Counted' /\ SlotInv'
<1>1. TypeOK /\ ControlInv /\ Counted /\ SlotInv
  BY KnownParts
<1>2. LockType' /\ OpType'
  BY <1>1, LockTypeStep, OpTypeStep
<1>3. CountType' /\ Counted'
  BY <1>1, <1>2, CountedStep
<1>4. ControlInv' /\ SlotInv'
  BY <1>1, ControlStep, SlotStep
<1> QED
  BY <1>2, <1>3, <1>4

\* What is left to show of a step.
LEMMA Knows ==
    ASSUME NEW U, NEW K, Known(U, K), NEW t \in Thread, Invoke(t) \/ Step(t),
           ShapeType', WalkType', ChangeType', TreeletInv', LinkInv', LeafInv', ChangeInv',
           NEW V \in SUBSET (1..Len(nodes')), NEW J \in [1..Len(nodes') -> SUBSET Key],
           CoverInv(V)', KeyInv(V, J)', GatherInv(J)', BuildInv(J)', WalkInv(J)'
    PROVE  Known(V, J)'
<1>1. LockType' /\ OpType' /\ CountType' /\ ControlInv' /\ Counted' /\ SlotInv'
  BY CommonStep
<1>2. TypeOK'
  BY <1>1 DEF TypeOK, LockType, NodeType, TreeType, ShapeType, CountType, OpType, WalkType, ChangeType
<1> QED
  BY <1>1, <1>2 DEF Known, PlaceInv

\* Altogether it keeps all that is known.
LEMMA QuietStep ==
    ASSUME NEW U, NEW K, Known(U, K), NEW t \in Thread, Quiet(t)
    PROVE  Known(U, K)'
<1>1. Invoke(t) \/ Step(t)
  BY DEF Quiet, Step, QuietChange, Change
<1>2. \A u \in Thread : u # t => Stays(t, u)
  BY <1>1, OthersStay, KnownParts
<1>3. QuietFrame(t)
  BY LookupQuiet, OtherQuiet DEF Quiet
<1>4. /\ ShapeType' /\ ChangeType' /\ LinkInv' /\ LeafInv' /\ ChangeInv'
      /\ CoverInv(U)' /\ KeyInv(U, K)' /\ GatherInv(K)' /\ BuildInv(K)'
  BY <1>2, <1>3, QuietKeeps
<1>5. WalkType' /\ WalkInv(K)' /\ TreeletInv'
  BY <1>1, <1>3, QuietWalks, QuietTreelets
<1>6. U \in SUBSET (1..Len(nodes')) /\ K \in [1..Len(nodes') -> SUBSET Key]
  BY <1>3, KnownParts DEF QuietFrame
<1> QED
  BY <1>1, <1>4, <1>5, <1>6, Knows

-----------------------------------------------------------------------------
(* Steps of the thread that changes the layout *)

Rebuild(t) ==
    \/ Enlarge(t) \/ RootAcquire(t) \/ RootReplace(t) \/ RootFree(t)
    \/ GatherNode(t) \/ GatherAcquire(t) \/ GatherTake(t) \/ GatherFree(t)
    \/ BuildNode(t) \/ BuildChild(t) \/ LeaveChange(t)

\* Nothing of the tree is in the hands of another thread, before and after a step of t.
LEMMA Alone ==
    ASSUME NEW U, NEW K, Known(U, K), NEW t \in Thread, Rebuild(t)
    PROVE  /\ Step(t) /\ \A u \in Thread : u # t => Stays(t, u)
           /\ pc[t] = "changing" /\ (Rebuilds(t) \/ at[t] = "enlarging")
           /\ \A u \in Thread : ~(pc[u] = "reading" /\ dirty[u] = 0)
           /\ \A u \in Thread : u # t =>
                /\ ~Rebuilds(u) /\ ~Gathers(u) /\ at[u] \notin {"root", "newroot", "oldroot", "build", "drop", "take"}
                /\ todo[u] = <<>> /\ v[u] = <<>> /\ Places(u) = {}
           /\ \A u \in Thread : u # t =>
                /\ ~Rebuilds(u)' /\ ~Gathers(u)' /\ at'[u] \notin {"root", "newroot", "oldroot", "build", "drop", "take"}
                /\ todo'[u] = <<>> /\ v'[u] = <<>> /\ Places(u)' = {}
           /\ Building <=> at[t] = "build"
           /\ Building' <=> at'[t] = "build"
           /\ at'[t] \notin {"walk", "hop", "held", "own"}
<1>1. Step(t) /\ \A u \in Thread : u # t => Stays(t, u)
  <2>1. Step(t)
    BY DEF Rebuild, Step, Change
  <2> QED  BY <2>1, OthersStay, KnownParts
<1>2. pc[t] = "changing" /\ (Rebuilds(t) \/ at[t] = "enlarging")
  <2>1. (at[t] = "enlarging" /\ pc[t] = "changing") \/ Rebuilds(t)
    BY DEF Rebuild, Rebuilds, Enlarge, RootAcquire, RootReplace, RootFree, GatherNode, GatherAcquire,
           GatherTake, GatherFree, BuildNode, BuildChild, LeaveChange
  <2> QED  BY <2>1, KnownParts DEF ControlInv, Control
<1>3. /\ \A u \in Thread : u # t => ~Rebuilds(u)
      /\ \A u \in Thread : ~(pc[u] = "reading" /\ dirty[u] = 0)
  BY <1>2, KnownParts, ChangesAlone
<1>4. ASSUME NEW u \in Thread, u # t
      PROVE  /\ ~Rebuilds(u) /\ ~Gathers(u) /\ at[u] \notin {"root", "newroot", "oldroot", "build", "drop", "take"}
             /\ todo[u] = <<>> /\ v[u] = <<>> /\ Places(u) = {}
  <2>1. ~Rebuilds(u) /\ ~Gathers(u) /\ at[u] \notin {"root", "newroot", "oldroot", "build", "drop", "take"}
    BY <1>3, <1>4 DEF Rebuilds, Gathers
  <2>2. todo[u] = <<>> /\ v[u] = <<>>
    BY <2>1, KnownParts DEF ChangeInv, ChangeOf
  <2>3. Places(u) = {}
    BY <2>2 DEF Places
  <2> QED  BY <2>1, <2>2, <2>3
<1>5. ASSUME NEW u \in Thread, u # t
      PROVE  /\ ~Rebuilds(u)' /\ ~Gathers(u)' /\ at'[u] \notin {"root", "newroot", "oldroot", "build", "drop", "take"}
             /\ todo'[u] = <<>> /\ v'[u] = <<>> /\ Places(u)' = {}
  <2>1. at'[u] = at[u] /\ todo'[u] = todo[u] /\ v'[u] = v[u]
    BY <1>1, <1>5 DEF Stays
  <2> QED  BY <1>4, <1>5, <2>1 DEF Rebuilds, Gathers, Places
<1>6. (Building <=> at[t] = "build") /\ (Building' <=> at'[t] = "build")
  BY <1>4, <1>5 DEF Building
<1>7. at'[t] \notin {"walk", "hop", "held", "own"}
  <2>1. at \in [Thread -> ControlPoints] /\ (at' = at => Rebuilds(t))
    BY KnownParts DEF OpType, Rebuild, Rebuilds, Enlarge, RootAcquire, RootReplace, RootFree, GatherNode,
       GatherAcquire, GatherTake, GatherFree, BuildNode, BuildChild, LeaveChange, Goto
  <2> QED
    BY <2>1 DEF Rebuild, Rebuilds, Enlarge, RootAcquire, RootReplace, RootFree, GatherNode,
       GatherAcquire, GatherTake, GatherFree, BuildNode, BuildChild, LeaveChange, Goto
<1> QED
  BY <1>1, <1>2, <1>3, <1>4, <1>5, <1>6, <1>7

\* The frontier, when thread t is the only one that may build.
Ends(t, U) ==
    {e \in Slots : (at[t] = "build" => e[1] \notin U) /\ ~IsNode(Link(e))}
    \union {p \in Places(t) : at[t] = "build" /\ p[2] = 0}

\* While one thread rebuilds the tree, the ends of the walks are those its own work defines,
LEMMA FrontierBefore ==
    ASSUME NEW U, NEW K, Known(U, K), NEW t \in Thread, Rebuild(t)
    PROVE  /\ Frontier(U) = Ends(t, U)
           /\ \A n \in 1..Len(nodes) : n \in Ready(U) <=> (at[t] = "build" => n \notin U)
<1>1. /\ Building <=> at[t] = "build"
      /\ \A u \in Thread : u # t => at[u] # "build"
  BY Alone
<1>2. Ready(U) = {n \in 1..Len(nodes) : at[t] = "build" => n \notin U}
  BY <1>1 DEF Ready
<1>3. \A e \in Slots : e[1] \in 1..Len(nodes)
  BY KnownParts, SlotParts
<1> QED
  BY <1>1, <1>2, <1>3 DEF Frontier, Ends

\* before its step and after it.
LEMMA FrontierAfter ==
    ASSUME NEW U, NEW K, Known(U, K), NEW t \in Thread, Rebuild(t), ShapeType', NEW V
    PROVE  /\ Frontier(V)' = Ends(t, V)'
           /\ \A n \in 1..Len(nodes') : n \in Ready(V)' <=> (at'[t] = "build" => n \notin V)
<1>1. /\ Building' <=> at'[t] = "build"
      /\ \A u \in Thread : u # t => at'[u] # "build"
  BY Alone
<1>2. Ready(V)' = {n \in 1..Len(nodes') : at'[t] = "build" => n \notin V}
  BY <1>1 DEF Ready
<1>3. \A e \in Slots' : e[1] \in 1..Len(nodes')
  BY DEF Slots
<1> QED
  BY <1>1, <1>2, <1>3 DEF Frontier, Ends

\* What is left to show of such a step, V and J being the nodes to come to and the keys of the
\* nodes after it.
Rebuilt(t, V, J) ==
    /\ ShapeType' /\ WalkType' /\ ChangeType' /\ TreeletInv' /\ LinkInv' /\ ChangeOf(t)'
    /\ \A n \in 1..Len(nodes') :
         IF at'[t] = "build"
         THEN (\A c \in 1..B : Filled(<<n, c>>)') \/ (\A c \in 1..B : ~Filled(<<n, c>>)')
         ELSE (\A c \in 1..B : ~IsNode(Link(<<n, c>>)')) \/ (\A c \in 1..B : IsNode(Link(<<n, c>>)'))
    /\ (\E e \in Slots' : Empty(e)') => Gathers(t)' \/ at'[t] = "build"
    /\ V \in SUBSET (1..Len(nodes')) /\ J \in [1..Len(nodes') -> SUBSET Key]
    /\ Gathers(t)' \/ at'[t] = "build" => CoverOf(t, V)'
    /\ V # {} => Gathers(t)' \/ at'[t] = "build"
    /\ nodes' # <<>> => J[1] = Key
    /\ \A e \in Slots' : (at'[t] = "build" => e[1] \notin V) =>
         IF IsNode(Link(e)') THEN J[Link(e)'[2]] = KeysOf(J, e)' ELSE Items(Link(e))' \subseteq KeysOf(J, e)'
    /\ \A e, f \in Ends(t, V)' : e # f => KeysOf(J, e)' \intersect KeysOf(J, f)' = {}
    /\ Gathers(t)' => GatherOf(t, J)'
    /\ at'[t] \in {"oldroot", "build"} => BuildOf(t, J)'
    /\ \A u \in Thread : at[u] = "own" => Leads(J, cur[u], key[u])'

\* What has to be shown of a step that rebuilds the tree: the lock, the counts and the other
\* threads follow from its being inside the layout lock.
LEMMA RebuildKnows ==
    ASSUME NEW U, NEW K, Known(U, K), NEW t \in Thread, Rebuild(t), NEW V, NEW J, Rebuilt(t, V, J)
    PROVE  Known(V, J)'
<1>1. /\ Step(t) /\ \A u \in Thread : u # t => Stays(t, u)
      /\ \A u \in Thread : ~(pc[u] = "reading" /\ dirty[u] = 0)
      /\ \A u \in Thread : u # t =>
            /\ ~Rebuilds(u)' /\ ~Gathers(u)' /\ at'[u] \notin {"root", "newroot", "oldroot", "build", "drop", "take"}
            /\ todo'[u] = <<>> /\ v'[u] = <<>>
      /\ Building' <=> at'[t] = "build"
      /\ at'[t] \notin {"walk", "hop", "held", "own"}
  BY Alone
<1>2. LeafInv'
  BY <1>1 DEF LeafInv, Rebuilt
<1>3. ChangeInv'
  <2>1. ASSUME NEW u \in Thread, u # t PROVE ChangeOf(u)'
    BY <1>1, <2>1 DEF ChangeOf
  <2> QED  BY <2>1 DEF ChangeInv, Rebuilt
<1>4. CoverInv(V)'
  BY <1>1 DEF CoverInv, Rebuilt
<1>5. KeyInv(V, J)'
  <2>1. /\ Frontier(V)' = Ends(t, V)'
        /\ \A n \in 1..Len(nodes') : n \in Ready(V)' <=> (at'[t] = "build" => n \notin V)
    BY FrontierAfter DEF Rebuilt
  <2>2. \A e \in Slots' : e[1] \in 1..Len(nodes')
    BY DEF Slots
  <2> QED  BY <2>1, <2>2 DEF KeyInv, Rebuilt
<1>6. GatherInv(J)' /\ BuildInv(J)'
  BY <1>1 DEF GatherInv, BuildInv, Rebuilt
<1>7. WalkInv(J)'
  <2>1. ControlInv' /\ Control(t)
    BY <1>1, CommonStep, KnownParts DEF ControlInv
  <2>2. \A u \in Thread : ~(pc'[u] = "reading" /\ dirty'[u] = 0)
    <3>1. ASSUME NEW u \in Thread, pc'[u] = "reading", dirty'[u] = 0 PROVE FALSE
      <4>1. dirty[u] = 0
        BY <1>1, <3>1, FlagsStay, KnownParts
      <4>2. CASE u = t
        <5>1. pc[t] = "changing"
          BY Alone
        <5>2. pc' = pc \/ pc' = [pc EXCEPT ![t] = "wunlock"]
          BY DEF lockVars, Rebuild, Enlarge, RootAcquire, RootReplace, RootFree, GatherNode, GatherAcquire,
             GatherTake, GatherFree, BuildNode, BuildChild, LeaveChange, finishLayoutChange
        <5>3. pc \in [Thread -> PCs]
          BY KnownParts DEF LockType
        <5> QED  BY <3>1, <4>2, <5>1, <5>2, <5>3
      <4>3. CASE u # t
        BY <1>1, <3>1, <4>1, <4>3 DEF Stays
      <4> QED  BY <4>2, <4>3
    <3> QED  BY <3>1
  <2>3. ASSUME NEW u \in Thread, at'[u] = "own" PROVE Leads(J, cur[u], key[u])'
    <3>1. u # t /\ at[u] = "own"
      BY <1>1, <2>3 DEF Stays
    <3> QED  BY <3>1 DEF Rebuilt
  <2>4. ASSUME NEW u \in Thread, at'[u] = "hop" PROVE IsNode(cur'[u]) /\ dirty'[u] # 0
    <3>1. u # t /\ at[u] = "hop" /\ cur'[u] = cur[u]
      BY <1>1, <2>4 DEF Stays
    <3>2. pc'[u] = "reading"
      BY <2>1, <2>4 DEF ControlInv, Control
    <3> QED  BY <2>2, <3>1, <3>2, CurCases
  <2> QED  BY <2>2, <2>3, <2>4 DEF WalkInv
<1> QED
  BY <1>1, <1>2, <1>3, <1>4, <1>5, <1>6, <1>7, Knows DEF Rebuilt

\* A step that changes no node and no key leaves the definitions as they are.
LEMMA NodesSame ==
    ASSUME nodes' = nodes, Len(trees') = Len(trees), NEW K
    PROVE  /\ Slots' = Slots /\ Len(nodes') = Len(nodes) /\ Object' = Object
           /\ \A e : Link(e)' = Link(e) /\ (Empty(e)' <=> Empty(e)) /\ (Filled(e)' <=> Filled(e))
           /\ \A e : KeysOf(K, e)' = KeysOf(K, e)
           /\ NodeType' = NodeType /\ TreeType' = TreeType /\ Tasks' = Tasks
BY DEF Slots, Object, Link, Empty, Filled, KeysOf, Child, NodeType, TreeType, Tasks

\* All nodes are to be visited, the root first.
LEMMA CoverAll ==
    ASSUME ShapeType', LinkInv', nodes' # <<>>, NEW t \in Thread, NEW x, todo'[t] = <<Task(1, 0, 0, x)>>,
           NEW V, V = 1..Len(nodes'),
           \A n \in 1..Len(nodes') :
             (\A c \in 1..B : ~IsNode(Link(<<n, c>>)')) \/ (\A c \in 1..B : IsNode(Link(<<n, c>>)')),
           at'[t] = "gather" => \A e \in Slots' : ~Empty(e)',
           at'[t] \in {"gather", "build"},
           at'[t] = "build" => \A e \in Slots' : ~Filled(e)'
    PROVE  CoverOf(t, V)' /\ Places(t)' = {<<1, 0>>}
<1>1. Len(todo'[t]) = 1 /\ todo'[t][1] = Task(1, 0, 0, x) /\ Place(todo'[t][1]) = <<1, 0>>
  BY DEF Task, Place
<1>2. Places(t)' = {<<1, 0>>}
  BY <1>1 DEF Places
<1>3. Len(nodes') \in Nat /\ 1 \in V
  BY DEF ShapeType
<1>4. \A e \in Slots' : /\ e[1] \in 1..Len(nodes') /\ e[2] \in 1..B /\ Link(e)' \in Object'
                        /\ IsNode(Link(e)') => Link(e)'[2] \in V /\ Link(e)' = Node(Link(e)'[2])
  <2>1. \A e \in Slots' : e[1] \in 1..Len(nodes') /\ e[2] \in 1..B
    BY DEF Slots
  <2>2. \A n \in 1..Len(nodes') : nodes'[n].next \in [1..B -> Object']
    <3>1. \A n \in 1..Len(nodes') : nodes'[n] \in NodeType'
      BY DEF ShapeType
    <3> QED  BY <3>1 DEF NodeType
  <2>3. \A e \in Slots' : Link(e)' \in Object'
    BY <2>1, <2>2 DEF Link
  <2>4. \A y \in Object' : IsNode(y) => y[2] \in 1..Len(nodes') /\ y = Node(y[2])
    BY DEF Object, IsNode, Node
  <2> QED  BY <2>1, <2>3, <2>4
<1>5. \A n \in V : n = 1 \/ \E e \in Slots' : e[1] \in V /\ Link(e)' = Node(n)
  <2>1. \A n \in V : n = 1 \/ n \in 2..Len(nodes')
    BY <1>3
  <2> QED  BY <1>4, <2>1 DEF LinkInv
<1>6. \A e \in Slots' : Link(e)' # Node(1)
  <2>1. ASSUME NEW e \in Slots', Link(e)' = Node(1) PROVE FALSE
    <3>1. IsNode(Link(e)') /\ Link(e)'[2] = 1
      BY <2>1, ObjectCases
    <3>2. e[1] < 1 /\ e[1] \in 1..Len(nodes')
      BY <1>4, <3>1 DEF LinkInv
    <3> QED  BY <1>3, <3>2
  <2> QED  BY <2>1
<1>7. \A j, l \in 1..Len(todo'[t]) : Place(todo'[t][j]) = Place(todo'[t][l]) => j = l
  BY <1>1
<1>8. \A n \in V : <<n, 0>> \in {<<1, 0>>} \/ \E e \in Slots' : e[1] \in V /\ Link(e)' = Node(n)
  BY <1>5
<1>9. <<1, 0>> \notin Slots'
  BY DEF Slots
<1>10. \A p \in {<<1, 0>>} : IF p[2] = 0 THEN p[1] \in V /\ \A e \in Slots' : e[1] \in V => Link(e)' # Node(p[1])
                            ELSE p[1] \notin V
  BY <1>3, <1>6
<1>11. \A e \in Slots' : e[1] \in V /\ IsNode(Link(e)') => Link(e)'[2] \in V
  BY <1>4
<1>12. \A e \in Slots' :
         IF at'[t] = "build"
         THEN /\ Empty(e)' => e[1] \in V \/ e \in {<<1, 0>>}
              /\ Filled(e)' => e[1] \notin V
              /\ e \in {<<1, 0>>} => Empty(e)'
         ELSE /\ Filled(e)' => e[1] \in V \/ e \in {<<1, 0>>}
              /\ Empty(e)' => e[1] \notin V
              /\ e \in {<<1, 0>>} => IF at'[t] = "drop" /\ e = Place(Head(todo[t]))' THEN Empty(e)'
                                     ELSE Filled(e)'
  BY <1>4, <1>9
<1> QED
  BY <1>2, <1>7, <1>8, <1>10, <1>11, <1>12 DEF CoverOf

\* Where a thread that has its treelet is led, when the tree around it does not change.
LEMMA OwnersKept ==
    ASSUME NEW U, NEW K, Known(U, K), NEW t \in Thread, Rebuild(t), nodes' = nodes, head' = head
    PROVE  \A u \in Thread : at[u] = "own" => Leads(K, cur[u], key[u])'
<1> SUFFICES ASSUME NEW u \in Thread, at[u] = "own" PROVE Leads(K, cur[u], key[u])'
  OBVIOUS
<1>1. u # t
  BY Alone DEF Rebuilds
<1>2. cur'[u] = cur[u] /\ key'[u] = key[u]
  BY <1>1, Alone DEF Stays
<1>3. Leads(K, cur[u], key[u])
  BY KnownParts DEF WalkInv
<1> QED
  BY <1>2, <1>3 DEF Leads, Slots, Link, Filled, Empty, KeysOf, Child

\* startLayoutChange has returned: nobody is accepted any more, and the work begins.
LEMMA EnlargeStep ==
    ASSUME NEW U, NEW K, Known(U, K), NEW t \in Thread, Enlarge(t)
    PROVE  \E V, J : Known(V, J)'
<1>1. Rebuild(t) /\ at[t] = "enlarging" /\ ~Rebuilds(t)
  BY DEF Rebuild, Enlarge, Rebuilds
<1>2. /\ ShapeType /\ WalkType /\ ChangeType /\ TreeletInv /\ LinkInv /\ LeafInv /\ ChangeOf(t) /\ CoverInv(U)
      /\ KeyInv(U, K) /\ U \in SUBSET (1..Len(nodes)) /\ K \in [1..Len(nodes) -> SUBSET Key]
  BY KnownParts DEF ChangeInv
<1>3. /\ \A u \in Thread : ~Gathers(u) /\ at[u] # "build"
      /\ ~Building
  BY <1>1, Alone DEF Gathers
<1>4. U = {} /\ \A e \in Slots : ~Empty(e)
  BY <1>2, <1>3 DEF CoverInv, LeafInv
<1>5. /\ nodes' = nodes /\ head' = head /\ trees' = trees /\ cur' = cur /\ idx' = idx /\ v' = v
      /\ at'[t] = "gather" \/ at'[t] = "root"
      /\ at'[t] = "gather" => IsNode(head) /\ todo' = [todo EXCEPT ![t] = <<Task(head[2], 0, 0, 0)>>]
      /\ at'[t] = "root" => ~IsNode(head) /\ todo' = todo
  BY KnownParts DEF Enlarge, treeVars, walkVars, Goto, OpType
<1>6. /\ Slots' = Slots /\ Len(nodes') = Len(nodes) /\ Object' = Object
      /\ \A e : Link(e)' = Link(e) /\ (Empty(e)' <=> Empty(e)) /\ (Filled(e)' <=> Filled(e))
      /\ \A e : KeysOf(K, e)' = KeysOf(K, e)
      /\ NodeType' = NodeType /\ TreeType' = TreeType /\ Tasks' = Tasks
  BY <1>5, NodesSame
<1>7. ShapeType' /\ WalkType' /\ LinkInv'
  BY <1>2, <1>5, <1>6 DEF ShapeType, WalkType, LinkInv
<1>8. TreeletInv'
  <2>1. ~Has(t) /\ ~Has(t)'
    BY <1>1, <1>5 DEF Has
  <2> QED  BY <1>1, <1>2, <1>5, <2>1, Alone, TreeletsKeep DEF TreeletInv
<1>9. todo[t] = <<>> /\ v[t] = <<>>
  BY <1>1, <1>2 DEF ChangeOf, Gathers
<1>10. nodes # <<>> => head = Node(1) /\ 1 \in 1..Len(nodes) /\ head[2] = 1
  BY <1>2, ObjectCases DEF LinkInv, ShapeType
<1>11. nodes = <<>> => ~IsNode(head)
  BY <1>2, ObjectCases DEF LinkInv
<1>12. \A e \in Slots : e[1] \in 1..Len(nodes)
  BY <1>2, SlotParts
<1>13. /\ nodes # <<>> => K[1] = Key
       /\ \A e \in Slots :
             IF IsNode(Link(e)) THEN K[Link(e)[2]] = KeysOf(K, e) ELSE Items(Link(e)) \subseteq KeysOf(K, e)
       /\ \A e, f \in Ends(t, U) : e # f => KeysOf(K, e) \intersect KeysOf(K, f) = {}
  BY <1>1, <1>2, <1>4, <1>12, FrontierBefore DEF KeyInv
<1>14. PICK V : V = IF nodes = <<>> THEN {} ELSE 1..Len(nodes)
  OBVIOUS
<1>15. \A e : ~IsNode(Link(e)) => Items(Link(e))' = Items(Link(e))
  BY <1>5, <1>6 DEF Items
<1>16. Ends(t, V)' = Ends(t, U)
  <2>1. at'[t] # "build" /\ at[t] # "build"
    BY <1>1, <1>5
  <2> QED  BY <1>6, <2>1 DEF Ends
<1>17. nodes # <<>> => todo'[t] = <<Task(1, 0, 0, 0)>> /\ at'[t] = "gather"
  <2>1. todo' \in [Thread -> {todo'[u] : u \in Thread}]
    BY <1>2, <1>5 DEF ChangeType
  <2> QED  BY <1>2, <1>5, <1>10, ObjectCases DEF ChangeType
<1>18. nodes = <<>> => todo'[t] = <<>> /\ at'[t] = "root"
  BY <1>5, <1>9, <1>11
<1>19. ChangeType'
  <2>1. CASE nodes # <<>>
    <3>1. <<Task(1, 0, 0, 0)>> \in Seq(Tasks)
      <4>1. Task(1, 0, 0, 0) \in Tasks
        BY <1>10, <2>1, BType DEF Task, Tasks
      <4> QED  BY <4>1
    <3> QED  BY <1>2, <1>5, <1>6, <1>10, <1>17, <2>1, <3>1 DEF ChangeType
  <2>2. CASE nodes = <<>>
    BY <1>2, <1>5, <1>6, <1>11, <1>18, <2>2 DEF ChangeType
  <2> QED  BY <2>1, <2>2
<1>20. ChangeOf(t)'
  <2>1. v'[t] = <<>> /\ Len(v'[t]) = 0
    BY <1>5, <1>9
  <2>2. CASE nodes # <<>>
    BY <1>5, <1>17, <2>1, <2>2 DEF ChangeOf, Gathers
  <2>3. CASE nodes = <<>>
    BY <1>5, <1>18, <2>1, <2>3 DEF ChangeOf, Gathers
  <2> QED  BY <2>2, <2>3
<1>21. \A n \in 1..Len(nodes) :
         (\A c \in 1..B : ~IsNode(Link(<<n, c>>))) \/ (\A c \in 1..B : IsNode(Link(<<n, c>>)))
  BY <1>2, <1>3 DEF LeafInv
<1>22. Gathers(t)' \/ at'[t] = "build" => CoverOf(t, V)'
  <2>1. CASE nodes # <<>>
    <3>1. nodes' # <<>> /\ V = 1..Len(nodes')
      BY <1>5, <1>14, <2>1
    <3> QED  BY <1>4, <1>6, <1>7, <1>17, <1>21, <2>1, <3>1, CoverAll
  <2>2. CASE nodes = <<>>
    BY <1>18, <2>2 DEF Gathers
  <2> QED  BY <2>1, <2>2
<1>23. GatherOf(t, K)' \/ ~Gathers(t)'
  <2>1. CASE nodes # <<>>
    <3>1. todo'[t] = <<Task(1, 0, 0, 0)>>
      BY <1>17, <2>1
    <3>3. Len(todo'[t]) = 1
      BY <3>1 DEF Task
    <3>2. Range(v'[t]) = {}
      BY <1>5, <1>9 DEF Range
    <3> QED  BY <3>2, <3>3 DEF GatherOf
  <2>2. CASE nodes = <<>>
    BY <1>18, <2>2 DEF Gathers
  <2> QED  BY <2>1, <2>2
<1>24. V \in SUBSET (1..Len(nodes')) /\ K \in [1..Len(nodes') -> SUBSET Key]
  BY <1>2, <1>6, <1>14
<1>25. V # {} => Gathers(t)' \/ at'[t] = "build"
  BY <1>14, <1>17 DEF Gathers
<1>26. \A u \in Thread : at[u] = "own" => Leads(K, cur[u], key[u])'
  BY <1>1, <1>5, OwnersKept
<1>27. at'[t] \notin {"build", "oldroot"}
  BY <1>5
<1>28. \A e \in Slots' : (at'[t] = "build" => e[1] \notin V) =>
         IF IsNode(Link(e)') THEN K[Link(e)'[2]] = KeysOf(K, e)' ELSE Items(Link(e))' \subseteq KeysOf(K, e)'
  BY <1>6, <1>13, <1>15
<1>29. \A e, f \in Ends(t, V)' : e # f => KeysOf(K, e)' \intersect KeysOf(K, f)' = {}
  BY <1>6, <1>13, <1>16
<1>30. \A n \in 1..Len(nodes') :
         IF at'[t] = "build"
         THEN (\A c \in 1..B : Filled(<<n, c>>)') \/ (\A c \in 1..B : ~Filled(<<n, c>>)')
         ELSE (\A c \in 1..B : ~IsNode(Link(<<n, c>>)')) \/ (\A c \in 1..B : IsNode(Link(<<n, c>>)'))
  BY <1>6, <1>21, <1>27
<1>31. (\E e \in Slots' : Empty(e)') => Gathers(t)' \/ at'[t] = "build"
  BY <1>4, <1>6
<1>32. nodes' # <<>> => K[1] = Key
  BY <1>5, <1>13
<1>33. Rebuilt(t, V, K)
  BY <1>7, <1>8, <1>19, <1>20, <1>22, <1>23, <1>24, <1>25, <1>26, <1>27, <1>28, <1>29, <1>30, <1>31, <1>32
     DEF Rebuilt
<1> QED
  BY <1>1, <1>33, RebuildKnows

\* A step that changes no node, and nothing in the treelets of the tree.
Still ==
    /\ nodes' = nodes /\ head' = head /\ trees' \in Seq(TreeType) /\ Len(trees') = Len(trees)
    /\ \A e \in Slots : ~IsNode(Link(e)) => Items(Link(e))' = Items(Link(e))

\* The nodes still to be built are the same ones, or there were none and are none.
SameEnds(t, U, V) ==
    /\ \A e \in Slots : (at'[t] = "build" => e[1] \notin V) <=> (at[t] = "build" => e[1] \notin U)
    /\ \A p : p[2] = 0 => (p \in Places(t)' /\ at'[t] = "build" <=> p \in Places(t) /\ at[t] = "build")

\* What such a step keeps.
LEMMA StillTree ==
    ASSUME NEW U, NEW K, Known(U, K), NEW t \in Thread, Rebuild(t), Still, NEW V, SameEnds(t, U, V)
    PROVE  /\ ShapeType' /\ LinkInv' /\ K \in [1..Len(nodes') -> SUBSET Key]
           /\ nodes' # <<>> => K[1] = Key
           /\ \A e \in Slots' : (at'[t] = "build" => e[1] \notin V) =>
                IF IsNode(Link(e)') THEN K[Link(e)'[2]] = KeysOf(K, e)' ELSE Items(Link(e))' \subseteq KeysOf(K, e)'
           /\ \A e, f \in Ends(t, V)' : e # f => KeysOf(K, e)' \intersect KeysOf(K, f)' = {}
           /\ \A u \in Thread : at[u] = "own" => Leads(K, cur[u], key[u])'
<1>1. ShapeType /\ LinkInv /\ KeyInv(U, K) /\ K \in [1..Len(nodes) -> SUBSET Key]
  BY KnownParts
<1> USE DEF Still
<1>2. /\ Slots' = Slots /\ Len(nodes') = Len(nodes) /\ Object' = Object
      /\ \A e : Link(e)' = Link(e)
      /\ \A e : (Empty(e)' <=> Empty(e))
      /\ \A e : KeysOf(K, e)' = KeysOf(K, e)
      /\ NodeType' = NodeType /\ TreeType' = TreeType
  BY NodesSame
<1>3. ShapeType' /\ LinkInv'
  BY <1>1, <1>2 DEF ShapeType, LinkInv
<1>4. \A e \in Slots : e[1] \in 1..Len(nodes)
  BY <1>1, SlotParts
<1>5. \A e \in Slots : (at[t] = "build" => e[1] \notin U) =>
         IF IsNode(Link(e)) THEN K[Link(e)[2]] = KeysOf(K, e) ELSE Items(Link(e)) \subseteq KeysOf(K, e)
  BY <1>1, <1>4, FrontierBefore DEF KeyInv
<1>6. ASSUME NEW e \in Slots', at'[t] = "build" => e[1] \notin V
      PROVE  IF IsNode(Link(e)') THEN K[Link(e)'[2]] = KeysOf(K, e)' ELSE Items(Link(e))' \subseteq KeysOf(K, e)'
  <2>1. e \in Slots /\ (at[t] = "build" => e[1] \notin U)
    BY <1>2, <1>6 DEF SameEnds
  <2> QED  BY <1>2, <1>5, <2>1
<1>7. Ends(t, V)' = Ends(t, U)
  <2>1. \A e \in Slots : (at'[t] = "build" => e[1] \notin V) /\ ~IsNode(Link(e)')
                         <=> (at[t] = "build" => e[1] \notin U) /\ ~IsNode(Link(e))
    BY <1>2 DEF SameEnds
  <2>2. {p \in Places(t)' : at'[t] = "build" /\ p[2] = 0} = {p \in Places(t) : at[t] = "build" /\ p[2] = 0}
    BY DEF SameEnds
  <2>3. {e \in Slots' : (at'[t] = "build" => e[1] \notin V) /\ ~IsNode(Link(e)')}
        = {e \in Slots : (at[t] = "build" => e[1] \notin U) /\ ~IsNode(Link(e))}
    BY <1>2, <2>1
  <2> QED  BY <2>2, <2>3 DEF Ends
<1>8. \A e, f \in Ends(t, V)' : e # f => KeysOf(K, e)' \intersect KeysOf(K, f)' = {}
  BY <1>1, <1>2, <1>7, FrontierBefore DEF KeyInv
<1>9. \A u \in Thread : at[u] = "own" => Leads(K, cur[u], key[u])'
  BY OwnersKept
<1> QED
  BY <1>1, <1>2, <1>3, <1>6, <1>8, <1>9 DEF KeyInv

\* A treelet that is taken: its new lock.
LEMMA TreeletLocked ==
    ASSUME NEW U, NEW K, Known(U, K), NEW t \in Thread, Rebuild(t), NEW x \in Object, ~IsNode(x),
           Lock(x), cur'[t] = x
    PROVE  /\ trees' \in Seq(TreeType) /\ Len(trees') = Len(trees)
           /\ \A m \in 1..Len(trees) : trees'[m].items = trees[m].items
           /\ \A y \in Object : ~IsNode(y) => Items(y)' = Items(y)
           /\ TreeletInv'
<1>1. ShapeType /\ TreeletInv /\ x[2] \in 1..Len(trees) /\ 1 \in 1..Len(trees)
  BY KnownParts, ObjectCases DEF ShapeType
<1>2. ~trees[x[2]].locked /\ trees' = [trees EXCEPT ![x[2]].locked = TRUE]
  BY DEF Lock
<1>3. /\ trees' \in Seq(TreeType) /\ Len(trees') = Len(trees)
      /\ \A m \in 1..Len(trees) : /\ trees'[m].items = trees[m].items
                                  /\ trees'[m].locked = IF m = x[2] THEN TRUE ELSE trees[m].locked
  BY <1>1, <1>2, LockUpdate
<1>4. TreeletInv'
  <2>1. trees'[1].items = {}
    BY <1>1, <1>3 DEF TreeletInv
  <2>2. \A u \in Thread : u # t => Stays(t, u)
    BY Alone
  <2>3. /\ ~IsNode(cur'[t]) /\ cur'[t] \in Object /\ ~trees[cur'[t][2]].locked
        /\ \A m \in 1..Len(trees) : trees'[m].locked = IF m = cur'[t][2] THEN TRUE ELSE trees[m].locked
    BY <1>2, <1>3
  <2> QED  BY <1>3, <2>1, <2>2, <2>3, TreeletsKeep
<1>5. \A y \in Object : ~IsNode(y) => Items(y)' = Items(y)
  BY <1>3, ObjectCases DEF Items
<1> QED
  BY <1>3, <1>4, <1>5

\* The only treelet is locked and its keys are gathered.
LEMMA RootAcquireStep ==
    ASSUME NEW U, NEW K, Known(U, K), NEW t \in Thread, RootAcquire(t)
    PROVE  \E V, J : Known(V, J)'
<1>1. Rebuild(t) /\ at[t] = "root"
  BY DEF Rebuild, RootAcquire
<1>2. /\ ShapeType /\ WalkType /\ ChangeType /\ TreeletInv /\ LinkInv /\ ChangeOf(t) /\ CoverInv(U) /\ OpType
  BY KnownParts DEF ChangeInv
<1>3. nodes = <<>> /\ head = Tree(2) /\ head \in Object /\ ~IsNode(head) /\ head[2] = 2
  BY <1>1, <1>2, ObjectCases DEF ChangeOf, LinkInv, ShapeType
<1>4. /\ nodes' = nodes /\ head' = head /\ idx' = idx /\ todo' = todo
      /\ cur' = [cur EXCEPT ![t] = head] /\ v' = [v EXCEPT ![t] = InOrder(Items(head))]
      /\ at' = [at EXCEPT ![t] = "newroot"] /\ Lock(head)
  BY DEF RootAcquire, Goto
<1>5. at'[t] = "newroot" /\ cur'[t] = head /\ v'[t] = InOrder(Items(head)) /\ todo'[t] = <<>>
  BY <1>1, <1>2, <1>4 DEF OpType, WalkType, ChangeType, ChangeOf, Gathers
<1>6. /\ trees' \in Seq(TreeType) /\ Len(trees') = Len(trees)
      /\ \A y \in Object : ~IsNode(y) => Items(y)' = Items(y)
      /\ TreeletInv'
  BY <1>1, <1>3, <1>4, <1>5, TreeletLocked
<1>7. Slots = {} /\ Len(nodes) = 0
  BY <1>3 DEF Slots
<1>8. U = {}
  BY <1>2, <1>7, KnownParts
<1>9. /\ Slots' = Slots /\ Len(nodes') = Len(nodes) /\ Object' = Object /\ Tasks' = Tasks
  BY <1>4, <1>6, NodesSame
<1>10. /\ ShapeType' /\ LinkInv' /\ K \in [1..Len(nodes') -> SUBSET Key]
       /\ nodes' # <<>> => K[1] = Key
       /\ \A e \in Slots' : (at'[t] = "build" => e[1] \notin {}) =>
            IF IsNode(Link(e)') THEN K[Link(e)'[2]] = KeysOf(K, e)' ELSE Items(Link(e))' \subseteq KeysOf(K, e)'
       /\ \A e, f \in Ends(t, {})' : e # f => KeysOf(K, e)' \intersect KeysOf(K, f)' = {}
       /\ \A u \in Thread : at[u] = "own" => Leads(K, cur[u], key[u])'
  <2>1. Still
    BY <1>4, <1>6, <1>7 DEF Still
  <2>2. SameEnds(t, U, {})
    BY <1>1, <1>5, <1>7, <1>8 DEF SameEnds
  <2> QED  BY <1>1, <2>1, <2>2, StillTree
<1>11. Items(head) \in SUBSET Key
  BY <1>2, <1>3, SlotParts, ObjectCases DEF Items
<1>12. /\ InOrder(Items(head)) \in Seq(Key)
       /\ Sorted(InOrder(Items(head)))
  BY <1>11, InOrderProperties
<1>13. WalkType' /\ ChangeType'
  BY <1>2, <1>3, <1>4, <1>9, <1>12 DEF WalkType, ChangeType
<1>14. \A u \in Thread : at'[u] # "own"
  <2>1. ASSUME NEW u \in Thread, at'[u] = "own" PROVE FALSE
    <3>1. at[u] = "own"
      BY <1>1, <1>5, <2>1, Alone DEF Stays
    <3>2. cur[u] = head /\ trees[cur[u][2]].locked
      BY <1>3, <3>1, OwnedSlot
    <3> QED  BY <1>4, <3>2 DEF Lock
  <2> QED  BY <2>1
<1>15. ChangeOf(t)'
  <2>1. InOrder(Items(head))' = InOrder(Items(head))
    BY <1>3, <1>4, <1>6 DEF InOrder
  <2>2. \A j, l \in 1..Len(v'[t]) : j < l => v'[t][j] < v'[t][l]
    BY <1>5, <1>12 DEF Sorted
  <2> QED  BY <1>3, <1>4, <1>5, <1>14, <2>1, <2>2 DEF ChangeOf, Gathers
<1>16. Rebuilt(t, {}, K)
  BY <1>5, <1>6, <1>7, <1>9, <1>10, <1>13, <1>15 DEF Rebuilt, BuildOf, Gathers
<1> QED
  BY <1>1, <1>16, RebuildKnows

\* A treelet's lock is taken on the way through the tree.
LEMMA GatherAcquireStep ==
    ASSUME NEW U, NEW K, Known(U, K), NEW t \in Thread, GatherAcquire(t)
    PROVE  \E V, J : Known(V, J)'
<1>1. Rebuild(t) /\ at[t] = "gather" /\ Gathers(t) /\ Head(todo[t]).child > 0
  BY DEF Rebuild, GatherAcquire, Gathers
<1>2. /\ ShapeType /\ WalkType /\ ChangeType /\ TreeletInv /\ LinkInv /\ LeafInv /\ ChangeOf(t) /\ CoverOf(t, U) /\ OpType
      /\ U \in SUBSET (1..Len(nodes)) /\ GatherOf(t, K)
  BY <1>1, KnownParts DEF ChangeInv, CoverInv, GatherInv
<1> DEFINE k == Head(todo[t])
           x == Link(Place(k))
<1>3. todo[t] # <<>> /\ k = todo[t][1] /\ 1 \in 1..Len(todo[t]) /\ k \in Tasks
  BY <1>1, <1>2 DEF ChangeOf, ChangeType
<1>4. Place(k) \in Slots /\ Place(k) \in Places(t)
  BY <1>1, <1>3 DEF Tasks, Place, Places, Slots
<1>5. Filled(Place(k)) /\ x \in Object /\ ~IsNode(x)
  <2> HIDE DEF k
  <2>1. Filled(Place(k))
    BY <1>1, <1>2, <1>4 DEF CoverOf
  <2> QED  BY <1>2, <1>4, <2>1, SlotParts DEF Filled
<1>6. /\ nodes' = nodes /\ head' = head /\ idx' = idx /\ todo' = todo /\ v' = v
      /\ cur' = [cur EXCEPT ![t] = x]
      /\ at' = [at EXCEPT ![t] = "take"] /\ Lock(x)
  BY DEF GatherAcquire, Goto, changeVars, Link, Place
<1> HIDE DEF k, x
<1>7. at'[t] = "take" /\ cur'[t] = x /\ v'[t] = v[t] /\ todo'[t] = todo[t]
  BY <1>2, <1>6 DEF OpType, WalkType
<1>8. /\ trees' \in Seq(TreeType) /\ Len(trees') = Len(trees)
      /\ \A y \in Object : ~IsNode(y) => Items(y)' = Items(y)
      /\ TreeletInv'
  BY <1>1, <1>5, <1>6, <1>7, TreeletLocked
<1>9. /\ Slots' = Slots /\ Len(nodes') = Len(nodes) /\ Object' = Object /\ Tasks' = Tasks
      /\ \A e : Link(e)' = Link(e)
      /\ \A e : (Empty(e)' <=> Empty(e)) /\ (Filled(e)' <=> Filled(e))
      /\ \A e : KeysOf(K, e)' = KeysOf(K, e)
  BY <1>6, <1>8, NodesSame
<1>10. Places(t)' = Places(t)
  BY <1>6 DEF Places
<1>11. \A e \in Slots : ~IsNode(Link(e)) => Items(Link(e))' = Items(Link(e))
  <2>1. \A e \in Slots : Link(e) \in Object
    BY <1>2, SlotParts
  <2>2. \A e : Items(Link(e))' = trees'[Link(e)'[2]].items
    BY DEF Items
  <2>3. \A y : Items(y)' = trees'[y[2]].items
    BY DEF Items
  <2> QED  BY <1>8, <1>9, <2>1, <2>2, <2>3
<1>12. /\ ShapeType' /\ LinkInv' /\ K \in [1..Len(nodes') -> SUBSET Key]
       /\ nodes' # <<>> => K[1] = Key
       /\ \A e \in Slots' : (at'[t] = "build" => e[1] \notin U) =>
            IF IsNode(Link(e)') THEN K[Link(e)'[2]] = KeysOf(K, e)' ELSE Items(Link(e))' \subseteq KeysOf(K, e)'
       /\ \A e, f \in Ends(t, U)' : e # f => KeysOf(K, e)' \intersect KeysOf(K, f)' = {}
       /\ \A u \in Thread : at[u] = "own" => Leads(K, cur[u], key[u])'
  <2>1. Still
    BY <1>6, <1>8, <1>11 DEF Still
  <2>2. SameEnds(t, U, U)
    BY <1>1, <1>7, <1>10 DEF SameEnds
  <2> QED  BY <1>1, <2>1, <2>2, StillTree
<1>13. WalkType' /\ ChangeType'
  BY <1>2, <1>5, <1>6, <1>9 DEF WalkType, ChangeType
<1>14. ChangeOf(t)'
  <2>1. Link(Place(Head(todo[t])))' = x
    BY <1>6, <1>9 DEF x, k, Link, Place
  <2> QED  BY <1>1, <1>2, <1>6, <1>7, <2>1 DEF ChangeOf, Gathers, k
<1>15. CoverOf(t, U)'
  BY <1>1, <1>2, <1>6, <1>7, <1>9, <1>10 DEF CoverOf
<1>16. GatherOf(t, K)'
  BY <1>1, <1>2, <1>6, <1>7, <1>9 DEF GatherOf, Place
<1>17. \A n \in 1..Len(nodes') :
         (\A c \in 1..B : ~IsNode(Link(<<n, c>>)')) \/ (\A c \in 1..B : IsNode(Link(<<n, c>>)'))
  <2>1. ~Building
    BY <1>1, Alone
  <2> QED  BY <1>2, <1>9, <2>1 DEF LeafInv
<1>18. Gathers(t)'
  BY <1>7 DEF Gathers
<1>19. U \in SUBSET (1..Len(nodes'))
  BY <1>2, <1>9
<1>20. Rebuilt(t, U, K)
  BY <1>7, <1>8, <1>12, <1>13, <1>14, <1>15, <1>16, <1>17, <1>18, <1>19 DEF Rebuilt
<1> QED
  BY <1>1, <1>20, RebuildKnows

\* A treelet that is freed, and that is no longer in the tree.
LEMMA FreeStep ==
    ASSUME NEW U, NEW K, Known(U, K), NEW t \in Thread, Rebuild(t), Has(t), ~Has(t)',
           FreeTreelet(cur[t]), \A e \in Slots : Link(e) # cur[t]
    PROVE  /\ trees' \in Seq(TreeType) /\ Len(trees') = Len(trees)
           /\ nodes' = nodes => \A e \in Slots : ~IsNode(Link(e)) => Items(Link(e))' = Items(Link(e))
           /\ TreeletInv'
<1>1. ShapeType /\ TreeletInv /\ 1 \in 1..Len(trees)
  BY KnownParts DEF ShapeType
<1>2. cur[t] \in Object /\ ~IsNode(cur[t]) /\ cur[t][2] \in 1..Len(trees) /\ cur[t] = Tree(cur[t][2])
  BY CurCases
<1>3. /\ trees' \in Seq(TreeType) /\ Len(trees') = Len(trees)
      /\ \A m \in 1..Len(trees) : trees'[m].items \subseteq trees[m].items
      /\ \A m \in 1..Len(trees) : m # cur[t][2] => trees'[m] = trees[m]
  BY <1>1, <1>2, FreeUpdate
<1>4. TreeletInv'
  <2>1. trees'[1].items = {}
    BY <1>1, <1>3 DEF TreeletInv
  <2>2. \A u \in Thread : u # t => Stays(t, u)
    BY Alone
  <2>3. \A m \in 1..Len(trees) : m # cur[t][2] => trees'[m].locked = trees[m].locked
    BY <1>3
  <2> QED  BY <1>3, <2>1, <2>2, <2>3, TreeletsKeep
<1>5. ASSUME nodes' = nodes, NEW e \in Slots, ~IsNode(Link(e)) PROVE Items(Link(e))' = Items(Link(e))
  <2>1. Link(e)' = Link(e)
    BY <1>5 DEF Link
  <2>2. Link(e)[2] \in 1..Len(trees) /\ Link(e) = Tree(Link(e)[2])
    BY <1>1, <1>5, SlotParts, ObjectCases
  <2>3. Link(e)[2] # cur[t][2]
    BY <1>2, <2>2
  <2> QED  BY <1>3, <2>1, <2>2, <2>3 DEF Items
<1> QED
  BY <1>3, <1>4, <1>5

\* The old root treelet is freed: nothing leads to it any more.
LEMMA RootFreeStep ==
    ASSUME NEW U, NEW K, Known(U, K), NEW t \in Thread, RootFree(t)
    PROVE  \E V, J : Known(V, J)'
<1>1. Rebuild(t) /\ at[t] = "oldroot" /\ Has(t)
  BY DEF Rebuild, RootFree, Has
<1>2. /\ ShapeType /\ WalkType /\ ChangeType /\ LinkInv /\ LeafInv /\ ChangeOf(t) /\ CoverInv(U) /\ OpType
      /\ U \in SUBSET (1..Len(nodes)) /\ BuildOf(t, K)
  BY <1>1, KnownParts DEF ChangeInv, BuildInv
<1>3. /\ nodes' = nodes /\ head' = head /\ idx' = idx /\ todo' = todo /\ v' = v
      /\ cur' = [cur EXCEPT ![t] = NullTree]
      /\ at' = [at EXCEPT ![t] = "build"] /\ FreeTreelet(cur[t])
  BY DEF RootFree, Goto, changeVars
<1>4. at'[t] = "build" /\ cur'[t] = NullTree
  BY <1>2, <1>3 DEF OpType, WalkType
<1>5. todo[t] = <<>> /\ Len(nodes) = 1 /\ Places(t)' = {} /\ Places(t) = {}
  BY <1>1, <1>2, <1>3 DEF ChangeOf, Gathers, Places
<1>6. \A e \in Slots : Link(e) # cur[t]
  BY <1>1, <1>2 DEF ChangeOf
<1>7. /\ trees' \in Seq(TreeType) /\ Len(trees') = Len(trees)
      /\ \A e \in Slots : ~IsNode(Link(e)) => Items(Link(e))' = Items(Link(e))
      /\ TreeletInv'
  <2>1. ~Has(t)'
    BY <1>4 DEF Has
  <2> QED  BY <1>1, <1>3, <1>6, <2>1, FreeStep
<1>8. /\ ~Building /\ \A u \in Thread : ~Gathers(u) /\ at[u] # "build"
  BY <1>1, Alone DEF Gathers
<1>9. U = {} /\ \A e \in Slots : ~Empty(e)
  BY <1>2, <1>8 DEF CoverInv, LeafInv
<1>10. /\ Slots' = Slots /\ Len(nodes') = Len(nodes) /\ Object' = Object /\ Tasks' = Tasks
       /\ \A e : Link(e)' = Link(e)
       /\ \A e : (Empty(e)' <=> Empty(e)) /\ (Filled(e)' <=> Filled(e))
  BY <1>3, <1>7, NodesSame
<1>11. /\ ShapeType' /\ LinkInv' /\ K \in [1..Len(nodes') -> SUBSET Key]
       /\ nodes' # <<>> => K[1] = Key
       /\ \A e \in Slots' : (at'[t] = "build" => e[1] \notin {}) =>
            IF IsNode(Link(e)') THEN K[Link(e)'[2]] = KeysOf(K, e)' ELSE Items(Link(e))' \subseteq KeysOf(K, e)'
       /\ \A e, f \in Ends(t, {})' : e # f => KeysOf(K, e)' \intersect KeysOf(K, f)' = {}
       /\ \A u \in Thread : at[u] = "own" => Leads(K, cur[u], key[u])'
  <2>1. Still
    BY <1>3, <1>7 DEF Still
  <2>2. SameEnds(t, U, {})
    BY <1>1, <1>5, <1>9 DEF SameEnds
  <2> QED  BY <1>1, <2>1, <2>2, StillTree
<1>12. WalkType' /\ ChangeType'
  <2>1. NullTree \in Object
    <3>1. 1 \in 1..Len(trees)
      BY <1>2 DEF ShapeType
    <3> QED  BY <3>1, ObjectCases
  <2> QED  BY <1>2, <1>3, <1>10, <2>1 DEF WalkType, ChangeType
<1>13. ChangeOf(t)'
  <2>1. \A u \in Thread : at'[u] # "own"
    <3>1. \A u \in Thread : at[u] # "own"
      BY <1>1, <1>2 DEF ChangeOf
    <3> QED  BY <1>2, <1>3, <3>1 DEF OpType
  <2>2. nodes # <<>>
    BY <1>5
  <2> QED  BY <1>1, <1>2, <1>3, <1>4, <2>1, <2>2 DEF ChangeOf, Gathers
<1>14. CoverOf(t, {})'
  <2>1. Len(todo'[t]) = 0
    BY <1>3, <1>5
  <2> QED  BY <1>4, <1>5, <1>9, <1>10, <2>1 DEF CoverOf
<1>15. \A n \in 1..Len(nodes') :
         (\A c \in 1..B : Filled(<<n, c>>)') \/ (\A c \in 1..B : ~Filled(<<n, c>>)')
  <2>1. ASSUME NEW n \in 1..Len(nodes)
        PROVE  (\A c \in 1..B : Filled(<<n, c>>)) \/ (\A c \in 1..B : ~Filled(<<n, c>>))
    <3>1. \A c \in 1..B : <<n, c>> \in Slots
      BY <1>2, SlotParts
    <3>2. (\A c \in 1..B : ~IsNode(Link(<<n, c>>))) \/ (\A c \in 1..B : IsNode(Link(<<n, c>>)))
      BY <1>2, <1>8 DEF LeafInv
    <3> QED  BY <1>9, <3>1, <3>2 DEF Filled
  <2> QED  BY <1>10, <2>1
<1>16. BuildOf(t, K)'
  <2>1. Len(todo'[t]) = 0 /\ Len(todo[t]) = 0
    BY <1>3, <1>5
  <2> QED  BY <1>2, <1>3, <1>7, <1>10, <2>1 DEF BuildOf
<1>17. Rebuilt(t, {}, K)
  BY <1>4, <1>7, <1>11, <1>12, <1>13, <1>14, <1>15, <1>16 DEF Rebuilt, Gathers
<1> QED
  BY <1>1, <1>17, RebuildKnows

\* The rebuilding is over when no task is left: all keys of the vector are in treelets by then.
LEMMA LeaveChangeStep ==
    ASSUME NEW U, NEW K, Known(U, K), NEW t \in Thread, LeaveChange(t)
    PROVE  SameKept /\ \E V, J : Known(V, J)'
<1>1. Rebuild(t) /\ at[t] = "build" /\ todo[t] = <<>>
  BY DEF Rebuild, LeaveChange
<1>2. /\ ShapeType /\ WalkType /\ ChangeType /\ TreeletInv /\ LinkInv /\ LeafInv /\ ChangeOf(t) /\ CoverOf(t, U)
      /\ OpType /\ U \in SUBSET (1..Len(nodes))
  BY <1>1, KnownParts DEF ChangeInv, CoverInv
<1>3. /\ nodes' = nodes /\ head' = head /\ idx' = idx /\ todo' = todo /\ trees' = trees /\ cur' = cur
      /\ v' = [v EXCEPT ![t] = <<>>]
      /\ at' = [at EXCEPT ![t] = "leaving"]
  BY DEF LeaveChange, Goto, treeVars, walkVars
<1>4. at'[t] = "leaving" /\ v'[t] = <<>>
  BY <1>2, <1>3 DEF OpType, ChangeType
<1>5. Places(t) = {} /\ Places(t)' = {}
  BY <1>1, <1>3 DEF Places
<1>6. U = {}
  BY <1>2, <1>5, NothingToCome
<1>7. \A e \in Slots : ~Empty(e)
  BY <1>1, <1>2, <1>5, <1>6 DEF CoverOf
<1>8. /\ Slots' = Slots /\ Len(nodes') = Len(nodes) /\ Object' = Object /\ Tasks' = Tasks
      /\ \A e : Link(e)' = Link(e)
      /\ \A e : (Empty(e)' <=> Empty(e)) /\ (Filled(e)' <=> Filled(e))
  BY <1>3, NodesSame
<1>9. trees' \in Seq(TreeType) /\ \A e \in Slots : ~IsNode(Link(e)) => Items(Link(e))' = Items(Link(e))
  BY <1>2, <1>3, <1>8 DEF ShapeType, Items
<1>10. /\ ShapeType' /\ LinkInv' /\ K \in [1..Len(nodes') -> SUBSET Key]
       /\ nodes' # <<>> => K[1] = Key
       /\ \A e \in Slots' : (at'[t] = "build" => e[1] \notin {}) =>
            IF IsNode(Link(e)') THEN K[Link(e)'[2]] = KeysOf(K, e)' ELSE Items(Link(e))' \subseteq KeysOf(K, e)'
       /\ \A e, f \in Ends(t, {})' : e # f => KeysOf(K, e)' \intersect KeysOf(K, f)' = {}
       /\ \A u \in Thread : at[u] = "own" => Leads(K, cur[u], key[u])'
  <2>1. Still
    BY <1>3, <1>9 DEF Still
  <2>2. SameEnds(t, U, {})
    BY <1>5, <1>6 DEF SameEnds
  <2> QED  BY <1>1, <2>1, <2>2, StillTree
<1>11. WalkType' /\ ChangeType'
  BY <1>2, <1>3, <1>8 DEF WalkType, ChangeType
<1>12. TreeletInv'
  <2>1. ~Has(t) /\ ~Has(t)'
    BY <1>1, <1>4 DEF Has
  <2>2. \A u \in Thread : u # t => Stays(t, u)
    BY <1>1, Alone
  <2> QED  BY <1>2, <1>3, <2>1, <2>2, TreeletsKeep DEF TreeletInv
<1>13. ChangeOf(t)'
  <2>1. todo'[t] = <<>> /\ Len(v'[t]) = 0
    BY <1>1, <1>3, <1>4
  <2> QED  BY <1>4, <2>1 DEF ChangeOf, Gathers
<1>14. \A n \in 1..Len(nodes') :
         (\A c \in 1..B : ~IsNode(Link(<<n, c>>)')) \/ (\A c \in 1..B : IsNode(Link(<<n, c>>)'))
  <2>1. ASSUME NEW n \in 1..Len(nodes)
        PROVE  (\A c \in 1..B : ~IsNode(Link(<<n, c>>))) \/ (\A c \in 1..B : IsNode(Link(<<n, c>>)))
    <3>1. \A c \in 1..B : <<n, c>> \in Slots
      BY <1>2, SlotParts
    <3>2. (\A c \in 1..B : Filled(<<n, c>>)) \/ (\A c \in 1..B : ~Filled(<<n, c>>))
      <4>1. Building
        BY <1>1 DEF Building
      <4> QED  BY <1>2, <4>1 DEF LeafInv
    <3> QED  BY <1>7, <3>1, <3>2 DEF Filled
  <2> QED  BY <1>8, <2>1
<1>15. ~Gathers(t)'
  BY <1>4 DEF Gathers
<1>16. Rebuilt(t, {}, K)
  BY <1>4, <1>7, <1>8, <1>10, <1>11, <1>12, <1>13, <1>14, <1>15 DEF Rebuilt
\* All keys of the vector are in a treelet, for no task is left.
<1>17. SameKept
  <2> SUFFICES ASSUME NEW k PROVE Kept(k)' <=> Kept(k)
    BY DEF SameKept
  <2>1. /\ todo[t] = <<>> /\ nodes # <<>> /\ nodes' = nodes /\ trees' = trees /\ BuildOf(t, K)
        /\ v' = [v EXCEPT ![t] = <<>>] /\ v \in [Thread -> Seq(Key)]
    BY <1>1, <1>2, <1>3, KnownParts DEF ChangeOf, ChangeType, BuildInv
  <2>2. ~InRoot(k) /\ ~InRoot(k)'
    BY <2>1 DEF InRoot
  <2>3. InLeaf(k)' <=> InLeaf(k)
    BY <2>1 DEF InLeaf, Slots, Link, Items
  <2>4. ASSUME NEW u \in Thread, k \in Range(v[u]) PROVE u # t \/ InLeaf(k)
    <3>1. ASSUME u = t PROVE InLeaf(k)
      <4>1. PICK l \in 1..Len(v[t]) : k = v[t][l]
        BY <2>1, <2>4, <3>1 DEF Range
      <4>2. \A j \in 1..Len(todo[t]) : FALSE
        BY <2>1
      <4>3. PICK e \in Slots : ~IsNode(Link(e)) /\ v[t][l] \in Items(Link(e))
        BY <2>1, <4>2 DEF BuildOf
      <4> QED  BY <4>1, <4>3 DEF InLeaf
    <3> QED  BY <3>1
  <2>5. InVector(k) => InVector(k)' \/ InLeaf(k)
    BY <2>1, <2>4 DEF InVector
  <2>6. InVector(k)' => InVector(k)
    <3>1. \A u \in Thread : v'[u] = IF u = t THEN <<>> ELSE v[u]
      BY <2>1
    <3>2. k \notin Range(<<>>)
      BY DEF Range
    <3> QED  BY <3>1, <3>2 DEF InVector
  <2> QED  BY <2>2, <2>3, <2>5, <2>6 DEF Kept
<1> QED
  BY <1>1, <1>16, <1>17, RebuildKnows

-----------------------------------------------------------------------------
(* New nodes and treelets *)

\* One vector after another.
LEMMA Concatenation ==
    ASSUME NEW T, NEW s \in Seq(T), NEW q \in Seq(T)
    PROVE  /\ s \o q \in Seq(T) /\ Len(s \o q) = Len(s) + Len(q)
           /\ \A p \in 1..Len(s) : (s \o q)[p] = s[p]
           /\ \A p \in 1..Len(q) : (s \o q)[Len(s) + p] = q[p]
OBVIOUS

\* The keys of a new treelet.
LEMMA PartItems ==
    ASSUME NEW w \in Seq(Key), NEW first \in Nat, NEW len \in Nat, first + len <= Len(w), NEW c \in 1..B
    PROVE  /\ Range(Part(w, first, len, c - 1))
                 = {w[l] : l \in (Begin(first, len, c - 1) + 1)..Begin(first, len, c)}
           /\ Range(Part(w, first, len, c - 1)) \in SUBSET Key
<1> DEFINE a == Begin(first, len, c - 1)
           b == Begin(first, len, c)
<1>1. c - 1 \in Nat /\ c \in Nat /\ c <= B /\ B \in Nat /\ c - 1 <= c /\ c - 1 + 1 = c
  BY BType
<1>2. a \in Nat /\ b \in Nat /\ a <= b /\ b <= first + len
  <2>1. Begin(first, len, B) = first + len
    BY BeginBounds
  <2>2. \A d, e \in Nat : Begin(first, len, d) \in Nat /\ (d <= e => Begin(first, len, d) <= Begin(first, len, e))
    BY BeginBounds
  <2> QED  BY <1>1, <2>1, <2>2
<1>3. Part(w, first, len, c - 1) = SubSeq(w, a + 1, b)
  BY <1>1 DEF Part
<1> HIDE DEF a, b
<1>4. Len(w) \in Nat /\ b <= Len(w) /\ a + 1 \in 1..(Len(w) + 1) /\ b \in ((a + 1) - 1)..Len(w)
  BY <1>2
<1> DEFINE p == SubSeq(w, a + 1, b)
<1>5. p \in Seq(Key) /\ Len(p) = b - a /\ \A l \in 1..(b - a) : p[l] = w[a + l]
  <2>1. /\ p \in Seq(Key) /\ Len(p) = IF a + 1 <= b THEN b - (a + 1) + 1 ELSE 0
        /\ \A l \in 1..(b - (a + 1) + 1) : p[l] = w[(a + 1) + l - 1]
    <3>1. \A l \in (a + 1)..b : w[l] \in Key
      BY <1>2, <1>4
    <3>2. a + 1 \in Int /\ b \in Int
      BY <1>2
    <3> HIDE DEF p
    <3> QED  BY <3>1, <3>2, SubSeqProperties DEF p
  <2>2. b - (a + 1) + 1 = b - a /\ (~(a + 1 <= b) => b - a = 0)
    BY <1>2
  <2>3. \A l \in 1..(b - a) : (a + 1) + l - 1 = a + l
    BY <1>2
  <2> HIDE DEF p
  <2> QED  BY <2>1, <2>2, <2>3
<1> HIDE DEF p
<1>6. Range(p) = {p[l] : l \in 1..(b - a)}
  <2>1. DOMAIN p = 1..(b - a)
    BY <1>5
  <2> QED  BY <2>1 DEF Range
<1>7. ASSUME NEW k PROVE (\E l \in 1..(b - a) : p[l] = k) <=> (\E l \in (a + 1)..b : w[l] = k)
  <2>1. \A l \in 1..(b - a) : a + l \in (a + 1)..b
    BY <1>2
  <2>2. \A l \in (a + 1)..b : l - a \in 1..(b - a) /\ a + (l - a) = l
    BY <1>2
  <2> QED  BY <1>5, <2>1, <2>2
<1>8. Range(p) = {w[l] : l \in (a + 1)..b}
  BY <1>6, <1>7
<1>9. Range(p) \in SUBSET Key
  BY <1>5, <1>6
<1> QED
  BY <1>3, <1>8, <1>9 DEF p, a, b

\* The new treelets of a node divide its part of the vector among them.
LEMMA NewTreesType ==
    ASSUME NEW w \in Seq(Key), NEW first \in Nat, NEW len \in Nat, first + len <= Len(w)
    PROVE  /\ NewTrees(w, first, len) \in Seq(TreeType) /\ Len(NewTrees(w, first, len)) = B
           /\ \A c \in 1..B : /\ NewTrees(w, first, len)[c].locked = FALSE
                              /\ NewTrees(w, first, len)[c].items
                                   = {w[l] : l \in (Begin(first, len, c - 1) + 1)..Begin(first, len, c)}
<1>1. ASSUME NEW c \in 1..B PROVE [locked |-> FALSE, items |-> Range(Part(w, first, len, c - 1))] \in TreeType
  BY PartItems DEF TreeType
<1>2. NewTrees(w, first, len) \in [1..B -> TreeType]
  BY <1>1 DEF NewTrees
<1>3. NewTrees(w, first, len) \in Seq(TreeType) /\ Len(NewTrees(w, first, len)) = B
  <2> HIDE DEF NewTrees
  <2>1. B \in Nat
    BY BType
  <2>2. NewTrees(w, first, len) \in Seq(TreeType)
    BY <1>2, <2>1, SeqDef
  <2> QED  BY <1>2, <2>1, <2>2
<1>4. \A c \in 1..B : /\ NewTrees(w, first, len)[c].locked = FALSE
                      /\ NewTrees(w, first, len)[c].items = Range(Part(w, first, len, c - 1))
  BY DEF NewTrees
<1> QED
  BY <1>3, <1>4, PartItems

\* The separators of a node are keys, or 0.
LEMMA SeparatorsType ==
    ASSUME NEW w \in Seq(Key), NEW first \in Nat, NEW len \in Nat, first + len <= Len(w)
    PROVE  Separators(w, first, len) \in [1..(B - 1) -> Key \union {0}]
<1>1. ASSUME NEW c \in 1..(B - 1)
      PROVE  (IF Begin(first, len, c) <= 0 THEN 0 ELSE w[Begin(first, len, c)]) \in Key \union {0}
  <2> DEFINE b == Begin(first, len, c)
  <2>1. c \in Nat /\ c <= B
    BY BType
  <2>2. Begin(first, len, B) = first + len
    BY BeginBounds
  <2>3. \A d, e \in Nat : Begin(first, len, d) \in Nat /\ (d <= e => Begin(first, len, d) <= Begin(first, len, e))
    BY BeginBounds
  <2> HIDE DEF b
  <2>4. b \in Nat /\ b <= Len(w)
    <3>1. b \in Nat /\ b <= Begin(first, len, B)
      BY BType, <2>1, <2>3 DEF b
    <3> QED  BY <2>2, <3>1
  <2>5. b > 0 => w[b] \in Key
    BY <2>4
  <2>6. (IF b <= 0 THEN 0 ELSE w[b]) \in Key \union {0}
    BY <2>4, <2>5
  <2> QED  BY <2>6 DEF b
<1> QED
  BY <1>1 DEF Separators

\* Node n is appended, over a part of the vector w divided among new treelets, which come
\* after the m there are; M are the other nodes.
Grows(n, m, w, first, len, M) ==
    /\ n = Len(nodes) + 1 /\ m = Len(trees)
    /\ w \in Seq(Key) /\ \A j, l \in 1..Len(w) : j < l => w[j] < w[l]
    /\ first \in Nat /\ len \in Nat /\ first + len <= Len(w)
    /\ M \in Seq([keys : [1..(B - 1) -> Key \union {0}], next : [1..B -> Object \union {Node(n)}]])
    /\ Len(M) = Len(nodes)
    /\ nodes' = Append(M, NewNode(w, first, len))
    /\ trees' = trees \o NewTrees(w, first, len)

\* What is in the tree then.
Grew(n, m, w, first, len, M) ==
    /\ nodes' \in Seq(NodeType') /\ trees' \in Seq(TreeType') /\ Len(trees') > 1
    /\ Object \subseteq Object' /\ Node(n) \in Object'
    /\ Len(nodes') = n /\ Len(trees') = m + B
    /\ \A p \in 1..Len(nodes) : nodes'[p] = M[p]
    /\ \A p \in 1..Len(trees) : trees'[p] = trees[p]
    /\ \A c \in 1..B :
         /\ Link(<<n, c>>)' = Tree(m + c)
         /\ Items(Tree(m + c))' = {w[l] : l \in (Begin(first, len, c - 1) + 1)..Begin(first, len, c)}
    /\ \A c \in 1..B : \A l \in (Begin(first, len, c - 1) + 1)..Begin(first, len, c) :
         l \in 1..Len(w) /\ Child(n, w[l])' = c

\* What a new node with its treelets adds, and that nothing else changes.
LEMMA Grown ==
    ASSUME ShapeType, NEW n, NEW m, NEW w, NEW first, NEW len, NEW M, Grows(n, m, w, first, len, M)
    PROVE  Grew(n, m, w, first, len, M)
<1> DEFINE r == NewNode(w, first, len)
           T == [keys : [1..(B - 1) -> Key \union {0}], next : [1..B -> Object \union {Node(n)}]]
<1>0. /\ n = Len(nodes) + 1 /\ m = Len(trees)
      /\ w \in Seq(Key) /\ \A j, l \in 1..Len(w) : j < l => w[j] < w[l]
      /\ first \in Nat /\ len \in Nat /\ first + len <= Len(w)
      /\ M \in Seq(T) /\ Len(M) = Len(nodes)
      /\ nodes' = Append(M, NewNode(w, first, len))
      /\ trees' = trees \o NewTrees(w, first, len)
  BY DEF Grows
<1> USE <1>0
<1>1. Len(nodes) \in Nat /\ m \in Nat /\ m > 1 /\ trees \in Seq(TreeType) /\ B \in Nat /\ B > 1 /\ n \in Nat
  BY BType DEF ShapeType
<1>2. /\ NewTrees(w, first, len) \in Seq(TreeType) /\ Len(NewTrees(w, first, len)) = B
      /\ \A c \in 1..B : /\ NewTrees(w, first, len)[c].locked = FALSE
                         /\ NewTrees(w, first, len)[c].items
                              = {w[l] : l \in (Begin(first, len, c - 1) + 1)..Begin(first, len, c)}
  BY NewTreesType
<1>3. /\ trees' \in Seq(TreeType) /\ Len(trees') = m + B
      /\ \A p \in 1..Len(trees) : trees'[p] = trees[p]
      /\ \A c \in 1..B : trees'[m + c] = NewTrees(w, first, len)[c]
  <2> DEFINE q == NewTrees(w, first, len)
  <2> HIDE DEF q
  <2>1. q \in Seq(TreeType) /\ Len(q) = B /\ trees' = trees \o q
    BY <1>2 DEF q
  <2>2. /\ trees' \in Seq(TreeType) /\ Len(trees') = m + B
        /\ \A p \in 1..Len(trees) : trees'[p] = trees[p]
        /\ \A c \in 1..Len(q) : trees'[Len(trees) + c] = q[c]
    <3>1. /\ trees \o q \in Seq(TreeType) /\ Len(trees \o q) = Len(trees) + Len(q)
          /\ \A p \in 1..Len(trees) : (trees \o q)[p] = trees[p]
          /\ \A c \in 1..Len(q) : (trees \o q)[Len(trees) + c] = q[c]
      <4>1. trees \in Seq(TreeType) /\ q \in Seq(TreeType)
        BY <1>1, <2>1
      <4> HIDE DEF TreeType
      <4>2. trees \o q \in Seq(TreeType)
        BY <4>1, Concatenation
      <4>3. Len(trees \o q) = Len(trees) + Len(q)
        BY <4>1, Concatenation
      <4>4. \A p \in 1..Len(trees) : (trees \o q)[p] = trees[p]
        BY <4>1, Concatenation
      <4>5. \A c \in 1..Len(q) : (trees \o q)[Len(trees) + c] = q[c]
        BY <4>1, Concatenation
      <4> QED  BY <4>2, <4>3, <4>4, <4>5
    <3> QED  BY <1>1, <2>1, <3>1, Zenon
  <2> QED  BY <2>1, <2>2 DEF q
<1>4. Len(nodes') = n /\ nodes'[n] = r /\ \A p \in 1..Len(nodes) : nodes'[p] = M[p]
  BY <1>1
<1>5. Object \subseteq Object' /\ Node(n) \in Object' /\ \A c \in 1..B : Tree(m + c) \in Object'
  <2>1. 1..Len(nodes) \subseteq 1..Len(nodes') /\ 1..Len(trees) \subseteq 1..Len(trees')
    BY <1>1, <1>3, <1>4
  <2>2. n \in 1..Len(nodes') /\ \A c \in 1..B : m + c \in 1..Len(trees')
    BY <1>1, <1>3, <1>4
  <2> QED  BY <2>1, <2>2 DEF Object, Node, Tree
<1>6. Separators(w, first, len) \in [1..(B - 1) -> Key \union {0}]
  BY SeparatorsType
<1>7. r \in NodeType' /\ r.keys = Separators(w, first, len) /\ \A c \in 1..B : r.next[c] = Tree(m + c)
  BY <1>5, <1>6 DEF NewNode, NodeType
<1> HIDE DEF r
<1>8. nodes' \in Seq(NodeType')
  <2>1. T \subseteq NodeType'
    BY <1>5 DEF NodeType
  <2> HIDE DEF T
  <2>2. M \in Seq(NodeType')
    BY <2>1, SeqMonotonic
  <2> QED  BY <1>7, <2>2, AppendProperties DEF r
<1>9. TreeType' = TreeType /\ Len(trees') > 1
  BY <1>1, <1>3 DEF TreeType
<1>10. ASSUME NEW c \in 1..B
       PROVE  /\ Link(<<n, c>>)' = Tree(m + c)
              /\ Items(Tree(m + c))' = {w[l] : l \in (Begin(first, len, c - 1) + 1)..Begin(first, len, c)}
  <2>1. Link(<<n, c>>)' = Tree(m + c)
    BY <1>4, <1>7 DEF Link
  <2>2. Items(Tree(m + c))' = trees'[m + c].items
    BY DEF Items, Tree
  <2> QED  BY <1>2, <1>3, <2>1, <2>2
<1>11. ASSUME NEW c \in 1..B, NEW l \in (Begin(first, len, c - 1) + 1)..Begin(first, len, c)
       PROVE  l \in 1..Len(w) /\ Child(n, w[l])' = c
  <2>1. l \in 1..Len(w) /\ ChildOf(Separators(w, first, len), w[l]) = c
    <3>1. /\ w \in Seq(Key) /\ (\A j, l2 \in 1..Len(w) : j < l2 => w[j] < w[l2]) /\ first \in Nat /\ len \in Nat
          /\ first + len <= Len(w)
      BY <1>0
    <3> HIDE <1>0
    <3> QED  BY <3>1, SeparatorsLead
  <2>2. Child(n, w[l])' = ChildOf(nodes'[n].keys, w[l])
    BY DEF Child, ChildOf
  <2> QED  BY <1>4, <1>7, <2>1, <2>2
<1> QED
  BY <1>3, <1>4, <1>5, <1>8, <1>9, <1>10, <1>11 DEF Grew

\* New treelets are not locked, and nobody has one.
LEMMA TreesGrow ==
    ASSUME NEW U, NEW K, Known(U, K), NEW t \in Thread, \A u \in Thread : u # t => Stays(t, u),
           \A p \in 1..Len(trees) : trees'[p] = trees[p],
           Has(t)' => Has(t) /\ cur'[t] = cur[t]
    PROVE  TreeletInv'
<1>1. TreeletInv /\ 1 \in 1..Len(trees)
  BY KnownParts DEF ShapeType
<1>2. \A u \in Thread : Has(u)' => Has(u) /\ cur'[u] = cur[u]
  BY DEF Stays, Has
<1>3. \A u \in Thread : Has(u) => cur[u][2] \in 1..Len(trees)
  BY CurCases
<1> QED
  BY <1>1, <1>2, <1>3 DEF TreeletInv

\* Types that depend on the number of nodes.
LEMMA TypesGrow ==
    ASSUME WalkType, ChangeType, Len(nodes) <= Len(nodes'), Object \subseteq Object', ShapeType, ShapeType'
    PROVE  /\ cur' = cur /\ idx' = idx => WalkType'
           /\ v' = v => v' \in [Thread -> Seq(Key)]
           /\ \A u \in Thread : todo[u] \in Seq(Tasks')
           /\ v' = v /\ todo' = todo => ChangeType'
<1>1. Tasks \subseteq Tasks'
  <2>1. 1..Len(nodes) \subseteq 1..Len(nodes')
    BY DEF ShapeType
  <2> QED  BY <2>1 DEF Tasks
<1>2. \A u \in Thread : todo[u] \in Seq(Tasks')
  <2>1. Seq(Tasks) \subseteq Seq(Tasks')
    BY <1>1, SeqMonotonic
  <2> QED  BY <2>1 DEF ChangeType
<1> QED
  BY <1>2 DEF WalkType, ChangeType

\* The root treelet is replaced by a node with B treelets.
LEMMA RootReplaceStep ==
    ASSUME NEW U, NEW K, Known(U, K), NEW t \in Thread, RootReplace(t)
    PROVE  \E V, J : Known(V, J)'
<1>1. Rebuild(t) /\ at[t] = "newroot"
  BY DEF Rebuild, RootReplace
<1>2. /\ ShapeType /\ WalkType /\ ChangeType /\ LinkInv /\ ChangeOf(t) /\ OpType
  BY <1>1, KnownParts DEF ChangeInv
<1>3. /\ nodes = <<>> /\ head = Tree(2) /\ cur[t] = Tree(2) /\ todo[t] = <<>> /\ v[t] \in Seq(Key)
      /\ \A j, l \in 1..Len(v[t]) : j < l => v[t][j] < v[t][l]
      /\ \A u \in Thread : at[u] # "own"
  BY <1>1, <1>2 DEF ChangeOf, LinkInv, ChangeType, Gathers
<1>4. /\ nodes' = Append(nodes, NewNode(v[t], 0, Len(v[t])))
      /\ trees' = trees \o NewTrees(v[t], 0, Len(v[t]))
      /\ cur' = cur /\ idx' = idx /\ v' = v /\ todo' = todo
      /\ at' = [at EXCEPT ![t] = "oldroot"]
  BY DEF RootReplace, Goto, walkVars, changeVars
<1>5. at'[t] = "oldroot" /\ head' = Node(1)
  BY <1>2, <1>3, <1>4 DEF OpType, RootReplace
<1>6. PICK w : w = v[t]
  OBVIOUS
<1>7. PICK m : m = Len(trees)
  OBVIOUS
<1>8. /\ w \in Seq(Key) /\ (\A j, l \in 1..Len(w) : j < l => w[j] < w[l]) /\ Len(w) \in Nat /\ 0 + Len(w) <= Len(w)
      /\ m \in Nat /\ m > 1
  BY <1>2, <1>3, <1>6, <1>7 DEF ShapeType
<1>9. /\ nodes' \in Seq(NodeType') /\ trees' \in Seq(TreeType') /\ Len(trees') > 1
      /\ Object \subseteq Object' /\ Node(1) \in Object'
      /\ Len(nodes') = 1 /\ Len(trees') = m + B
      /\ \A p \in 1..Len(trees) : trees'[p] = trees[p]
      /\ \A c \in 1..B :
           /\ Link(<<1, c>>)' = Tree(m + c)
           /\ Items(Tree(m + c))' = {w[l] : l \in (Begin(0, Len(w), c - 1) + 1)..Begin(0, Len(w), c)}
      /\ \A c \in 1..B : \A l \in (Begin(0, Len(w), c - 1) + 1)..Begin(0, Len(w), c) :
           l \in 1..Len(w) /\ Child(1, w[l])' = c
  <2>1. Len(nodes) = 0 /\ 1 = Len(nodes) + 1 /\ 0 \in Nat
    BY <1>3
  <2>2. nodes \in Seq([keys : [1..(B - 1) -> Key \union {0}], next : [1..B -> Object \union {Node(1)}]])
    BY <1>3
  <2>3. nodes' = Append(nodes, NewNode(w, 0, Len(w))) /\ trees' = trees \o NewTrees(w, 0, Len(w))
    BY <1>4, <1>6
  <2>4. Grows(1, m, w, 0, Len(w), nodes)
    <3>1. /\ w \in Seq(Key) /\ \A j, l \in 1..Len(w) : j < l => w[j] < w[l]
      BY <1>8
    <3>2. /\ 0 \in Nat /\ Len(w) \in Nat /\ 0 + Len(w) <= Len(w)
      BY <1>8
    <3>3. m = Len(trees) /\ 1 = Len(nodes) + 1
      BY <1>7, <2>1
    <3> QED  BY <3>1, <3>2, <3>3, <2>2, <2>3, Zenon DEF Grows
  <2>5. Grew(1, m, w, 0, Len(w), nodes)
    BY <1>2, <2>4, Grown
  <2> QED  BY <2>5 DEF Grew
<1>10. ShapeType'
  BY <1>5, <1>9 DEF ShapeType
<1>11. WalkType' /\ ChangeType'
  <2>1. Len(nodes) <= Len(nodes')
    BY <1>3, <1>9
  <2> QED  BY <1>2, <1>4, <1>9, <1>10, <2>1, TypesGrow
<1>12. TreeletInv'
  <2>1. Has(t)
    BY <1>1 DEF Has
  <2> QED  BY <1>1, <1>4, <1>9, <2>1, Alone, TreesGrow
<1>13. \A e : e \in Slots' <=> \E c \in 1..B : e = <<1, c>>
  BY <1>9 DEF Slots
<1>14. ASSUME NEW e \in Slots'
       PROVE  /\ e[1] = 1 /\ e[2] \in 1..B /\ e = <<1, e[2]>> /\ Link(e)' = Tree(m + e[2]) /\ ~IsNode(Link(e)')
              /\ m + e[2] # 1 /\ m + e[2] # 2 /\ ~Empty(e)' /\ Link(e)' # cur[t]
  <2>1. PICK c \in 1..B : e = <<1, c>>
    BY <1>13
  <2>2. e[1] = 1 /\ e[2] = c /\ Link(e)' = Tree(m + c)
    BY <1>9, <2>1
  <2>3. m + c # 1 /\ m + c # 2
    BY <1>8, BType
  <2>4. Empty(e)' <=> Link(e)' = NullTree
    BY DEF Empty
  <2> QED  BY <1>3, <2>1, <2>2, <2>3, <2>4, ObjectCases
<1>15. LinkInv'
  <2>1. nodes' # <<>>
    <3>1. Len(nodes') # 0
      BY <1>9
    <3> QED  BY <3>1
  <2>2. \A n : n \notin 2..Len(nodes')
    BY <1>9
  <2>3. ASSUME NEW e \in Slots', NEW f \in Slots', Link(e)' = Link(f)' PROVE e = f
    <3>1. Tree(m + e[2]) = Tree(m + f[2]) /\ e[2] \in 1..B /\ f[2] \in 1..B /\ e = <<1, e[2]>> /\ f = <<1, f[2]>>
      BY <1>14, <2>3
    <3>2. m + e[2] = m + f[2]
      BY <3>1, ObjectCases
    <3>3. e[2] = f[2]
      BY <1>8, <3>1, <3>2, BType
    <3> QED  BY <3>1, <3>3
  <2> QED  BY <1>5, <1>14, <2>1, <2>2, <2>3 DEF LinkInv
<1>16. ChangeOf(t)'
  <2>1. \A u \in Thread : at'[u] # "own"
    BY <1>2, <1>3, <1>4 DEF OpType
  <2> QED  BY <1>3, <1>4, <1>5, <1>9, <1>14, <2>1 DEF ChangeOf, Gathers
<1>17. PICK J : J = [n \in 1..1 |-> Key]
  OBVIOUS
<1>18. J \in [1..Len(nodes') -> SUBSET Key] /\ J[1] = Key
  <2>1. J \in [1..1 -> SUBSET Key] /\ J[1] = Key
    BY <1>17
  <2> QED  BY <1>9, <2>1
<1>19. ASSUME NEW e \in Slots' PROVE KeysOf(J, e)' = {k \in Key : Child(1, k)' = e[2]}
  <2>1. e[1] = 1 /\ e[2] # 0
    BY <1>14
  <2> QED  BY <1>18, <2>1 DEF KeysOf
<1>20. \A e \in Slots' : Items(Link(e))' \subseteq KeysOf(J, e)'
  <2> SUFFICES ASSUME NEW e \in Slots' PROVE Items(Link(e))' \subseteq KeysOf(J, e)'
    OBVIOUS
  <2>1. PICK c \in 1..B : c = e[2]
    BY <1>14
  <2>2. Items(Link(e))' = {w[l] : l \in (Begin(0, Len(w), c - 1) + 1)..Begin(0, Len(w), c)}
    <3>1. Items(Link(e))' = Items(Tree(m + c))'
      BY <1>14, <2>1 DEF Items
    <3> QED  BY <1>9, <3>1
  <2>3. \A l \in (Begin(0, Len(w), c - 1) + 1)..Begin(0, Len(w), c) : w[l] \in Key /\ Child(1, w[l])' = c
    BY <1>8, <1>9
  <2> QED  BY <1>19, <2>1, <2>2, <2>3
<1>21. \A e, f \in Ends(t, {})' : e # f => KeysOf(J, e)' \intersect KeysOf(J, f)' = {}
  <2>1. \A e \in Ends(t, {})' : e \in Slots'
    BY <1>5 DEF Ends
  <2>2. \A e, f \in Slots' : e # f => e[2] # f[2]
    BY <1>14
  <2> QED  BY <1>19, <2>1, <2>2
<1>22. BuildOf(t, J)'
  <2>1. Len(todo'[t]) = 0
    BY <1>3, <1>4
  <2>2. ASSUME NEW l \in 1..Len(v'[t])
        PROVE  \E e \in Slots' : ~IsNode(Link(e)') /\ v'[t][l] \in Items(Link(e))'
    <3>1. v'[t] = w /\ l \in (0 + 1)..(0 + Len(w))
      BY <1>4, <1>6, <1>8
    <3>2. PICK c \in 1..B : l \in (Begin(0, Len(w), c - 1) + 1)..Begin(0, Len(w), c)
      BY <1>8, <3>1, SomePart
    <3>3. PICK e : e = <<1, c>>
      OBVIOUS
    <3>4. Items(Link(e))' = Items(Tree(m + c))'
      BY <1>9, <3>3 DEF Items
    <3>5. e \in Slots' /\ w[l] \in Items(Link(e))'
      BY <1>9, <1>13, <3>2, <3>3, <3>4
    <3> QED  BY <1>14, <3>1, <3>5
  <2> QED  BY <2>1, <2>2 DEF BuildOf
<1>23. \A n \in 1..Len(nodes') : \A c \in 1..B : ~IsNode(Link(<<n, c>>)')
  <2>1. \A n \in 1..Len(nodes'), c \in 1..B : <<n, c>> \in Slots'
    BY DEF Slots
  <2> QED  BY <1>14, <2>1
<1>24. Rebuilt(t, {}, J)
  BY <1>3, <1>5, <1>10, <1>11, <1>12, <1>14, <1>15, <1>16, <1>18, <1>20, <1>21, <1>22, <1>23 DEF Rebuilt, Gathers
<1> QED
  BY <1>1, <1>24, RebuildKnows

-----------------------------------------------------------------------------
(* A task for a node is replaced by those for what is below it *)

\* The place of the task for child c of node n.
Spot(n, c) == IF IsNode(Link(<<n, 1>>)) THEN <<Link(<<n, c>>)[2], 0>> ELSE <<n, c>>

\* The tasks for the children of a node divide its part of the vector.
LEMMA BelowTasks ==
    ASSUME ShapeType, NEW k \in Tasks, NEW n, n = k.node,
           (\A c \in 1..B : ~IsNode(Link(<<n, c>>))) \/ (\A c \in 1..B : IsNode(Link(<<n, c>>)))
    PROVE  /\ Below(k) \in Seq(Tasks) /\ Len(Below(k)) = B
           /\ \A c \in 1..B :
                /\ Place(Below(k)[c]) = Spot(n, c)
                /\ From(Below(k)[c]) = Begin(k.first, k.len, c - 1)
                /\ To(Below(k)[c]) = Begin(k.first, k.len, c)
                /\ Below(k)[c].first + Below(k)[c].len <= k.first + k.len
<1>1. n \in 1..Len(nodes) /\ k.first \in Nat /\ k.len \in Nat /\ B \in Nat /\ B > 1 /\ 1 \in 1..B
  BY BType DEF Tasks
<1>2. PICK first \in Nat : first = k.first
  BY <1>1
<1>3. PICK len \in Nat : len = k.len
  BY <1>1
<1> DEFINE b(c) == Begin(first, len, c)
<1>4. \A c \in 1..B : b(c) \in Nat /\ b(c - 1) \in Nat /\ b(c - 1) <= b(c) /\ b(c) <= first + len
  <2>1. \A c \in 1..B : c \in Nat /\ c - 1 \in Nat /\ c - 1 <= c /\ c <= B
    BY <1>1
  <2>2. b(B) = first + len
    BY BeginBounds
  <2>3. \A c, d \in Nat : b(c) \in Nat /\ (c <= d => b(c) <= b(d))
    BY BeginBounds
  <2> HIDE DEF b
  <2> QED  BY <1>1, <2>1, <2>2, <2>3
<1>5. \A c : Link(<<n, c>>) = nodes[n].next[c]
  BY DEF Link
<1>6. CASE IsNode(Link(<<n, 1>>))
  <2>1. \A c \in 1..B : IsNode(Link(<<n, c>>))
    BY <1>1, <1>6
  <2>2. ASSUME NEW c \in 1..B PROVE Link(<<n, c>>)[2] \in 1..Len(nodes)
    <3>1. Link(<<n, c>>) \in Object /\ IsNode(Link(<<n, c>>))
      BY <1>1, <2>1, SlotParts
    <3> QED  BY <3>1, ObjectCases
  <2> DEFINE T(c) == Task(Link(<<n, c>>)[2], 0, b(c - 1), b(c) - b(c - 1))
  <2>3. Below(k) = [c \in 1..B |-> T(c)]
    BY <1>2, <1>3, <1>5, <1>6 DEF Below
  <2>4. ASSUME NEW c \in 1..B
        PROVE  /\ T(c) \in Tasks /\ Place(T(c)) = <<Link(<<n, c>>)[2], 0>> /\ From(T(c)) = b(c - 1) /\ To(T(c)) = b(c)
               /\ T(c).first + T(c).len <= first + len
    <3>1. /\ T(c).node = Link(<<n, c>>)[2] /\ T(c).child = 0 /\ T(c).first = b(c - 1) /\ T(c).len = b(c) - b(c - 1)
          /\ T(c) = [node |-> Link(<<n, c>>)[2], child |-> 0, first |-> b(c - 1), len |-> b(c) - b(c - 1)]
      BY DEF Task
    <3> HIDE DEF T, b
    <3>2. b(c) - b(c - 1) \in Nat /\ b(c - 1) + (b(c) - b(c - 1)) = b(c) /\ 0 \in 0..B
      BY <1>1, <1>4
    <3>3. T(c) \in Tasks
      BY <1>4, <2>2, <3>1, <3>2 DEF Tasks
    <3>4. Place(T(c)) = <<Link(<<n, c>>)[2], 0>> /\ From(T(c)) = b(c - 1) /\ To(T(c)) = b(c)
      BY <3>1, <3>2 DEF Place, From, To
    <3> QED  BY <1>4, <3>1, <3>2, <3>3, <3>4
  <2>5. \A c \in 1..B : Below(k)[c] = T(c) /\ Spot(n, c) = <<Link(<<n, c>>)[2], 0>>
    BY <1>6, <2>3 DEF Spot
  <2> HIDE DEF T
  <2>6. Below(k) \in [1..B -> Tasks]
    BY <2>3, <2>4
  <2>7. Below(k) \in Seq(Tasks) /\ Len(Below(k)) = B
    BY <1>1, <2>6, SeqDef
  <2> QED  BY <1>2, <1>3, <2>4, <2>5, <2>7
<1>7. CASE ~IsNode(Link(<<n, 1>>))
  <2> DEFINE T(c) == Task(n, c, first, len)
  <2>3. Below(k) = [c \in 1..B |-> T(c)]
    BY <1>2, <1>3, <1>5, <1>7 DEF Below, LeafTasks
  <2>4. ASSUME NEW c \in 1..B
        PROVE  /\ T(c) \in Tasks /\ Place(T(c)) = <<n, c>> /\ From(T(c)) = b(c - 1) /\ To(T(c)) = b(c)
               /\ T(c).first + T(c).len <= first + len
    <3>1. /\ T(c).node = n /\ T(c).child = c /\ T(c).first = first /\ T(c).len = len
          /\ T(c) = [node |-> n, child |-> c, first |-> first, len |-> len]
      BY DEF Task
    <3> HIDE DEF T
    <3>2. c \in 0..B /\ c # 0
      BY <1>1
    <3> QED  BY <1>1, <3>1, <3>2 DEF Tasks, Place, From, To
  <2>5. \A c \in 1..B : Below(k)[c] = T(c) /\ Spot(n, c) = <<n, c>>
    BY <1>7, <2>3 DEF Spot
  <2> HIDE DEF T
  <2>6. Below(k) \in [1..B -> Tasks]
    BY <2>3, <2>4
  <2>7. Below(k) \in Seq(Tasks) /\ Len(Below(k)) = B
    BY <1>1, <2>6, SeqDef
  <2> QED  BY <1>2, <1>3, <2>4, <2>5, <2>7
<1> QED
  BY <1>6, <1>7

\* The first element of q is replaced by the elements of b.
Replaced(b, q, r) ==
    /\ r # <<>> /\ Len(r) = Len(b) + Len(q) - 1
    /\ \A p \in 1..Len(b) : r[p] = b[p]
    /\ \A p \in 1..Len(r) : p > Len(b) => p - Len(b) + 1 \in 2..Len(q) /\ r[p] = q[p - Len(b) + 1]
    /\ \A p \in 2..Len(q) : Len(b) + p - 1 \in 1..Len(r) /\ r[Len(b) + p - 1] = q[p]

\* The sequence that comes of replacing the first element by several.
LEMMA HeadReplaced ==
    ASSUME NEW T, NEW b \in Seq(T), NEW q \in Seq(T), q # <<>>, NEW r, r = b \o Tail(q), Len(b) > 0
    PROVE  r \in Seq(T) /\ Replaced(b, q, r)
<1>1. Len(b) \in Nat /\ Len(q) \in Nat /\ Len(q) > 0
  OBVIOUS
<1>2. Tail(q) \in Seq(T) /\ Len(Tail(q)) = Len(q) - 1 /\ \A p \in 1..(Len(q) - 1) : Tail(q)[p] = q[p + 1]
  OBVIOUS
<1>3. PICK s \in Seq(T) : s = Tail(q)
  BY <1>2
<1>4. /\ r \in Seq(T) /\ Len(r) = Len(b) + Len(s)
      /\ \A p \in 1..Len(b) : r[p] = b[p]
      /\ \A p \in 1..Len(s) : r[Len(b) + p] = s[p]
  BY <1>3, Concatenation
<1>5. Len(s) = Len(q) - 1 /\ \A p \in 1..(Len(q) - 1) : s[p] = q[p + 1]
  BY <1>2, <1>3
<1>6. ASSUME NEW p \in 1..Len(r), p > Len(b)
      PROVE  p - Len(b) + 1 \in 2..Len(q) /\ r[p] = q[p - Len(b) + 1]
  <2>1. /\ p - Len(b) \in 1..Len(s) /\ Len(b) + (p - Len(b)) = p /\ p - Len(b) \in 1..(Len(q) - 1)
        /\ p - Len(b) + 1 \in 2..Len(q)
    BY <1>1, <1>4, <1>5, <1>6
  <2> QED  BY <1>4, <1>5, <2>1
<1>7. ASSUME NEW p \in 2..Len(q)
      PROVE  Len(b) + p - 1 \in 1..Len(r) /\ r[Len(b) + p - 1] = q[p]
  <2>1. /\ p - 1 \in 1..Len(s) /\ Len(b) + (p - 1) = Len(b) + p - 1 /\ p - 1 \in 1..(Len(q) - 1)
        /\ (p - 1) + 1 = p /\ Len(b) + p - 1 \in 1..Len(r)
    BY <1>1, <1>4, <1>5
  <2> QED  BY <1>4, <1>5, <2>1
<1>8. Len(r) = Len(b) + Len(q) - 1 /\ r # <<>>
  BY <1>1, <1>4, <1>5
<1> QED
  BY <1>4, <1>6, <1>7, <1>8 DEF Replaced

\* The first task of thread t, for node n, has been replaced by those for what is below n.
Unfolded(t, n) ==
    /\ todo[t] \in Seq(Tasks) /\ todo'[t] \in Seq(Tasks) /\ todo'[t] # <<>>
    /\ 1 \in 1..Len(todo[t]) /\ Place(todo[t][1]) = <<n, 0>> /\ n \in 1..Len(nodes)
    /\ \A j \in 1..Len(todo'[t]) : ~(j \in 1..B) =>
         j > B /\ j - B + 1 \in 2..Len(todo[t]) /\ todo'[t][j] = todo[t][j - B + 1]
    /\ \A j \in 2..Len(todo[t]) : B + j - 1 \in 1..Len(todo'[t]) /\ todo'[t][B + j - 1] = todo[t][j]
    /\ \A c \in 1..B : /\ c \in 1..Len(todo'[t])
                       /\ Place(todo'[t][c]) = Spot(n, c)
                       /\ From(todo'[t][c]) = Begin(todo[t][1].first, todo[t][1].len, c - 1)
                       /\ To(todo'[t][c]) = Begin(todo[t][1].first, todo[t][1].len, c)
                       /\ todo'[t][c].first + todo'[t][c].len <= todo[t][1].first + todo[t][1].len

\* The first task, for a node, is replaced by the tasks for what is below it.
LEMMA TodoUnfolds ==
    ASSUME ShapeType, ChangeType, NEW t \in Thread, todo[t] # <<>>, NEW n, n = Head(todo[t]).node,
           Head(todo[t]).child = 0,
           (\A c \in 1..B : ~IsNode(Link(<<n, c>>))) \/ (\A c \in 1..B : IsNode(Link(<<n, c>>))),
           todo' = [todo EXCEPT ![t] = Below(Head(@)) \o Tail(@)]
    PROVE  Unfolded(t, n) /\ todo' \in [Thread -> Seq(Tasks)]
<1>1. todo[t] \in Seq(Tasks) /\ Len(todo[t]) \in Nat /\ B \in Nat /\ B > 1
  BY BType DEF ChangeType
<1>2. PICK k : k = Head(todo[t])
  OBVIOUS
<1>3. k \in Tasks /\ k = todo[t][1] /\ 1 \in 1..Len(todo[t]) /\ n = k.node /\ k.child = 0
  BY <1>1, <1>2
<1>4. /\ Below(k) \in Seq(Tasks) /\ Len(Below(k)) = B
      /\ \A c \in 1..B :
           /\ Place(Below(k)[c]) = Spot(n, c)
           /\ From(Below(k)[c]) = Begin(k.first, k.len, c - 1)
           /\ To(Below(k)[c]) = Begin(k.first, k.len, c)
           /\ Below(k)[c].first + Below(k)[c].len <= k.first + k.len
  BY <1>3, BelowTasks
<1>5. PICK r : r = Below(k) \o Tail(todo[t])
  OBVIOUS
<1>6. todo' = [todo EXCEPT ![t] = r] /\ todo'[t] = r
  BY <1>2, <1>5 DEF ChangeType
<1>7. PICK b : b = Below(k)
  OBVIOUS
<1>8. /\ r \in Seq(Tasks) /\ r # <<>> /\ Len(r) = B + Len(todo[t]) - 1
      /\ \A p \in 1..B : r[p] = b[p]
      /\ \A p \in 1..Len(r) : p > B => p - B + 1 \in 2..Len(todo[t]) /\ r[p] = todo[t][p - B + 1]
      /\ \A p \in 2..Len(todo[t]) : B + p - 1 \in 1..Len(r) /\ r[B + p - 1] = todo[t][p]
  <2>1. b \in Seq(Tasks) /\ Len(b) = B /\ Len(b) > 0 /\ r = b \o Tail(todo[t])
    BY <1>1, <1>4, <1>5, <1>7
  <2>2. PICK q : q = todo[t]
    OBVIOUS
  <2>3. q \in Seq(Tasks) /\ q # <<>> /\ r = b \o Tail(q)
    BY <1>1, <2>1, <2>2
  <2>4. r \in Seq(Tasks) /\ Replaced(b, q, r)
    BY <2>1, <2>3, HeadReplaced
  <2> QED  BY <2>1, <2>2, <2>4 DEF Replaced
<1>9. todo' \in [Thread -> Seq(Tasks)]
  BY <1>6, <1>8 DEF ChangeType
<1>10. Place(todo[t][1]) = <<n, 0>> /\ n \in 1..Len(nodes)
  BY <1>3 DEF Place, Tasks
<1>11. \A j \in 1..Len(r) : ~(j \in 1..B) => j > B
  BY <1>1
<1>12. \A c \in 1..B : c \in 1..Len(r) /\ r[c] = Below(k)[c]
  BY <1>1, <1>7, <1>8
<1>13. \A j \in 1..Len(r) : ~(j \in 1..B) =>
         j > B /\ j - B + 1 \in 2..Len(todo[t]) /\ r[j] = todo[t][j - B + 1]
  BY <1>8, <1>11
<1>14. \A c \in 1..B : /\ c \in 1..Len(r)
                        /\ Place(r[c]) = Spot(n, c)
                        /\ From(r[c]) = Begin(todo[t][1].first, todo[t][1].len, c - 1)
                        /\ To(r[c]) = Begin(todo[t][1].first, todo[t][1].len, c)
                        /\ r[c].first + r[c].len <= todo[t][1].first + todo[t][1].len
  BY <1>3, <1>4, <1>12
<1>15. \A j \in 2..Len(todo[t]) : B + j - 1 \in 1..Len(r) /\ r[B + j - 1] = todo[t][j]
  BY <1>8
<1>16. r \in Seq(Tasks) /\ r # <<>>
  BY <1>8
<1>17. Unfolded(t, n)
  BY <1>1, <1>3, <1>6, <1>10, <1>13, <1>14, <1>15, <1>16, Zenon DEF Unfolded
<1> QED
  BY <1>9, <1>17

\* The places to work at afterwards.
LEMMA PlacesUnfold ==
    ASSUME ShapeType, NEW t \in Thread, NEW n, Unfolded(t, n)
    PROVE  /\ \A p : p \in Places(t)' <=> \/ \E c \in 1..B : p = Spot(n, c)
                                          \/ \E j \in 2..Len(todo[t]) : p = Place(todo[t][j])
           /\ \A p : p \in Places(t) <=> p = <<n, 0>> \/ \E j \in 2..Len(todo[t]) : p = Place(todo[t][j])
<1>1. \A p : p \in Places(t)' <=> \E j \in 1..Len(todo'[t]) : p = Place(todo'[t][j])
  BY DEF Places
<1>2. \A p : p \in Places(t) <=> \E j \in 1..Len(todo[t]) : p = Place(todo[t][j])
  BY DEF Places
<1>3. \A j \in 1..Len(todo[t]) : j = 1 \/ j \in 2..Len(todo[t])
  BY DEF Unfolded
<1>4. \A j \in 2..Len(todo[t]) : j \in 1..Len(todo[t])
  BY DEF Unfolded
<1>5. Place(todo[t][1]) = <<n, 0>> /\ 1 \in 1..Len(todo[t])
  BY DEF Unfolded
<1>6. \A j \in 1..Len(todo'[t]) : \/ j \in 1..B /\ Place(todo'[t][j]) = Spot(n, j)
                                 \/ \E l \in 2..Len(todo[t]) : Place(todo'[t][j]) = Place(todo[t][l])
  BY DEF Unfolded
<1>7. \A c \in 1..B : c \in 1..Len(todo'[t]) /\ Place(todo'[t][c]) = Spot(n, c)
  BY DEF Unfolded
<1>8. \A j \in 2..Len(todo[t]) : \E l \in 1..Len(todo'[t]) : Place(todo'[t][l]) = Place(todo[t][j])
  BY DEF Unfolded
<1>9. \A p : p \in Places(t)' <=> \/ \E c \in 1..B : p = Spot(n, c)
                                 \/ \E j \in 2..Len(todo[t]) : p = Place(todo[t][j])
  BY <1>1, <1>6, <1>7, <1>8
<1>10. \A p : p \in Places(t) <=> p = <<n, 0>> \/ \E j \in 2..Len(todo[t]) : p = Place(todo[t][j])
  BY <1>2, <1>3, <1>4, <1>5
<1> QED
  BY <1>9, <1>10

\* They are new ones, and the other tasks are not about node n.
NewPlaces(t, n) ==
    /\ \A c \in 1..B : <<n, c>> \in Slots /\ Spot(n, c) \notin Places(t)
    /\ \A c, d \in 1..B : Spot(n, c) = Spot(n, d) => c = d
    /\ \A j \in 2..Len(todo[t]) : Place(todo[t][j]) \in Places(t) /\ Place(todo[t][j]) # <<n, 0>>

\* The nodes to come to: node n is no longer one.
LEMMA CoverUnfolds ==
    ASSUME ShapeType, LinkInv, NEW t \in Thread, NEW U, CoverOf(t, U), U \in SUBSET (1..Len(nodes)),
           NEW n, Unfolded(t, n), NEW V, V = U \ {n},
           at'[t] = at[t], at[t] \in {"gather", "build"},
           Slots' = Slots, \A e \in Slots : Link(e)' = Link(e)
    PROVE  CoverOf(t, V)' /\ NewPlaces(t, n)
<1>1. /\ \A p : p \in Places(t)' <=> \/ \E c \in 1..B : p = Spot(n, c)
                                     \/ \E j \in 2..Len(todo[t]) : p = Place(todo[t][j])
      /\ \A p : p \in Places(t) <=> p = <<n, 0>> \/ \E j \in 2..Len(todo[t]) : p = Place(todo[t][j])
  BY PlacesUnfold
<1>2. n \in U /\ n \in 1..Len(nodes) /\ <<n, 0>> \in Places(t) /\ \A e \in Slots : e[1] \in U => Link(e) # Node(n)
  <2>1. <<n, 0>> \in Places(t) /\ n \in 1..Len(nodes)
    BY <1>1 DEF Unfolded
  <2>2. PICK p : p = <<n, 0>>
    OBVIOUS
  <2>3. p \in Places(t) /\ p[1] = n /\ p[2] = 0
    BY <2>1, <2>2
  <2> QED  BY <2>1, <2>3 DEF CoverOf
<1>3. \A c \in 1..B : <<n, c>> \in Slots
  BY <1>2, SlotParts
<1>4. \A j, l \in 1..Len(todo[t]) : Place(todo[t][j]) = Place(todo[t][l]) => j = l
  BY DEF CoverOf
<1>5. \A j \in 2..Len(todo[t]) : j \in 1..Len(todo[t]) /\ j # 1 /\ Place(todo[t][j]) # <<n, 0>>
  <2>1. \A j \in 2..Len(todo[t]) : j \in 1..Len(todo[t]) /\ j # 1
    BY DEF Unfolded
  <2> QED  BY <1>4, <2>1 DEF Unfolded
<1>6. \A p \in Places(t) : p # <<n, 0>> <=> p \in {Place(todo[t][j]) : j \in 2..Len(todo[t])}
  BY <1>1, <1>5
<1>7. \A p \in Places(t) : p # <<n, 0>> => p \in Places(t)'
  BY <1>1
\* A child of node n that is a node.
<1>8. ASSUME IsNode(Link(<<n, 1>>)), NEW c \in 1..B
      PROVE  /\ IsNode(Link(<<n, c>>)) /\ Spot(n, c) = <<Link(<<n, c>>)[2], 0>>
             /\ Link(<<n, c>>) = Node(Link(<<n, c>>)[2]) /\ Link(<<n, c>>)[2] \in U /\ n # Link(<<n, c>>)[2]
             /\ \A e \in Slots : Link(e) = Link(<<n, c>>) => e = <<n, c>>
  <2>1. IsNode(Link(<<n, c>>))
    <3>1. 1 \in 1..B
      BY BType
    <3> QED  BY <1>2, <1>8, <3>1 DEF CoverOf
  <2>2. PICK e : e = <<n, c>>
    OBVIOUS
  <2>3. e \in Slots /\ e[1] = n
    BY <1>3, <2>2
  <2>4. Link(e)[2] \in U /\ n < Link(e)[2]
    BY <1>2, <2>1, <2>2, <2>3 DEF CoverOf, LinkInv
  <2>5. Link(e) \in Object /\ Link(e) = Node(Link(e)[2])
    BY <2>1, <2>2, <2>3, SlotParts, ObjectCases
  <2>6. ~Empty(e)
    BY <2>1, <2>2, ObjectCases DEF Empty
  <2>7. n # Link(e)[2]
    BY <1>2, <2>4
  <2>8. Spot(n, c) = <<Link(<<n, c>>)[2], 0>>
    BY <1>8 DEF Spot
  <2> QED  BY <2>1, <2>2, <2>3, <2>4, <2>5, <2>6, <2>7, <2>8 DEF LinkInv
\* A leaf.
<1>9. ASSUME ~IsNode(Link(<<n, 1>>)), NEW c \in 1..B
      PROVE  /\ ~IsNode(Link(<<n, c>>)) /\ Spot(n, c) = <<n, c>>
             /\ at[t] = "gather" => Filled(<<n, c>>)
             /\ at[t] = "build" => Empty(<<n, c>>)
  <2>1. ~IsNode(Link(<<n, c>>))
    <3>1. 1 \in 1..B
      BY BType
    <3> QED  BY <1>2, <1>9, <3>1 DEF CoverOf
  <2>2. PICK e : e = <<n, c>>
    OBVIOUS
  <2>3. e \in Slots /\ e[1] \in U /\ ~IsNode(Link(e))
    BY <1>2, <1>3, <2>1, <2>2
  <2>4. at[t] = "gather" => ~Empty(e)
    BY <2>3 DEF CoverOf
  <2>5. at[t] = "build" => ~Filled(e)
    BY <2>3 DEF CoverOf
  <2> QED  BY <1>9, <2>1, <2>2, <2>3, <2>4, <2>5 DEF Spot, Filled
<1>10. ASSUME NEW c \in 1..B PROVE Spot(n, c) \notin Places(t)
  <2>1. CASE IsNode(Link(<<n, 1>>))
    <3>1. ASSUME <<Link(<<n, c>>)[2], 0>> \in Places(t) PROVE FALSE
      <4>1. PICK p : p = <<Link(<<n, c>>)[2], 0>>
        OBVIOUS
      <4>2. p[2] = 0 /\ p[1] = Link(<<n, c>>)[2] /\ p \in Places(t)
        BY <3>1, <4>1
      <4>3. \A e \in Slots : e[1] \in U => Link(e) # Node(Link(<<n, c>>)[2])
        BY <4>2 DEF CoverOf
      <4>4. PICK e : e = <<n, c>>
        OBVIOUS
      <4>5. e \in Slots /\ e[1] \in U /\ Link(e) = Node(Link(<<n, c>>)[2])
        BY <1>2, <1>3, <1>8, <2>1, <4>4
      <4> QED  BY <4>3, <4>5
    <3> QED  BY <1>8, <2>1, <3>1
  <2>2. CASE ~IsNode(Link(<<n, 1>>))
    <3>1. PICK e : e = <<n, c>>
      OBVIOUS
    <3>2. e[1] = n /\ e[2] = c /\ c # 0
      BY <3>1, BType
    <3>3. e \notin Places(t)
      BY <1>2, <3>2 DEF CoverOf
    <3> QED  BY <1>9, <2>2, <3>1, <3>3
  <2> QED  BY <2>1, <2>2
<1>11. ASSUME NEW c \in 1..B, NEW d \in 1..B, Spot(n, c) = Spot(n, d) PROVE c = d
  <2>1. CASE IsNode(Link(<<n, 1>>))
    <3>1. Link(<<n, c>>)[2] = Link(<<n, d>>)[2]
      BY <1>8, <1>11, <2>1
    <3>2. Link(<<n, c>>) = Link(<<n, d>>)
      BY <1>8, <2>1, <3>1
    <3>3. <<n, c>> = <<n, d>>
      BY <1>3, <1>8, <2>1, <3>2
    <3> QED  BY <3>3
  <2>2. CASE ~IsNode(Link(<<n, 1>>))
    <3>1. <<n, c>> = <<n, d>>
      BY <1>9, <1>11, <2>2
    <3> QED  BY <3>1
  <2> QED  BY <2>1, <2>2
\* The parts of the cover.
<1>12. \A j, l \in 1..Len(todo'[t]) : Place(todo'[t][j]) = Place(todo'[t][l]) => j = l
  <2> SUFFICES ASSUME NEW j \in 1..Len(todo'[t]), NEW l \in 1..Len(todo'[t]),
                      Place(todo'[t][j]) = Place(todo'[t][l])
               PROVE  j = l
    OBVIOUS
  <2>0. \A x \in 2..Len(todo[t]) : Place(todo[t][x]) \in Places(t)
    BY <1>1
  <2>1. CASE j \in 1..B /\ l \in 1..B
    BY <1>11, <2>1 DEF Unfolded
  <2>2. CASE j \in 1..B /\ ~(l \in 1..B)
    <3>1. Place(todo'[t][l]) \in Places(t)
      BY <2>0, <2>2 DEF Unfolded
    <3>2. Place(todo'[t][j]) = Spot(n, j)
      BY <2>2 DEF Unfolded
    <3> QED  BY <1>10, <2>2, <3>1, <3>2
  <2>3. CASE ~(j \in 1..B) /\ l \in 1..B
    <3>1. Place(todo'[t][j]) \in Places(t)
      BY <2>0, <2>3 DEF Unfolded
    <3>2. Place(todo'[t][l]) = Spot(n, l)
      BY <2>3 DEF Unfolded
    <3> QED  BY <1>10, <2>3, <3>1, <3>2
  <2>4. CASE ~(j \in 1..B) /\ ~(l \in 1..B)
    <3>1. /\ j - B + 1 \in 2..Len(todo[t]) /\ todo'[t][j] = todo[t][j - B + 1]
          /\ l - B + 1 \in 2..Len(todo[t]) /\ todo'[t][l] = todo[t][l - B + 1]
      BY <2>4 DEF Unfolded
    <3>2. j - B + 1 = l - B + 1
      BY <1>4, <1>5, <3>1
    <3>3. j \in Int /\ l \in Int /\ B \in Int
      BY BType
    <3> QED  BY <3>2, <3>3
  <2> QED  BY <2>1, <2>2, <2>3, <2>4
<1>13. ASSUME NEW m \in V PROVE <<m, 0>> \in Places(t)' \/ \E e \in Slots : e[1] \in V /\ Link(e) = Node(m)
  <2>1. CASE <<m, 0>> \in Places(t)
    <3>1. <<m, 0>> # <<n, 0>>
      <4>1. m # n
        OBVIOUS
      <4> QED  BY <4>1
    <3> QED  BY <1>7, <2>1, <3>1
  <2>2. CASE \E e \in Slots : e[1] \in U /\ Link(e) = Node(m)
    <3>1. PICK e \in Slots : e[1] \in U /\ Link(e) = Node(m)
      BY <2>2
    <3>2. CASE e[1] = n
      <4>1. PICK c \in 1..B : e = <<n, c>>
        BY <3>2, SlotParts
      <4>2. IsNode(Link(<<n, c>>)) /\ Link(<<n, c>>)[2] = m
        BY <3>1, <4>1, ObjectCases
      <4>3. Spot(n, c) = <<m, 0>>
        BY <1>8, <1>9, <4>2
      <4> QED  BY <1>1, <4>3
    <3>3. CASE e[1] # n
      BY <3>1, <3>3
    <3> QED  BY <3>2, <3>3
  <2> QED  BY <2>1, <2>2 DEF CoverOf
<1>14. ASSUME NEW p \in Places(t)'
       PROVE  IF p[2] = 0 THEN p[1] \in V /\ \A e \in Slots : e[1] \in V => Link(e) # Node(p[1])
              ELSE p[1] \notin V
  <2>1. CASE \E j \in 2..Len(todo[t]) : p = Place(todo[t][j])
    <3>1. p \in Places(t) /\ p # <<n, 0>>
      BY <1>1, <1>5, <2>1
    <3>2. p[2] = 0 => p[1] # n
      <4>1. p = <<p[1], p[2]>>
        BY <2>1 DEF Place
      <4> QED  BY <3>1, <4>1
    <3> QED  BY <3>1, <3>2 DEF CoverOf
  <2>2. CASE \E c \in 1..B : p = Spot(n, c)
    <3>1. PICK c \in 1..B : p = Spot(n, c)
      BY <2>2
    <3>2. CASE IsNode(Link(<<n, 1>>))
      <4>1. p[1] = Link(<<n, c>>)[2] /\ p[2] = 0
        BY <1>8, <3>1, <3>2
      <4>2. p[1] \in V /\ Link(<<n, c>>) = Node(p[1])
        BY <1>8, <3>2, <4>1
      <4>3. ASSUME NEW e \in Slots, e[1] \in V, Link(e) = Node(p[1]) PROVE FALSE
        <5>1. e = <<n, c>>
          BY <1>8, <3>2, <4>2, <4>3
        <5>2. e[1] = n
          BY <5>1
        <5> QED  BY <4>3, <5>2
      <4> QED  BY <4>1, <4>2, <4>3
    <3>3. CASE ~IsNode(Link(<<n, 1>>))
      <4>1. p[1] = n /\ p[2] = c /\ c # 0
        <5>1. p = <<n, c>>
          BY <1>9, <3>1, <3>3
        <5> QED  BY <5>1, BType
      <4> QED  BY <4>1
    <3> QED  BY <3>2, <3>3
  <2> QED  BY <1>1, <2>1, <2>2
<1>15. \A e \in Slots : e[1] \in V /\ IsNode(Link(e)) => Link(e)[2] \in V
  <2> SUFFICES ASSUME NEW e \in Slots, e[1] \in V, IsNode(Link(e)) PROVE Link(e)[2] \in V
    OBVIOUS
  <2>1. Link(e)[2] \in U /\ Link(e) # Node(n)
    BY <1>2 DEF CoverOf
  <2>2. Link(e) = Node(Link(e)[2])
    BY SlotParts, ObjectCases
  <2>3. Link(e)[2] # n
    BY <2>1, <2>2
  <2> QED  BY <2>1, <2>3
<1>16. ASSUME NEW e \in Slots
       PROVE  /\ e \in Places(t) => e \in Places(t)'
              /\ e[1] = n /\ ~IsNode(Link(e)) => e \in Places(t)'
              /\ e \in Places(t)' /\ e \notin Places(t) => e[1] = n /\ ~IsNode(Link(<<n, 1>>))
  <2>1. e[2] \in 1..B /\ e[2] # 0 /\ e = <<e[1], e[2]>>
    BY SlotParts, BType
  <2>2. e # <<n, 0>>
    BY <2>1
  <2>3. ASSUME e[1] = n, ~IsNode(Link(e)) PROVE e \in Places(t)'
    <3>1. PICK c \in 1..B : e = <<n, c>>
      BY <2>1, <2>3
    <3>2. ~IsNode(Link(<<n, 1>>))
      BY <1>8, <2>3, <3>1
    <3>3. Spot(n, c) = e
      BY <1>9, <3>1, <3>2
    <3> QED  BY <1>1, <3>3
  <2>4. ASSUME e \in Places(t)', e \notin Places(t) PROVE e[1] = n /\ ~IsNode(Link(<<n, 1>>))
    <3>1. PICK c \in 1..B : e = Spot(n, c)
      BY <1>1, <2>4
    <3>2. ~IsNode(Link(<<n, 1>>))
      <4>1. ASSUME IsNode(Link(<<n, 1>>)) PROVE FALSE
        <5>1. e[2] = 0
          <6>1. e = <<Link(<<n, c>>)[2], 0>>
            BY <1>8, <3>1, <4>1
          <6> QED  BY <6>1
        <5> QED  BY <2>1, <5>1
      <4> QED  BY <4>1
    <3>3. e[1] = n
      <4>1. e = <<n, c>>
        BY <1>9, <3>1, <3>2
      <4> QED  BY <4>1
    <3> QED  BY <3>2, <3>3
  <2> QED  BY <1>7, <2>2, <2>3, <2>4
<1>17. \A e \in Slots :
         IF at[t] = "build"
         THEN /\ Empty(e) => e[1] \in V \/ e \in Places(t)'
              /\ Filled(e) => e[1] \notin V
              /\ e \in Places(t)' => Empty(e)
         ELSE /\ Filled(e) => e[1] \in V \/ e \in Places(t)'
              /\ Empty(e) => e[1] \notin V
              /\ e \in Places(t)' => Filled(e)
  <2> SUFFICES ASSUME NEW e \in Slots
               PROVE  IF at[t] = "build"
                      THEN /\ Empty(e) => e[1] \in V \/ e \in Places(t)'
                           /\ Filled(e) => e[1] \notin V
                           /\ e \in Places(t)' => Empty(e)
                      ELSE /\ Filled(e) => e[1] \in V \/ e \in Places(t)'
                           /\ Empty(e) => e[1] \notin V
                           /\ e \in Places(t)' => Filled(e)
    OBVIOUS
  <2>1. Empty(e) => ~IsNode(Link(e))
    BY ObjectCases DEF Empty
  <2>2. Filled(e) => ~IsNode(Link(e))
    BY DEF Filled
  <2>3. e[1] = n /\ ~IsNode(Link(<<n, 1>>)) =>
          (at[t] = "gather" => Filled(e)) /\ (at[t] = "build" => Empty(e))
    <3>1. ASSUME e[1] = n PROVE \E c \in 1..B : e = <<n, c>>
      BY <3>1, SlotParts
    <3> QED  BY <1>9, <3>1
  <2>4. CASE at[t] = "build"
    <3>1. /\ Empty(e) => e[1] \in U \/ e \in Places(t)
          /\ Filled(e) => e[1] \notin U
          /\ e \in Places(t) => Empty(e)
      BY <2>4 DEF CoverOf
    <3> QED  BY <1>16, <2>1, <2>3, <2>4, <3>1
  <2>5. CASE at[t] = "gather"
    <3>1. /\ Filled(e) => e[1] \in U \/ e \in Places(t)
          /\ Empty(e) => e[1] \notin U
          /\ e \in Places(t) => Filled(e)
      BY <2>5 DEF CoverOf
    <3> QED  BY <1>16, <2>2, <2>3, <2>5, <3>1
  <2> QED  BY <2>4, <2>5
<1>18. \A e \in Slots : (Empty(e)' <=> Empty(e)) /\ (Filled(e)' <=> Filled(e))
  BY DEF Empty, Filled
<1>19. \A m \in V : (\A c \in 1..B : ~IsNode(Link(<<m, c>>)')) \/ (\A c \in 1..B : IsNode(Link(<<m, c>>)'))
  <2>1. \A m \in V, c \in 1..B : <<m, c>> \in Slots
    BY SlotParts
  <2>2. \A m \in V, c \in 1..B : Link(<<m, c>>)' = Link(<<m, c>>)
    BY <2>1
  <2> QED  BY <2>2 DEF CoverOf
<1>20. CoverOf(t, V)'
  BY <1>12, <1>13, <1>14, <1>15, <1>17, <1>18, <1>19 DEF CoverOf
<1> QED
  BY <1>1, <1>3, <1>5, <1>10, <1>11, <1>20 DEF NewPlaces

\* Keys for an earlier child are smaller.
LEMMA ChildOrder ==
    ASSUME ShapeType, NEW n \in 1..Len(nodes), NEW k \in Key, NEW m \in Key, Child(n, k) < Child(n, m)
    PROVE  k < m
<1>1. k \in Nat /\ m \in Nat /\ nodes[n].keys \in [1..(B - 1) -> Nat]
  BY SlotParts, KeyType DEF NodeType
<1>2. Child(n, k) \in 1..B /\ Child(n, m) \in 1..B
  BY <1>1, ChildType DEF Child
<1>3. ASSUME m <= k PROVE FALSE
  <2>1. Child(n, m) <= Child(n, k)
    BY <1>1, <1>3, ChildMonotone DEF Child
  <2> QED  BY <1>2, <2>1
<1> QED
  BY <1>1, <1>3

\* gatherAll goes from a node to its children, from the left to the right.
LEMMA GatherNodeStep ==
    ASSUME NEW U, NEW K, Known(U, K), NEW t \in Thread, GatherNode(t)
    PROVE  \E V, J : Known(V, J)'
<1>1. Rebuild(t) /\ at[t] = "gather" /\ Gathers(t) /\ Head(todo[t]).child = 0
  BY DEF Rebuild, GatherNode, Gathers
<1>2. /\ ShapeType /\ WalkType /\ ChangeType /\ TreeletInv /\ LinkInv /\ LeafInv /\ ChangeOf(t) /\ CoverOf(t, U)
      /\ OpType /\ U \in SUBSET (1..Len(nodes)) /\ K \in [1..Len(nodes) -> SUBSET Key] /\ GatherOf(t, K)
      /\ KeyInv(U, K)
  BY <1>1, KnownParts DEF ChangeInv, CoverInv, GatherInv
<1>3. /\ nodes' = nodes /\ head' = head /\ trees' = trees /\ idx' = idx /\ cur' = cur /\ v' = v /\ at' = at
      /\ todo' = [todo EXCEPT ![t] = Below(Head(@)) \o Tail(@)]
  BY DEF GatherNode, treeVars, walkVars
<1>4. PICK n : n = Head(todo[t]).node
  OBVIOUS
<1>5. todo[t] # <<>> /\ nodes # <<>> /\ Head(todo[t]) = todo[t][1] /\ 1 \in 1..Len(todo[t]) /\ todo[t][1] \in Tasks
  BY <1>1, <1>2 DEF ChangeOf, ChangeType
<1>6. n \in U
  <2>1. PICK p : p = Place(todo[t][1])
    OBVIOUS
  <2>2. p \in Places(t) /\ p[1] = n /\ p[2] = 0
    BY <1>1, <1>4, <1>5, <2>1 DEF Places, Place
  <2> QED  BY <1>2, <2>2 DEF CoverOf
<1>7. Unfolded(t, n) /\ todo' \in [Thread -> Seq(Tasks)]
  <2>1. (\A c \in 1..B : ~IsNode(Link(<<n, c>>))) \/ (\A c \in 1..B : IsNode(Link(<<n, c>>)))
    BY <1>2, <1>6 DEF CoverOf
  <2> QED  BY <1>1, <1>2, <1>3, <1>4, <1>5, <2>1, TodoUnfolds
<1>8. PICK V : V = U \ {n}
  OBVIOUS
<1>9. /\ Slots' = Slots /\ Len(nodes') = Len(nodes) /\ Object' = Object /\ Tasks' = Tasks
      /\ \A e : Link(e)' = Link(e)
      /\ \A e : (Empty(e)' <=> Empty(e)) /\ (Filled(e)' <=> Filled(e))
      /\ \A e : KeysOf(K, e)' = KeysOf(K, e)
  BY <1>3, NodesSame
<1>10. CoverOf(t, V)' /\ \A c \in 1..B : <<n, c>> \in Slots
  <2>1. at'[t] = at[t] /\ at[t] \in {"gather", "build"}
    BY <1>1, <1>3
  <2>2. CoverOf(t, V)' /\ NewPlaces(t, n)
    <3>1. Unfolded(t, n) /\ Slots' = Slots /\ \A e : Link(e)' = Link(e)
      BY <1>7, <1>9
    <3> QED  BY <1>2, <1>8, <2>1, <3>1, CoverUnfolds
  <2> QED  BY <2>2 DEF NewPlaces
<1>11. /\ ShapeType' /\ LinkInv' /\ K \in [1..Len(nodes') -> SUBSET Key]
       /\ nodes' # <<>> => K[1] = Key
       /\ \A e \in Slots' : (at'[t] = "build" => e[1] \notin V) =>
            IF IsNode(Link(e)') THEN K[Link(e)'[2]] = KeysOf(K, e)' ELSE Items(Link(e))' \subseteq KeysOf(K, e)'
       /\ \A e, f \in Ends(t, V)' : e # f => KeysOf(K, e)' \intersect KeysOf(K, f)' = {}
       /\ \A u \in Thread : at[u] = "own" => Leads(K, cur[u], key[u])'
  <2>1. Still
    BY <1>2, <1>3, <1>9 DEF Still, ShapeType, Items
  <2>2. SameEnds(t, U, V)
    BY <1>1, <1>3 DEF SameEnds
  <2> QED  BY <1>1, <2>1, <2>2, StillTree
<1>12. WalkType' /\ ChangeType'
  BY <1>2, <1>3, <1>7, <1>9 DEF WalkType, ChangeType
<1>13. TreeletInv'
  BY <1>2, <1>3 DEF TreeletInv, Has
<1>14. ChangeOf(t)'
  BY <1>1, <1>2, <1>3, <1>7 DEF ChangeOf, Gathers, Unfolded
\* The keys for what is below the node.
<1>15. ASSUME NEW c \in 1..B
       PROVE  KeysOf(K, Spot(n, c)) = {k \in K[n] : Child(n, k) = c}
  <2>1. PICK e : e = <<n, c>>
    OBVIOUS
  <2>2. e \in Slots /\ e[1] = n /\ e[2] = c /\ c # 0
    BY <1>10, <2>1, BType
  <2>3. KeysOf(K, e) = {k \in K[n] : Child(n, k) = c}
    BY <2>2 DEF KeysOf
  <2>4. CASE IsNode(Link(<<n, 1>>))
    <3>1. IsNode(Link(e))
      <4>1. 1 \in 1..B
        BY BType
      <4> QED  BY <1>2, <1>6, <2>1, <2>4, <4>1 DEF CoverOf
    <3>2. K[Link(e)[2]] = KeysOf(K, e)
      <4>1. e[1] \in Ready(U)
        BY <1>1, <1>2, <1>6, <2>2, FrontierBefore
      <4> QED  BY <1>2, <2>2, <3>1, <4>1 DEF KeyInv
    <3>3. KeysOf(K, <<Link(e)[2], 0>>) = K[Link(e)[2]]
      BY DEF KeysOf
    <3> QED  BY <2>1, <2>3, <2>4, <3>2, <3>3 DEF Spot
  <2>5. CASE ~IsNode(Link(<<n, 1>>))
    BY <2>1, <2>3, <2>5 DEF Spot
  <2> QED  BY <2>4, <2>5
<1>16. KeysOf(K, Place(todo[t][1])) = K[n] /\ K[n] \in SUBSET Key
  <2>1. KeysOf(K, <<n, 0>>) = K[n]
    BY DEF KeysOf
  <2> QED  BY <1>2, <1>6, <1>7, <2>1 DEF Unfolded
<1>17. GatherOf(t, K)'
  <2>1. \A k \in Range(v'[t]) : \E e \in Slots' : Empty(e)' /\ k \in KeysOf(K, e)'
    BY <1>2, <1>3, <1>9 DEF GatherOf
  <2>2. ASSUME NEW j \in 1..Len(todo'[t]), NEW k \in Range(v[t]), NEW m \in KeysOf(K, Place(todo'[t][j]))
        PROVE  k < m
    <3>1. CASE j \in 1..B
      <4>1. m \in KeysOf(K, Place(todo[t][1]))
        BY <1>7, <1>15, <1>16, <2>2, <3>1 DEF Unfolded
      <4> QED  BY <1>1, <1>2, <1>5, <4>1 DEF GatherOf
    <3>2. CASE ~(j \in 1..B)
      <4>1. PICK l \in 2..Len(todo[t]) : todo'[t][j] = todo[t][l]
        BY <1>7, <3>2 DEF Unfolded
      <4>2. l \in 1..Len(todo[t])
        BY <1>5
      <4> QED  BY <1>1, <1>2, <2>2, <4>1, <4>2 DEF GatherOf
    <3> QED  BY <3>1, <3>2
  <2>3. ASSUME NEW j \in 1..Len(todo'[t]), NEW l \in 1..Len(todo'[t]), j < l,
               NEW k \in KeysOf(K, Place(todo'[t][j])), NEW m \in KeysOf(K, Place(todo'[t][l]))
        PROVE  k < m
    <3>0. \A a, d \in 1..Len(todo[t]) : a < d =>
            \A x \in KeysOf(K, Place(todo[t][a])), y \in KeysOf(K, Place(todo[t][d])) : x < y
      BY <1>2 DEF GatherOf
    <3>1. CASE j \in 1..B /\ l \in 1..B
      <4>1. k \in K[n] /\ Child(n, k) = j /\ m \in K[n] /\ Child(n, m) = l
        BY <1>7, <1>15, <2>3, <3>1 DEF Unfolded
      <4>2. n \in 1..Len(nodes) /\ k \in Key /\ m \in Key
        BY <1>2, <1>6, <1>16, <4>1
      <4> QED  BY <1>2, <2>3, <4>1, <4>2, ChildOrder
    <3>2. CASE j \in 1..B /\ ~(l \in 1..B)
      <4>1. k \in KeysOf(K, Place(todo[t][1]))
        BY <1>7, <1>15, <1>16, <2>3, <3>2 DEF Unfolded
      <4>2. PICK d \in 2..Len(todo[t]) : todo'[t][l] = todo[t][d]
        BY <1>7, <3>2 DEF Unfolded
      <4>3. d \in 1..Len(todo[t]) /\ 1 < d
        BY <1>5
      <4>4. m \in KeysOf(K, Place(todo[t][d]))
        BY <2>3, <4>2
      <4> QED  BY <1>5, <3>0, <4>1, <4>3, <4>4
    <3>3. CASE ~(j \in 1..B)
      <4>1. ~(l \in 1..B)
        BY <2>3, <3>3, BType
      <4>2. /\ j - B + 1 \in 2..Len(todo[t]) /\ todo'[t][j] = todo[t][j - B + 1]
            /\ l - B + 1 \in 2..Len(todo[t]) /\ todo'[t][l] = todo[t][l - B + 1]
        BY <1>7, <3>3, <4>1 DEF Unfolded
      <4>3. j - B + 1 < l - B + 1 /\ j - B + 1 \in 1..Len(todo[t]) /\ l - B + 1 \in 1..Len(todo[t])
        BY <1>5, <2>3, <4>2, BType
      <4>4. k \in KeysOf(K, Place(todo[t][j - B + 1])) /\ m \in KeysOf(K, Place(todo[t][l - B + 1]))
        BY <2>3, <4>2
      <4> QED  BY <3>0, <4>3, <4>4
    <3> QED  BY <3>1, <3>2, <3>3
  <2>4. \A j : KeysOf(K, Place(todo[t][j]))' = KeysOf(K, Place(todo'[t][j]))
    BY <1>3 DEF KeysOf, Child, Place
  <2>5. \A j \in 1..Len(todo'[t]) : \A k \in Range(v'[t]), m \in KeysOf(K, Place(todo[t][j]))' : k < m
    BY <1>3, <2>2, <2>4
  <2>6. \A j, l \in 1..Len(todo'[t]) : j < l =>
          \A k \in KeysOf(K, Place(todo[t][j]))', m \in KeysOf(K, Place(todo[t][l]))' : k < m
    BY <2>3, <2>4
  <2> QED  BY <2>1, <2>5, <2>6 DEF GatherOf
<1>18. \A m \in 1..Len(nodes') :
         (\A c \in 1..B : ~IsNode(Link(<<m, c>>)')) \/ (\A c \in 1..B : IsNode(Link(<<m, c>>)'))
  <2>1. ~Building
    BY <1>1, Alone
  <2> QED  BY <1>2, <1>9, <2>1 DEF LeafInv
<1>19. Gathers(t)' /\ at'[t] \notin {"build", "oldroot"}
  BY <1>1, <1>3 DEF Gathers
<1>20. V \in SUBSET (1..Len(nodes'))
  BY <1>2, <1>8, <1>9
<1>21. Rebuilt(t, V, K)
  BY <1>10, <1>11, <1>12, <1>13, <1>14, <1>17, <1>18, <1>19, <1>20 DEF Rebuilt
<1> QED
  BY <1>1, <1>21, RebuildKnows

\* Keys after smaller keys.
LEMMA SortedAfter ==
    ASSUME NEW s \in Seq(Key), NEW q \in Seq(Key), Sorted(s), Sorted(q),
           \A k \in Range(s), m \in Range(q) : k < m
    PROVE  /\ s \o q \in Seq(Key) /\ Sorted(s \o q)
           /\ \A k : k \in Range(s \o q) <=> k \in Range(s) \/ k \in Range(q)
<1>1. PICK r : r = s \o q
  OBVIOUS
<1>2. /\ r \in Seq(Key) /\ Len(r) = Len(s) + Len(q)
      /\ \A p \in 1..Len(s) : r[p] = s[p]
      /\ \A p \in 1..Len(q) : r[Len(s) + p] = q[p]
  BY <1>1, Concatenation
<1>3. \A p \in 1..Len(r) : \/ p \in 1..Len(s) /\ r[p] = s[p]
                           \/ p - Len(s) \in 1..Len(q) /\ r[p] = q[p - Len(s)]
  <2>1. ASSUME NEW p \in 1..Len(r), ~(p \in 1..Len(s))
        PROVE  p - Len(s) \in 1..Len(q) /\ r[p] = q[p - Len(s)]
    <3>1. p - Len(s) \in 1..Len(q) /\ Len(s) + (p - Len(s)) = p
      BY <1>2, <2>1
    <3> QED  BY <1>2, <3>1
  <2>2. \A p \in 1..Len(s) : r[p] = s[p]
    BY <1>2
  <2> QED  BY <2>1, <2>2
<1>4. /\ \A p \in 1..Len(s) : s[p] \in Range(s) /\ p \in 1..Len(r)
      /\ \A p \in 1..Len(q) : q[p] \in Range(q) /\ Len(s) + p \in 1..Len(r)
  BY <1>2 DEF Range
<1>5. Sorted(r)
  <2> SUFFICES ASSUME NEW j \in 1..Len(r), NEW l \in 1..Len(r), j < l PROVE r[j] < r[l]
    BY DEF Sorted
  <2>1. CASE l \in 1..Len(s)
    <3>1. j \in 1..Len(s)
      BY <2>1
    <3> QED  BY <1>2, <2>1, <3>1 DEF Sorted
  <2>2. CASE ~(l \in 1..Len(s)) /\ j \in 1..Len(s)
    <3>1. r[j] = s[j] /\ s[j] \in Range(s)
      BY <1>2, <1>4, <2>2
    <3>2. l - Len(s) \in 1..Len(q) /\ r[l] = q[l - Len(s)]
      BY <1>3, <2>2
    <3>3. q[l - Len(s)] \in Range(q)
      BY <1>4, <3>2
    <3> QED  BY <3>1, <3>2, <3>3
  <2>3. CASE ~(l \in 1..Len(s)) /\ ~(j \in 1..Len(s))
    <3>1. j - Len(s) \in 1..Len(q) /\ l - Len(s) \in 1..Len(q) /\ r[j] = q[j - Len(s)] /\ r[l] = q[l - Len(s)]
      BY <1>3, <2>3
    <3>2. j - Len(s) < l - Len(s)
      OBVIOUS
    <3> QED  BY <3>1, <3>2 DEF Sorted
  <2> QED  BY <2>1, <2>2, <2>3
<1>6. ASSUME NEW k PROVE k \in Range(r) <=> k \in Range(s) \/ k \in Range(q)
  <2>1. /\ k \in Range(r) <=> \E p \in 1..Len(r) : k = r[p]
        /\ k \in Range(s) <=> \E p \in 1..Len(s) : k = s[p]
        /\ k \in Range(q) <=> \E p \in 1..Len(q) : k = q[p]
    <3>1. DOMAIN r = 1..Len(r) /\ DOMAIN s = 1..Len(s) /\ DOMAIN q = 1..Len(q)
      BY <1>2
    <3> QED  BY <3>1 DEF Range
  <2>2. k \in Range(r) => k \in Range(s) \/ k \in Range(q)
    BY <1>3, <2>1
  <2>3. k \in Range(s) => k \in Range(r)
    BY <1>2, <1>4, <2>1
  <2>4. k \in Range(q) => k \in Range(r)
    BY <1>2, <1>4, <2>1
  <2> QED  BY <2>2, <2>3, <2>4
<1> QED
  BY <1>1, <1>2, <1>5, <1>6

\* The keys of the treelet go from the tree to the end of the vector, in order, and NULL_TREE
\* takes its place.
LEMMA GatherTakeStep ==
    ASSUME NEW U, NEW K, Known(U, K), NEW t \in Thread, GatherTake(t)
    PROVE  SameKept /\ \E V, J : Known(V, J)'
<1>1. Rebuild(t) /\ at[t] = "take" /\ Gathers(t) /\ Has(t)
  BY DEF Rebuild, GatherTake, Gathers, Has
<1>2. /\ ShapeType /\ WalkType /\ ChangeType /\ TreeletInv /\ LinkInv /\ LeafInv /\ ChangeOf(t) /\ CoverOf(t, U)
      /\ OpType /\ U \in SUBSET (1..Len(nodes)) /\ K \in [1..Len(nodes) -> SUBSET Key] /\ GatherOf(t, K)
      /\ KeyInv(U, K)
  BY <1>1, KnownParts DEF ChangeInv, CoverInv, GatherInv
<1>3. /\ todo[t] # <<>> /\ nodes # <<>> /\ Head(todo[t]) = todo[t][1] /\ 1 \in 1..Len(todo[t])
      /\ todo[t][1] \in Tasks /\ todo[t][1].child > 0
  BY <1>1, <1>2 DEF ChangeOf, ChangeType
<1>4. PICK n : n = todo[t][1].node
  OBVIOUS
<1>5. PICK c : c = todo[t][1].child
  OBVIOUS
<1>6. PICK e0 : e0 = <<n, c>>
  OBVIOUS
<1>7. /\ n \in 1..Len(nodes) /\ c \in 1..B /\ e0 \in Slots /\ Place(todo[t][1]) = e0 /\ e0 \in Places(t)
      /\ e0[1] = n /\ e0[2] = c /\ c # 0
  BY SMTT(30), <1>2, <1>3, <1>4, <1>5, <1>6, SlotParts, BType DEF Tasks, Place, Places
<1>8. Filled(e0) /\ cur[t] = Link(e0) /\ ~IsNode(Link(e0)) /\ ~Empty(e0) /\ Link(e0) \in Object
  <2>1. Filled(e0)
    BY <1>1, <1>2, <1>7 DEF CoverOf
  <2> QED  BY <1>1, <1>2, <1>3, <1>7, <2>1, SlotParts DEF ChangeOf, Filled
<1>9. /\ head' = head /\ trees' = trees /\ idx' = idx /\ cur' = cur /\ todo' = todo
      /\ at' = [at EXCEPT ![t] = "drop"]
      /\ v' = [v EXCEPT ![t] = v[t] \o InOrder(Items(cur[t]))]
      /\ nodes' = [nodes EXCEPT ![n].next[c] = NullTree]
  BY <1>3, <1>4, <1>5 DEF GatherTake, Goto, walkVars
<1>10. at'[t] = "drop" /\ v'[t] = v[t] \o InOrder(Items(cur[t])) /\ todo'[t] = todo[t] /\ cur'[t] = cur[t]
  BY <1>2, <1>9 DEF OpType, ChangeType
<1>11. NullTree \in Object /\ ~IsNode(NullTree)
  <2>1. 1 \in 1..Len(trees)
    BY <1>2 DEF ShapeType
  <2> QED  BY <2>1, ObjectCases
<1>12. /\ nodes' \in Seq(NodeType) /\ Len(nodes') = Len(nodes)
       /\ \A m \in 1..Len(nodes) : nodes'[m].keys = nodes[m].keys
       /\ \A m \in 1..Len(nodes), d \in 1..B :
            nodes'[m].next[d] = IF m = n /\ d = c THEN NullTree ELSE nodes[m].next[d]
  <2>1. PICK S : S = Object
    OBVIOUS
  <2>2. Object \subseteq S /\ NullTree \in S
    BY <1>11, <2>1
  <2>3. /\ nodes' \in Seq([keys : [1..(B - 1) -> Key \union {0}], next : [1..B -> S]])
        /\ Len(nodes') = Len(nodes)
        /\ \A m \in 1..Len(nodes) : nodes'[m].keys = nodes[m].keys
        /\ \A m \in 1..Len(nodes), d \in 1..B :
             nodes'[m].next[d] = IF m = n /\ d = c THEN NullTree ELSE nodes[m].next[d]
    <3>1. nodes' = LinkSet(n, c, NullTree)
      BY <1>9 DEF LinkSet
    <3>2. ShapeType /\ n \in 1..Len(nodes) /\ c \in 1..B
      BY <1>2, <1>7
    <3>3. LinkIsSet(n, c, NullTree, S)
      BY <2>2, <3>2, LinkUpdate, Zenon
    <3> QED  BY <3>1, <3>3 DEF LinkIsSet
  <2> QED  BY <2>1, <2>3 DEF NodeType
<1>13. /\ Slots' = Slots /\ Object' = Object /\ NodeType' = NodeType /\ Tasks' = Tasks /\ nodes' # <<>>
  <2>1. Slots' = Slots /\ Object' = Object /\ Tasks' = Tasks
    BY <1>9, <1>12 DEF Slots, Object, Tasks
  <2>2. NodeType' = NodeType
    BY <2>1 DEF NodeType
  <2>3. Len(nodes) # 0
    BY <1>2, <1>3 DEF ShapeType
  <2> QED  BY <1>12, <2>1, <2>2, <2>3
<1>14. ASSUME NEW e \in Slots
       PROVE  /\ Link(e)' = IF e = e0 THEN NullTree ELSE Link(e)
              /\ (IsNode(Link(e)') <=> IsNode(Link(e))) /\ (IsNode(Link(e)) => Link(e)' = Link(e))
              /\ Empty(e)' <=> Empty(e) \/ e = e0
              /\ Filled(e)' <=> Filled(e) /\ e # e0
              /\ KeysOf(K, e)' = KeysOf(K, e)
  <2>1. e[1] \in 1..Len(nodes) /\ e[2] \in 1..B /\ e = <<e[1], e[2]>> /\ e[2] # 0
    BY <1>2, SlotParts, BType
  <2>2. e = e0 <=> e[1] = n /\ e[2] = c
    BY <1>6, <1>7, <2>1
  <2>3. Link(e)' = IF e = e0 THEN NullTree ELSE Link(e)
    BY <1>12, <2>1, <2>2 DEF Link
  <2>4. /\ (IsNode(Link(e)') <=> IsNode(Link(e))) /\ (IsNode(Link(e)) => Link(e)' = Link(e))
    BY <1>8, <1>11, <2>3
  <2>5. /\ Empty(e)' <=> Empty(e) \/ e = e0
        /\ Filled(e)' <=> Filled(e) /\ e # e0
    BY <1>8, <1>11, <2>3 DEF Empty, Filled
  <2>6. KeysOf(K, e)' = KeysOf(K, e)
    BY <1>12, <2>1 DEF KeysOf, Child
  <2> QED  BY <2>3, <2>4, <2>5, <2>6
<1>15. Places(t)' = Places(t)
  BY <1>9 DEF Places
<1>16. \A p \in Places(t) : KeysOf(K, p)' = KeysOf(K, p)
  <2> SUFFICES ASSUME NEW p \in Places(t) PROVE KeysOf(K, p)' = KeysOf(K, p)
    OBVIOUS
  <2>1. p[1] \in 1..Len(nodes)
    <3>1. PICK j \in 1..Len(todo[t]) : p = Place(todo[t][j])
      BY DEF Places
    <3>2. todo[t][j] \in Tasks
      BY <1>2 DEF ChangeType
    <3> QED  BY <3>1, <3>2 DEF Place, Tasks
  <2> QED  BY <1>12, <2>1 DEF KeysOf, Child
<1>17. ShapeType'
  BY <1>2, <1>9, <1>12, <1>13 DEF ShapeType, TreeType
<1>18. LinkInv'
  <2>1. \A m \in 2..Len(nodes') : \E e \in Slots' : Link(e)' = Node(m)
    <3> SUFFICES ASSUME NEW m \in 2..Len(nodes) PROVE \E e \in Slots : Link(e)' = Node(m)
      BY <1>12, <1>13
    <3>1. PICK e \in Slots : Link(e) = Node(m)
      BY <1>2 DEF LinkInv
    <3>2. IsNode(Link(e))
      BY <3>1, ObjectCases
    <3> QED  BY <1>14, <3>1, <3>2
  <2>2. \A e \in Slots' : IsNode(Link(e)') => e[1] < Link(e)'[2]
    BY <1>2, <1>13, <1>14 DEF LinkInv
  <2>3. \A e, f \in Slots' : Link(e)' = Link(f)' /\ ~Empty(e)' => e = f
    <3> SUFFICES ASSUME NEW e \in Slots, NEW f \in Slots, Link(e)' = Link(f)', ~Empty(e)' PROVE e = f
      BY <1>13
    <3>1. ~Empty(f)'
      BY DEF Empty
    <3> QED  BY <1>2, <1>14, <3>1 DEF LinkInv
  <2>4. head' = Node(1)
    BY <1>2, <1>3, <1>9 DEF LinkInv
  <2> QED  BY <1>13, <2>1, <2>2, <2>3, <2>4 DEF LinkInv
\* The keys of the treelet, after those gathered before.
<1>19. Items(cur[t]) \in SUBSET Key /\ Items(cur[t]) \subseteq KeysOf(K, e0)
  <2>1. Items(Link(e0)) \in SUBSET Key
    BY <1>2, <1>8, ObjectCases, SlotParts DEF Items
  <2>2. e0[1] \in Ready(U)
    BY <1>1, <1>7, FrontierBefore
  <2> QED  BY <1>2, <1>7, <1>8, <2>1, <2>2 DEF KeyInv
<1>20. PICK q : q = InOrder(Items(cur[t]))
  OBVIOUS
<1>21. q \in Seq(Key) /\ Sorted(q) /\ Range(q) = Items(cur[t])
  BY <1>19, <1>20, InOrderProperties
<1>22. /\ v'[t] \in Seq(Key) /\ Sorted(v'[t])
       /\ \A k : k \in Range(v'[t]) <=> k \in Range(v[t]) \/ k \in Range(q)
  <2>1. PICK s : s = v[t]
    OBVIOUS
  <2>2. s \in Seq(Key) /\ Sorted(s)
    BY <1>2, <2>1 DEF ChangeType, ChangeOf, Sorted
  <2>3. \A k \in Range(s), m \in Range(q) : k < m
    <3>1. \A k \in Range(v[t]), m \in KeysOf(K, Place(todo[t][1])) : k < m
      BY <1>1, <1>2, <1>3 DEF GatherOf
    <3> QED  BY <1>7, <1>19, <1>21, <2>1, <3>1
  <2>4. v'[t] = s \o q
    BY <1>10, <1>20, <2>1
  <2>5. s \o q \in Seq(Key) /\ Sorted(s \o q) /\ \A k : k \in Range(s \o q) <=> k \in Range(s) \/ k \in Range(q)
    BY <1>21, <2>2, <2>3, SortedAfter
  <2> QED  BY <2>1, <2>4, <2>5
<1>23. WalkType' /\ ChangeType'
  BY <1>2, <1>9, <1>10, <1>13, <1>22 DEF WalkType, ChangeType
<1>24. TreeletInv'
  BY <1>1, <1>2, <1>9 DEF TreeletInv, Has, OpType
<1>25. \A e \in Slots' : Link(e)' # cur'[t]
  <2>1. \A e \in Slots : e # e0 => Link(e) # Link(e0)
    BY <1>2, <1>7, <1>8 DEF LinkInv
  <2>2. NullTree # Link(e0)
    BY <1>8 DEF Empty
  <2> QED  BY <1>8, <1>10, <1>13, <1>14, <2>1, <2>2
<1>26. ChangeOf(t)'
  BY <1>1, <1>2, <1>3, <1>9, <1>10, <1>13, <1>22, <1>25 DEF ChangeOf, Gathers, Sorted
<1>27. CoverOf(t, U)'
  <2>1. \A j, l \in 1..Len(todo'[t]) : Place(todo'[t][j]) = Place(todo'[t][l]) => j = l
    BY <1>2, <1>9 DEF CoverOf
  <2>2. \A m \in U : <<m, 0>> \in Places(t) \/ \E e \in Slots : e[1] \in U /\ Link(e)' = Node(m)
    <3> SUFFICES ASSUME NEW m \in U, ~(<<m, 0>> \in Places(t))
                 PROVE  \E e \in Slots : e[1] \in U /\ Link(e)' = Node(m)
      OBVIOUS
    <3>1. PICK e \in Slots : e[1] \in U /\ Link(e) = Node(m)
      BY <1>2 DEF CoverOf
    <3>2. IsNode(Link(e))
      BY <3>1, ObjectCases
    <3> QED  BY <1>14, <3>1, <3>2
  <2>3. \A p \in Places(t) :
          IF p[2] = 0 THEN p[1] \in U /\ \A e \in Slots : e[1] \in U => Link(e)' # Node(p[1])
          ELSE p[1] \notin U
    <3>1. \A e \in Slots : \A m : Link(e)' = Node(m) => Link(e) = Node(m)
      BY <1>11, <1>14, ObjectCases
    <3> QED  BY <1>2, <3>1 DEF CoverOf
  <2>4. \A e \in Slots : e[1] \in U /\ IsNode(Link(e)') => Link(e)'[2] \in U
    BY <1>2, <1>14 DEF CoverOf
  <2>5. \A m \in U : (\A d \in 1..B : ~IsNode(Link(<<m, d>>)')) \/ (\A d \in 1..B : IsNode(Link(<<m, d>>)'))
    <3>1. \A m \in U, d \in 1..B : <<m, d>> \in Slots
      BY <1>2, SlotParts
    <3> QED  BY <1>2, <1>14, <3>1 DEF CoverOf
  <2>6. \A e \in Slots :
          /\ Filled(e)' => e[1] \in U \/ e \in Places(t)
          /\ Empty(e)' => e[1] \notin U
          /\ e \in Places(t) => IF e = e0 THEN Empty(e)' ELSE Filled(e)'
    <3>1. e0[1] \notin U
      BY <1>2, <1>7 DEF CoverOf
    <3>2. \A e \in Slots : /\ Filled(e) => e[1] \in U \/ e \in Places(t)
                           /\ Empty(e) => e[1] \notin U
                           /\ e \in Places(t) => Filled(e)
      BY <1>1, <1>2 DEF CoverOf
    <3> QED  BY <1>14, <3>1, <3>2
  <2>7. Place(Head(todo[t]))' = e0
    BY <1>3, <1>7, <1>9 DEF Place
  <2> QED  BY <1>10, <1>13, <1>15, <2>1, <2>2, <2>3, <2>4, <2>5, <2>6, <2>7 DEF CoverOf
<1>28. GatherOf(t, K)'
  <2>1. \A k \in Range(v'[t]) : \E e \in Slots' : Empty(e)' /\ k \in KeysOf(K, e)'
    <3> SUFFICES ASSUME NEW k \in Range(v'[t]) PROVE \E e \in Slots : Empty(e)' /\ k \in KeysOf(K, e)'
      BY <1>13
    <3>1. CASE k \in Range(v[t])
      <4>1. PICK e \in Slots : Empty(e) /\ k \in KeysOf(K, e)
        BY <1>2, <3>1 DEF GatherOf
      <4> QED  BY <1>14, <4>1
    <3>2. CASE k \in Range(q)
      BY <1>7, <1>14, <1>19, <1>21, <3>2
    <3> QED  BY <1>22, <3>1, <3>2
  <2>2. \A j \in 1..Len(todo[t]) : Place(todo[t][j]) \in Places(t)
    BY DEF Places
  <2>3. \A j \in 1..Len(todo[t]) : KeysOf(K, Place(todo[t][j]))' = KeysOf(K, Place(todo[t][j]))
    <3> SUFFICES ASSUME NEW j \in 1..Len(todo[t])
                 PROVE  KeysOf(K, Place(todo[t][j]))' = KeysOf(K, Place(todo[t][j]))
      OBVIOUS
    <3>1. PICK p : p = Place(todo[t][j])
      OBVIOUS
    <3>2. KeysOf(K, p)' = KeysOf(K, p)
      BY <1>16, <2>2, <3>1
    <3>3. Place(todo[t][j])' = p
      BY <1>9, <3>1 DEF Place
    <3> QED  BY <3>1, <3>2, <3>3 DEF KeysOf, Child
  <2>4. ASSUME NEW j \in 1..Len(todo[t]), j > 1, NEW k \in Range(v'[t]), NEW m \in KeysOf(K, Place(todo[t][j]))
        PROVE  k < m
    <3>1. CASE k \in Range(v[t])
      BY <1>1, <1>2, <2>4, <3>1 DEF GatherOf
    <3>2. CASE k \in Range(q)
      <4>1. k \in KeysOf(K, Place(todo[t][1]))
        BY <1>7, <1>19, <1>21, <3>2
      <4> QED  BY <1>2, <1>3, <2>4, <4>1 DEF GatherOf
    <3> QED  BY <1>22, <3>1, <3>2
  <2>5. \A j \in 1..Len(todo'[t]) : j > 1 \/ at'[t] # "drop" =>
          \A k \in Range(v'[t]), m \in KeysOf(K, Place(todo[t][j]))' : k < m
    BY <1>10, <2>3, <2>4
  <2>6. \A j, l \in 1..Len(todo'[t]) : j < l =>
          \A k \in KeysOf(K, Place(todo[t][j]))', m \in KeysOf(K, Place(todo[t][l]))' : k < m
    BY <1>2, <1>10, <2>3 DEF GatherOf
  <2> QED  BY <2>1, <2>5, <2>6 DEF GatherOf
<1>29. \A m \in 1..Len(nodes') :
         (\A d \in 1..B : ~IsNode(Link(<<m, d>>)')) \/ (\A d \in 1..B : IsNode(Link(<<m, d>>)'))
  <2>1. ~Building
    BY <1>1, Alone
  <2>2. \A m \in 1..Len(nodes), d \in 1..B : <<m, d>> \in Slots
    BY <1>2, SlotParts
  <2> QED  BY <1>2, <1>12, <1>14, <2>1, <2>2 DEF LeafInv
<1>30. \A e \in Slots' :
         IF IsNode(Link(e)') THEN K[Link(e)'[2]] = KeysOf(K, e)' ELSE Items(Link(e))' \subseteq KeysOf(K, e)'
  <2> SUFFICES ASSUME NEW e \in Slots
               PROVE  IF IsNode(Link(e)') THEN K[Link(e)'[2]] = KeysOf(K, e)' ELSE Items(Link(e))' \subseteq KeysOf(K, e)'
    BY <1>13
  <2>1. e[1] \in Ready(U)
    BY <1>1, <1>2, FrontierBefore, SlotParts
  <2>2. IF IsNode(Link(e)) THEN K[Link(e)[2]] = KeysOf(K, e) ELSE Items(Link(e)) \subseteq KeysOf(K, e)
    BY <1>2, <2>1 DEF KeyInv
  <2>3. CASE e = e0
    <3>1. Items(Link(e))' = {}
      BY <1>2, <1>9, <1>14, <2>3 DEF Items, NullTree, Tree, TreeletInv
    <3> QED  BY <1>8, <1>14, <2>3, <3>1
  <2>4. CASE e # e0
    <3>1. Link(e)' = Link(e) /\ Items(Link(e))' = Items(Link(e))
      BY <1>9, <1>14, <2>4 DEF Items
    <3> QED  BY <1>14, <2>2, <3>1
  <2> QED  BY <2>3, <2>4
<1>31. \A e, f \in Ends(t, U)' : e # f => KeysOf(K, e)' \intersect KeysOf(K, f)' = {}
  <2>1. \A e \in Ends(t, U)' : e \in Slots /\ e \in Ends(t, U)
    BY <1>1, <1>10, <1>13, <1>14 DEF Ends
  <2>2. \A e, f \in Ends(t, U) : e # f => KeysOf(K, e) \intersect KeysOf(K, f) = {}
    BY <1>1, <1>2, FrontierBefore DEF KeyInv
  <2> QED  BY <1>14, <2>1, <2>2
<1>32. \A u \in Thread : at[u] = "own" => Leads(K, cur[u], key[u])'
  <2> SUFFICES ASSUME NEW u \in Thread, at[u] = "own" PROVE Leads(K, cur[u], key[u])'
    OBVIOUS
  <2>1. PICK e \in Slots : Link(e) = cur[u] /\ Filled(e) /\ key[u] \in KeysOf(K, e)
    BY <1>3, OwnedSlot
  <2>2. e # e0
    <3>1. u # t /\ Has(u)
      BY <1>1 DEF Has
    <3> QED  BY <1>1, <1>2, <1>8, <2>1, <3>1 DEF TreeletInv
  <2>3. key'[u] = key[u] /\ cur'[u] = cur[u]
    BY <1>9 DEF GatherTake, opVars
  <2>4. cur'[u] = Link(e)' /\ Filled(e)' /\ key'[u] \in KeysOf(K, e)'
    BY <1>14, <2>1, <2>2, <2>3
  <2> QED  BY <1>13, <2>4 DEF Leads
<1>33. nodes' # <<>> => K[1] = Key
  BY <1>2, <1>3 DEF KeyInv
<1>34. Gathers(t)' /\ at'[t] \notin {"build", "oldroot"}
  BY <1>10 DEF Gathers
<1>35. U \in SUBSET (1..Len(nodes')) /\ K \in [1..Len(nodes') -> SUBSET Key]
  BY <1>2, <1>12
<1>36. Rebuilt(t, U, K)
  BY <1>17, <1>18, <1>23, <1>24, <1>26, <1>27, <1>28, <1>29, <1>30, <1>31, <1>32, <1>33, <1>34, <1>35 DEF Rebuilt
\* The keys have moved from the treelet to the vector.
<1>37. SameKept
  <2> SUFFICES ASSUME NEW k PROVE Kept(k)' <=> Kept(k)
    BY DEF SameKept
  <2>1. ~InRoot(k) /\ ~InRoot(k)'
    BY <1>3, <1>13 DEF InRoot
  <2>2. \A e \in Slots : Items(Link(e))' = IF e = e0 THEN {} ELSE Items(Link(e))
    <3>1. Items(NullTree) = {}
      BY <1>2, ObjectCases DEF TreeletInv, Items
    <3>2. \A x, e : Link(e)' = x => Items(Link(e))' = Items(x)
      BY <1>9 DEF Items
    <3> QED  BY <1>14, <3>1, <3>2
  <2>3. InLeaf(k) <=> InLeaf(k)' \/ k \in Items(cur[t])
    <3>1. InLeaf(k)' <=> \E e \in Slots : ~IsNode(Link(e)) /\ e # e0 /\ k \in Items(Link(e))
      BY <1>13, <1>14, <2>2 DEF InLeaf
    <3> QED  BY <1>7, <1>8, <3>1 DEF InLeaf
  <2>4. \A u \in Thread : u # t => v'[u] = v[u]
    BY <1>2, <1>9 DEF ChangeType
  <2>5. InVector(k)' <=> InVector(k) \/ k \in Items(cur[t])
    BY <1>21, <1>22, <2>4 DEF InVector
  <2> QED  BY <2>1, <2>3, <2>5 DEF Kept
<1> QED
  BY <1>1, <1>36, <1>37, RebuildKnows

-----------------------------------------------------------------------------
(* A task that is done *)

\* The first task of thread t has been removed.
Shortened(t) ==
    /\ todo[t] \in Seq(Tasks) /\ 1 \in 1..Len(todo[t])
    /\ \A j \in 1..Len(todo'[t]) : /\ j + 1 \in 1..Len(todo[t]) /\ j + 1 > 1
                                   /\ todo'[t][j] = todo[t][j + 1]
    /\ \A j \in 1..Len(todo[t]) : j = 1 \/ \E l \in 1..Len(todo'[t]) : todo'[t][l] = todo[t][j]

\* A task that is done leaves the others.
LEMMA TodoShortens ==
    ASSUME ChangeType, NEW t \in Thread, todo[t] # <<>>, todo' = [todo EXCEPT ![t] = Tail(@)]
    PROVE  Shortened(t) /\ todo' \in [Thread -> Seq(Tasks)]
<1>1. PICK q \in Seq(Tasks) : q = todo[t]
  BY DEF ChangeType
<1>2. Len(q) \in Nat /\ Len(q) > 0 /\ q # <<>>
  BY <1>1
<1>3. Tail(q) \in Seq(Tasks) /\ Len(Tail(q)) = Len(q) - 1 /\ \A p \in 1..(Len(q) - 1) : Tail(q)[p] = q[p + 1]
  BY <1>2
<1>4. PICK r \in Seq(Tasks) : r = Tail(q)
  BY <1>3
<1>5. todo'[t] = r /\ todo' \in [Thread -> Seq(Tasks)]
  BY <1>1, <1>4 DEF ChangeType
<1>6. Len(r) = Len(q) - 1 /\ \A p \in 1..(Len(q) - 1) : r[p] = q[p + 1]
  BY <1>3, <1>4
<1>7. \A j \in 1..Len(r) : j + 1 \in 1..Len(q) /\ j + 1 > 1 /\ r[j] = q[j + 1]
  BY <1>2, <1>6
<1>8. ASSUME NEW j \in 1..Len(q), j # 1 PROVE \E l \in 1..Len(r) : r[l] = q[j]
  <2>1. j - 1 \in 1..(Len(q) - 1) /\ (j - 1) + 1 = j
    BY <1>2, <1>8
  <2> QED  BY <1>6, <2>1
<1> QED
  BY <1>1, <1>2, <1>5, <1>7, <1>8 DEF Shortened

\* Its place is no longer to be visited, and the others are.
LEMMA PlacesShorten ==
    ASSUME NEW t \in Thread, NEW U, CoverOf(t, U), Shortened(t)
    PROVE  /\ \A p : p \in Places(t)' <=> p \in Places(t) /\ p # Place(todo[t][1])
           /\ \A j, l \in 1..Len(todo'[t]) : Place(todo'[t][j]) = Place(todo'[t][l]) => j = l
<1>1. \A p : p \in Places(t)' <=> \E j \in 1..Len(todo'[t]) : p = Place(todo'[t][j])
  BY DEF Places
<1>2. \A p : p \in Places(t) <=> \E j \in 1..Len(todo[t]) : p = Place(todo[t][j])
  BY DEF Places
<1>3. \A j, l \in 1..Len(todo[t]) : Place(todo[t][j]) = Place(todo[t][l]) => j = l
  BY DEF CoverOf
<1>4. ASSUME NEW p, p \in Places(t)' PROVE p \in Places(t) /\ p # Place(todo[t][1])
  <2>1. PICK j \in 1..Len(todo'[t]) : p = Place(todo'[t][j])
    BY <1>1, <1>4
  <2>2. j + 1 \in 1..Len(todo[t]) /\ j + 1 # 1 /\ p = Place(todo[t][j + 1])
    BY <2>1 DEF Shortened
  <2> QED  BY <1>2, <1>3, <2>2 DEF Shortened
<1>5. ASSUME NEW p, p \in Places(t), p # Place(todo[t][1]) PROVE p \in Places(t)'
  <2>1. PICK j \in 1..Len(todo[t]) : p = Place(todo[t][j])
    BY <1>2, <1>5
  <2>2. PICK l \in 1..Len(todo'[t]) : todo'[t][l] = todo[t][j]
    BY <1>5, <2>1 DEF Shortened
  <2> QED  BY <1>1, <2>1, <2>2
<1>6. ASSUME NEW j \in 1..Len(todo'[t]), NEW l \in 1..Len(todo'[t]), Place(todo'[t][j]) = Place(todo'[t][l])
      PROVE  j = l
  <2>1. /\ j + 1 \in 1..Len(todo[t]) /\ todo'[t][j] = todo[t][j + 1]
        /\ l + 1 \in 1..Len(todo[t]) /\ todo'[t][l] = todo[t][l + 1]
    BY DEF Shortened
  <2>2. j + 1 = l + 1
    BY <1>3, <1>6, <2>1
  <2> QED  BY <2>2
<1> QED
  BY <1>4, <1>5, <1>6

\* A treelet that has been gathered, and it was not the last one.
LEMMA GatherFreeNext ==
    ASSUME NEW U, NEW K, Known(U, K), NEW t \in Thread, GatherFree(t), Len(todo[t]) > 1
    PROVE  \E V, J : Known(V, J)'
<1>1. Rebuild(t) /\ at[t] = "drop" /\ Gathers(t) /\ Has(t)
  BY DEF Rebuild, GatherFree, Gathers, Has
<1>2. /\ ShapeType /\ WalkType /\ ChangeType /\ TreeletInv /\ LinkInv /\ LeafInv /\ ChangeOf(t) /\ CoverOf(t, U)
      /\ OpType /\ U \in SUBSET (1..Len(nodes)) /\ K \in [1..Len(nodes) -> SUBSET Key] /\ GatherOf(t, K)
  BY <1>1, KnownParts DEF ChangeInv, CoverInv, GatherInv
<1>3. /\ nodes' = nodes /\ head' = head /\ idx' = idx /\ v' = v
      /\ cur' = [cur EXCEPT ![t] = NullTree]
      /\ todo' = [todo EXCEPT ![t] = Tail(@)]
      /\ at' = [at EXCEPT ![t] = "gather"] /\ FreeTreelet(cur[t])
  BY DEF GatherFree, Goto
<1>4. at'[t] = "gather" /\ cur'[t] = NullTree
  BY <1>2, <1>3 DEF OpType, WalkType
<1>5. todo[t] # <<>> /\ nodes # <<>> /\ Head(todo[t]) = todo[t][1] /\ todo[t][1].child > 0 /\ todo[t][1] \in Tasks
  BY <1>1, <1>2 DEF ChangeOf, ChangeType
<1>6. Shortened(t) /\ todo' \in [Thread -> Seq(Tasks)]
  BY <1>2, <1>3, <1>5, TodoShortens
<1>7. /\ \A p : p \in Places(t)' <=> p \in Places(t) /\ p # Place(todo[t][1])
      /\ \A j, l \in 1..Len(todo'[t]) : Place(todo'[t][j]) = Place(todo'[t][l]) => j = l
  BY <1>2, <1>6, PlacesShorten
<1>8. PICK e0 : e0 = Place(todo[t][1])
  OBVIOUS
<1>9. e0[2] # 0 /\ e0 \in Places(t) /\ (e0 \in Slots => Empty(e0))
  <2>1. e0[2] # 0
    BY <1>5, <1>8 DEF Place, Tasks
  <2>2. e0 \in Places(t)
    BY <1>6, <1>8 DEF Places, Shortened
  <2>3. Place(Head(todo[t])) = e0
    BY <1>5, <1>8
  <2> QED  BY <1>1, <1>2, <2>1, <2>2, <2>3 DEF CoverOf
<1>10. \A e \in Slots : Link(e) # cur[t]
  BY <1>1, <1>2 DEF ChangeOf
<1>11. /\ trees' \in Seq(TreeType) /\ Len(trees') = Len(trees)
       /\ \A e \in Slots : ~IsNode(Link(e)) => Items(Link(e))' = Items(Link(e))
       /\ TreeletInv'
  <2>1. ~Has(t)'
    BY <1>4 DEF Has
  <2> QED  BY <1>1, <1>3, <1>10, <2>1, FreeStep
<1>12. /\ Slots' = Slots /\ Len(nodes') = Len(nodes) /\ Object' = Object /\ Tasks' = Tasks
       /\ \A e : Link(e)' = Link(e)
       /\ \A e : (Empty(e)' <=> Empty(e)) /\ (Filled(e)' <=> Filled(e))
       /\ \A e : KeysOf(K, e)' = KeysOf(K, e)
  BY <1>3, <1>11, NodesSame
<1>13. /\ ShapeType' /\ LinkInv' /\ K \in [1..Len(nodes') -> SUBSET Key]
       /\ nodes' # <<>> => K[1] = Key
       /\ \A e \in Slots' : (at'[t] = "build" => e[1] \notin U) =>
            IF IsNode(Link(e)') THEN K[Link(e)'[2]] = KeysOf(K, e)' ELSE Items(Link(e))' \subseteq KeysOf(K, e)'
       /\ \A e, f \in Ends(t, U)' : e # f => KeysOf(K, e)' \intersect KeysOf(K, f)' = {}
       /\ \A u \in Thread : at[u] = "own" => Leads(K, cur[u], key[u])'
  <2>1. Still
    BY <1>3, <1>11 DEF Still
  <2>2. SameEnds(t, U, U)
    BY <1>1, <1>4 DEF SameEnds
  <2> QED  BY <1>1, <2>1, <2>2, StillTree
<1>14. WalkType' /\ ChangeType'
  <2>1. NullTree \in Object
    <3>1. 1 \in 1..Len(trees)
      BY <1>2 DEF ShapeType
    <3> QED  BY <3>1, ObjectCases
  <2> QED  BY <1>2, <1>3, <1>6, <1>12, <2>1 DEF WalkType, ChangeType
<1>15. ChangeOf(t)'
  <2>1. todo'[t] # <<>>
    <3>1. PICK j \in 1..Len(todo[t]) : j # 1
      <4>1. Len(todo[t]) \in Nat /\ 2 \in 1..Len(todo[t])
        BY <1>2 DEF ChangeType
      <4> QED  BY <4>1
    <3>2. PICK l \in 1..Len(todo'[t]) : TRUE
      BY <1>6, <3>1 DEF Shortened
    <3> QED  BY <3>2
  <2> QED  BY <1>2, <1>3, <1>4, <1>5, <2>1 DEF ChangeOf, Gathers
<1>16. CoverOf(t, U)'
  <2>1. \A m : <<m, 0>> # e0
    BY <1>9
  <2>2. \A m \in U : <<m, 0>> \in Places(t)' \/ \E e \in Slots : e[1] \in U /\ Link(e) = Node(m)
    BY <1>2, <1>7, <1>8, <2>1 DEF CoverOf
  <2>3. \A p \in Places(t)' :
         IF p[2] = 0 THEN p[1] \in U /\ \A e \in Slots : e[1] \in U => Link(e) # Node(p[1])
         ELSE p[1] \notin U
    BY <1>2, <1>7 DEF CoverOf
  <2>4. /\ \A e \in Slots : e[1] \in U /\ IsNode(Link(e)) => Link(e)[2] \in U
        /\ \A n \in U : (\A c \in 1..B : ~IsNode(Link(<<n, c>>))) \/ (\A c \in 1..B : IsNode(Link(<<n, c>>)))
    BY <1>2 DEF CoverOf
  <2>5. ASSUME NEW e \in Slots
        PROVE  /\ Filled(e) => e[1] \in U \/ e \in Places(t)'
               /\ Empty(e) => e[1] \notin U
               /\ e \in Places(t)' => Filled(e)
    <3>1. Place(Head(todo[t])) = e0
      BY <1>5, <1>8
    <3>2. /\ Filled(e) => e[1] \in U \/ e \in Places(t)
          /\ Empty(e) => e[1] \notin U
          /\ e \in Places(t) => e = e0 \/ Filled(e)
      BY <1>1, <1>2, <3>1 DEF CoverOf
    <3>3. e = e0 => ~Filled(e)
      BY <1>9 DEF Filled
    <3> QED  BY <1>7, <1>8, <3>2, <3>3
  <2> QED  BY <1>4, <1>7, <1>12, <2>2, <2>3, <2>4, <2>5 DEF CoverOf
<1>17. GatherOf(t, K)'
  <2>1. \A j : KeysOf(K, Place(todo[t][j]))' = KeysOf(K, Place(todo'[t][j]))
    BY <1>3 DEF KeysOf, Child, Place
  <2>2. \A k \in Range(v'[t]) : \E e \in Slots' : Empty(e)' /\ k \in KeysOf(K, e)'
    BY <1>2, <1>3, <1>12 DEF GatherOf
  <2>3. ASSUME NEW j \in 1..Len(todo'[t]), NEW k \in Range(v'[t]), NEW m \in KeysOf(K, Place(todo[t][j]))'
        PROVE  k < m
    <3>1. j + 1 \in 1..Len(todo[t]) /\ j + 1 > 1 /\ todo'[t][j] = todo[t][j + 1]
      BY <1>6 DEF Shortened
    <3> QED  BY <1>2, <1>3, <2>1, <2>3, <3>1 DEF GatherOf
  <2>4. ASSUME NEW j \in 1..Len(todo'[t]), NEW l \in 1..Len(todo'[t]), j < l,
               NEW k \in KeysOf(K, Place(todo[t][j]))', NEW m \in KeysOf(K, Place(todo[t][l]))'
        PROVE  k < m
    <3>1. /\ j + 1 \in 1..Len(todo[t]) /\ todo'[t][j] = todo[t][j + 1]
          /\ l + 1 \in 1..Len(todo[t]) /\ todo'[t][l] = todo[t][l + 1]
      BY <1>6 DEF Shortened
    <3>2. j + 1 < l + 1
      BY <2>4
    <3> QED  BY <1>2, <2>1, <2>4, <3>1, <3>2 DEF GatherOf
  <2> QED  BY <2>2, <2>3, <2>4 DEF GatherOf
<1>18. \A m \in 1..Len(nodes') :
         (\A c \in 1..B : ~IsNode(Link(<<m, c>>)')) \/ (\A c \in 1..B : IsNode(Link(<<m, c>>)'))
  <2>1. ~Building
    BY <1>1, Alone
  <2> QED  BY <1>2, <1>12, <2>1 DEF LeafInv
<1>19. Gathers(t)' /\ at'[t] \notin {"build", "oldroot"}
  BY <1>4 DEF Gathers
<1>20. U \in SUBSET (1..Len(nodes'))
  BY <1>2, <1>12
<1>21. Rebuilt(t, U, K)
  BY <1>11, <1>13, <1>14, <1>15, <1>16, <1>17, <1>18, <1>19, <1>20 DEF Rebuilt
<1> QED
  BY <1>1, <1>21, RebuildKnows

\* The last treelet has been gathered: the nodes are to be built anew, from the root on.
LEMMA GatherFreeLast ==
    ASSUME NEW U, NEW K, Known(U, K), NEW t \in Thread, GatherFree(t), ~(Len(todo[t]) > 1)
    PROVE  \E V, J : Known(V, J)'
<1>1. Rebuild(t) /\ at[t] = "drop" /\ Gathers(t) /\ Has(t)
  BY DEF Rebuild, GatherFree, Gathers, Has
<1>2. /\ ShapeType /\ WalkType /\ ChangeType /\ TreeletInv /\ LinkInv /\ LeafInv /\ ChangeOf(t) /\ CoverOf(t, U)
      /\ OpType /\ U \in SUBSET (1..Len(nodes)) /\ K \in [1..Len(nodes) -> SUBSET Key] /\ KeyInv(U, K)
  BY <1>1, KnownParts DEF ChangeInv, CoverInv
<1>3. /\ nodes' = nodes /\ head' = head /\ idx' = idx /\ v' = v
      /\ cur' = [cur EXCEPT ![t] = NullTree]
      /\ todo' = [todo EXCEPT ![t] = <<Task(head[2], 0, 0, Len(v[t]))>>]
      /\ at' = [at EXCEPT ![t] = "build"] /\ FreeTreelet(cur[t])
  BY DEF GatherFree, Goto
<1>4. PICK w \in Seq(Key) : w = v[t]
  BY <1>2 DEF ChangeType
<1>5. nodes # <<>> /\ head = Node(1) /\ head[2] = 1 /\ 1 \in 1..Len(nodes) /\ K[1] = Key
  <2>1. nodes # <<>>
    BY <1>1, <1>2 DEF ChangeOf
  <2>2. head = Node(1) /\ 1 \in 1..Len(nodes) /\ K[1] = Key
    BY <1>2, <2>1 DEF LinkInv, KeyInv, ShapeType
  <2> QED  BY <2>1, <2>2, ObjectCases
<1>6. at'[t] = "build" /\ cur'[t] = NullTree /\ todo'[t] = <<Task(1, 0, 0, Len(w))>> /\ v'[t] = w
  BY <1>2, <1>3, <1>4, <1>5 DEF OpType, WalkType, ChangeType
<1>7. /\ todo[t] # <<>> /\ Head(todo[t]) = todo[t][1] /\ todo[t][1].child > 0 /\ todo[t][1] \in Tasks
      /\ 1 \in 1..Len(todo[t]) /\ \A j \in 1..Len(todo[t]) : j = 1
  BY <1>1, <1>2 DEF ChangeOf, ChangeType
<1>8. PICK e0 : e0 = Place(todo[t][1])
  OBVIOUS
<1>9. e0[2] # 0 /\ (\A p : p \in Places(t) <=> p = e0) /\ (e0 \in Slots => Empty(e0))
  <2>1. e0[2] # 0
    BY <1>7, <1>8 DEF Place, Tasks
  <2>2. \A p : p \in Places(t) <=> p = e0
    BY <1>7, <1>8 DEF Places
  <2>3. Place(Head(todo[t])) = e0
    BY <1>7, <1>8
  <2> QED  BY <1>1, <1>2, <2>1, <2>2, <2>3 DEF CoverOf
<1>10. U = {}
  <2>1. \A n : <<n, 0>> # e0
    BY <1>9
  <2> QED  BY <1>2, <1>9, <2>1, NothingToCome
<1>11. \A e \in Slots : ~Filled(e)
  <2> SUFFICES ASSUME NEW e \in Slots, Filled(e) PROVE FALSE
    OBVIOUS
  <2>1. e = e0
    BY <1>1, <1>2, <1>9, <1>10 DEF CoverOf
  <2> QED  BY <1>9, <2>1 DEF Filled
<1>12. \A u \in Thread : at[u] # "own"
  BY <1>5, <1>11, OwnedSlot
<1>13. \A e \in Slots : Link(e) # cur[t]
  BY <1>1, <1>2 DEF ChangeOf
<1>14. /\ trees' \in Seq(TreeType) /\ Len(trees') = Len(trees)
       /\ TreeletInv'
  <2>1. ~Has(t)'
    BY <1>6 DEF Has
  <2> QED  BY <1>1, <1>3, <1>13, <2>1, FreeStep
<1>15. /\ Slots' = Slots /\ Len(nodes') = Len(nodes) /\ Object' = Object /\ Tasks' = Tasks
       /\ \A e : Link(e)' = Link(e)
       /\ \A e : (Empty(e)' <=> Empty(e)) /\ (Filled(e)' <=> Filled(e))
       /\ NodeType' = NodeType /\ TreeType' = TreeType
  BY <1>3, <1>14, NodesSame
<1>16. ShapeType' /\ LinkInv'
  BY <1>2, <1>3, <1>14, <1>15 DEF ShapeType, LinkInv
<1>17. PICK V : V = 1..Len(nodes')
  OBVIOUS
<1>18. \A m \in 1..Len(nodes) :
         (\A c \in 1..B : ~IsNode(Link(<<m, c>>))) \/ (\A c \in 1..B : IsNode(Link(<<m, c>>)))
  <2>1. ~Building
    BY <1>1, Alone
  <2> QED  BY <1>2, <2>1 DEF LeafInv
<1>19. CoverOf(t, V)' /\ Places(t)' = {<<1, 0>>}
  <2>1. nodes' # <<>>
    BY <1>3, <1>5
  <2>2. at'[t] = "gather" => \A e \in Slots' : ~Empty(e)'
    BY <1>6
  <2>3. \A e \in Slots' : ~Filled(e)'
    BY <1>11, <1>15
  <2>4. at'[t] \in {"gather", "build"}
    BY <1>6
  <2>5. \A m \in 1..Len(nodes') :
          (\A c \in 1..B : ~IsNode(Link(<<m, c>>)')) \/ (\A c \in 1..B : IsNode(Link(<<m, c>>)'))
    BY <1>15, <1>18
  <2> QED  BY <1>6, <1>16, <1>17, <2>1, <2>2, <2>3, <2>4, <2>5, CoverAll
<1>20. WalkType' /\ ChangeType'
  <2>1. NullTree \in Object
    <3>1. 1 \in 1..Len(trees)
      BY <1>2 DEF ShapeType
    <3> QED  BY <3>1, ObjectCases
  <2>2. <<Task(1, 0, 0, Len(w))>> \in Seq(Tasks)
    <3>1. Len(w) \in Nat /\ 0 \in 0..B
      BY BType
    <3>2. Task(1, 0, 0, Len(w)) \in Tasks
      BY <1>5, <3>1 DEF Task, Tasks
    <3> QED  BY <3>2
  <2>3. todo' = [todo EXCEPT ![t] = <<Task(1, 0, 0, Len(w))>>]
    BY <1>3, <1>4, <1>5
  <2> QED  BY <1>2, <1>3, <1>15, <2>1, <2>2, <2>3 DEF WalkType, ChangeType
<1>21. ChangeOf(t)'
  <2>1. \A u \in Thread : at'[u] # "own"
    BY <1>2, <1>3, <1>12 DEF OpType
  <2>2. \A j, l \in 1..Len(v'[t]) : j < l => v'[t][j] < v'[t][l]
    BY <1>2, <1>3 DEF ChangeOf
  <2> QED  BY <1>3, <1>5, <1>6, <2>1, <2>2 DEF ChangeOf, Gathers
<1>22. BuildOf(t, K)'
  <2>1. /\ Len(todo'[t]) = 1 /\ todo'[t][1] = Task(1, 0, 0, Len(w)) /\ Len(w) \in Nat
    BY <1>6
  <2>2. /\ todo'[t][1].first = 0 /\ todo'[t][1].len = Len(w)
        /\ From(todo'[t][1]) = 0 /\ To(todo'[t][1]) = 0 + Len(w) /\ Place(todo'[t][1]) = <<1, 0>>
    BY <2>1 DEF Task, From, To, Place
  <2>3. \A j \in 1..Len(todo'[t]) : j = 1
    BY <2>1
  <2>4. KeysOf(K, <<1, 0>>)' = Key
    BY <1>5 DEF KeysOf
  <2>5. \A l \in 1..Len(w) : w[l] \in Key
    OBVIOUS
  <2>6. \A l : l \in (0 + 1)..(0 + Len(w)) <=> l \in 1..Len(w)
    BY <2>1
  <2>7. ASSUME NEW j \in 1..Len(todo'[t])
        PROVE  /\ todo'[t][j].first + todo'[t][j].len <= Len(v'[t])
               /\ \A l \in (From(todo[t][j]) + 1)'..To(todo[t][j])' :
                     v'[t][l] \in KeysOf(K, Place(todo[t][j]))'
    <3>1. /\ From(todo[t][1])' = From(todo'[t][1]) /\ To(todo[t][1])' = To(todo'[t][1])
          /\ Place(todo[t][1])' = Place(todo'[t][1])
      BY DEF From, To, Place, Begin
    <3>2. KeysOf(K, Place(todo[t][1]))' = Key
      BY <2>2, <2>4, <3>1 DEF KeysOf
    <3> QED  BY <1>6, <2>1, <2>2, <2>3, <2>5, <2>6, <3>1, <3>2
  <2>8. ASSUME NEW l \in 1..Len(v'[t])
        PROVE  \E j \in 1..Len(todo'[t]) : l \in (From(todo[t][j]) + 1)'..To(todo[t][j])'
    <3>1. /\ From(todo[t][1])' = 0 /\ To(todo[t][1])' = 0 + Len(w)
      BY <2>2 DEF From, To, Begin
    <3>2. 1 \in 1..Len(todo'[t]) /\ l \in (0 + 1)..(0 + Len(w))
      BY <1>6, <2>1, <2>6
    <3> QED  BY <3>1, <3>2
  <2> QED  BY <2>7, <2>8 DEF BuildOf
<1>23. \A e \in Slots' : e[1] \in V
  BY <1>17 DEF Slots
<1>24. \A e, f \in Ends(t, V)' : e # f => KeysOf(K, e)' \intersect KeysOf(K, f)' = {}
  <2>1. \A e \in Ends(t, V)' : e = <<1, 0>>
    BY <1>6, <1>19, <1>23 DEF Ends
  <2> QED  BY <2>1
<1>25. \A n \in 1..Len(nodes') : \A c \in 1..B : ~Filled(<<n, c>>)'
  <2>1. \A n \in 1..Len(nodes), c \in 1..B : <<n, c>> \in Slots
    BY <1>2, SlotParts
  <2> QED  BY <1>11, <1>15, <2>1
<1>26. V \in SUBSET (1..Len(nodes')) /\ K \in [1..Len(nodes') -> SUBSET Key]
  BY <1>2, <1>15, <1>17
<1>27. ~Gathers(t)' /\ \A u \in Thread : at[u] # "own"
  BY <1>6, <1>12 DEF Gathers
<1>28. Rebuilt(t, V, K)
  BY <1>5, <1>6, <1>14, <1>16, <1>19, <1>20, <1>21, <1>22, <1>23, <1>24, <1>25, <1>26, <1>27 DEF Rebuilt
<1> QED
  BY <1>1, <1>28, RebuildKnows

\* The treelet is freed: nothing leads to it any more.
LEMMA GatherFreeStep ==
    ASSUME NEW U, NEW K, Known(U, K), NEW t \in Thread, GatherFree(t)
    PROVE  \E V, J : Known(V, J)'
BY GatherFreeNext, GatherFreeLast

-----------------------------------------------------------------------------
(* A node of the old backbone gets its new separators *)

\* What BuildNode does to the nodes: node n has the separators q.
NewKeys(n, q) ==
    /\ nodes' \in Seq(NodeType) /\ Len(nodes') = Len(nodes)
    /\ Slots' = Slots /\ Object' = Object /\ NodeType' = NodeType /\ Tasks' = Tasks /\ nodes' # <<>>
    /\ \A e \in Slots : Link(e)' = Link(e)
    /\ \A e \in Slots : (Empty(e)' <=> Empty(e)) /\ (Filled(e)' <=> Filled(e))
    /\ \A k : Child(n, k)' = ChildOf(q, k)
    /\ \A m \in 1..Len(nodes) : m # n => \A k : Child(m, k)' = Child(m, k)

\* What new separators change in the walks.
LEMMA KeysChange ==
    ASSUME ShapeType, NEW n \in 1..Len(nodes), NEW q \in [1..(B - 1) -> Key \union {0}],
           nodes' = KeysSet(n, q), trees' = trees
    PROVE  NewKeys(n, q)
<1>1. KeysAreSet(n, q)
  BY KeysUpdate
<1>2. /\ nodes' \in Seq(NodeType) /\ Len(nodes') = Len(nodes)
      /\ \A m \in 1..Len(nodes) : /\ nodes'[m].keys = IF m = n THEN q ELSE nodes[m].keys
                                  /\ nodes'[m].next = nodes[m].next
  BY <1>1 DEF KeysAreSet
<1>3. Slots' = Slots /\ Object' = Object /\ Tasks' = Tasks
  BY <1>2 DEF Slots, Object, Tasks
<1>4. NodeType' = NodeType
  BY <1>3 DEF NodeType
<1>5. nodes' # <<>>
  <2>1. Len(nodes) # 0
    BY DEF ShapeType
  <2> QED  BY <1>2, <2>1
<1>6. \A e \in Slots : Link(e)' = Link(e)
  BY <1>2, SlotParts DEF Link
<1>7. \A e \in Slots : (Empty(e)' <=> Empty(e)) /\ (Filled(e)' <=> Filled(e))
  BY <1>6 DEF Empty, Filled
<1>8. \A k : Child(n, k)' = ChildOf(q, k)
  BY <1>2 DEF Child, ChildOf
<1>9. \A m \in 1..Len(nodes) : m # n => \A k : Child(m, k)' = Child(m, k)
  BY <1>2 DEF Child
<1> QED
  BY <1>2, <1>3, <1>4, <1>5, <1>6, <1>7, <1>8, <1>9 DEF NewKeys

\* The children of node n are all nodes to come to, or empty slots.
LEMMA ChildrenToCome ==
    ASSUME ShapeType, LinkInv, NEW t \in Thread, at[t] = "build", NEW U, U \in SUBSET (1..Len(nodes)),
           CoverOf(t, U), NEW n \in U, NEW c \in 1..B
    PROVE  /\ <<n, c>> \in Slots
           /\ IsNode(Link(<<n, 1>>)) =>
                /\ IsNode(Link(<<n, c>>)) /\ Link(<<n, c>>) = Node(Link(<<n, c>>)[2])
                /\ Link(<<n, c>>)[2] \in U /\ n < Link(<<n, c>>)[2] /\ Spot(n, c) = <<Link(<<n, c>>)[2], 0>>
           /\ ~IsNode(Link(<<n, 1>>)) => ~IsNode(Link(<<n, c>>)) /\ Empty(<<n, c>>) /\ Spot(n, c) = <<n, c>>
           /\ \A e \in Slots : Link(e) = Link(<<n, c>>) /\ IsNode(Link(e)) => e = <<n, c>>
<1>1. PICK e : e = <<n, c>>
  OBVIOUS
<1>2. e \in Slots /\ e[1] = n /\ 1 \in 1..B
  BY <1>1, SlotParts, BType
<1>3. IsNode(Link(<<n, 1>>)) <=> IsNode(Link(<<n, c>>))
  BY <1>2 DEF CoverOf
<1>4. IsNode(Link(e)) => Link(e) = Node(Link(e)[2]) /\ Link(e)[2] \in U /\ n < Link(e)[2]
  BY <1>2, SlotParts, ObjectCases DEF CoverOf, LinkInv
<1>5. ~IsNode(Link(e)) => Empty(e)
  BY <1>2 DEF CoverOf, Filled
<1>6. \A f \in Slots : Link(f) = Link(e) /\ IsNode(Link(f)) => f = e
  BY <1>2, ObjectCases DEF LinkInv, Empty
<1> QED
  BY <1>1, <1>2, <1>3, <1>4, <1>5, <1>6 DEF Spot

\* The keys of the nodes after that.
Divided(K, n, q) ==
    [m \in 1..Len(nodes) |->
       IF \E e \in Slots : e[1] = n /\ Link(e) = Node(m)
         THEN {k \in K[n] : \E e \in Slots : e[1] = n /\ Link(e) = Node(m) /\ ChildOf(q, k) = e[2]}
         ELSE K[m]]

\* The keys that come to the node are divided among its children anew, and no other node's
\* change.
LEMMA DividedKeys ==
    ASSUME NEW U, NEW K, Known(U, K), NEW t \in Thread, at[t] = "build", CoverOf(t, U), NEW n \in U,
           <<n, 0>> \in Places(t), NEW q, NewKeys(n, q), NEW J, J = Divided(K, n, q)
    PROVE  /\ J \in [1..Len(nodes) -> SUBSET Key] /\ J[n] = K[n] /\ J[1] = K[1]
           /\ \A m \in (1..Len(nodes)) \ U : J[m] = K[m]
           /\ \A e \in Slots : e[1] \notin U => KeysOf(J, e)' = KeysOf(K, e)
           /\ \A e \in Slots : e[1] \notin U /\ IsNode(Link(e)) => J[Link(e)[2]] = K[Link(e)[2]]
           /\ \A e \in Slots : e[1] = n =>
                /\ KeysOf(J, e)' = {k \in K[n] : ChildOf(q, k) = e[2]}
                /\ IsNode(Link(e)) => J[Link(e)[2]] = {k \in K[n] : ChildOf(q, k) = e[2]}
           /\ \A p \in Places(t) : p # <<n, 0>> => KeysOf(J, p)' = KeysOf(K, p)
           /\ \A c \in 1..B : \A p : p = Spot(n, c) => KeysOf(J, p)' = {k \in K[n] : ChildOf(q, k) = c}
<1>1. /\ ShapeType /\ LinkInv /\ U \in SUBSET (1..Len(nodes)) /\ K \in [1..Len(nodes) -> SUBSET Key] /\ ChangeType
  BY KnownParts
<1>2. n \in 1..Len(nodes) /\ \A e \in Slots : /\ e[1] \in 1..Len(nodes) /\ e[2] \in 1..B /\ e[2] # 0 /\ e = <<e[1], e[2]>>
                                              /\ Link(e) \in Object /\ (IsNode(Link(e)) => Link(e) = Node(Link(e)[2]) /\ Link(e)[2] \in 1..Len(nodes))
  BY <1>1, SlotParts, ObjectCases, BType
<1>3. J \in [1..Len(nodes) -> SUBSET Key]
  BY <1>1, <1>2 DEF Divided
<1>4. \A m \in 1..Len(nodes) : (\A e \in Slots : e[1] = n => Link(e) # Node(m)) => J[m] = K[m]
  BY DEF Divided
<1>5. \A m \in 1..Len(nodes), e \in Slots : e[1] = n /\ Link(e) = Node(m) =>
        J[m] = {k \in K[n] : \E f \in Slots : f[1] = n /\ Link(f) = Node(m) /\ ChildOf(q, k) = f[2]}
  BY DEF Divided
<1>6. \A e \in Slots : e[1] = n /\ IsNode(Link(e)) => Link(e)[2] \in U /\ n < Link(e)[2]
  BY <1>1 DEF CoverOf, LinkInv
<1>7. \A m \in (1..Len(nodes)) \ U : J[m] = K[m]
  <2> SUFFICES ASSUME NEW m \in (1..Len(nodes)) \ U, NEW e \in Slots, e[1] = n, Link(e) = Node(m) PROVE FALSE
    BY <1>4
  <2>1. IsNode(Link(e)) /\ Link(e)[2] = m
    BY ObjectCases
  <2> QED  BY <1>6, <2>1
<1>8. J[n] = K[n] /\ J[1] = K[1]
  <2>1. ASSUME NEW m \in 1..Len(nodes), m <= n, NEW e \in Slots, e[1] = n, Link(e) = Node(m) PROVE FALSE
    <3>1. IsNode(Link(e)) /\ Link(e)[2] = m
      BY <2>1, ObjectCases
    <3>2. n < m
      BY <1>6, <2>1, <3>1
    <3> QED  BY <1>2, <2>1, <3>2
  <2>2. 1 \in 1..Len(nodes) /\ 1 <= n /\ n <= n
    BY <1>2
  <2> QED  BY <1>2, <1>4, <2>1, <2>2
<1>9. \A e \in Slots : e[1] \notin U => KeysOf(J, e)' = KeysOf(K, e)
  <2> SUFFICES ASSUME NEW e \in Slots, e[1] \notin U PROVE KeysOf(J, e)' = KeysOf(K, e)
    OBVIOUS
  <2>1. e[1] # n /\ J[e[1]] = K[e[1]] /\ \A k : Child(e[1], k)' = Child(e[1], k)
    BY <1>2, <1>7 DEF NewKeys
  <2> QED  BY <1>2, <2>1 DEF KeysOf
<1>10. \A e \in Slots : e[1] \notin U /\ IsNode(Link(e)) => J[Link(e)[2]] = K[Link(e)[2]]
  <2> SUFFICES ASSUME NEW e \in Slots, e[1] \notin U, IsNode(Link(e)), NEW f \in Slots, f[1] = n,
                      Link(f) = Node(Link(e)[2])
               PROVE  FALSE
    BY <1>2, <1>4
  <2>1. Link(f) = Link(e)
    BY <1>2
  <2>2. ~Empty(e)
    BY ObjectCases DEF Empty
  <2>3. e = f
    BY <1>1, <2>1, <2>2 DEF LinkInv
  <2> QED  BY <2>3
<1>11. ASSUME NEW e \in Slots, e[1] = n
       PROVE  /\ KeysOf(J, e)' = {k \in K[n] : ChildOf(q, k) = e[2]}
              /\ IsNode(Link(e)) => J[Link(e)[2]] = {k \in K[n] : ChildOf(q, k) = e[2]}
  <2>1. \A k : Child(n, k)' = ChildOf(q, k)
    BY DEF NewKeys
  <2>2. KeysOf(J, e)' = {k \in K[n] : ChildOf(q, k) = e[2]}
    BY <1>2, <1>8, <1>11, <2>1 DEF KeysOf
  <2>3. ASSUME IsNode(Link(e)) PROVE J[Link(e)[2]] = {k \in K[n] : ChildOf(q, k) = e[2]}
    <3>1. PICK m \in 1..Len(nodes) : Link(e) = Node(m) /\ m = Link(e)[2]
      BY <1>2, <2>3
    <3>2. J[m] = {k \in K[n] : \E f \in Slots : f[1] = n /\ Link(f) = Node(m) /\ ChildOf(q, k) = f[2]}
      BY <1>5, <1>11, <3>1
    <3>3. \A f \in Slots : Link(f) = Node(m) => f = e
      <4>1. ~Empty(e)
        BY <2>3, ObjectCases DEF Empty
      <4> QED  BY <1>1, <3>1, <4>1 DEF LinkInv
    <3> QED  BY <1>11, <3>1, <3>2, <3>3
  <2> QED  BY <2>2, <2>3
<1>12. ASSUME NEW p \in Places(t), p # <<n, 0>> PROVE KeysOf(J, p)' = KeysOf(K, p)
  <2>1. p[1] \in 1..Len(nodes) /\ p = <<p[1], p[2]>>
    <3>1. PICK j \in 1..Len(todo[t]) : p = Place(todo[t][j])
      BY DEF Places
    <3>2. todo[t][j] \in Tasks
      BY <1>1 DEF ChangeType
    <3> QED  BY <3>1, <3>2 DEF Place, Tasks
  <2>2. CASE p[2] = 0
    <3>1. p[1] # n
      BY <1>12, <2>1, <2>2
    <3>2. \A e \in Slots : e[1] = n => Link(e) # Node(p[1])
      BY <2>2 DEF CoverOf
    <3>3. J[p[1]] = K[p[1]]
      BY <1>4, <2>1, <3>2
    <3> QED  BY <2>2, <3>3 DEF KeysOf
  <2>3. CASE p[2] # 0
    <3>1. p[1] \notin U
      BY <2>3 DEF CoverOf
    <3>2. p[1] # n /\ J[p[1]] = K[p[1]] /\ \A k : Child(p[1], k)' = Child(p[1], k)
      BY <1>7, <2>1, <3>1 DEF NewKeys
    <3> QED  BY <2>3, <3>2 DEF KeysOf
  <2> QED  BY <2>2, <2>3
<1>13. ASSUME NEW c \in 1..B, NEW p, p = Spot(n, c) PROVE KeysOf(J, p)' = {k \in K[n] : ChildOf(q, k) = c}
  <2>1. PICK e : e = <<n, c>>
    OBVIOUS
  <2>2. e \in Slots /\ e[1] = n /\ e[2] = c
    BY <1>1, <1>2, <2>1, SlotParts
  <2>3. CASE IsNode(Link(<<n, 1>>))
    <3>1. IsNode(Link(e)) /\ p = <<Link(e)[2], 0>>
      BY <1>1, <1>13, <2>1, <2>3, ChildrenToCome
    <3>2. KeysOf(J, p)' = J[Link(e)[2]]
      BY <3>1 DEF KeysOf
    <3> QED  BY <1>11, <2>2, <3>1, <3>2
  <2>4. CASE ~IsNode(Link(<<n, 1>>))
    <3>1. p = e
      BY <1>1, <1>13, <2>1, <2>4, ChildrenToCome
    <3> QED  BY <1>11, <2>2, <3>1
  <2> QED  BY <2>3, <2>4
<1> QED
  BY <1>3, <1>7, <1>8, <1>9, <1>10, <1>11, <1>12, <1>13

\* The separators of an old node are set from the vector: its keys are divided among its
\* children as their parts of the vector are.
LEMMA BuildNodeStep ==
    ASSUME NEW U, NEW K, Known(U, K), NEW t \in Thread, BuildNode(t)
    PROVE  SameKept /\ \E V, J : Known(V, J)'
<1>1. Rebuild(t) /\ at[t] = "build" /\ todo[t] # <<>> /\ Head(todo[t]).child = 0
  BY DEF Rebuild, BuildNode
<1>2. /\ ShapeType /\ WalkType /\ ChangeType /\ TreeletInv /\ LinkInv /\ LeafInv /\ ChangeOf(t) /\ CoverOf(t, U)
      /\ OpType /\ U \in SUBSET (1..Len(nodes)) /\ K \in [1..Len(nodes) -> SUBSET Key] /\ BuildOf(t, K)
      /\ KeyInv(U, K)
  BY <1>1, KnownParts DEF ChangeInv, CoverInv, BuildInv
<1>3. PICK w \in Seq(Key) : w = v[t]
  BY <1>2 DEF ChangeType
<1>4. PICK n : n = Head(todo[t]).node
  OBVIOUS
<1>5. PICK first : first = Head(todo[t]).first
  OBVIOUS
<1>6. PICK len : len = Head(todo[t]).len
  OBVIOUS
<1>7. PICK q : q = Separators(w, first, len)
  OBVIOUS
<1>8. /\ nodes' = KeysSet(n, q) /\ head' = head /\ trees' = trees /\ idx' = idx /\ cur' = cur /\ v' = v /\ at' = at
      /\ todo' = [todo EXCEPT ![t] = Below(Head(@)) \o Tail(@)]
  BY <1>3, <1>4, <1>5, <1>6, <1>7 DEF BuildNode, KeysSet, walkVars
<1>9. /\ nodes # <<>> /\ Head(todo[t]) = todo[t][1] /\ 1 \in 1..Len(todo[t]) /\ todo[t][1] \in Tasks
      /\ n = todo[t][1].node /\ todo[t][1].child = 0 /\ first = todo[t][1].first /\ len = todo[t][1].len
      /\ first \in Nat /\ len \in Nat
  <2>1. nodes # <<>> /\ todo[t] \in Seq(Tasks) /\ todo[t] # <<>>
    BY <1>1, <1>2 DEF ChangeOf, ChangeType
  <2>2. Head(todo[t]) = todo[t][1] /\ 1 \in 1..Len(todo[t]) /\ todo[t][1] \in Tasks
    BY <2>1
  <2>3. todo[t][1].first \in Nat /\ todo[t][1].len \in Nat
    BY <2>2 DEF Tasks
  <2> QED  BY <1>1, <1>4, <1>5, <1>6, <2>1, <2>2, <2>3
<1>10. n \in U /\ n \in 1..Len(nodes) /\ <<n, 0>> \in Places(t)
  <2>1. PICK p : p = Place(todo[t][1])
    OBVIOUS
  <2>2. p \in Places(t) /\ p[1] = n /\ p[2] = 0 /\ p = <<n, 0>>
    BY <1>1, <1>4, <1>9, <2>1 DEF Places, Place
  <2> QED  BY <1>2, <2>2 DEF CoverOf
<1>11. Unfolded(t, n) /\ todo' \in [Thread -> Seq(Tasks)]
  <2>1. (\A c \in 1..B : ~IsNode(Link(<<n, c>>))) \/ (\A c \in 1..B : IsNode(Link(<<n, c>>)))
    BY <1>2, <1>10 DEF CoverOf
  <2>2. todo' = [todo EXCEPT ![t] = Below(Head(@)) \o Tail(@)]
    BY <1>8
  <2> QED  BY <1>1, <1>2, <1>4, <2>1, <2>2, TodoUnfolds
\* The part of the vector for the node.
<1>12. /\ first + len <= Len(w) /\ \A j, l \in 1..Len(w) : j < l => w[j] < w[l]
       /\ \A l \in (first + 1)..(first + len) : w[l] \in K[n]
  <2>1. From(todo[t][1]) = first /\ To(todo[t][1]) = first + len /\ Place(todo[t][1]) = <<n, 0>>
    BY <1>9, <1>11 DEF From, To, Unfolded
  <2>2. KeysOf(K, <<n, 0>>) = K[n]
    BY DEF KeysOf
  <2> QED  BY <1>2, <1>3, <1>9, <2>1, <2>2 DEF BuildOf, ChangeOf
<1>13. q \in [1..(B - 1) -> Key \union {0}]
  BY <1>7, <1>9, <1>12, SeparatorsType
<1>14. NewKeys(n, q)
  BY <1>2, <1>8, <1>10, <1>13, KeysChange
<1>15. /\ nodes' \in Seq(NodeType) /\ Len(nodes') = Len(nodes)
       /\ Slots' = Slots /\ Object' = Object /\ NodeType' = NodeType /\ Tasks' = Tasks /\ nodes' # <<>>
       /\ \A e \in Slots : Link(e)' = Link(e)
       /\ \A e \in Slots : (Empty(e)' <=> Empty(e)) /\ (Filled(e)' <=> Filled(e))
  BY <1>14 DEF NewKeys
<1>16. PICK V : V = U \ {n}
  OBVIOUS
<1>17. /\ CoverOf(t, V)'
       /\ \A c \in 1..B : <<n, c>> \in Slots /\ Spot(n, c) \notin Places(t)
       /\ \A c, d \in 1..B : Spot(n, c) = Spot(n, d) => c = d
       /\ \A j \in 2..Len(todo[t]) : Place(todo[t][j]) \in Places(t) /\ Place(todo[t][j]) # <<n, 0>>
  <2>1. at'[t] = at[t] /\ at[t] \in {"gather", "build"}
    BY <1>1, <1>8
  <2>2. Slots' = Slots /\ \A e \in Slots : Link(e)' = Link(e)
    BY <1>15
  <2>3. ShapeType /\ LinkInv /\ CoverOf(t, U) /\ U \in SUBSET (1..Len(nodes)) /\ Unfolded(t, n)
    BY <1>2, <1>11
  <2> HIDE <1>8
  <2>4. CoverOf(t, V)' /\ NewPlaces(t, n)
    BY <1>16, <2>1, <2>2, <2>3, CoverUnfolds
  <2> QED  BY <2>4 DEF NewPlaces
<1>18. /\ \A p : p \in Places(t)' <=> \/ \E c \in 1..B : p = Spot(n, c)
                                      \/ \E j \in 2..Len(todo[t]) : p = Place(todo[t][j])
       /\ \A p : p \in Places(t) <=> p = <<n, 0>> \/ \E j \in 2..Len(todo[t]) : p = Place(todo[t][j])
  BY <1>2, <1>11, PlacesUnfold
<1>19. PICK J : J = Divided(K, n, q)
  OBVIOUS
<1>20. /\ J \in [1..Len(nodes) -> SUBSET Key] /\ J[n] = K[n] /\ J[1] = K[1]
       /\ \A e \in Slots : e[1] \notin U => KeysOf(J, e)' = KeysOf(K, e)
       /\ \A e \in Slots : e[1] \notin U /\ IsNode(Link(e)) => J[Link(e)[2]] = K[Link(e)[2]]
       /\ \A e \in Slots : e[1] = n =>
            /\ KeysOf(J, e)' = {k \in K[n] : ChildOf(q, k) = e[2]}
            /\ IsNode(Link(e)) => J[Link(e)[2]] = {k \in K[n] : ChildOf(q, k) = e[2]}
       /\ \A p \in Places(t) : p # <<n, 0>> => KeysOf(J, p)' = KeysOf(K, p)
       /\ \A c \in 1..B : \A p : p = Spot(n, c) => KeysOf(J, p)' = {k \in K[n] : ChildOf(q, k) = c}
  BY <1>1, <1>2, <1>10, <1>14, <1>19, DividedKeys
<1>21. ShapeType' /\ LinkInv'
  <2>1. ShapeType'
    BY <1>2, <1>8, <1>15 DEF ShapeType, TreeType
  <2>2. LinkInv'
    BY SMTT(30), <1>2, <1>8, <1>9, <1>15 DEF LinkInv, Empty
  <2> QED  BY <2>1, <2>2
<1>22. WalkType' /\ ChangeType'
  BY <1>2, <1>8, <1>11, <1>15 DEF WalkType, ChangeType
<1>23. TreeletInv'
  BY <1>2, <1>8 DEF TreeletInv, Has
<1>24. ChangeOf(t)' /\ \A u \in Thread : at[u] # "own"
  BY <1>1, <1>2, <1>8, <1>15 DEF ChangeOf, Gathers
<1>25. \A e \in Slots : e[1] \notin V =>
         IF IsNode(Link(e)) THEN J[Link(e)[2]] = KeysOf(J, e)' ELSE Items(Link(e)) \subseteq KeysOf(J, e)'
  <2> SUFFICES ASSUME NEW e \in Slots, e[1] \notin V
               PROVE  IF IsNode(Link(e)) THEN J[Link(e)[2]] = KeysOf(J, e)' ELSE Items(Link(e)) \subseteq KeysOf(J, e)'
    OBVIOUS
  <2>1. CASE e[1] \notin U
    <3>1. e[1] \in Ready(U)
      BY <1>1, <1>2, <2>1, FrontierBefore, SlotParts
    <3>2. IF IsNode(Link(e)) THEN K[Link(e)[2]] = KeysOf(K, e) ELSE Items(Link(e)) \subseteq KeysOf(K, e)
      BY <1>2, <3>1 DEF KeyInv
    <3>3. KeysOf(J, e)' = KeysOf(K, e) /\ (IsNode(Link(e)) => J[Link(e)[2]] = K[Link(e)[2]])
      BY <1>20, <2>1
    <3> QED  BY <3>2, <3>3
  <2>2. CASE e[1] = n
    <3>1. CASE IsNode(Link(e))
      BY <1>20, <2>2, <3>1
    <3>2. CASE ~IsNode(Link(e))
      <4>1. Link(e) = NullTree
        BY <1>1, <1>2, <1>10, <2>2, <3>2 DEF CoverOf, Filled, Empty
      <4>2. Items(Link(e)) = {}
        BY <1>2, <4>1, ObjectCases DEF Items, TreeletInv
      <4> QED  BY <3>2, <4>2
    <3> QED  BY <3>1, <3>2
  <2> QED  BY <1>16, <2>1, <2>2
<1>26. \A e : e \in Slots => Items(Link(e))' = Items(Link(e))
  BY <1>8, <1>15 DEF Items
\* Where the keys are divided: what was there before, or the children of the node.
<1>27. ASSUME NEW e \in Ends(t, V)'
       PROVE  \/ e \in Ends(t, U) /\ e # <<n, 0>> /\ KeysOf(J, e)' = KeysOf(K, e)
              \/ \E c \in 1..B : e = Spot(n, c)
  <2>1. CASE e \in Slots' /\ (at'[t] = "build" => e[1] \notin V) /\ ~IsNode(Link(e)')
    <3>1. e \in Slots /\ e[1] \notin V /\ ~IsNode(Link(e)) /\ e[2] \in 1..B /\ e[2] # 0 /\ e = <<e[1], e[2]>>
      BY <1>1, <1>2, <1>8, <1>15, <2>1, SlotParts, BType
    <3>2. CASE e[1] = n
      <4>1. PICK c \in 1..B : e = <<n, c>>
        BY <3>1, <3>2
      <4>2. /\ IsNode(Link(<<n, 1>>)) => IsNode(Link(<<n, c>>))
            /\ ~IsNode(Link(<<n, 1>>)) => Spot(n, c) = <<n, c>>
        <5>1. ShapeType /\ LinkInv /\ at[t] = "build" /\ U \in SUBSET (1..Len(nodes)) /\ CoverOf(t, U)
          BY <1>1, <1>2
        <5> QED  BY <1>10, <5>1, ChildrenToCome
      <4> QED  BY <3>1, <4>1, <4>2
    <3>3. CASE e[1] # n
      <4>1. e[1] \notin U /\ e # <<n, 0>>
        BY <1>16, <3>1, <3>3
      <4>2. e \in Ends(t, U)
        BY <3>1, <4>1 DEF Ends
      <4> QED  BY <1>20, <3>1, <4>1, <4>2
    <3> QED  BY <3>2, <3>3
  <2>2. CASE e \in Places(t)' /\ e[2] = 0
    <3>1. CASE \E j \in 2..Len(todo[t]) : e = Place(todo[t][j])
      <4>1. e \in Places(t) /\ e # <<n, 0>>
        BY <1>17, <3>1
      <4>2. e \in Ends(t, U)
        BY <1>1, <2>2, <4>1 DEF Ends
      <4> QED  BY <1>20, <4>1, <4>2
    <3> QED  BY <1>18, <2>2, <3>1
  <2> QED  BY <2>1, <2>2 DEF Ends
<1>28. \A e, f \in Ends(t, V)' : e # f => KeysOf(J, e)' \intersect KeysOf(J, f)' = {}
  <2> SUFFICES ASSUME NEW e \in Ends(t, V)', NEW f \in Ends(t, V)', e # f
               PROVE  KeysOf(J, e)' \intersect KeysOf(J, f)' = {}
    OBVIOUS
  <2>1. \A x, y \in Ends(t, U) : x # y => KeysOf(K, x) \intersect KeysOf(K, y) = {}
    BY <1>1, <1>2, FrontierBefore DEF KeyInv
  <2>2. <<n, 0>> \in Ends(t, U) /\ KeysOf(K, <<n, 0>>) = K[n]
    BY <1>1, <1>10 DEF Ends, KeysOf
  <2>3. \A x : x \in Ends(t, U) /\ x # <<n, 0>> => KeysOf(K, x) \intersect K[n] = {}
    BY <2>1, <2>2
  <2>4. \A c \in 1..B : \A p : p = Spot(n, c) => KeysOf(J, p)' = {k \in K[n] : ChildOf(q, k) = c}
    BY <1>20
  <2>5. CASE /\ e \in Ends(t, U) /\ e # <<n, 0>> /\ KeysOf(J, e)' = KeysOf(K, e)
             /\ f \in Ends(t, U) /\ f # <<n, 0>> /\ KeysOf(J, f)' = KeysOf(K, f)
    BY <2>1, <2>5
  <2>6. CASE /\ e \in Ends(t, U) /\ e # <<n, 0>> /\ KeysOf(J, e)' = KeysOf(K, e)
             /\ \E c \in 1..B : f = Spot(n, c)
    <3>1. KeysOf(J, f)' \subseteq K[n]
      BY <2>4, <2>6
    <3> QED  BY <2>3, <2>6, <3>1
  <2>7. CASE /\ f \in Ends(t, U) /\ f # <<n, 0>> /\ KeysOf(J, f)' = KeysOf(K, f)
             /\ \E c \in 1..B : e = Spot(n, c)
    <3>1. KeysOf(J, e)' \subseteq K[n]
      BY <2>4, <2>7
    <3> QED  BY <2>3, <2>7, <3>1
  <2>8. CASE (\E c \in 1..B : e = Spot(n, c)) /\ (\E c \in 1..B : f = Spot(n, c))
    <3>1. PICK c \in 1..B : e = Spot(n, c)
      BY <2>8
    <3>2. PICK d \in 1..B : f = Spot(n, d)
      BY <2>8
    <3>3. c # d
      BY <3>1, <3>2
    <3>4. /\ KeysOf(J, e)' = {k \in K[n] : ChildOf(q, k) = c}
          /\ KeysOf(J, f)' = {k \in K[n] : ChildOf(q, k) = d}
      BY <2>4, <3>1, <3>2
    <3> QED  BY <3>3, <3>4
  <2> QED  BY <1>27, <2>5, <2>6, <2>7, <2>8
\* The parts of the vector for the children.
<1>29. /\ \A c \in 1..B : \A l \in (Begin(first, len, c - 1) + 1)..Begin(first, len, c) :
            l \in (first + 1)..(first + len) /\ ChildOf(q, w[l]) = c
       /\ \A l \in (first + 1)..(first + len) : \E c \in 1..B :
            l \in (Begin(first, len, c - 1) + 1)..Begin(first, len, c)
  <2>1. ASSUME NEW c \in 1..B, NEW l \in (Begin(first, len, c - 1) + 1)..Begin(first, len, c)
        PROVE  l \in (first + 1)..(first + len) /\ ChildOf(q, w[l]) = c
    <3>1. ChildOf(q, w[l]) = c
      <4>1. first \in Nat /\ len \in Nat /\ w \in Seq(Key) /\ first + len <= Len(w)
            /\ \A j, m \in 1..Len(w) : j < m => w[j] < w[m]
        BY <1>9, <1>12
      <4> QED  BY <1>7, <4>1, SeparatorsLead
    <3>2. \A a, d \in Nat : /\ Begin(first, len, a) \in Nat /\ first <= Begin(first, len, a)
                            /\ a <= d => Begin(first, len, a) <= Begin(first, len, d)
      BY <1>9, BeginBounds
    <3>3. Begin(first, len, B) = first + len
      BY <1>9, BeginBounds
    <3>4. c - 1 \in Nat /\ c \in Nat /\ c <= B /\ B \in Nat
      BY BType
    <3>5. /\ Begin(first, len, c - 1) \in Nat /\ Begin(first, len, c) \in Nat
          /\ first <= Begin(first, len, c - 1) /\ Begin(first, len, c) <= first + len
      BY <3>2, <3>3, <3>4
    <3>6. l \in (first + 1)..(first + len)
      <4>1. first \in Nat /\ len \in Nat
        BY <1>9
      <4> QED  BY <3>5, <4>1
    <3> QED  BY <3>1, <3>6
  <2>2. \A l \in (first + 1)..(first + len) : \E c \in 1..B :
            l \in (Begin(first, len, c - 1) + 1)..Begin(first, len, c)
    BY <1>9, SomePart
  <2> QED  BY <2>1, <2>2
<1>30. \A j : /\ From(todo[t][j])' = From(todo'[t][j]) /\ To(todo[t][j])' = To(todo'[t][j])
              /\ Place(todo[t][j])' = Place(todo'[t][j])
  BY DEF From, To, Begin, Place
<1>31. ASSUME NEW j \in 1..Len(todo'[t])
       PROVE  /\ todo'[t][j].first + todo'[t][j].len <= Len(w)
              /\ \A p : p = Place(todo'[t][j]) =>
                   \A l \in (From(todo'[t][j]) + 1)..To(todo'[t][j]) : w[l] \in KeysOf(J, p)'
  <2>1. CASE j \in 1..B
    <3>1. /\ Place(todo'[t][j]) = Spot(n, j)
          /\ From(todo'[t][j]) = Begin(first, len, j - 1) /\ To(todo'[t][j]) = Begin(first, len, j)
          /\ todo'[t][j].first + todo'[t][j].len <= first + len
      BY <1>9, <1>11, <2>1 DEF Unfolded
    <3>2. PICK p : p = Place(todo'[t][j])
      OBVIOUS
    <3>3. KeysOf(J, p)' = {k \in K[n] : ChildOf(q, k) = j}
      BY <1>20, <2>1, <3>1, <3>2
    <3>4. \A l \in (Begin(first, len, j - 1) + 1)..Begin(first, len, j) : w[l] \in KeysOf(J, p)'
      BY <1>12, <1>29, <2>1, <3>3
    <3>5. todo'[t][j].first + todo'[t][j].len <= Len(w)
      <4>1. todo'[t][j] \in Tasks
        BY <1>11
      <4>2. todo'[t][j].first \in Nat /\ todo'[t][j].len \in Nat
        BY <4>1 DEF Tasks
      <4>3. todo'[t][j].first + todo'[t][j].len <= first + len
        BY <3>1
      <4>4. first \in Nat /\ len \in Nat /\ first + len <= Len(w) /\ Len(w) \in Nat
        BY <1>9, <1>12
      <4> QED  BY <4>2, <4>3, <4>4
    <3> QED  BY <3>1, <3>2, <3>4, <3>5
  <2>2. CASE ~(j \in 1..B)
    <3>1. PICK a \in 2..Len(todo[t]) : todo'[t][j] = todo[t][a]
      BY <1>11, <2>2 DEF Unfolded
    <3>2. a \in 1..Len(todo[t])
      BY <1>9
    <3>3. /\ todo[t][a].first + todo[t][a].len <= Len(w)
          /\ \A l \in (From(todo[t][a]) + 1)..To(todo[t][a]) : w[l] \in KeysOf(K, Place(todo[t][a]))
      BY <1>2, <1>3, <3>2 DEF BuildOf
    <3>4. PICK p : p = Place(todo[t][a])
      OBVIOUS
    <3>5. KeysOf(J, p)' = KeysOf(K, p)
      BY <1>17, <1>20, <3>1, <3>4
    <3> QED  BY <3>1, <3>3, <3>4, <3>5
  <2> QED  BY <2>1, <2>2
<1>32. ASSUME NEW l \in 1..Len(w)
       PROVE  \/ \E e \in Slots : ~IsNode(Link(e)) /\ w[l] \in Items(Link(e))
              \/ \E j \in 1..Len(todo'[t]) : l \in (From(todo'[t][j]) + 1)..To(todo'[t][j])
  <2>1. CASE \E e \in Slots : ~IsNode(Link(e)) /\ w[l] \in Items(Link(e))
    BY <2>1
  <2>2. CASE \E j \in 1..Len(todo[t]) : l \in (From(todo[t][j]) + 1)..To(todo[t][j])
    <3>1. PICK j \in 1..Len(todo[t]) : l \in (From(todo[t][j]) + 1)..To(todo[t][j])
      BY <2>2
    <3>2. CASE j = 1
      <4>1. From(todo[t][1]) = first /\ To(todo[t][1]) = first + len
        BY <1>9 DEF From, To
      <4>2. PICK c \in 1..B : l \in (Begin(first, len, c - 1) + 1)..Begin(first, len, c)
        BY <1>29, <3>1, <3>2, <4>1
      <4>3. c \in 1..Len(todo'[t]) /\ From(todo'[t][c]) = Begin(first, len, c - 1) /\ To(todo'[t][c]) = Begin(first, len, c)
        BY <1>9, <1>11 DEF Unfolded
      <4> QED  BY <4>2, <4>3
    <3>3. CASE j # 1
      <4>1. j \in 2..Len(todo[t])
        BY <3>3
      <4>2. PICK a \in 1..Len(todo'[t]) : todo'[t][a] = todo[t][j]
        BY <1>11, <4>1 DEF Unfolded
      <4> QED  BY <3>1, <4>2
    <3> QED  BY <3>2, <3>3
  <2> QED  BY <1>2, <1>3, <2>1, <2>2 DEF BuildOf
<1>33. BuildOf(t, J)'
  <2>1. v'[t] = w
    BY <1>3, <1>8
  <2>2. ASSUME NEW j \in 1..Len(todo'[t])
        PROVE  /\ todo'[t][j].first + todo'[t][j].len <= Len(v'[t])
               /\ \A l \in (From(todo[t][j])' + 1)..To(todo[t][j])' : v'[t][l] \in KeysOf(J, Place(todo[t][j]))'
    <3>1. PICK p : p = Place(todo'[t][j])
      OBVIOUS
    <3>2. KeysOf(J, Place(todo[t][j]))' = KeysOf(J, p)'
      BY <1>30, <3>1 DEF KeysOf, Child
    <3> QED  BY <1>30, <1>31, <2>1, <3>1, <3>2
  <2>3. ASSUME NEW l \in 1..Len(v'[t])
        PROVE  \/ \E e \in Slots' : ~IsNode(Link(e)') /\ v'[t][l] \in Items(Link(e))'
               \/ \E j \in 1..Len(todo'[t]) : l \in (From(todo[t][j])' + 1)..To(todo[t][j])'
    BY <1>15, <1>26, <1>30, <1>32, <2>1
  <2> QED  BY <2>2, <2>3 DEF BuildOf
<1>34. \A m \in 1..Len(nodes') :
         (\A c \in 1..B : Filled(<<m, c>>)') \/ (\A c \in 1..B : ~Filled(<<m, c>>)')
  <2>1. Building
    BY <1>1 DEF Building
  <2>2. \A m \in 1..Len(nodes), c \in 1..B : <<m, c>> \in Slots
    BY <1>2, SlotParts
  <2> QED  BY <1>2, <1>15, <2>1, <2>2 DEF LeafInv
<1>35. V \in SUBSET (1..Len(nodes')) /\ J \in [1..Len(nodes') -> SUBSET Key] /\ J[1] = Key
  <2>1. K[1] = Key
    BY <1>2, <1>9 DEF KeyInv
  <2> QED  BY <1>2, <1>15, <1>16, <1>20, <2>1
<1>36. \A e \in Slots' : (at'[t] = "build" => e[1] \notin V) =>
         IF IsNode(Link(e)') THEN J[Link(e)'[2]] = KeysOf(J, e)' ELSE Items(Link(e))' \subseteq KeysOf(J, e)'
  BY <1>1, <1>8, <1>15, <1>25, <1>26
<1>37. at'[t] = "build" /\ ~Gathers(t)'
  BY <1>1, <1>8 DEF Gathers
<1>38. Rebuilt(t, V, J)
  BY <1>17, <1>21, <1>22, <1>23, <1>24, <1>28, <1>33, <1>34, <1>35, <1>36, <1>37 DEF Rebuilt
<1>39. SameKept
  <2>1. /\ nodes # <<>> /\ nodes' # <<>> /\ Slots' = Slots /\ v' = v /\ trees' = trees
        /\ \A e \in Slots : Link(e)' = Link(e)
    BY <1>8, <1>9, <1>14 DEF NewKeys
  <2>2. \A e \in Slots : Items(Link(e))' = Items(Link(e))
    BY <2>1 DEF Items
  <2>3. \A k : /\ ~InRoot(k) /\ ~InRoot(k)'
               /\ InLeaf(k)' <=> InLeaf(k)
               /\ InVector(k)' <=> InVector(k)
    BY <2>1, <2>2 DEF InRoot, InLeaf, InVector
  <2> QED  BY <2>3 DEF SameKept, Kept
<1> QED
  BY <1>1, <1>38, <1>39, RebuildKnows

-----------------------------------------------------------------------------
(* A treelet of the old backbone becomes a node *)

\* What BuildChild does to the tree: node h, the last one, hangs from slot p and leads to new
\* treelets, those after the m there are, with the keys w[first + 1 .. first + len].
ChildMade(p, h, m, w, first, len) ==
    /\ h = Len(nodes) + 1 /\ m = Len(trees) /\ Len(nodes') = h /\ nodes' # <<>>
    /\ Slots \subseteq Slots' /\ p \in Slots
    /\ \A e \in Slots' : e \in Slots \/ \E c \in 1..B : e = <<h, c>>
    /\ \A c \in 1..B : <<h, c>> \in Slots' /\ <<h, c>> \notin Slots
    /\ Link(p)' = Node(h)
    /\ \A e \in Slots : e # p => Link(e)' = Link(e) /\ (~IsNode(Link(e)) => Items(Link(e))' = Items(Link(e)))
    /\ \A c \in 1..B : /\ Link(<<h, c>>)' = Tree(m + c)
                       /\ Items(Link(<<h, c>>))' = {w[l] : l \in (Begin(first, len, c - 1) + 1)..Begin(first, len, c)}
    /\ \A c \in 1..B : \A l \in (Begin(first, len, c - 1) + 1)..Begin(first, len, c) : Child(h, w[l])' = c
    /\ \A q \in 1..Len(nodes) : \A k : Child(q, k)' = Child(q, k)

\* A new node in a slot where NULL_TREE was, with its treelets.
LEMMA ChildGrows ==
    ASSUME ShapeType, NEW n \in 1..Len(nodes), NEW c \in 1..B, NEW p, p = <<n, c>>,
           NEW w \in Seq(Key), \A j, l \in 1..Len(w) : j < l => w[j] < w[l],
           NEW first \in Nat, NEW len \in Nat, first + len <= Len(w),
           NEW h, h = Len(nodes) + 1, NEW m, m = Len(trees),
           nodes' = Append(LinkSet(n, c, Node(h)), NewNode(w, first, len)),
           trees' = trees \o NewTrees(w, first, len), head' = head
    PROVE  /\ ChildMade(p, h, m, w, first, len)
           /\ ShapeType' /\ Object \subseteq Object' /\ \A a \in 1..Len(trees) : trees'[a] = trees[a]
<1>1. PICK M : M = LinkSet(n, c, Node(h))
  OBVIOUS
<1>2. PICK S : S = Object \union {Node(h)}
  OBVIOUS
<1>3. /\ M \in Seq([keys : [1..(B - 1) -> Key \union {0}], next : [1..B -> S]])
      /\ Len(M) = Len(nodes)
      /\ \A q \in 1..Len(nodes) : M[q].keys = nodes[q].keys
      /\ \A q \in 1..Len(nodes), d \in 1..B :
           M[q].next[d] = IF q = n /\ d = c THEN Node(h) ELSE nodes[q].next[d]
  <2>1. Object \subseteq S /\ Node(h) \in S
    BY <1>2
  <2>2. LinkIsSet(n, c, Node(h), S)
    BY <2>1, LinkUpdate
  <2> QED  BY <1>1, <2>2 DEF LinkIsSet
<1>4. Grows(h, m, w, first, len, M)
  <2>1. M \in Seq([keys : [1..(B - 1) -> Key \union {0}], next : [1..B -> Object \union {Node(h)}]])
    BY <1>2, <1>3
  <2>2. nodes' = Append(M, NewNode(w, first, len))
    BY <1>1
  <2> QED  BY <1>3, <2>1, <2>2 DEF Grows
<1>5. Grew(h, m, w, first, len, M)
  BY <1>4, Grown
<1>6. /\ nodes' \in Seq(NodeType') /\ trees' \in Seq(TreeType') /\ Len(trees') > 1
      /\ Object \subseteq Object' /\ Len(nodes') = h
      /\ \A q \in 1..Len(nodes) : nodes'[q] = M[q]
      /\ \A q \in 1..Len(trees) : trees'[q] = trees[q]
      /\ \A d \in 1..B :
           /\ Link(<<h, d>>)' = Tree(m + d)
           /\ Items(Tree(m + d))' = {w[l] : l \in (Begin(first, len, d - 1) + 1)..Begin(first, len, d)}
      /\ \A d \in 1..B : \A l \in (Begin(first, len, d - 1) + 1)..Begin(first, len, d) : Child(h, w[l])' = d
  BY <1>5 DEF Grew
<1>7. ShapeType'
  BY <1>6 DEF ShapeType
<1>8. Len(nodes) \in Nat /\ h \in Nat
  BY DEF ShapeType
<1>9. p \in Slots /\ Slots \subseteq Slots'
  <2>1. 1..Len(nodes) \subseteq 1..Len(nodes')
    BY <1>6, <1>8
  <2> QED  BY <2>1 DEF Slots
<1>10. \A e \in Slots' : e \in Slots \/ \E d \in 1..B : e = <<h, d>>
  <2>1. \A q \in 1..Len(nodes') : q \in 1..Len(nodes) \/ q = h
    BY <1>6, <1>8
  <2> QED  BY <2>1 DEF Slots
<1>11. \A d \in 1..B : <<h, d>> \in Slots' /\ <<h, d>> \notin Slots
  <2>1. h \in 1..Len(nodes') /\ h \notin 1..Len(nodes)
    BY <1>6, <1>8
  <2> QED  BY <2>1 DEF Slots
<1>12. \A e \in Slots : /\ e[1] \in 1..Len(nodes) /\ e[2] \in 1..B /\ e = <<e[1], e[2]>>
                        /\ Link(e) \in Object
  BY SlotParts
<1>13. \A e \in Slots : Link(e)' = IF e = p THEN Node(h) ELSE Link(e)
  <2> SUFFICES ASSUME NEW e \in Slots PROVE Link(e)' = IF e = p THEN Node(h) ELSE Link(e)
    OBVIOUS
  <2>1. Link(e)' = M[e[1]].next[e[2]]
    BY <1>6, <1>12 DEF Link
  <2>2. e = p <=> e[1] = n /\ e[2] = c
    BY <1>12
  <2> QED  BY <1>3, <1>12, <2>1, <2>2 DEF Link
<1>14. ASSUME NEW e \in Slots, e # p, ~IsNode(Link(e)) PROVE Items(Link(e))' = Items(Link(e))
  <2>1. Link(e)[2] \in 1..Len(trees)
    BY <1>12, <1>14, ObjectCases
  <2>2. Link(e)' = Link(e)
    BY <1>13, <1>14
  <2> QED  BY <1>6, <2>1, <2>2 DEF Items
<1>15. ASSUME NEW d \in 1..B
       PROVE  Items(Link(<<h, d>>))' = {w[l] : l \in (Begin(first, len, d - 1) + 1)..Begin(first, len, d)}
  <2>1. Items(Link(<<h, d>>))' = Items(Tree(m + d))'
    BY <1>6 DEF Items
  <2> QED  BY <1>6, <2>1
<1>16. \A q \in 1..Len(nodes) : \A k : Child(q, k)' = Child(q, k)
  <2> SUFFICES ASSUME NEW q \in 1..Len(nodes), NEW k PROVE Child(q, k)' = Child(q, k)
    OBVIOUS
  <2>1. nodes'[q].keys = nodes[q].keys
    BY <1>3, <1>6
  <2> QED  BY <2>1 DEF Child
<1>17. nodes' # <<>>
  BY <1>6, <1>8
<1> QED
  BY <1>6, <1>7, <1>9, <1>10, <1>11, <1>13, <1>14, <1>15, <1>16, <1>17 DEF ChildMade

\* The keys of the new node are those that its slot had.
Handed(K, p) == [q \in 1..(Len(nodes) + 1) |-> IF q = Len(nodes) + 1 THEN KeysOf(K, p) ELSE K[q]]

\* It gets the keys of that slot, and no other node's change.
LEMMA HandedKeys ==
    ASSUME ShapeType, NEW K \in [1..Len(nodes) -> SUBSET Key], NEW p, NEW h, NEW m, NEW w, NEW first, NEW len,
           ChildMade(p, h, m, w, first, len), nodes # <<>>, NEW J, J = Handed(K, p)
    PROVE  /\ J \in [1..Len(nodes') -> SUBSET Key] /\ J[1] = K[1] /\ J[h] = KeysOf(K, p)
           /\ \A q \in 1..Len(nodes) : J[q] = K[q]
           /\ \A e : e[1] \in 1..Len(nodes) => KeysOf(J, e)' = KeysOf(K, e)
           /\ \A c \in 1..B : \A e : e = <<h, c>> => KeysOf(J, e)' = {k \in KeysOf(K, p) : Child(h, k)' = c}
<1>1. Len(nodes) \in Nat /\ h = Len(nodes) + 1 /\ Len(nodes') = h /\ p \in Slots /\ 0 \notin 1..B
  BY DEF ShapeType, ChildMade
<1>2. p[1] \in 1..Len(nodes)
  BY <1>1, SlotParts
<1>3. KeysOf(K, p) \in SUBSET Key
  BY <1>2 DEF KeysOf
<1>4. \A q \in 1..(Len(nodes) + 1) : q # Len(nodes) + 1 => q \in 1..Len(nodes)
  BY <1>1
<1>5. J \in [1..Len(nodes') -> SUBSET Key]
  BY <1>1, <1>3, <1>4 DEF Handed
<1>6. \A q \in 1..Len(nodes) : q \in 1..(Len(nodes) + 1) /\ q # Len(nodes) + 1
  BY <1>1
<1>7. J[h] = KeysOf(K, p) /\ \A q \in 1..Len(nodes) : J[q] = K[q]
  <2>1. h \in 1..(Len(nodes) + 1)
    BY <1>1
  <2> QED  BY <1>1, <1>6, <2>1 DEF Handed
<1>8. 1 \in 1..Len(nodes)
  BY DEF ShapeType
<1>9. \A e : e[1] \in 1..Len(nodes) => KeysOf(J, e)' = KeysOf(K, e)
  <2>1. \A q \in 1..Len(nodes) : \A k : Child(q, k)' = Child(q, k)
    BY DEF ChildMade
  <2> SUFFICES ASSUME NEW e, e[1] \in 1..Len(nodes) PROVE KeysOf(J, e)' = KeysOf(K, e)
    OBVIOUS
  <2>2. J[e[1]] = K[e[1]] /\ \A k : Child(e[1], k)' = Child(e[1], k)
    BY <1>7, <2>1
  <2> QED  BY <2>2 DEF KeysOf
<1>10. \A c \in 1..B : \A e : e = <<h, c>> => KeysOf(J, e)' = {k \in KeysOf(K, p) : Child(h, k)' = c}
  <2> SUFFICES ASSUME NEW c \in 1..B, NEW e, e = <<h, c>>
               PROVE  KeysOf(J, e)' = {k \in KeysOf(K, p) : Child(h, k)' = c}
    OBVIOUS
  <2>1. e[1] = h /\ e[2] = c /\ c # 0
    BY <1>1
  <2>2. KeysOf(J, e)' = {k \in J[e[1]] : Child(e[1], k)' = e[2]}
    BY <2>1 DEF KeysOf
  <2> QED  BY <1>7, <2>1, <2>2
<1> QED
  BY <1>5, <1>7, <1>8, <1>9, <1>10

\* The links of the tree after that.
LEMMA ChildLinks ==
    ASSUME ShapeType, ShapeType', LinkInv, nodes # <<>>, head' = head,
           NEW p, NEW h, NEW m, NEW w, NEW first, NEW len, ChildMade(p, h, m, w, first, len), Empty(p)
    PROVE  /\ LinkInv'
           /\ \A e \in Slots' : Empty(e)' <=> e \in Slots /\ e # p /\ Empty(e)
           /\ \A e \in Slots : Filled(e)' <=> e # p /\ Filled(e)
           /\ \A c \in 1..B : Filled(<<h, c>>)' /\ ~IsNode(Link(<<h, c>>)')
<1>1. /\ h = Len(nodes) + 1 /\ m = Len(trees) /\ Len(nodes') = h /\ nodes' # <<>>
      /\ Slots \subseteq Slots' /\ p \in Slots
      /\ \A e \in Slots' : e \in Slots \/ \E c \in 1..B : e = <<h, c>>
      /\ Link(p)' = Node(h)
      /\ \A e \in Slots : e # p => Link(e)' = Link(e)
      /\ \A c \in 1..B : Link(<<h, c>>)' = Tree(m + c)
      /\ \A c \in 1..B : <<h, c>> \in Slots' /\ <<h, c>> \notin Slots
  BY DEF ChildMade
<1>2. Len(nodes) \in Nat /\ m \in Nat /\ m > 1 /\ h \in Nat /\ h > Len(nodes) /\ B \in Nat
  BY <1>1, BType DEF ShapeType
<1>3. \A e \in Slots : /\ Link(e) \in Object /\ e[1] \in 1..Len(nodes)
                       /\ IsNode(Link(e)) => Link(e) = Node(Link(e)[2]) /\ Link(e)[2] \in 1..Len(nodes)
                       /\ ~IsNode(Link(e)) => Link(e) = Tree(Link(e)[2]) /\ Link(e)[2] \in 1..m
  BY <1>1, SlotParts, ObjectCases
<1>4. \A e : (Empty(e)' <=> Link(e)' = Tree(1)) /\ (Filled(e)' <=> ~IsNode(Link(e)') /\ Link(e)' # Tree(1))
  BY ObjectCases DEF Empty, Filled
<1>5. \A e : (Empty(e) <=> Link(e) = Tree(1)) /\ (Filled(e) <=> ~IsNode(Link(e)) /\ Link(e) # Tree(1))
  BY ObjectCases DEF Empty, Filled
<1>6. \A c \in 1..B : Filled(<<h, c>>)' /\ ~IsNode(Link(<<h, c>>)') /\ ~Empty(<<h, c>>)'
  <2>1. \A c \in 1..B : m + c # 1
    BY <1>2
  <2> QED  BY <1>1, <1>4, <2>1, ObjectCases
<1>7. ~Empty(p)' /\ ~Filled(p)'
  BY <1>1, <1>4, ObjectCases
<1>8. \A e \in Slots' : Empty(e)' <=> e \in Slots /\ e # p /\ Empty(e)
  BY <1>1, <1>4, <1>5, <1>6, <1>7
<1>9. \A e \in Slots : Filled(e)' <=> e # p /\ Filled(e)
  BY <1>1, <1>4, <1>5, <1>7
<1>10. LinkInv'
  <2>1. head' = IF nodes' = <<>> THEN Tree(2) ELSE Node(1)
    BY <1>1 DEF LinkInv
  <2>2. ASSUME NEW a \in 2..Len(nodes') PROVE \E e \in Slots' : Link(e)' = Node(a)
    <3>1. CASE a = h
      BY <1>1, <3>1
    <3>2. CASE a # h
      <4>1. a \in 2..Len(nodes)
        BY <1>1, <1>2, <3>2
      <4>2. PICK e \in Slots : Link(e) = Node(a)
        BY <4>1 DEF LinkInv
      <4>3. e # p
        BY <1>5, <4>2, ObjectCases
      <4> QED  BY <1>1, <4>2, <4>3
    <3> QED  BY <3>1, <3>2
  <2>3. ASSUME NEW e \in Slots', IsNode(Link(e)') PROVE e[1] < Link(e)'[2]
    <3>1. e \in Slots
      BY <1>1, <1>6, <2>3
    <3>2. CASE e = p
      <4>1. Link(e)'[2] = h
        BY <1>1, <3>2, ObjectCases
      <4>2. e[1] \in Nat /\ e[1] <= Len(nodes)
        BY <1>2, <1>3, <3>1
      <4> QED  BY <1>2, <4>1, <4>2
    <3>3. CASE e # p
      BY <1>1, <2>3, <3>1, <3>3 DEF LinkInv
    <3> QED  BY <3>2, <3>3
  <2>4. ASSUME NEW e \in Slots', NEW f \in Slots', Link(e)' = Link(f)', ~Empty(e)' PROVE e = f
    <3>1. ASSUME NEW x \in Slots, NEW c \in 1..B PROVE Link(x)' # Link(<<h, c>>)'
      <4>1. CASE x = p
        BY <1>1, <4>1, ObjectCases
      <4>2. CASE x # p
        <5>1. Link(x)' = Link(x) /\ Link(<<h, c>>)' = Tree(m + c)
          BY <1>1, <4>2
        <5>2. CASE IsNode(Link(x))
          BY <5>1, <5>2, ObjectCases
        <5>3. CASE ~IsNode(Link(x))
          <6>1. PICK b \in 1..m : Link(x) = Tree(b)
            BY <1>3, <5>3
          <6>2. b # m + c
            BY <1>2
          <6> QED  BY <5>1, <6>1, <6>2, ObjectCases
        <5> QED  BY <5>2, <5>3
      <4> QED  BY <4>1, <4>2
    <3>2. ASSUME NEW x \in Slots, x # p PROVE Link(x)' # Link(p)'
      <4>1. Link(x)' = Link(x) /\ Link(p)' = Node(h)
        BY <1>1, <3>2
      <4>2. Link(x) # Node(h)
        <5>1. CASE IsNode(Link(x))
          <6>1. PICK b \in 1..Len(nodes) : Link(x) = Node(b)
            BY <1>3, <5>1
          <6>2. b # h
            BY <1>2
          <6> QED  BY <6>1, <6>2, ObjectCases
        <5>2. CASE ~IsNode(Link(x))
          BY <5>2, ObjectCases
        <5> QED  BY <5>1, <5>2
      <4> QED  BY <4>1, <4>2
    <3>3. CASE e \in Slots /\ f \in Slots
      <4>1. e # p /\ f # p => Link(e) = Link(f) /\ ~Empty(e)
        BY <1>1, <1>4, <1>5, <2>4, <3>3
      <4> QED  BY <2>4, <3>2, <3>3, <4>1 DEF LinkInv
    <3>4. CASE (\E c \in 1..B : e = <<h, c>>) /\ (\E c \in 1..B : f = <<h, c>>)
      <4>1. PICK c \in 1..B : e = <<h, c>>
        BY <3>4
      <4>2. PICK d \in 1..B : f = <<h, d>>
        BY <3>4
      <4>3. Tree(m + c) = Tree(m + d)
        BY <1>1, <2>4, <4>1, <4>2
      <4>4. m + c = m + d
        BY <4>3, ObjectCases
      <4> QED  BY <1>2, <4>1, <4>2, <4>4
    <3> QED  BY <1>1, <2>4, <3>1, <3>3, <3>4
  <2> QED  BY <2>1, <2>2, <2>3, <2>4 DEF LinkInv
<1> QED
  BY <1>6, <1>8, <1>9, <1>10

\* The nodes to come to are the same: the new one is none.
LEMMA ChildCover ==
    ASSUME ShapeType, ChangeType, NEW t \in Thread, NEW U, CoverOf(t, U), U \in SUBSET (1..Len(nodes)), at[t] = "build", at'[t] = "build",
           NEW p, NEW h, NEW m, NEW w, NEW first, NEW len, ChildMade(p, h, m, w, first, len),
           p = Place(todo[t][1]), p[2] # 0, Shortened(t),
           \A e \in Slots' : Empty(e)' <=> e \in Slots /\ e # p /\ Empty(e),
           \A e \in Slots : Filled(e)' <=> e # p /\ Filled(e)
    PROVE  CoverOf(t, U)'
<1>1. /\ \A x : x \in Places(t)' <=> x \in Places(t) /\ x # p
      /\ \A j, l \in 1..Len(todo'[t]) : Place(todo'[t][j]) = Place(todo'[t][l]) => j = l
  BY PlacesShorten
<1>2. /\ h = Len(nodes) + 1 /\ Len(nodes) \in Nat
      /\ Slots \subseteq Slots' /\ p \in Slots
      /\ \A e \in Slots' : e \in Slots \/ \E c \in 1..B : e = <<h, c>>
      /\ \A e \in Slots : e # p => Link(e)' = Link(e)
  BY DEF ChildMade, ShapeType
<1>3. p \in Places(t) /\ p[1] \notin U
  <2>1. p \in Places(t)
    BY DEF Places, Shortened
  <2> QED  BY <2>1 DEF CoverOf
<1>4. \A e \in Slots' : e[1] \in U => e \in Slots /\ e # p /\ Link(e)' = Link(e)
  <2>1. h \notin U
    BY <1>2
  <2>2. \A e \in Slots' : e[1] \in U => e \in Slots /\ e # p
    BY <1>2, <1>3, <2>1
  <2> QED  BY <1>2, <2>2
<1>5. \A a \in U : <<a, 0>> # p
  BY <1>3
<1>6. \A a \in U : <<a, 0>> \in Places(t)' \/ \E e \in Slots' : e[1] \in U /\ Link(e)' = Node(a)
  <2> SUFFICES ASSUME NEW a \in U, <<a, 0>> \notin Places(t)'
               PROVE  \E e \in Slots' : e[1] \in U /\ Link(e)' = Node(a)
    OBVIOUS
  <2>1. PICK e \in Slots : e[1] \in U /\ Link(e) = Node(a)
    BY <1>1, <1>5 DEF CoverOf
  <2> QED  BY <1>2, <1>4, <2>1
<1>7. \A x \in Places(t)' :
         IF x[2] = 0 THEN x[1] \in U /\ \A e \in Slots' : e[1] \in U => Link(e)' # Node(x[1])
         ELSE x[1] \notin U
  BY <1>1, <1>4 DEF CoverOf
<1>8. \A e \in Slots' : e[1] \in U /\ IsNode(Link(e)') => Link(e)'[2] \in U
  BY <1>4 DEF CoverOf
<1>9. \A a \in U, c \in 1..B : Link(<<a, c>>)' = Link(<<a, c>>)
  <2>1. \A a \in U, c \in 1..B : <<a, c>> \in Slots /\ <<a, c>> # p
    BY <1>3, SlotParts
  <2> QED  BY <1>2, <2>1
<1>10. \A a \in U : (\A c \in 1..B : ~IsNode(Link(<<a, c>>)')) \/ (\A c \in 1..B : IsNode(Link(<<a, c>>)'))
  BY <1>9 DEF CoverOf
<1>11. \A e \in Slots' : e \in Places(t)' => e \in Slots
  <2>1. ASSUME NEW x \in Places(t) PROVE x[1] \in 1..Len(nodes)
    <3>1. PICK j \in 1..Len(todo[t]) : x = Place(todo[t][j])
      BY DEF Places
    <3>2. todo[t][j] \in Tasks
      BY DEF ChangeType
    <3> QED  BY <3>1, <3>2 DEF Place, Tasks
  <2>2. \A c \in 1..B : <<h, c>>[1] \notin 1..Len(nodes)
    BY <1>2
  <2> QED  BY <1>1, <1>2, <2>1, <2>2
<1>12. \A e \in Slots' : /\ Empty(e)' => e[1] \in U \/ e \in Places(t)'
                         /\ Filled(e)' => e[1] \notin U
                         /\ e \in Places(t)' => Empty(e)'
  BY <1>1, <1>4, <1>11 DEF CoverOf
<1> QED
  BY <1>1, <1>6, <1>7, <1>8, <1>10, <1>12 DEF CoverOf

\* In place of an old treelet a node with B treelets gets the keys of the old one's range.
LEMMA BuildChildStep ==
    ASSUME NEW U, NEW K, Known(U, K), NEW t \in Thread, BuildChild(t)
    PROVE  SameKept /\ \E V, J : Known(V, J)'
<1>1. Rebuild(t) /\ at[t] = "build" /\ todo[t] # <<>> /\ Head(todo[t]).child > 0
  BY DEF Rebuild, BuildChild
<1>2. /\ ShapeType /\ WalkType /\ ChangeType /\ TreeletInv /\ LinkInv /\ LeafInv /\ ChangeOf(t) /\ CoverOf(t, U)
      /\ OpType /\ U \in SUBSET (1..Len(nodes)) /\ K \in [1..Len(nodes) -> SUBSET Key] /\ BuildOf(t, K)
      /\ KeyInv(U, K)
  BY <1>1, KnownParts DEF ChangeInv, CoverInv, BuildInv
<1>3. PICK w \in Seq(Key) : w = v[t]
  BY <1>2 DEF ChangeType
<1>4. PICK k : k = todo[t][1]
  OBVIOUS
<1>5. PICK n, c : n = k.node /\ c = k.child
  OBVIOUS
<1>6. PICK first, len : first = From(k) /\ len = To(k) - From(k)
  OBVIOUS
<1>7. PICK h, m : h = Len(nodes) + 1 /\ m = Len(trees)
  OBVIOUS
<1>8. /\ nodes # <<>> /\ Head(todo[t]) = k /\ 1 \in 1..Len(todo[t]) /\ k \in Tasks
      /\ n \in 1..Len(nodes) /\ c \in 1..B /\ k.first \in Nat /\ k.len \in Nat
  <2>1. nodes # <<>> /\ todo[t] \in Seq(Tasks) /\ todo[t] # <<>>
    BY <1>1, <1>2 DEF ChangeOf, ChangeType
  <2>2. Head(todo[t]) = k /\ 1 \in 1..Len(todo[t]) /\ k \in Tasks
    BY <1>4, <2>1
  <2>3. k.first \in Nat /\ k.len \in Nat /\ k.node \in 1..Len(nodes) /\ k.child \in 0..B
    BY <2>2 DEF Tasks
  <2>4. k.child > 0
    BY <1>1, <2>2
  <2> QED  BY <1>5, <2>1, <2>2, <2>3, <2>4, BType
<1>9. /\ From(k) = Begin(k.first, k.len, c - 1) /\ To(k) = Begin(k.first, k.len, c)
      /\ first \in Nat /\ len \in Nat /\ first + len = To(k) /\ first + len <= Len(w)
      /\ \A l \in (first + 1)..(first + len) : w[l] \in KeysOf(K, Place(k))
  <2>1. From(k) = Begin(k.first, k.len, c - 1) /\ To(k) = Begin(k.first, k.len, c)
    BY <1>5, <1>8, BType DEF From, To
  <2>2. \A a, d \in Nat : Begin(k.first, k.len, a) \in Nat /\ (a <= d => Begin(k.first, k.len, a) <= Begin(k.first, k.len, d))
    BY <1>8, BeginBounds
  <2>3. Begin(k.first, k.len, B) = k.first + k.len
    BY <1>8, BeginBounds
  <2>4. c - 1 \in Nat /\ c \in Nat /\ c - 1 <= c /\ c <= B /\ B \in Nat
    BY <1>8, BType
  <2>5. From(k) \in Nat /\ To(k) \in Nat /\ From(k) <= To(k) /\ To(k) <= k.first + k.len
    BY <2>1, <2>2, <2>3, <2>4
  <2>6. /\ k.first + k.len <= Len(w)
        /\ \A l \in (From(k) + 1)..To(k) : w[l] \in KeysOf(K, Place(k))
    BY <1>2, <1>3, <1>4, <1>8 DEF BuildOf
  <2>7. first \in Nat /\ len \in Nat /\ first + len = To(k) /\ first = From(k)
    BY <1>6, <2>5
  <2>8. Len(w) \in Nat
    OBVIOUS
  <2> QED  BY <1>8, <2>1, <2>5, <2>6, <2>7, <2>8
<1>10. PICK p : p = <<n, c>>
  OBVIOUS
<1>11. p = Place(k) /\ p[1] = n /\ p[2] = c /\ p[2] # 0 /\ p \in Slots /\ p \in Places(t) /\ n \notin U /\ Empty(p)
  <2>1. p = Place(k) /\ p[1] = n /\ p[2] = c /\ p[2] # 0 /\ p \in Slots
    BY <1>2, <1>5, <1>8, <1>10, BType, SlotParts DEF Place
  <2>2. p \in Places(t)
    BY <1>4, <1>8, <2>1 DEF Places
  <2> QED  BY <1>1, <1>2, <2>1, <2>2 DEF CoverOf
<1>12. /\ nodes' = Append(LinkSet(n, c, Node(h)), NewNode(w, first, len))
       /\ trees' = trees \o NewTrees(w, first, len)
       /\ head' = head /\ idx' = idx /\ cur' = cur /\ v' = v /\ at' = at
       /\ todo' = [todo EXCEPT ![t] = Tail(@)]
  <2>1. Begin(k.first, k.len, k.child - 1) = first /\ Begin(k.first, k.len, k.child) - first = len
    BY <1>5, <1>6, <1>9
  <2> QED  BY <1>3, <1>5, <1>7, <1>8, <2>1 DEF BuildChild, LinkSet, walkVars
<1>13. \A j, l \in 1..Len(w) : j < l => w[j] < w[l]
  BY <1>2, <1>3 DEF ChangeOf
<1>14. /\ ChildMade(p, h, m, w, first, len)
       /\ ShapeType' /\ Object \subseteq Object' /\ \A a \in 1..Len(trees) : trees'[a] = trees[a]
  BY <1>2, <1>7, <1>8, <1>9, <1>10, <1>12, <1>13, ChildGrows
<1>15. Shortened(t) /\ todo' \in [Thread -> Seq(Tasks)]
  BY <1>1, <1>2, <1>12, TodoShortens
<1>16. /\ LinkInv'
       /\ \A e \in Slots' : Empty(e)' <=> e \in Slots /\ e # p /\ Empty(e)
       /\ \A e \in Slots : Filled(e)' <=> e # p /\ Filled(e)
       /\ \A d \in 1..B : Filled(<<h, d>>)' /\ ~IsNode(Link(<<h, d>>)')
  BY <1>2, <1>8, <1>11, <1>12, <1>14, ChildLinks
<1>17. at'[t] = "build"
  BY <1>1, <1>12
<1>18. CoverOf(t, U)'
  <2>1. p = Place(todo[t][1])
    BY <1>4, <1>11
  <2> QED  BY <1>1, <1>2, <1>11, <1>14, <1>15, <1>16, <1>17, <2>1, ChildCover
<1>19. /\ Len(nodes) \in Nat /\ Len(nodes') = Len(nodes) + 1 /\ h = Len(nodes) + 1 /\ nodes' # <<>>
       /\ Slots \subseteq Slots'
       /\ \A e \in Slots' : e \in Slots \/ \E d \in 1..B : e = <<h, d>>
       /\ \A d \in 1..B : <<h, d>> \in Slots' /\ <<h, d>> \notin Slots
       /\ Link(p)' = Node(h)
       /\ \A e \in Slots : e # p => Link(e)' = Link(e) /\ (~IsNode(Link(e)) => Items(Link(e))' = Items(Link(e)))
       /\ \A d \in 1..B : Items(Link(<<h, d>>))' = {w[l] : l \in (Begin(first, len, d - 1) + 1)..Begin(first, len, d)}
       /\ \A d \in 1..B : \A l \in (Begin(first, len, d - 1) + 1)..Begin(first, len, d) : Child(h, w[l])' = d
  BY <1>2, <1>14 DEF ChildMade, ShapeType
<1>20. WalkType' /\ ChangeType'
  <2>1. Len(nodes) <= Len(nodes')
    BY <1>19
  <2>2. /\ WalkType' /\ v' \in [Thread -> Seq(Key)]
    BY <1>2, <1>12, <1>14, <2>1, TypesGrow
  <2>3. Seq(Tasks) \subseteq Seq(Tasks')
    <3>1. 1..Len(nodes) \subseteq 1..Len(nodes')
      BY <1>19
    <3>2. Tasks \subseteq Tasks'
      BY <3>1 DEF Tasks
    <3> QED  BY <3>2, SeqMonotonic
  <2> QED  BY <1>15, <2>2, <2>3 DEF ChangeType
<1>21. TreeletInv'
  <2>1. ~Has(t)'
    BY <1>17 DEF Has
  <2> QED  BY <1>1, <1>14, <2>1, Alone, TreesGrow
<1>22. ChangeOf(t)' /\ \A u \in Thread : at[u] # "own"
  BY <1>1, <1>2, <1>12, <1>17, <1>19 DEF ChangeOf, Gathers
<1>23. PICK J : J = Handed(K, p)
  OBVIOUS
<1>24. /\ J \in [1..Len(nodes') -> SUBSET Key] /\ J[1] = K[1] /\ J[h] = KeysOf(K, p)
       /\ \A q \in 1..Len(nodes) : J[q] = K[q]
       /\ \A e : e[1] \in 1..Len(nodes) => KeysOf(J, e)' = KeysOf(K, e)
       /\ \A d \in 1..B : \A e : e = <<h, d>> => KeysOf(J, e)' = {x \in KeysOf(K, p) : Child(h, x)' = d}
  BY <1>2, <1>8, <1>14, <1>23, HandedKeys
<1>25. \A e \in Slots : e[1] \in 1..Len(nodes) /\ Link(e) \in Object
  BY <1>2, SlotParts
<1>26. \A e \in Slots : e[1] \notin U =>
         IF IsNode(Link(e)) THEN K[Link(e)[2]] = KeysOf(K, e) ELSE Items(Link(e)) \subseteq KeysOf(K, e)
  <2>1. \A e \in Slots : e[1] \notin U => e[1] \in Ready(U)
    BY <1>1, <1>25, FrontierBefore
  <2> QED  BY <1>2, <2>1 DEF KeyInv
<1>27. \A d \in 1..B : \A l \in (Begin(first, len, d - 1) + 1)..Begin(first, len, d) : l \in (first + 1)..(first + len)
  <2> SUFFICES ASSUME NEW d \in 1..B, NEW l \in (Begin(first, len, d - 1) + 1)..Begin(first, len, d)
               PROVE  l \in (first + 1)..(first + len)
    OBVIOUS
  <2>1. \A a, b \in Nat : /\ Begin(first, len, a) \in Nat /\ first <= Begin(first, len, a)
                          /\ a <= b => Begin(first, len, a) <= Begin(first, len, b)
    BY <1>9, BeginBounds
  <2>2. Begin(first, len, B) = first + len
    BY <1>9, BeginBounds
  <2>3. d - 1 \in Nat /\ d \in Nat /\ d <= B /\ B \in Nat
    BY BType
  <2>4. /\ Begin(first, len, d - 1) \in Nat /\ Begin(first, len, d) \in Nat
        /\ first <= Begin(first, len, d - 1) /\ Begin(first, len, d) <= first + len
    BY <2>1, <2>2, <2>3
  <2> QED  BY <1>9, <2>4
<1>28. ASSUME NEW e \in Slots', e[1] \notin U
       PROVE  IF IsNode(Link(e)') THEN J[Link(e)'[2]] = KeysOf(J, e)' ELSE Items(Link(e))' \subseteq KeysOf(J, e)'
  <2>1. CASE e \in Slots /\ e # p
    <3>1. Link(e)' = Link(e) /\ KeysOf(J, e)' = KeysOf(K, e)
      BY <1>19, <1>24, <1>25, <2>1
    <3>2. CASE IsNode(Link(e))
      <4>1. Link(e)[2] \in 1..Len(nodes)
        BY <1>25, <2>1, <3>2, ObjectCases
      <4> QED  BY <1>24, <1>26, <1>28, <2>1, <3>1, <3>2, <4>1
    <3>3. CASE ~IsNode(Link(e))
      BY <1>19, <1>26, <1>28, <2>1, <3>1, <3>3
    <3> QED  BY <3>2, <3>3
  <2>2. CASE e = p
    <3>1. Link(e)' = Node(h) /\ KeysOf(J, e)' = KeysOf(K, p)
      BY <1>11, <1>19, <1>24, <1>25, <2>2
    <3>2. IsNode(Link(e)') /\ Link(e)'[2] = h
      BY <3>1, ObjectCases
    <3> QED  BY <1>24, <3>1, <3>2
  <2>3. CASE e \notin Slots
    <3>1. PICK d \in 1..B : e = <<h, d>>
      BY <1>19, <2>3
    <3>2. ~IsNode(Link(e)') /\ Items(Link(e))' = {w[l] : l \in (Begin(first, len, d - 1) + 1)..Begin(first, len, d)}
      BY <1>16, <1>19, <3>1
    <3>3. \A l \in (Begin(first, len, d - 1) + 1)..Begin(first, len, d) : w[l] \in KeysOf(K, p) /\ Child(h, w[l])' = d
      BY <1>9, <1>11, <1>19, <1>27
    <3>4. KeysOf(J, e)' = {x \in KeysOf(K, p) : Child(h, x)' = d}
      BY <1>24, <3>1
    <3> QED  BY <3>2, <3>3, <3>4
  <2> QED  BY <2>1, <2>2, <2>3
\* The children of the new node share out the keys of its slot.
<1>29. ASSUME NEW e \in Ends(t, U)'
       PROVE  \/ e \in Ends(t, U) /\ e # p /\ KeysOf(J, e)' = KeysOf(K, e)
              \/ \E d \in 1..B : e = <<h, d>>
  <2>1. CASE e \in Slots' /\ (at'[t] = "build" => e[1] \notin U) /\ ~IsNode(Link(e)')
    <3>1. CASE e \in Slots
      <4>1. e # p
        BY <1>19, <2>1, ObjectCases
      <4>2. e \in Ends(t, U)
        BY <1>17, <1>19, <2>1, <3>1, <4>1 DEF Ends
      <4> QED  BY <1>24, <1>25, <3>1, <4>1, <4>2
    <3> QED  BY <1>19, <2>1, <3>1
  <2>2. CASE e \in Places(t)' /\ e[2] = 0
    <3>1. e \in Places(t) /\ e # p
      BY <1>2, <1>4, <1>11, <1>15, <2>2, PlacesShorten
    <3>2. e \in Ends(t, U)
      BY <1>1, <2>2, <3>1 DEF Ends
    <3>3. e[1] \in 1..Len(nodes)
      BY <1>2, <2>2, <3>1 DEF CoverOf
    <3> QED  BY <1>24, <3>1, <3>2, <3>3
  <2> QED  BY <2>1, <2>2 DEF Ends
<1>30. \A e, f \in Ends(t, U)' : e # f => KeysOf(J, e)' \intersect KeysOf(J, f)' = {}
  <2> SUFFICES ASSUME NEW e \in Ends(t, U)', NEW f \in Ends(t, U)', e # f
               PROVE  KeysOf(J, e)' \intersect KeysOf(J, f)' = {}
    OBVIOUS
  <2>1. \A x, y \in Ends(t, U) : x # y => KeysOf(K, x) \intersect KeysOf(K, y) = {}
    BY <1>1, <1>2, FrontierBefore DEF KeyInv
  <2>2. p \in Ends(t, U)
    BY <1>11, ObjectCases DEF Ends, Empty
  <2>3. \A d \in 1..B : \A x : x = <<h, d>> => KeysOf(J, x)' = {y \in KeysOf(K, p) : Child(h, y)' = d}
    BY <1>24
  <2>4. CASE /\ e \in Ends(t, U) /\ e # p /\ KeysOf(J, e)' = KeysOf(K, e)
             /\ f \in Ends(t, U) /\ f # p /\ KeysOf(J, f)' = KeysOf(K, f)
    BY <2>1, <2>4
  <2>5. CASE /\ e \in Ends(t, U) /\ e # p /\ KeysOf(J, e)' = KeysOf(K, e)
             /\ \E d \in 1..B : f = <<h, d>>
    <3>1. KeysOf(J, f)' \subseteq KeysOf(K, p)
      BY <2>3, <2>5
    <3> QED  BY <2>1, <2>2, <2>5, <3>1
  <2>6. CASE /\ f \in Ends(t, U) /\ f # p /\ KeysOf(J, f)' = KeysOf(K, f)
             /\ \E d \in 1..B : e = <<h, d>>
    <3>1. KeysOf(J, e)' \subseteq KeysOf(K, p)
      BY <2>3, <2>6
    <3> QED  BY <2>1, <2>2, <2>6, <3>1
  <2>7. CASE (\E d \in 1..B : e = <<h, d>>) /\ (\E d \in 1..B : f = <<h, d>>)
    <3>1. PICK a \in 1..B : e = <<h, a>>
      BY <2>7
    <3>2. PICK b \in 1..B : f = <<h, b>>
      BY <2>7
    <3>3. a # b
      BY <3>1, <3>2
    <3>4. /\ KeysOf(J, e)' = {y \in KeysOf(K, p) : Child(h, y)' = a}
          /\ KeysOf(J, f)' = {y \in KeysOf(K, p) : Child(h, y)' = b}
      BY <2>3, <3>1, <3>2
    <3> QED  BY <3>3, <3>4
  <2> QED  BY <1>29, <2>4, <2>5, <2>6, <2>7
\* What is left of the vector.
<1>31. \A j : /\ From(todo[t][j])' = From(todo'[t][j]) /\ To(todo[t][j])' = To(todo'[t][j])
              /\ Place(todo[t][j])' = Place(todo'[t][j])
  BY DEF From, To, Begin, Place
<1>32. ASSUME NEW j \in 1..Len(todo'[t])
       PROVE  /\ todo'[t][j].first + todo'[t][j].len <= Len(w)
              /\ \A x : x = Place(todo'[t][j]) =>
                   \A l \in (From(todo'[t][j]) + 1)..To(todo'[t][j]) : w[l] \in KeysOf(J, x)'
  <2>1. PICK a \in 1..Len(todo[t]) : todo'[t][j] = todo[t][a]
    BY <1>15 DEF Shortened
  <2>2. /\ todo[t][a].first + todo[t][a].len <= Len(w)
        /\ \A l \in (From(todo[t][a]) + 1)..To(todo[t][a]) : w[l] \in KeysOf(K, Place(todo[t][a]))
    BY <1>2, <1>3 DEF BuildOf
  <2>3. PICK x : x = Place(todo[t][a])
    OBVIOUS
  <2>4. x[1] \in 1..Len(nodes)
    <3>1. todo[t][a] \in Tasks
      BY <1>2 DEF ChangeType
    <3> QED  BY <2>3, <3>1 DEF Place, Tasks
  <2>5. KeysOf(J, x)' = KeysOf(K, x)
    BY <1>24, <2>4
  <2> QED  BY <2>1, <2>2, <2>3, <2>5
<1>33. ASSUME NEW l \in 1..Len(w)
       PROVE  \/ \E e \in Slots' : ~IsNode(Link(e)') /\ w[l] \in Items(Link(e))'
              \/ \E j \in 1..Len(todo'[t]) : l \in (From(todo'[t][j]) + 1)..To(todo'[t][j])
  <2>1. CASE \E e \in Slots : ~IsNode(Link(e)) /\ w[l] \in Items(Link(e))
    <3>1. PICK e \in Slots : ~IsNode(Link(e)) /\ w[l] \in Items(Link(e))
      BY <2>1
    <3>2. e # p
      <4>1. Items(Link(p)) = {}
        BY <1>2, <1>11, ObjectCases DEF Items, TreeletInv, Empty
      <4> QED  BY <3>1, <4>1
    <3> QED  BY <1>19, <3>1, <3>2
  <2>2. CASE \E j \in 1..Len(todo[t]) : l \in (From(todo[t][j]) + 1)..To(todo[t][j])
    <3>1. PICK j \in 1..Len(todo[t]) : l \in (From(todo[t][j]) + 1)..To(todo[t][j])
      BY <2>2
    <3>2. CASE j = 1
      <4>1. l \in (first + 1)..(first + len)
        BY <1>4, <1>6, <1>9, <3>1, <3>2
      <4>2. PICK d \in 1..B : l \in (Begin(first, len, d - 1) + 1)..Begin(first, len, d)
        BY <1>9, <4>1, SomePart
      <4>3. PICK e : e = <<h, d>>
        OBVIOUS
      <4>4. e \in Slots' /\ ~IsNode(Link(e)') /\ w[l] \in Items(Link(e))'
        BY <1>16, <1>19, <4>2, <4>3
      <4> QED  BY <4>4
    <3>3. CASE j # 1
      <4>1. PICK a \in 1..Len(todo'[t]) : todo'[t][a] = todo[t][j]
        BY <1>15, <3>3 DEF Shortened
      <4> QED  BY <3>1, <4>1
    <3> QED  BY <3>2, <3>3
  <2> QED  BY <1>2, <1>3, <2>1, <2>2 DEF BuildOf
<1>34. BuildOf(t, J)'
  <2>1. v'[t] = w
    BY <1>3, <1>12
  <2>2. ASSUME NEW j \in 1..Len(todo'[t])
        PROVE  /\ todo'[t][j].first + todo'[t][j].len <= Len(v'[t])
               /\ \A l \in (From(todo[t][j])' + 1)..To(todo[t][j])' : v'[t][l] \in KeysOf(J, Place(todo[t][j]))'
    <3>1. PICK x : x = Place(todo'[t][j])
      OBVIOUS
    <3>2. KeysOf(J, Place(todo[t][j]))' = KeysOf(J, x)'
      BY <1>31, <3>1 DEF KeysOf, Child
    <3> QED  BY <1>31, <1>32, <2>1, <3>1, <3>2
  <2>3. ASSUME NEW l \in 1..Len(v'[t])
        PROVE  \/ \E e \in Slots' : ~IsNode(Link(e)') /\ v'[t][l] \in Items(Link(e))'
               \/ \E j \in 1..Len(todo'[t]) : l \in (From(todo[t][j])' + 1)..To(todo[t][j])'
    BY <1>31, <1>33, <2>1
  <2> QED  BY <2>2, <2>3 DEF BuildOf
<1>35. \A a \in 1..Len(nodes') :
         (\A d \in 1..B : Filled(<<a, d>>)') \/ (\A d \in 1..B : ~Filled(<<a, d>>)')
  <2> SUFFICES ASSUME NEW a \in 1..Len(nodes')
               PROVE  (\A d \in 1..B : Filled(<<a, d>>)') \/ (\A d \in 1..B : ~Filled(<<a, d>>)')
    OBVIOUS
  <2>1. CASE a = h
    BY <1>16, <2>1
  <2>2. CASE a # h
    <3>1. a \in 1..Len(nodes)
      BY <1>19, <2>2
    <3>2. (\A d \in 1..B : Filled(<<a, d>>)) \/ (\A d \in 1..B : ~Filled(<<a, d>>))
      <4>1. Building
        BY <1>1 DEF Building
      <4> QED  BY <1>2, <3>1, <4>1 DEF LeafInv
    <3>3. \A d \in 1..B : <<a, d>> \in Slots
      BY <1>2, <3>1, SlotParts
    <3>4. ~Filled(p)
      BY <1>11 DEF Filled
    <3>5. a = n => ~Filled(<<a, c>>)
      BY <1>10, <3>4
    <3>6. a # n => \A d \in 1..B : <<a, d>> # p
      BY <1>11
    <3> QED  BY <1>8, <1>16, <3>2, <3>3, <3>5, <3>6
  <2> QED  BY <2>1, <2>2
<1>36. U \in SUBSET (1..Len(nodes')) /\ J[1] = Key
  <2>1. K[1] = Key
    BY <1>2, <1>8 DEF KeyInv
  <2> QED  BY <1>2, <1>19, <1>24, <2>1
<1>37. \A e \in Slots' : (at'[t] = "build" => e[1] \notin U) =>
         IF IsNode(Link(e)') THEN J[Link(e)'[2]] = KeysOf(J, e)' ELSE Items(Link(e))' \subseteq KeysOf(J, e)'
  BY <1>17, <1>28
<1>38. at'[t] = "build" /\ ~Gathers(t)'
  BY <1>17 DEF Gathers
<1>39. Rebuilt(t, U, J)
  BY <1>14, <1>16, <1>18, <1>20, <1>21, <1>22, <1>24, <1>30, <1>34, <1>35, <1>36, <1>37, <1>38 DEF Rebuilt
\* The new treelets have keys of the vector, and in their place there was none.
<1>40. SameKept
  <2> SUFFICES ASSUME NEW x PROVE Kept(x)' <=> Kept(x)
    BY DEF SameKept
  <2>1. ~InRoot(x) /\ ~InRoot(x)'
    BY <1>8, <1>19 DEF InRoot
  <2>2. InVector(x)' <=> InVector(x)
    BY <1>12 DEF InVector
  <2>3. InLeaf(x) => InLeaf(x)'
    <3>1. x \notin Items(Link(p))
      <4>1. Items(Link(p)) = {}
        BY <1>2, <1>11, ObjectCases DEF TreeletInv, Items, Empty
      <4> QED  BY <4>1
    <3>2. \A e \in Slots : e # p /\ ~IsNode(Link(e)) => e \in Slots' /\ ~IsNode(Link(e)') /\ Items(Link(e))' = Items(Link(e))
      BY <1>19
    <3> QED  BY <3>1, <3>2 DEF InLeaf
  <2>4. ASSUME NEW e \in Slots', ~IsNode(Link(e)'), x \in Items(Link(e))' PROVE InLeaf(x) \/ InVector(x)
    <3>1. CASE e \in Slots
      <4>1. e # p
        BY <1>19, <2>4, ObjectCases
      <4> QED  BY <1>19, <2>4, <3>1, <4>1 DEF InLeaf
    <3>2. CASE e \notin Slots
      <4>1. PICK d \in 1..B : e = <<h, d>>
        BY <1>19, <3>2
      <4>2. Items(Link(e))' = {w[l] : l \in (Begin(first, len, d - 1) + 1)..Begin(first, len, d)}
        BY <1>19, <4>1
      <4>3. PICK l \in (first + 1)..(first + len) : x = w[l]
        BY <1>27, <2>4, <4>2
      <4>4. l \in 1..Len(w)
        BY <1>9, <4>3
      <4> QED  BY <1>3, <4>3, <4>4 DEF InVector, Range
    <3> QED  BY <3>1, <3>2
  <2>5. InLeaf(x)' => InLeaf(x) \/ InVector(x)
    BY <2>4 DEF InLeaf
  <2> QED  BY <2>1, <2>2, <2>3, <2>5 DEF Kept
<1> QED
  BY <1>1, <1>39, <1>40, RebuildKnows

-----------------------------------------------------------------------------
(* The invariant *)

\* The invariant says that some nodes are still to come to and some keys lead to each.
LEMMA InvariantKnows == IInv <=> \E U, K : Known(U, K)
BY DEF IInv, Known

\* A new tree: one treelet, no node.
LEMMA InitInv == Init => IInv
<1> SUFFICES ASSUME Init PROVE IInv
  OBVIOUS
<1>1. /\ LockInit /\ head = Tree(2) /\ nodes = <<>>
      /\ trees = <<[locked |-> FALSE, items |-> {}], [locked |-> FALSE, items |-> {}]>>
      /\ at = [t \in Thread |-> "idle"] /\ todo = [t \in Thread |-> <<>>] /\ v = [t \in Thread |-> <<>>]
  BY DEF Init
<1>2. Len(trees) = 2 /\ trees[1].items = {} /\ 1 \in 1..Len(trees) /\ 2 \in 1..Len(trees)
  BY <1>1
<1>3. head \in Object /\ NullTree \in Object
  BY <1>1, <1>2, ObjectCases
<1>4. Slots = {} /\ Len(nodes) = 0
  BY <1>1 DEF Slots
<1>5. TypeOK
  <2>1. LockType
    <3>1. 1 \in Thread
      BY SlotNumbers
    <3> QED  BY <1>1, <3>1 DEF LockType, LockInit, SlotStates, PCs
  <2>2. ShapeType
    <3>1. trees \in Seq(TreeType)
      <4>1. [locked |-> FALSE, items |-> {}] \in TreeType
        BY DEF TreeType
      <4> QED  BY <1>1, <4>1
    <3> QED  BY <1>1, <1>2, <1>3, <3>1 DEF ShapeType
  <2>3. CountType
    BY DLTreeAssumption DEF CountType, Init
  <2>4. OpType
    <3>1. (CHOOSE k \in Key : TRUE) \in Key
      BY KeyType
    <3> QED  BY <3>1 DEF OpType, Init, ControlPoints
  <2>5. WalkType
    BY <1>3, BType DEF WalkType, Init
  <2>6. ChangeType
    BY <1>1 DEF ChangeType
  <2> QED  BY <2>1, <2>2, <2>3, <2>4, <2>5, <2>6, TypeParts
<1>6. \A t \in Thread : /\ at[t] = "idle" /\ pc[t] = "idle" /\ todo[t] = <<>> /\ v[t] = <<>> /\ heuristic[t] = 0
                        /\ ~Gathers(t) /\ ~Rebuilds(t) /\ ~Has(t)
  BY <1>1 DEF LockInit, Gathers, Rebuilds, Has, Init
<1>7. ControlInv /\ TreeletInv
  BY <1>2, <1>6 DEF ControlInv, Control, TreeletInv
<1>8. Counted
  <2>1. Flush \in Nat /\ Flush > 0
    BY DLTreeAssumption
  <2>2. 0 \in (-Flush)..(Flush - 1)
    BY <2>1
  <2> QED  BY <1>6, <2>2 DEF Counted
<1>9. SlotInv
  BY <1>6 DEF SlotInv, Holds, Stuck
<1>10. LinkInv /\ LeafInv
  <2>1. 2..Len(nodes) = {} /\ 1..Len(nodes) = {}
    BY <1>4
  <2> QED  BY <1>1, <1>4, <2>1 DEF LinkInv, LeafInv
<1>11. ChangeInv
  BY <1>6 DEF ChangeInv, ChangeOf
<1>12. PICK K : K = [n \in 1..Len(nodes) |-> Key]
  OBVIOUS
<1>13. CoverInv({}) /\ PlaceInv({}, K)
  <2>1. CoverInv({}) /\ GatherInv(K) /\ BuildInv(K) /\ WalkInv(K)
    BY <1>6 DEF CoverInv, GatherInv, BuildInv, WalkInv
  <2>2. Frontier({}) = {}
    BY <1>4, <1>6 DEF Frontier
  <2>3. KeyInv({}, K)
    BY <1>1, <1>4, <2>2 DEF KeyInv
  <2> QED  BY <2>1, <2>3 DEF PlaceInv
<1>14. {} \in SUBSET (1..Len(nodes)) /\ K \in [1..Len(nodes) -> SUBSET Key]
  BY <1>12
<1> QED
  BY <1>5, <1>7, <1>8, <1>9, <1>10, <1>11, <1>13, <1>14 DEF IInv

\* A step leaves the backbone alone, or it is one of the steps of a layout change's work.
LEMMA StepCases ==
    ASSUME NEW t \in Thread, Invoke(t) \/ Step(t)
    PROVE  Quiet(t) \/ Rebuild(t)
BY DEF Step, Change, Quiet, QuietChange, Rebuild

\* Every step of that work keeps what is known, of other nodes and keys.
LEMMA RebuildStep ==
    ASSUME NEW U, NEW K, Known(U, K), NEW t \in Thread, Rebuild(t)
    PROVE  \E V, J : Known(V, J)'
<1>1. CASE Enlarge(t)  BY <1>1, EnlargeStep
<1>2. CASE RootAcquire(t)  BY <1>2, RootAcquireStep
<1>3. CASE RootReplace(t)  BY <1>3, RootReplaceStep
<1>4. CASE RootFree(t)  BY <1>4, RootFreeStep
<1>5. CASE GatherNode(t)  BY <1>5, GatherNodeStep
<1>6. CASE GatherAcquire(t)  BY <1>6, GatherAcquireStep
<1>7. CASE GatherTake(t)  BY <1>7, GatherTakeStep
<1>8. CASE GatherFree(t)  BY <1>8, GatherFreeStep
<1>9. CASE BuildNode(t)  BY <1>9, BuildNodeStep
<1>10. CASE BuildChild(t)  BY <1>10, BuildChildStep
<1>11. CASE LeaveChange(t)  BY <1>11, LeaveChangeStep
<1> QED
  BY <1>1, <1>2, <1>3, <1>4, <1>5, <1>6, <1>7, <1>8, <1>9, <1>10, <1>11 DEF Rebuild

\* What is known depends on the variables only.
LEMMA StutterKnows ==
    ASSUME NEW U, NEW K, Known(U, K), UNCHANGED vars
    PROVE  Known(U, K)'
<1> USE DEF vars, lockVars, treeVars, sizeVars, opVars, walkVars, countVars, changeVars
<1>1. /\ Slots' = Slots /\ \A e : Link(e)' = Link(e) /\ (Empty(e)' <=> Empty(e)) /\ (Filled(e)' <=> Filled(e))
      /\ \A x : Items(x)' = Items(x)
  BY DEF Slots, Link, Empty, Filled, Items
<1>2. /\ \A e : KeysOf(K, e)' = KeysOf(K, e)
      /\ \A t \in Thread : Places(t)' = Places(t) /\ (Gathers(t)' <=> Gathers(t)) /\ (Rebuilds(t)' <=> Rebuilds(t))
      /\ (Building' <=> Building)
  BY DEF KeysOf, Child, Places, Gathers, Building, Rebuilds
<1>3. TypeOK'
  BY KnownParts DEF TypeOK, Object, Tasks
<1>4. ControlInv' /\ Counted' /\ TreeletInv'
  BY <1>2, KnownParts DEF ControlInv, Control, Counted, TreeletInv, Has
<1>5. SlotInv'
  BY KnownParts DEF SlotInv, Holds, Stuck
<1>6. LinkInv' /\ LeafInv'
  <2>1. LinkInv'
    BY <1>1, KnownParts DEF LinkInv
  <2>2. LeafInv'
    BY <1>1, <1>2, KnownParts DEF LeafInv
  <2> QED  BY <2>1, <2>2
<1>7. ChangeInv'
  <2>1. InOrder(Items(head))' = InOrder(Items(head))
    BY DEF InOrder, Items
  <2>2. \A t \in Thread : Link(Place(Head(todo[t])))' = Link(Place(Head(todo[t])))
    BY DEF Link, Place
  <2>3. \A t \in Thread : ChangeOf(t)' <=> ChangeOf(t)
    BY <1>1, <1>2, <2>1, <2>2 DEF ChangeOf
  <2> QED  BY <2>3, KnownParts DEF ChangeInv
<1>8. CoverInv(U)'
  <2>1. \A t \in Thread : CoverOf(t, U)' <=> CoverOf(t, U)
    BY <1>1, <1>2 DEF CoverOf
  <2> QED  BY <1>2, <2>1, KnownParts DEF CoverInv
<1>9. KeyInv(U, K)'
  <2>1. Ready(U)' = Ready(U)
    BY <1>2 DEF Ready
  <2>2. Frontier(U)' = Frontier(U)
    BY <1>1, <1>2, <2>1 DEF Frontier
  <2>3. KeyInv(U, K)
    BY KnownParts
  <2>4. ASSUME NEW e \in Slots', e[1] \in Ready(U)'
        PROVE  IF IsNode(Link(e)') THEN K[Link(e)'[2]] = KeysOf(K, e)' ELSE Items(Link(e))' \subseteq KeysOf(K, e)'
    <3>1. Items(Link(e))' = Items(Link(e))
      BY DEF Items, Link
    <3> QED  BY <1>1, <1>2, <2>1, <2>3, <2>4, <3>1 DEF KeyInv
  <2> QED  BY <1>2, <2>2, <2>3, <2>4 DEF KeyInv
<1>10. GatherInv(K)'
  <2>1. \A k : KeysOf(K, Place(k))' = KeysOf(K, Place(k))
    BY DEF KeysOf, Child, Place
  <2>2. \A t \in Thread : GatherOf(t, K)' <=> GatherOf(t, K)
    BY <1>1, <1>2, <2>1 DEF GatherOf, Place
  <2> QED  BY <1>2, <2>2, KnownParts DEF GatherInv
<1>11. BuildInv(K)'
  <2>1. \A k : From(k)' = From(k) /\ To(k)' = To(k) /\ KeysOf(K, Place(k))' = KeysOf(K, Place(k))
    BY DEF From, To, Begin, KeysOf, Child, Place
  <2>2. \A e : Items(Link(e))' = Items(Link(e))
    BY DEF Items, Link
  <2> QED  BY <1>1, <2>1, <2>2, KnownParts DEF BuildInv, BuildOf
<1>12. WalkInv(K)'
  <2>1. \A t \in Thread : Leads(K, cur[t], key[t])' <=> Leads(K, cur[t], key[t])
    BY <1>1, <1>2 DEF Leads
  <2>2. \A t \in Thread : Child(cur[t][2], key[t])' = Child(cur[t][2], key[t])
    BY DEF Child
  <2> QED  BY <2>1, <2>2, KnownParts DEF WalkInv
<1> QED
  BY <1>3, <1>4, <1>5, <1>6, <1>7, <1>8, <1>9, <1>10, <1>11, <1>12, KnownParts DEF Known, PlaceInv

\* What a state of the next step knows.
LEMMA NextKnows ==
    ASSUME NEW U, NEW K, Known(U, K), [Next]_vars
    PROVE  \E V, J : Known(V, J)'
<1>1. CASE Next
  <2>1. PICK t \in Thread : Invoke(t) \/ Step(t)
    BY <1>1 DEF Next
  <2> QED  BY <2>1, StepCases, QuietStep, RebuildStep
<1> QED
  BY <1>1, StutterKnows

\* The invariant holds in every state: types, who is where in the lock's code, one holder for
\* a treelet's lock, the shape of the backbone and where every key is while it is rebuilt.
THEOREM Invariance == Spec => []IInv
<1>1. ASSUME IInv, [Next]_vars PROVE IInv'
  <2>1. \E V, J : Known(V, J)'
    BY <1>1, InvariantKnows, NextKnows
  <2> QED  BY <2>1 DEF IInv, Known
<1> QED
  BY <1>1, InitInv, PTL DEF Spec

-----------------------------------------------------------------------------
(* What is reachable, and where walks end *)

\* The orbit of a under F, for n steps.
Orbit(S, a, F, n, f) == f \in [0..n -> S] /\ f[0] = a /\ \A d \in 1..n : f[d] = F[f[d - 1]]
OrbitOf(S, a, F, n) == a \in S /\ F \in [S -> S] /\ n \in Nat

\* A function of a set to itself may be applied over and over, n times.
LEMMA Iterates ==
    ASSUME NEW S, NEW a, NEW F, NEW n, OrbitOf(S, a, F, n)
    PROVE  \E f : Orbit(S, a, F, n, f)
<1>0. a \in S /\ F \in [S -> S] /\ n \in Nat
  BY DEF OrbitOf
<1> DEFINE Bad == {m \in Nat : ~\E f \in [0..m -> S] : f[0] = a /\ \A d \in 1..m : f[d] = F[f[d - 1]]}
<1>1. ASSUME Bad # {} PROVE FALSE
  <2>1. PICK m \in Bad : \A l \in Bad : m <= l
    BY <1>1, LeastNatural
  <2>2. m # 0
    <3>1. PICK f : f = [d \in 0..0 |-> a]
      OBVIOUS
    <3>2. f \in [0..0 -> S] /\ f[0] = a /\ \A d \in 1..0 : f[d] = F[f[d - 1]]
      BY <1>0, <3>1
    <3>3. 0 \notin Bad
      BY <3>2
    <3> HIDE DEF Bad
    <3> QED  BY <2>1, <3>3
  <2>3. m \in Nat /\ m - 1 \in Nat /\ ~(m <= m - 1)
    BY <2>1, <2>2
  <2>4. m - 1 \notin Bad
    <3> HIDE DEF Bad
    <3> QED  BY <2>1, <2>3
  <2>5. PICK f \in [0..(m - 1) -> S] : f[0] = a /\ \A d \in 1..(m - 1) : f[d] = F[f[d - 1]]
    BY <2>3, <2>4
  <2>6. PICK g : g = [d \in 0..m |-> IF d = m THEN F[f[m - 1]] ELSE f[d]]
    OBVIOUS
  <2>7. /\ \A d \in 0..m : d # m => d \in 0..(m - 1)
        /\ \A d \in 0..(m - 1) : d \in 0..m /\ d # m
        /\ \A d \in 1..m : d - 1 \in 0..(m - 1) /\ (d # m => d \in 1..(m - 1))
        /\ m \in 0..m /\ m - 1 \in 0..(m - 1) /\ 0 \in 0..(m - 1)
    BY <2>3
  <2>8. F[f[m - 1]] \in S
    BY <1>0, <2>7
  <2>9. g \in [0..m -> S]
    BY <2>6, <2>7, <2>8
  <2>10. \A d \in 0..(m - 1) : g[d] = f[d]
    BY <2>6, <2>7
  <2>11. g[m] = F[f[m - 1]]
    BY <2>6, <2>7
  <2>12. g[0] = a
    BY <2>5, <2>7, <2>10
  <2>13. \A d \in 1..m : g[d] = F[g[d - 1]]
    BY <2>5, <2>7, <2>10, <2>11
  <2>14. m \notin Bad
    BY <2>9, <2>12, <2>13
  <2> HIDE DEF Bad
  <2> QED  BY <2>1, <2>14
<1>2. n \notin Bad
  BY <1>1
<1> QED
  BY <1>0, <1>2 DEF Orbit

\* The levels of the backbone below object x.
LEMMA Levels ==
    ASSUME ShapeType, NEW x \in Object
    PROVE  \E f : /\ f \in [0..Len(nodes) -> SUBSET Object] /\ f[0] = {x}
                  /\ \A d \in 1..Len(nodes) : \A y : y \in f[d] <=>
                       \E e \in Slots : Node(e[1]) \in f[d - 1] /\ y = Link(e)
                  /\ ReachableFrom(x) = UNION {f[d] : d \in 0..Len(nodes)}
<1> DEFINE Under(s) == UNION {Range(nodes[y[2]].next) : y \in {z \in s : IsNode(z)}}
<1>1. ASSUME NEW s \in SUBSET Object
      PROVE  \A y : y \in Under(s) <=> \E e \in Slots : Node(e[1]) \in s /\ y = Link(e)
  <2>1. ASSUME NEW y, y \in Under(s) PROVE \E e \in Slots : Node(e[1]) \in s /\ y = Link(e)
    <3>1. PICK z \in s : IsNode(z) /\ y \in Range(nodes[z[2]].next)
      BY <2>1
    <3>2. z = Node(z[2]) /\ z[2] \in 1..Len(nodes)
      BY <3>1, ObjectCases
    <3>3. nodes[z[2]].next \in [1..B -> Object]
      BY <3>2, SlotParts DEF NodeType
    <3>4. PICK c \in 1..B : y = nodes[z[2]].next[c]
      BY <3>1, <3>3 DEF Range
    <3>5. PICK e : e = <<z[2], c>>
      OBVIOUS
    <3>6. e \in Slots /\ e[1] = z[2] /\ y = Link(e)
      BY <3>2, <3>4, <3>5, SlotParts DEF Link
    <3> QED  BY <3>1, <3>2, <3>6
  <2>2. ASSUME NEW e \in Slots, Node(e[1]) \in s PROVE Link(e) \in Under(s)
    <3>1. e[1] \in 1..Len(nodes) /\ e[2] \in 1..B
      BY SlotParts
    <3>2. nodes[e[1]].next \in [1..B -> Object]
      BY <3>1, SlotParts DEF NodeType
    <3>3. Link(e) \in Range(nodes[e[1]].next)
      BY <3>1, <3>2 DEF Range, Link
    <3>4. IsNode(Node(e[1])) /\ Node(e[1])[2] = e[1]
      BY ObjectCases
    <3> QED  BY <2>2, <3>3, <3>4
  <2> QED  BY <2>1, <2>2
<1>2. \A s \in SUBSET Object : Under(s) \in SUBSET Object
  <2>1. \A e \in Slots : Link(e) \in Object
    BY SlotParts
  <2> HIDE DEF Under
  <2> QED  BY <1>1, <2>1
<1>3. PICK F : F = [s \in SUBSET Object |-> Under(s)]
  OBVIOUS
<1>4. F \in [SUBSET Object -> SUBSET Object]
  <2> HIDE DEF Under
  <2> QED  BY <1>2, <1>3
<1>5. Len(nodes) \in Nat /\ {x} \in SUBSET Object
  BY DEF ShapeType
<1>6. PICK f : /\ f \in [0..Len(nodes) -> SUBSET Object] /\ f[0] = {x}
               /\ \A d \in 1..Len(nodes) : f[d] = F[f[d - 1]]
  <2>1. OrbitOf(SUBSET Object, {x}, F, Len(nodes))
    BY <1>4, <1>5 DEF OrbitOf
  <2>2. PICK f : Orbit(SUBSET Object, {x}, F, Len(nodes), f)
    BY <2>1, Iterates
  <2> QED  BY <2>2 DEF Orbit
<1>7. \A d \in 1..Len(nodes) : d - 1 \in 0..Len(nodes) /\ d # 0
  BY <1>5
<1>8. \A d \in 1..Len(nodes) : f[d] = Under(f[d - 1])
  <2> HIDE DEF Under
  <2> QED  BY <1>3, <1>6, <1>7
<1>9. \A d \in 0..Len(nodes) : d = 0 \/ d \in 1..Len(nodes)
  BY <1>5
<1>10. f = [d \in 0..Len(nodes) |-> IF d = 0 THEN {x} ELSE Under(f[d - 1])]
  <2> HIDE DEF Under
  <2> QED  BY <1>6, <1>8, <1>9
<1> DEFINE P(g) == g = [d \in 0..Len(nodes) |-> IF d = 0 THEN {x} ELSE Under(g[d - 1])]
           level == CHOOSE g : P(g)
<1>11. P(level)
  <2>1. P(f)
    BY <1>10
  <2> HIDE DEF P
  <2> QED  BY <2>1
<1>12. ReachableFrom(x) = UNION {level[d] : d \in 0..Len(nodes)}
  BY DEF ReachableFrom
<1>13. level = [d \in 0..Len(nodes) |-> IF d = 0 THEN {x} ELSE Under(level[d - 1])]
  <2> HIDE DEF level
  <2> QED  BY <1>11
<1>14. PICK g : g = level
  OBVIOUS
<1>15. g = [d \in 0..Len(nodes) |-> IF d = 0 THEN {x} ELSE Under(g[d - 1])]
  <2> HIDE DEF level
  <2> QED  BY <1>13, <1>14
<1>16. g[0] = {x} /\ \A d \in 1..Len(nodes) : g[d] = Under(g[d - 1])
  <2>1. 0 \in 0..Len(nodes) /\ \A d \in 1..Len(nodes) : d \in 0..Len(nodes) /\ d # 0
    BY <1>5
  <2> HIDE DEF Under, level
  <2> QED  BY <1>15, <2>1
<1>17. \A d \in 0..Len(nodes) : g[d] \in SUBSET Object
  <2> DEFINE Bad == {d \in Nat : d <= Len(nodes) /\ ~(g[d] \in SUBSET Object)}
  <2>1. ASSUME Bad # {} PROVE FALSE
    <3>1. PICK m \in Bad : \A l \in Bad : m <= l
      BY <2>1, LeastNatural
    <3>2. m \in Nat /\ m <= Len(nodes) /\ ~(g[m] \in SUBSET Object)
      OBVIOUS
    <3>3. m # 0
      <4> HIDE DEF level, Under
      <4> QED  BY <1>5, <1>16, <3>2
    <3>4. m - 1 \in Nat /\ m - 1 <= Len(nodes) /\ ~(m <= m - 1) /\ m \in 1..Len(nodes)
      BY <1>5, <3>2, <3>3
    <3>5. g[m - 1] \in SUBSET Object
      <4> HIDE DEF level, Under
      <4> QED  BY <3>1, <3>4
    <3>6. g[m] \in SUBSET Object
      <4> HIDE DEF level, Under, Bad
      <4> QED  BY <1>2, <1>16, <3>4, <3>5
    <3> QED  BY <3>2, <3>6
  <2>2. \A d \in 0..Len(nodes) : d \in Nat /\ d <= Len(nodes)
    BY <1>5
  <2> HIDE DEF level, Under
  <2> QED  BY <2>1, <2>2
<1>18. ASSUME NEW d \in 1..Len(nodes)
       PROVE  \A y : y \in g[d] <=> \E e \in Slots : Node(e[1]) \in g[d - 1] /\ y = Link(e)
  <2>1. g[d] = Under(g[d - 1]) /\ g[d - 1] \in SUBSET Object
    <3> HIDE DEF level, Under
    <3> QED  BY <1>7, <1>16, <1>17
  <2> HIDE DEF level, Under
  <2> QED  BY <1>1, <2>1
<1>19. ReachableFrom(x) = UNION {g[d] : d \in 0..Len(nodes)}
  BY <1>12, <1>14
<1>20. g \in [0..Len(nodes) -> SUBSET Object]
  <2> HIDE DEF level, Under
  <2> QED  BY <1>15, <1>17
<1> HIDE DEF level, Under
<1> QED
  BY <1>16, <1>18, <1>19, <1>20

\* What is in the tree: the root and all that is linked.
LEMMA InTree ==
    ASSUME ShapeType, LinkInv
    PROVE  /\ \A y : y \in Reachable <=> y = head \/ \E e \in Slots : y = Link(e)
           /\ \A y : y \in LiveTrees <=> y \in Reachable /\ ~IsNode(y)
<1>1. head \in Object /\ Len(nodes) \in Nat
  BY DEF ShapeType
<1>2. PICK f : /\ f \in [0..Len(nodes) -> SUBSET Object] /\ f[0] = {head}
               /\ \A d \in 1..Len(nodes) : \A y : y \in f[d] <=>
                    \E e \in Slots : Node(e[1]) \in f[d - 1] /\ y = Link(e)
               /\ ReachableFrom(head) = UNION {f[d] : d \in 0..Len(nodes)}
  BY <1>1, Levels
<1>3. \A y : y \in Reachable <=> \E d \in 0..Len(nodes) : y \in f[d]
  BY <1>2 DEF Reachable
<1>4. ASSUME NEW y \in Reachable PROVE y = head \/ \E e \in Slots : y = Link(e)
  <2>1. PICK d \in 0..Len(nodes) : y \in f[d]
    BY <1>3, <1>4
  <2>2. d = 0 \/ d \in 1..Len(nodes)
    BY <1>1
  <2> QED  BY <1>2, <2>1, <2>2
<1>5. head \in Reachable
  <2>1. 0 \in 0..Len(nodes)
    BY <1>1
  <2> QED  BY <1>2, <1>3, <2>1
\* Node n is at level n - 1 or before.
<1>6. \A n \in 1..Len(nodes) : \E d \in 0..(n - 1) : Node(n) \in f[d]
  <2> DEFINE Bad == {n \in Nat : n \in 1..Len(nodes) /\ ~\E d \in 0..(n - 1) : Node(n) \in f[d]}
  <2>1. ASSUME Bad # {} PROVE FALSE
    <3>1. PICK n \in Bad : \A l \in Bad : n <= l
      BY <2>1, LeastNatural
    <3>2. n \in Nat /\ n \in 1..Len(nodes) /\ ~\E d \in 0..(n - 1) : Node(n) \in f[d]
      OBVIOUS
    <3>3. n # 1
      <4>1. ASSUME n = 1 PROVE FALSE
        <5>1. nodes # <<>>
          BY <1>1, <3>2, <4>1
        <5>2. head = Node(1) /\ 0 \in 0..(n - 1)
          BY <4>1, <5>1 DEF LinkInv
        <5> QED  BY <1>2, <3>2, <4>1, <5>2
      <4> QED  BY <4>1
    <3>4. n \in 2..Len(nodes)
      BY <3>2, <3>3
    <3>5. PICK e \in Slots : Link(e) = Node(n)
      BY <3>4 DEF LinkInv
    <3>6. e[1] < n /\ e[1] \in 1..Len(nodes) /\ e[1] \in Nat
      <4>1. IsNode(Link(e)) /\ Link(e)[2] = n
        BY <3>5, ObjectCases
      <4> QED  BY <4>1, SlotParts DEF LinkInv
    <3>7. e[1] \notin Bad
      <4>1. ~(n <= e[1])
        BY <3>2, <3>6
      <4> HIDE DEF Bad
      <4> QED  BY <3>1, <4>1
    <3>8. PICK d \in 0..(e[1] - 1) : Node(e[1]) \in f[d]
      BY <3>6, <3>7
    <3>9. d + 1 \in 1..Len(nodes) /\ d + 1 \in 0..(n - 1) /\ (d + 1) - 1 = d
      BY <1>1, <3>2, <3>6, <3>8
    <3>10. Node(n) \in f[d + 1]
      BY <1>2, <3>5, <3>8, <3>9
    <3> QED  BY <3>2, <3>9, <3>10
  <2>2. \A n \in 1..Len(nodes) : n \in Nat
    BY <1>1
  <2> QED  BY <2>1, <2>2
<1>7. ASSUME NEW e \in Slots PROVE Link(e) \in Reachable
  <2>1. e[1] \in 1..Len(nodes)
    BY SlotParts
  <2>2. PICK d \in 0..(e[1] - 1) : Node(e[1]) \in f[d]
    BY <1>6, <2>1
  <2>3. d + 1 \in 1..Len(nodes) /\ (d + 1) - 1 = d /\ d + 1 \in 0..Len(nodes)
    BY <1>1, <2>1, <2>2
  <2>4. Link(e) \in f[d + 1]
    BY <1>2, <2>2, <2>3
  <2> QED  BY <1>3, <2>3, <2>4
<1> QED
  BY <1>4, <1>5, <1>7 DEF LiveTrees

\* A thread that was accepted has a treelet of the tree: where its key leads is reachable.
LEMMA OwnsNow ==
    ASSUME NEW U, NEW K, Known(U, K)
    PROVE  OwnsLiveTreelet
<1> SUFFICES ASSUME NEW t \in Thread, at[t] = "own"
             PROVE  cur[t] \in LiveTrees /\ cur[t] # NullTree /\ trees[cur[t][2]].locked
  BY DEF OwnsLiveTreelet
<1>1. \A y : y \in LiveTrees <=> (y = head \/ \E e \in Slots : y = Link(e)) /\ ~IsNode(y)
  BY KnownParts, InTree
<1> QED
  BY <1>1, OwnedSlot

\* The treelet of a thread that has passed finishRead is locked by it and part of the tree,
\* whatever layout changes begin meanwhile (getTreelet, startLayoutChange).
THEOREM OwnsLive == Spec => []OwnsLiveTreelet
<1>1. IInv => OwnsLiveTreelet
  BY InvariantKnows, OwnsNow
<1> QED
  BY <1>1, Invariance, PTL

\* The walk of key k goes on from node n to the child for k.
LEMMA LeadsOn ==
    ASSUME NEW U, NEW K, Known(U, K), ~Rebuilding, NEW k \in Key, NEW x \in Object, IsNode(x), Leads(K, x, k)
    PROVE  /\ <<x[2], Child(x[2], k)>> \in Slots
           /\ Link(<<x[2], Child(x[2], k)>>) \in Object
           /\ Leads(K, Link(<<x[2], Child(x[2], k)>>), k)
           /\ IsNode(Link(<<x[2], Child(x[2], k)>>)) => x[2] < Link(<<x[2], Child(x[2], k)>>)[2]
<1>1. /\ ShapeType /\ LinkInv /\ LeafInv /\ KeyInv(U, K)
  BY KnownParts
<1>2. PICK n \in 1..Len(nodes) : x = Node(n) /\ n = x[2]
  BY ObjectCases
<1>3. \A u \in Thread : ~Gathers(u) /\ at[u] # "build"
  BY DEF Rebuilding, Rebuilds, Gathers
<1>4. ~Building /\ \A e \in Slots : ~Empty(e)
  BY <1>1, <1>3 DEF Building, LeafInv
<1>5. k \in K[n]
  <2>1. nodes # <<>>
    BY <1>2
  <2>2. PICK m \in 1..Len(nodes) : x = Node(m) /\ k \in K[m]
    <3>1. \A e \in Slots : Filled(e) => x # Link(e)
      BY DEF Filled
    <3> QED  BY <2>1, <3>1 DEF Leads
  <2> QED  BY <1>2, <2>2, ObjectCases
<1>6. PICK c : c = Child(n, k)
  OBVIOUS
<1>7. c \in 1..B
  <2>1. nodes[n].keys \in [1..(B - 1) -> Nat]
    <3>1. nodes[n].keys \in [1..(B - 1) -> Key \union {0}]
      BY <1>1, <1>2, SlotParts DEF NodeType
    <3>2. Key \union {0} \subseteq Nat
      BY KeyType
    <3> QED  BY <3>1, <3>2
  <2>2. k \in Nat
    BY KeyType
  <2> QED  BY <1>6, <2>1, <2>2, ChildType DEF Child
<1>8. PICK e : e = <<n, c>>
  OBVIOUS
<1>9. e \in Slots /\ e[1] = n /\ e[2] = c /\ c # 0 /\ Link(e) \in Object
  BY <1>1, <1>2, <1>7, <1>8, BType, SlotParts
<1>10. k \in KeysOf(K, e)
  BY <1>5, <1>6, <1>9 DEF KeysOf
<1>11. Leads(K, Link(e), k)
  <2>1. CASE IsNode(Link(e))
    <3>1. n \in Ready(U)
      BY <1>2, <1>4 DEF Ready
    <3>2. K[Link(e)[2]] = KeysOf(K, e)
      BY <1>1, <1>9, <2>1, <3>1 DEF KeyInv
    <3>3. Link(e)[2] \in 1..Len(nodes) /\ Link(e) = Node(Link(e)[2])
      BY <1>9, <2>1, ObjectCases
    <3> QED  BY <1>10, <3>2, <3>3 DEF Leads
  <2>2. CASE ~IsNode(Link(e))
    BY <1>4, <1>9, <1>10, <2>2 DEF Leads, Filled
  <2> QED  BY <2>1, <2>2
<1>12. IsNode(Link(e)) => n < Link(e)[2]
  BY <1>1, <1>9 DEF LinkInv
<1> QED
  BY <1>2, <1>6, <1>8, <1>9, <1>11, <1>12

\* The walk of a key ends at a treelet to which the key leads.
LEMMA WalkEnds ==
    ASSUME NEW U, NEW K, Known(U, K), ~Rebuilding, NEW k \in Key
    PROVE  Route(k) \in Object /\ ~IsNode(Route(k)) /\ Leads(K, Route(k), k)
<1> DEFINE On(x) == IF IsNode(x) THEN nodes[x[2]].next[Child(x[2], k)] ELSE x
           L == {x \in Object : Leads(K, x, k)}
<1>1. Len(nodes) \in Nat /\ head \in Object /\ ShapeType /\ LinkInv
  BY KnownParts DEF ShapeType
<1>2. ASSUME NEW x \in L
      PROVE  On(x) \in L /\ (IsNode(On(x)) => IsNode(x) /\ x[2] < On(x)[2])
  <2>1. CASE IsNode(x)
    <3>1. On(x) = Link(<<x[2], Child(x[2], k)>>)
      BY <2>1 DEF Link
    <3> HIDE DEF On
    <3> QED  BY <2>1, <3>1, LeadsOn
  <2>2. CASE ~IsNode(x)
    BY <2>2
  <2> QED  BY <2>1, <2>2
<1>3. head \in L
  BY <1>1, HeadLeads
<1>4. PICK F : F = [x \in L |-> On(x)]
  OBVIOUS
<1>5. PICK S : S = L
  OBVIOUS
<1>6. F \in [S -> S] /\ head \in S
  <2> HIDE DEF On, L
  <2> QED  BY <1>2, <1>3, <1>4, <1>5
<1>7. PICK f : /\ f \in [0..Len(nodes) -> S] /\ f[0] = head
               /\ \A d \in 1..Len(nodes) : f[d] = F[f[d - 1]]
  <2>1. OrbitOf(S, head, F, Len(nodes))
    BY <1>1, <1>6 DEF OrbitOf
  <2>2. PICK f : Orbit(S, head, F, Len(nodes), f)
    BY <2>1, Iterates
  <2> QED  BY <2>2 DEF Orbit
<1>8. \A d \in 1..Len(nodes) : d - 1 \in 0..Len(nodes) /\ d \in 0..Len(nodes) /\ d # 0
  BY <1>1
<1>9. \A d \in 1..Len(nodes) : f[d] = On(f[d - 1])
  <2> HIDE DEF On, L
  <2> QED  BY <1>4, <1>5, <1>7, <1>8
<1>10. \A d \in 0..Len(nodes) : d = 0 \/ d \in 1..Len(nodes)
  BY <1>1
<1>11. f = [d \in 0..Len(nodes) |-> IF d = 0 THEN head ELSE On(f[d - 1])]
  <2> HIDE DEF On
  <2> QED  BY <1>7, <1>9, <1>10
<1> DEFINE P(g) == g = [d \in 0..Len(nodes) |-> IF d = 0 THEN head
                                               ELSE LET x == g[d - 1]
                                                    IN IF IsNode(x) THEN nodes[x[2]].next[Child(x[2], k)] ELSE x]
           walk == CHOOSE g : P(g)
<1>12. P(walk)
  <2>1. P(f)
    BY <1>11
  <2> HIDE DEF P
  <2> QED  BY <2>1
<1>13. Route(k) = walk[Len(nodes)]
  BY DEF Route
<1>14. PICK g : g = walk
  OBVIOUS
<1>15. g = [d \in 0..Len(nodes) |-> IF d = 0 THEN head ELSE On(g[d - 1])]
  <2>1. P(g)
    BY <1>12, <1>14
  <2> HIDE DEF walk
  <2> QED  BY <2>1
<1>16. g[0] = head /\ \A d \in 1..Len(nodes) : g[d] = On(g[d - 1])
  <2>1. 0 \in 0..Len(nodes)
    BY <1>1
  <2> HIDE DEF On, walk
  <2> QED  BY <1>8, <1>15, <2>1
<1>17. \A d \in 0..Len(nodes) : g[d] \in L /\ (IsNode(g[d]) => d < g[d][2])
  <2> DEFINE Bad == {d \in Nat : d <= Len(nodes) /\ ~(g[d] \in L /\ (IsNode(g[d]) => d < g[d][2]))}
  <2>1. ASSUME Bad # {} PROVE FALSE
    <3>1. PICK m \in Bad : \A l \in Bad : m <= l
      BY <2>1, LeastNatural
    <3>2. m \in Nat /\ m <= Len(nodes) /\ ~(g[m] \in L /\ (IsNode(g[m]) => m < g[m][2]))
      OBVIOUS
    <3>3. m # 0
      <4>1. IsNode(head) => head[2] \in 1..Len(nodes)
        BY <1>1, ObjectCases
      <4> HIDE DEF walk, On, L
      <4> QED  BY <1>1, <1>3, <1>16, <3>2, <4>1
    <3>4. m - 1 \in Nat /\ m - 1 <= Len(nodes) /\ ~(m <= m - 1) /\ m \in 1..Len(nodes) /\ m - 1 < m
      BY <1>1, <3>2, <3>3
    <3>5. g[m - 1] \in L /\ (IsNode(g[m - 1]) => m - 1 < g[m - 1][2])
      <4>1. m - 1 \notin Bad
        <5> HIDE DEF Bad
        <5> QED  BY <3>1, <3>4
      <4> HIDE DEF walk, On, L
      <4> QED  BY <3>4, <4>1
    <3>6. g[m] \in L /\ (IsNode(g[m]) => IsNode(g[m - 1]) /\ g[m - 1][2] < g[m][2])
      <4>1. g[m] = On(g[m - 1])
        BY <1>16, <3>4
      <4> HIDE DEF walk, On, L
      <4> QED  BY <1>2, <3>5, <4>1
    <3>7. ASSUME IsNode(g[m]) PROVE m < g[m][2]
      <4>1. g[m - 1][2] \in Nat /\ g[m][2] \in Nat
        <5>1. g[m] \in Object /\ g[m - 1] \in Object /\ IsNode(g[m - 1])
          BY <3>5, <3>6, <3>7
        <5> HIDE DEF walk, L
        <5> QED  BY <1>1, <3>7, <5>1, ObjectCases
      <4>2. m - 1 < g[m - 1][2] /\ g[m - 1][2] < g[m][2]
        BY <3>5, <3>6, <3>7
      <4> HIDE DEF walk, L
      <4> QED  BY <3>4, <4>1, <4>2
    <3> QED  BY <3>2, <3>6, <3>7
  <2>2. \A d \in 0..Len(nodes) : d \in Nat /\ d <= Len(nodes)
    BY <1>1
  <2> HIDE DEF walk, On, L
  <2> QED  BY <2>1, <2>2
<1>18. g[Len(nodes)] \in L /\ ~IsNode(g[Len(nodes)])
  <2>1. Len(nodes) \in 0..Len(nodes)
    BY <1>1
  <2>2. g[Len(nodes)] \in L /\ (IsNode(g[Len(nodes)]) => Len(nodes) < g[Len(nodes)][2])
    BY <1>17, <2>1
  <2>3. PICK y : y = g[Len(nodes)]
    OBVIOUS
  <2>4. y \in Object /\ (IsNode(y) => Len(nodes) < y[2])
    BY <2>2, <2>3
  <2>5. IsNode(y) => y[2] \in 1..Len(nodes)
    BY <2>4, ObjectCases
  <2>6. ~IsNode(y)
    BY <1>1, <2>4, <2>5
  <2> HIDE DEF L
  <2> QED  BY <2>2, <2>3, <2>6
<1> QED
  BY <1>13, <1>14, <1>18

\* Outside layout changes a key is where its route leads, since it is among the keys that walks
\* lead there.
LEMMA RoutedNow ==
    ASSUME NEW U, NEW K, Known(U, K)
    PROVE  KeysAreRouted
<1> SUFFICES ASSUME ~Rebuilding
             PROVE  /\ NullTree \notin Reachable
                    /\ \A x \in LiveTrees : \A k \in Items(x) : Route(k) = x
  BY DEF KeysAreRouted
<1>1. /\ ShapeType /\ LinkInv /\ LeafInv /\ KeyInv(U, K)
  BY KnownParts
<1>2. ~Building /\ \A e \in Slots : ~Empty(e)
  <2>1. \A u \in Thread : ~Gathers(u) /\ at[u] # "build"
    BY DEF Rebuilding, Rebuilds, Gathers
  <2> QED  BY <1>1, <2>1 DEF Building, LeafInv
<1>3. /\ \A y : y \in Reachable <=> y = head \/ \E e \in Slots : y = Link(e)
      /\ \A y : y \in LiveTrees <=> y \in Reachable /\ ~IsNode(y)
  BY <1>1, InTree
<1>4. NullTree \notin Reachable
  <2>1. head # NullTree
    BY <1>1, ObjectCases DEF LinkInv
  <2> QED  BY <1>2, <1>3, <2>1 DEF Empty
<1>5. ASSUME NEW x \in LiveTrees, NEW k \in Items(x) PROVE Route(k) = x
  <2>1. ~IsNode(x) /\ x \in Object /\ (x = head \/ \E e \in Slots : x = Link(e))
    BY <1>1, <1>3, SlotParts DEF ShapeType
  <2>2. k \in Key
    <3>1. x[2] \in 1..Len(trees)
      BY <2>1, ObjectCases
    <3> QED  BY <1>1, <3>1, SlotParts DEF Items
  <2>3. Route(k) \in Object /\ ~IsNode(Route(k)) /\ Leads(K, Route(k), k)
    BY <2>2, WalkEnds
  <2>4. CASE nodes = <<>>
    <3>1. \A e : e \notin Slots
      BY <2>4 DEF Slots
    <3>2. \A n \in 1..Len(nodes) : FALSE
      BY <2>4
    <3> QED  BY <2>1, <2>3, <3>1, <3>2 DEF Leads
  <2>5. CASE nodes # <<>>
    <3>1. IsNode(head)
      BY <1>1, <2>5, ObjectCases DEF LinkInv
    <3>2. PICK f \in Slots : x = Link(f)
      BY <2>1, <3>1
    <3>3. PICK e \in Slots : Route(k) = Link(e) /\ k \in KeysOf(K, e)
      <4>1. \A n : Route(k) # Node(n)
        BY <2>3, ObjectCases
      <4> QED  BY <2>3, <2>5, <4>1 DEF Leads
    <3>4. e[1] \in Ready(U) /\ f[1] \in Ready(U)
      BY <1>1, <1>2, SlotParts DEF Ready
    <3>5. k \in KeysOf(K, f)
      BY <1>1, <1>5, <2>1, <3>2, <3>4 DEF KeyInv
    <3>6. e \in Frontier(U) /\ f \in Frontier(U)
      BY <2>1, <2>3, <3>2, <3>3, <3>4 DEF Frontier
    <3>7. e = f
      BY <1>1, <3>3, <3>5, <3>6 DEF KeyInv
    <3> QED  BY <3>2, <3>3, <3>7
  <2> QED  BY <2>4, <2>5
<1> QED
  BY <1>4, <1>5

\* When no layout change is at work every key is where the separators lead, and no walk can
\* come to NULL_TREE (constructBigNode, buildFromV, expandLeafBigNode).
THEOREM Routed == Spec => []KeysAreRouted
<1>1. IInv => KeysAreRouted
  BY InvariantKnows, RoutedNow
<1> QED
  BY <1>1, Invariance, PTL

-----------------------------------------------------------------------------
(* The contents of the tree, and the steps that do not change them *)

KeptInv == \A k : k \in Contents <=> Kept(k)

\* The contents are the keys in the tree and in the vectors.
LEMMA ContentsKept ==
    ASSUME NEW U, NEW K, Known(U, K)
    PROVE  KeptInv
<1>1. ShapeType /\ LinkInv
  BY KnownParts
<1>2. \A y : y \in LiveTrees <=> (y = head \/ \E e \in Slots : y = Link(e)) /\ ~IsNode(y)
  BY <1>1, InTree
<1>3. \A k : k \in Contents <=> (\E y \in LiveTrees : k \in Items(y)) \/ InVector(k)
  BY DEF Contents, InVector
<1>4. nodes = <<>> => ~IsNode(head)
  BY <1>1, ObjectCases DEF LinkInv
<1>5. nodes # <<>> => IsNode(head)
  BY <1>1, ObjectCases DEF LinkInv
<1>6. ASSUME NEW k PROVE (\E y \in LiveTrees : k \in Items(y)) <=> InRoot(k) \/ InLeaf(k)
  <2>1. ASSUME NEW y \in LiveTrees, k \in Items(y) PROVE InRoot(k) \/ InLeaf(k)
    BY <1>2, <1>5, <2>1 DEF InRoot, InLeaf
  <2>2. ASSUME InRoot(k) PROVE \E y \in LiveTrees : k \in Items(y)
    BY <1>2, <1>4, <2>2 DEF InRoot
  <2>3. ASSUME InLeaf(k) PROVE \E y \in LiveTrees : k \in Items(y)
    BY <1>2, <2>3 DEF InLeaf
  <2> QED  BY <2>1, <2>2, <2>3
<1> QED
  BY <1>3, <1>6 DEF KeptInv, Kept

\* No treelet in the tree gets or loses a key, and no vector does.
LEMMA ItemsStay ==
    ASSUME ShapeType, LinkInv, nodes' = nodes, head' = head, v' = v,
           \A m \in 1..Len(trees) : trees'[m].items = trees[m].items
    PROVE  SameKept
<1>1. Slots' = Slots /\ \A e : Link(e)' = Link(e)
  BY DEF Slots, Link
<1>2. \A x \in Object : ~IsNode(x) => trees'[x[2]].items = trees[x[2]].items
  BY ObjectCases
<1>3. \A e \in Slots : Link(e) \in Object
  BY SlotParts
<1>4. \A e \in Slots : ~IsNode(Link(e)) => Items(Link(e))' = Items(Link(e))
  BY <1>1, <1>2, <1>3 DEF Items
<1>5. nodes = <<>> => Items(head)' = Items(head)
  <2>1. head \in Object
    BY DEF ShapeType
  <2>2. nodes = <<>> => ~IsNode(head)
    BY ObjectCases DEF LinkInv
  <2> QED  BY <1>2, <2>1, <2>2 DEF Items
<1>6. ASSUME NEW k PROVE Kept(k)' <=> Kept(k)
  <2>1. InRoot(k)' <=> InRoot(k)
    BY <1>5 DEF InRoot
  <2>2. InLeaf(k)' <=> InLeaf(k)
    BY <1>1, <1>4 DEF InLeaf
  <2>3. InVector(k)' <=> InVector(k)
    BY DEF InVector
  <2> QED  BY <2>1, <2>2, <2>3 DEF Kept
<1> QED
  BY <1>6 DEF SameKept

\* Lookups, counts and the lock's own steps leave the contents alone.
LEMMA QuietKept ==
    ASSUME NEW U, NEW K, Known(U, K), NEW t \in Thread, Quiet(t), ~Operate(t)
    PROVE  SameKept
<1>1. ShapeType /\ LinkInv
  BY KnownParts
<1>2. nodes' = nodes /\ head' = head /\ v' = v
  BY LookupQuiet, OtherQuiet DEF Quiet, QuietFrame
<1>3. \A m \in 1..Len(trees) : trees'[m].items = trees[m].items
  <2>1. CASE trees' = trees
    BY <2>1
  <2>2. CASE Lookup(t)
    <3>1. ASSUME NEW b \in BOOLEAN, cur[t][2] \in 1..Len(trees), trees' = [trees EXCEPT ![cur[t][2]].locked = b]
          PROVE  \A m \in 1..Len(trees) : trees'[m].items = trees[m].items
      BY <1>1, <3>1, LockUpdate
    <3>2. (Has(t) \/ ~IsNode(cur[t])) => cur[t][2] \in 1..Len(trees)
      BY CurCases
    <3>3. \/ trees' = trees
          \/ ~IsNode(cur[t]) /\ trees' = [trees EXCEPT ![cur[t][2]].locked = TRUE]
          \/ Has(t) /\ trees' = [trees EXCEPT ![cur[t][2]].locked = FALSE]
      BY <2>2, LookupTreelets
    <3> QED  BY <2>1, <3>1, <3>2, <3>3
  <2>3. CASE Invoke(t) \/ Count(t) \/ QuietChange(t) \/ InsideLock(t)
    BY <2>1, <2>3, OtherQuiet
  <2> QED  BY <2>2, <2>3 DEF Quiet
<1> QED
  BY <1>1, <1>2, <1>3, ItemsStay

\* The treelet of a thread is the only place where its key can be.
LEMMA Sole ==
    ASSUME NEW U, NEW K, Known(U, K), NEW t \in Thread, at[t] = "own"
    PROVE  /\ ~InVector(key[t])
           /\ nodes # <<>> => \A f \in Slots : ~IsNode(Link(f)) /\ key[t] \in Items(Link(f)) => Link(f) = cur[t]
<1>1. /\ ShapeType /\ OpType /\ ChangeInv /\ KeyInv(U, K) /\ GatherInv(K) /\ ChangeType
  BY KnownParts
<1>2. \A u \in Thread : at[u] \notin {"newroot", "oldroot", "build"}
  BY <1>1 DEF ChangeInv, ChangeOf
<1>3. ~Building
  BY <1>2 DEF Building
<1>4. \A f \in Slots : ~IsNode(Link(f)) => f \in Frontier(U) /\ f[1] \in Ready(U)
  BY <1>1, <1>3, SlotParts DEF Frontier, Ready
<1>5. \/ nodes = <<>> /\ cur[t] = head
      \/ nodes # <<>> /\ \E e \in Slots : Link(e) = cur[t] /\ Filled(e) /\ key[t] \in KeysOf(K, e)
  BY OwnedSlot
<1>6. ASSUME nodes # <<>>, NEW f \in Slots, ~IsNode(Link(f)), key[t] \in KeysOf(K, f)
      PROVE  Link(f) = cur[t] /\ Filled(f)
  <2>1. PICK e \in Slots : Link(e) = cur[t] /\ Filled(e) /\ key[t] \in KeysOf(K, e)
    BY <1>5, <1>6
  <2>2. e \in Frontier(U) /\ f \in Frontier(U)
    BY <1>4, <1>6, <2>1 DEF Filled
  <2>3. e = f
    BY <1>1, <1>6, <2>1, <2>2 DEF KeyInv
  <2> QED  BY <2>1, <2>3
<1>7. ~InVector(key[t])
  <2> SUFFICES ASSUME NEW u \in Thread, key[t] \in Range(v[u]) PROVE FALSE
    BY DEF InVector
  <2>1. Gathers(u)
    <3>1. v[u] # <<>>
      BY DEF Range
    <3> QED  BY <1>1, <1>2, <3>1 DEF ChangeInv, ChangeOf
  <2>2. nodes # <<>>
    BY <1>1, <2>1 DEF ChangeInv, ChangeOf
  <2>3. PICK e \in Slots : Empty(e) /\ key[t] \in KeysOf(K, e)
    BY <1>1, <2>1 DEF GatherInv, GatherOf
  <2>4. ~IsNode(Link(e))
    BY <2>3, ObjectCases DEF Empty
  <2> QED  BY <1>6, <2>2, <2>3, <2>4 DEF Filled
<1>8. ASSUME nodes # <<>>, NEW f \in Slots, ~IsNode(Link(f)), key[t] \in Items(Link(f)) PROVE Link(f) = cur[t]
  <2>1. key[t] \in KeysOf(K, f)
    BY <1>1, <1>4, <1>8 DEF KeyInv
  <2> QED  BY <1>6, <1>8, <2>1
<1> QED
  BY <1>7, <1>8

\* A treelet that gets or loses the key of its thread.
LEMMA OperateKept ==
    ASSUME NEW U, NEW K, Known(U, K), NEW t \in Thread, Operate(t)
    PROVE  /\ Kept(key[t]) <=> key[t] \in Items(cur[t])
           /\ Kept(key[t])' <=> key[t] \in Items(cur[t])'
           /\ \A k : k # key[t] => (Kept(k)' <=> Kept(k))
<1>1. ShapeType /\ LinkInv /\ OpType /\ at[t] = "own"
  BY KnownParts DEF Operate
<1>2. cur[t] \in Object /\ ~IsNode(cur[t]) /\ cur[t][2] \in 1..Len(trees) /\ cur[t] = Tree(cur[t][2])
  BY <1>1, CurCases DEF Has
<1>3. nodes' = nodes /\ head' = head /\ v' = v /\ cur' = cur /\ key' = key
  BY DEF Operate, walkVars, changeVars
<1>4. /\ \A m \in 1..Len(trees) : m # cur[t][2] => trees'[m].items = trees[m].items
      /\ \A k : k # key[t] => (k \in trees'[cur[t][2]].items <=> k \in trees[cur[t][2]].items)
  <2>1. trees[cur[t][2]].items \in SUBSET Key /\ key[t] \in Key
    BY <1>1, <1>2, SlotParts DEF OpType
  <2>2. ASSUME NEW s \in SUBSET Key, \A k : k # key[t] => (k \in s <=> k \in trees[cur[t][2]].items),
               trees' = [trees EXCEPT ![cur[t][2]].items = s]
        PROVE  /\ \A m \in 1..Len(trees) : m # cur[t][2] => trees'[m].items = trees[m].items
               /\ \A k : k # key[t] => (k \in trees'[cur[t][2]].items <=> k \in trees[cur[t][2]].items)
    <3>1. \A m \in 1..Len(trees) : trees'[m].items = IF m = cur[t][2] THEN s ELSE trees[m].items
      BY <1>1, <1>2, <2>2, ItemsUpdate
    <3> QED  BY <1>2, <2>2, <3>1
  <2>3. \/ trees' = trees
        \/ \E s \in SUBSET Key : /\ \A k : k # key[t] => (k \in s <=> k \in trees[cur[t][2]].items)
                                 /\ trees' = [trees EXCEPT ![cur[t][2]].items = s]
    <3>1. /\ trees[cur[t][2]].items \union {key[t]} \in SUBSET Key
          /\ trees[cur[t][2]].items \ {key[t]} \in SUBSET Key
      BY <2>1
    <3>2. \/ trees' = trees
          \/ trees' = [trees EXCEPT ![cur[t][2]].items = trees[cur[t][2]].items \union {key[t]}]
          \/ trees' = [trees EXCEPT ![cur[t][2]].items = trees[cur[t][2]].items \ {key[t]}]
      BY DEF Operate, SetItems, Items
    <3> QED  BY <3>1, <3>2
  <2> QED  BY <2>2, <2>3
<1>5. Slots' = Slots /\ \A e : Link(e)' = Link(e)
  BY <1>3 DEF Slots, Link
<1>6. /\ Items(cur[t]) = trees[cur[t][2]].items /\ Items(cur[t])' = trees'[cur[t][2]].items
      /\ \A e \in Slots : Items(Link(e)) = trees[Link(e)[2]].items /\ Items(Link(e))' = trees'[Link(e)[2]].items
      /\ Items(head) = trees[head[2]].items /\ Items(head)' = trees'[head[2]].items
  BY <1>3, <1>5 DEF Items
<1>7. \A e \in Slots : ~IsNode(Link(e)) =>
        /\ Link(e)[2] \in 1..Len(trees)
        /\ Link(e)[2] = cur[t][2] => Link(e) = cur[t]
  BY <1>1, <1>2, SlotParts, ObjectCases
<1>8. \/ nodes = <<>> /\ cur[t] = head
      \/ nodes # <<>> /\ \E e \in Slots : Link(e) = cur[t]
  BY <1>1, OwnedSlot
<1>9. \A k : InVector(k)' <=> InVector(k)
  BY <1>3 DEF InVector
<1>10. /\ ~InVector(key[t])
       /\ nodes # <<>> => \A f \in Slots : ~IsNode(Link(f)) /\ key[t] \in Items(Link(f)) => Link(f) = cur[t]
  BY <1>1, Sole
<1>11. CASE nodes = <<>> /\ cur[t] = head
  <2>1. \A e : e \notin Slots
    BY <1>11 DEF Slots
  <2>2. /\ \A k : InRoot(k) <=> k \in Items(cur[t])
        /\ \A k : InRoot(k)' <=> k \in Items(cur[t])'
    BY <1>3, <1>11 DEF InRoot, Items
  <2>3. \A k : ~InLeaf(k) /\ ~InLeaf(k)'
    BY <1>5, <2>1 DEF InLeaf
  <2>4. /\ Kept(key[t]) <=> InRoot(key[t]) \/ InLeaf(key[t]) \/ InVector(key[t])
        /\ Kept(key[t])' <=> InRoot(key[t])' \/ InLeaf(key[t])' \/ InVector(key[t])'
        /\ InVector(key[t])' <=> InVector(key[t])
        /\ InRoot(key[t])' <=> key[t] \in Items(cur[t])'
    BY <1>3, <1>9, <2>2 DEF Kept
  <2>5. ~InLeaf(key[t]) /\ ~InLeaf(key[t])'
    BY <1>3, <2>3
  <2>6. ASSUME NEW k, k # key[t] PROVE Kept(k)' <=> Kept(k)
    <3>1. InRoot(k)' <=> InRoot(k)
      BY <1>4, <1>6, <2>2, <2>6
    <3> QED  BY <1>9, <2>3, <3>1 DEF Kept
  <2> QED  BY <1>10, <2>2, <2>4, <2>5, <2>6
<1>12. CASE nodes # <<>> /\ \E e \in Slots : Link(e) = cur[t]
  <2>1. \A k : ~InRoot(k) /\ ~InRoot(k)'
    BY <1>3, <1>12 DEF InRoot
  <2>2. InLeaf(key[t]) <=> key[t] \in Items(cur[t])
    BY <1>2, <1>10, <1>12 DEF InLeaf
  <2>3. InLeaf(key[t])' <=> key[t] \in Items(cur[t])'
    <3>1. ASSUME NEW f \in Slots, ~IsNode(Link(f)), key[t] \in Items(Link(f))' PROVE Link(f) = cur[t]
      <4>1. Link(f)[2] # cur[t][2] => Items(Link(f))' = Items(Link(f))
        BY <1>4, <1>6, <1>7, <3>1
      <4> QED  BY <1>7, <1>10, <1>12, <3>1, <4>1
    <3>2. InLeaf(key[t])' <=> \E f \in Slots : ~IsNode(Link(f)) /\ key[t] \in Items(Link(f))'
      BY <1>3, <1>5 DEF InLeaf
    <3>3. \A f \in Slots : Link(f) = cur[t] => Items(Link(f))' = Items(cur[t])'
      BY <1>6
    <3> QED  BY <1>2, <1>12, <3>1, <3>2, <3>3
  <2>4. ASSUME NEW k, k # key[t] PROVE InLeaf(k)' <=> InLeaf(k)
    <3>1. \A f \in Slots : ~IsNode(Link(f)) => (k \in Items(Link(f))' <=> k \in Items(Link(f)))
      BY <1>4, <1>6, <1>7, <2>4
    <3>2. InLeaf(k)' <=> \E f \in Slots : ~IsNode(Link(f)) /\ k \in Items(Link(f))'
      BY <1>5 DEF InLeaf
    <3> QED  BY <3>1, <3>2 DEF InLeaf
  <2>5. /\ Kept(key[t]) <=> InRoot(key[t]) \/ InLeaf(key[t]) \/ InVector(key[t])
        /\ Kept(key[t])' <=> InRoot(key[t])' \/ InLeaf(key[t])' \/ InVector(key[t])'
        /\ InVector(key[t])' <=> InVector(key[t])
        /\ ~InRoot(key[t])'
    BY <1>3, <1>9, <2>1 DEF Kept
  <2>6. \A k : k # key[t] => (Kept(k)' <=> Kept(k))
    BY <1>9, <2>1, <2>4 DEF Kept
  <2> QED  BY <1>10, <2>1, <2>2, <2>3, <2>5, <2>6
<1> QED
  BY <1>8, <1>11, <1>12

\* Steps of a layout change that touch no treelet's keys and no link.
LEMMA StillKept ==
    ASSUME NEW U, NEW K, Known(U, K), NEW t \in Thread,
           Enlarge(t) \/ GatherNode(t) \/ GatherAcquire(t)
    PROVE  SameKept
<1>1. ShapeType /\ LinkInv /\ nodes' = nodes /\ head' = head /\ v' = v
  BY KnownParts DEF Enlarge, GatherNode, GatherAcquire, treeVars, changeVars
<1>2. CASE Enlarge(t) \/ GatherNode(t)
  <2>1. trees' = trees
    BY <1>2 DEF Enlarge, GatherNode, treeVars
  <2> QED  BY <1>1, <2>1, ItemsStay
<1>3. CASE GatherAcquire(t)
  <2>1. PICK x : x = Link(Place(Head(todo[t])))
    OBVIOUS
  <2>2. trees' = [trees EXCEPT ![x[2]].locked = TRUE]
    BY <1>3, <2>1 DEF GatherAcquire, Lock, Link, Place
  <2>3. x[2] \in 1..Len(trees)
    <3>1. /\ Gathers(t) /\ at[t] = "gather" /\ Head(todo[t]).child > 0
      BY <1>3 DEF GatherAcquire, Gathers
    <3>2. CoverOf(t, U) /\ ChangeOf(t) /\ ChangeType
      BY <3>1, KnownParts DEF ChangeInv, CoverInv
    <3>3. /\ todo[t] # <<>> /\ 1 \in 1..Len(todo[t]) /\ Head(todo[t]) = todo[t][1]
          /\ todo[t][1] \in Tasks
      BY <3>1, <3>2 DEF ChangeOf, ChangeType
    <3>4. PICK e : e = Place(Head(todo[t]))
      OBVIOUS
    <3>5. e \in Places(t) /\ e \in Slots
      <4>1. todo[t][1].node \in 1..Len(nodes) /\ todo[t][1].child \in 1..B
        BY <3>1, <3>3, BType DEF Tasks
      <4> QED  BY <1>1, <3>3, <3>4, <4>1, SlotParts DEF Place, Places
    <3>6. Filled(e)
      BY <3>1, <3>2, <3>5 DEF CoverOf
    <3>7. x = Link(e) /\ x \in Object /\ ~IsNode(x)
      BY <1>1, <2>1, <3>4, <3>5, <3>6, SlotParts DEF Filled
    <3> QED  BY <3>7, ObjectCases
  <2>4. \A m \in 1..Len(trees) : trees'[m].items = trees[m].items
    BY <1>1, <2>2, <2>3, LockUpdate
  <2> QED  BY <1>1, <2>4, ItemsStay
<1> QED
  BY <1>2, <1>3

\* The keys of the root are taken into the vector; they stay in the root, too.
LEMMA RootAcquireKept ==
    ASSUME NEW U, NEW K, Known(U, K), NEW t \in Thread, RootAcquire(t)
    PROVE  SameKept
<1>1. ShapeType /\ LinkInv /\ ChangeType /\ ChangeOf(t) /\ at[t] = "root"
  BY KnownParts DEF RootAcquire, ChangeInv
<1>2. nodes = <<>> /\ v[t] = <<>>
  BY <1>1 DEF ChangeOf, Gathers
<1>3. head \in Object /\ ~IsNode(head) /\ head[2] \in 1..Len(trees)
  BY <1>1, <1>2, ObjectCases DEF LinkInv, ShapeType
<1>4. /\ nodes' = nodes /\ head' = head /\ trees' = [trees EXCEPT ![head[2]].locked = TRUE]
      /\ v' = [v EXCEPT ![t] = InOrder(Items(head))]
  BY DEF RootAcquire, Lock
<1>5. \A m \in 1..Len(trees) : trees'[m].items = trees[m].items
  BY <1>1, <1>3, <1>4, LockUpdate
<1>6. Items(head)' = Items(head)
  BY <1>3, <1>4, <1>5 DEF Items
<1>7. Range(v'[t]) = Items(head) /\ \A u \in Thread : u # t => v'[u] = v[u]
  <2>1. Items(head) \in SUBSET Key
    BY <1>1, <1>3, SlotParts DEF Items
  <2> QED  BY <1>1, <1>4, <2>1, InOrderProperties DEF ChangeType
<1>8. \A k : k \notin Range(v[t])
  BY <1>2 DEF Range
<1>9. \A e : e \notin Slots /\ e \notin Slots'
  BY <1>2, <1>4 DEF Slots
<1>10. ASSUME NEW k PROVE Kept(k)' <=> Kept(k)
  <2>1. (InRoot(k) <=> k \in Items(head)) /\ (InRoot(k)' <=> k \in Items(head))
    BY <1>2, <1>4, <1>6 DEF InRoot
  <2>2. ~InLeaf(k) /\ ~InLeaf(k)'
    BY <1>9 DEF InLeaf
  <2>3. InVector(k)' => k \in Items(head) \/ InVector(k)
    BY <1>7 DEF InVector
  <2>4. InVector(k) => InVector(k)'
    BY <1>7, <1>8 DEF InVector
  <2> QED  BY <2>1, <2>2, <2>3, <2>4 DEF Kept
<1> QED
  BY <1>10 DEF SameKept

\* The keys of the root are in the new treelets; they are in the vector, too.
LEMMA RootReplaceKept ==
    ASSUME NEW U, NEW K, Known(U, K), NEW t \in Thread, RootReplace(t)
    PROVE  SameKept
<1>1. ShapeType /\ LinkInv /\ ChangeType /\ ChangeOf(t) /\ at[t] = "newroot"
  BY KnownParts DEF RootReplace, ChangeInv
<1>2. nodes = <<>> /\ v[t] = InOrder(Items(head)) /\ \A j, l \in 1..Len(v[t]) : j < l => v[t][j] < v[t][l]
  BY <1>1 DEF ChangeOf
<1>3. PICK w \in Seq(Key) : w = v[t]
  BY <1>1 DEF ChangeType
<1>4. PICK m : m = Len(trees)
  OBVIOUS
<1>5. Range(w) = Items(head)
  <2>1. head \in Object /\ ~IsNode(head) /\ head[2] \in 1..Len(trees)
    BY <1>1, <1>2, ObjectCases DEF LinkInv, ShapeType
  <2>2. Items(head) \in SUBSET Key
    BY <1>1, <2>1, SlotParts DEF Items
  <2> QED  BY <1>2, <1>3, <2>2, InOrderProperties
<1>6. /\ nodes' = Append(nodes, NewNode(w, 0, Len(w))) /\ trees' = trees \o NewTrees(w, 0, Len(w))
      /\ v' = v
  BY <1>3 DEF RootReplace, changeVars
<1>7. Grew(1, m, w, 0, Len(w), nodes)
  <2>1. Len(nodes) = 0 /\ 1 = Len(nodes) + 1 /\ 0 \in Nat /\ Len(w) \in Nat /\ 0 + Len(w) <= Len(w)
    BY <1>2
  <2>2. nodes \in Seq([keys : [1..(B - 1) -> Key \union {0}], next : [1..B -> Object \union {Node(1)}]])
    BY <1>2
  <2>3. \A j, l \in 1..Len(w) : j < l => w[j] < w[l]
    BY <1>2, <1>3
  <2>4. Grows(1, m, w, 0, Len(w), nodes)
    BY <1>4, <1>6, <2>1, <2>2, <2>3, Zenon DEF Grows
  <2> QED  BY <1>1, <2>4, Grown
<1>8. /\ Len(nodes') = 1
      /\ \A c \in 1..B : /\ Link(<<1, c>>)' = Tree(m + c)
                         /\ Items(Tree(m + c))' = {w[l] : l \in (Begin(0, Len(w), c - 1) + 1)..Begin(0, Len(w), c)}
      /\ \A c \in 1..B : \A l \in (Begin(0, Len(w), c - 1) + 1)..Begin(0, Len(w), c) : l \in 1..Len(w)
  BY <1>7 DEF Grew
<1>9. \A e : e \in Slots' <=> \E c \in 1..B : e = <<1, c>>
  BY <1>8 DEF Slots
<1>10. ASSUME NEW k PROVE InLeaf(k)' => k \in Range(w)
  <2> SUFFICES ASSUME NEW e \in Slots', k \in Items(Link(e))' PROVE k \in Range(w)
    BY DEF InLeaf
  <2>1. PICK c \in 1..B : e = <<1, c>>
    BY <1>9
  <2>2. Items(Link(e))' = Items(Tree(m + c))'
    BY <1>8, <2>1 DEF Items
  <2>3. PICK l \in 1..Len(w) : k = w[l]
    BY <1>8, <2>2
  <2> QED  BY <2>3 DEF Range
<1>11. \A e : e \notin Slots
  BY <1>2 DEF Slots
<1>12. nodes' # <<>>
  <2>1. Len(nodes') # 0
    BY <1>8
  <2> QED  BY <2>1
<1>13. ASSUME NEW k PROVE Kept(k)' <=> Kept(k)
  <2>1. k \in Range(w) => InVector(k)
    BY <1>3 DEF InVector
  <2>2. InVector(k)' <=> InVector(k)
    BY <1>6 DEF InVector
  <2>3. InRoot(k) => k \in Range(w)
    BY <1>5 DEF InRoot
  <2>4. ~InRoot(k)' /\ ~InLeaf(k)
    BY <1>11, <1>12 DEF InRoot, InLeaf
  <2> QED  BY <1>10, <2>1, <2>2, <2>3, <2>4 DEF Kept
<1> QED
  BY <1>13 DEF SameKept

\* A treelet that is freed is not in the tree.
LEMMA FreeKept ==
    ASSUME NEW U, NEW K, Known(U, K), NEW t \in Thread, RootFree(t) \/ GatherFree(t)
    PROVE  SameKept
<1>1. Rebuild(t) /\ at[t] \in {"oldroot", "drop"} /\ Has(t)
  BY DEF Rebuild, RootFree, GatherFree, Has
<1>2. ShapeType /\ ChangeOf(t) /\ OpType
  BY KnownParts DEF ChangeInv
<1>3. nodes' = nodes /\ head' = head /\ v' = v /\ FreeTreelet(cur[t])
  BY DEF RootFree, GatherFree, changeVars
<1>4. nodes # <<>> /\ \A e \in Slots : Link(e) # cur[t]
  BY <1>1, <1>2 DEF ChangeOf, Gathers
<1>5. ~Has(t)'
  BY <1>2 DEF Has, RootFree, GatherFree, Goto, OpType
<1>6. \A e \in Slots : ~IsNode(Link(e)) => Items(Link(e))' = Items(Link(e))
  BY <1>1, <1>3, <1>4, <1>5, FreeStep
<1>7. Slots' = Slots /\ \A e : Link(e)' = Link(e)
  BY <1>3 DEF Slots, Link
<1>8. ASSUME NEW k PROVE Kept(k)' <=> Kept(k)
  <2>1. ~InRoot(k) /\ ~InRoot(k)'
    BY <1>3, <1>4 DEF InRoot
  <2>2. InLeaf(k)' <=> InLeaf(k)
    BY <1>6, <1>7 DEF InLeaf
  <2>3. InVector(k)' <=> InVector(k)
    BY <1>3 DEF InVector
  <2> QED  BY <2>1, <2>2, <2>3 DEF Kept
<1> QED
  BY <1>8 DEF SameKept

\* A step of a layout change changes no contents.
LEMMA RebuildKept ==
    ASSUME NEW U, NEW K, Known(U, K), NEW t \in Thread, Rebuild(t)
    PROVE  SameKept
BY StillKept, RootAcquireKept, RootReplaceKept, FreeKept, GatherTakeStep, BuildNodeStep, BuildChildStep,
   LeaveChangeStep DEF Rebuild

-----------------------------------------------------------------------------
(* The operations as those of a set *)

\* What a step does to the operation of its thread, unless it begins it or takes effect.
Passes(t) == Phase(t)' = Phase(t) /\ res' = res /\ op' = op /\ key' = key
Returns(t) ==
    /\ Phase(t) = "done" /\ Phase(t)' = "idle"
    /\ res' = [res EXCEPT ![t] = FALSE] /\ op' = op /\ key' = key

\* A step of a lookup that does not take effect leaves the phase or returns.
LEMMA LookupPhases ==
    ASSUME OpType, NEW t \in Thread, Lookup(t), ~Operate(t)
    PROVE  Passes(t) \/ Returns(t)
<1> USE DEF Goto, opVars, OpType, Phase, Passes, Returns, Return
<1>1. CASE Start(t)
  BY <1>1 DEF Start
<1>2. CASE Choose(t)
  BY <1>2 DEF Choose
<1>3. CASE Hop(t)
  BY <1>3 DEF Hop
<1>4. CASE Acquire(t)
  BY <1>4 DEF Acquire
<1>5. CASE Accept(t)
  BY <1>5 DEF Accept
<1>6. CASE Refuse(t)
  BY <1>6 DEF Refuse
<1>7. CASE Retry(t)
  BY <1>7 DEF Retry
<1>8. CASE Release(t)
  BY <1>8 DEF Release
<1> QED
  BY <1>1, <1>2, <1>3, <1>4, <1>5, <1>6, <1>7, <1>8 DEF Lookup

\* So does a step of incSize or decSize,
LEMMA CountPhases ==
    ASSUME OpType, NEW t \in Thread, Count(t)
    PROVE  Passes(t) \/ Returns(t)
<1> USE DEF Goto, opVars, OpType, Phase, Passes, Returns, Return
<1>1. CASE FlushCount(t)
  BY <1>1 DEF FlushCount
<1>2. CASE ReadLimit(t)
  BY <1>2 DEF ReadLimit
<1>3. CASE LimitRefused(t)
  BY <1>3 DEF LimitRefused
<1>4. CASE LimitAccepted(t)
  BY <1>4 DEF LimitAccepted, FinishCount
<1> QED
  BY <1>1, <1>2, <1>3, <1>4 DEF Count

\* and a step of a layout change.
LEMMA ChangePhases ==
    ASSUME OpType, NEW t \in Thread, Change(t)
    PROVE  Passes(t) \/ Returns(t)
<1> USE DEF Goto, opVars, OpType, Phase, Passes, Returns, Return
<1>1. CASE EnterChange(t) \/ LeaveEarly(t) \/ ShrinkByEnlarge(t)
  BY <1>1 DEF EnterChange, LeaveEarly, ShrinkByEnlarge
<1>2. CASE Enlarge(t) \/ LeaveChange(t)
  BY <1>2 DEF Enlarge, LeaveChange
<1>3. CASE RootAcquire(t) \/ RootReplace(t) \/ RootFree(t)
  BY <1>3 DEF RootAcquire, RootReplace, RootFree
<1>4. CASE GatherNode(t) \/ GatherAcquire(t) \/ GatherTake(t)
  BY <1>4 DEF GatherNode, GatherAcquire, GatherTake
<1>5. CASE GatherFree(t)
  BY <1>5 DEF GatherFree
<1>6. CASE BuildNode(t) \/ BuildChild(t)
  BY <1>6 DEF BuildNode, BuildChild
<1>7. CASE Left(t)
  BY <1>7 DEF Left, FinishCount
<1> QED
  BY <1>1, <1>2, <1>3, <1>4, <1>5, <1>6, <1>7 DEF Change

\* Of the operations as those of a set: every step that is not their effect passes or returns.
LEMMA StepPhases ==
    ASSUME OpType, NEW t \in Thread, Step(t), ~Operate(t)
    PROVE  Passes(t) \/ Returns(t)
<1>1. CASE InsideLock(t)
  BY <1>1 DEF InsideLock, opVars, Phase, Passes
<1> QED
  BY <1>1, LookupPhases, CountPhases, ChangePhases DEF Step

\* What the abstract set sees of the phases after a step of t.
LEMMA PhaseMoves ==
    ASSUME NEW t \in Thread, \A u \in Thread : u # t => at'[u] = at[u], NEW l, Phase(t)' = l
    PROVE  [u \in Thread |-> Phase(u)]' = [[u \in Thread |-> Phase(u)] EXCEPT ![t] = l]
<1>1. \A u \in Thread : u # t => Phase(u)' = Phase(u)
  BY DEF Phase
<1> QED
  BY <1>1

\* The contents are the same when the keys linked in the tree and in the vectors are.
LEMMA ContentsSame ==
    ASSUME KeptInv, KeptInv', SameKept
    PROVE  Contents' = Contents
<1>1. \A k : k \in Contents <=> Kept(k)
  BY DEF KeptInv
<1>2. \A k : k \in Contents' <=> Kept(k)'
  BY DEF KeptInv
<1>3. \A k : k \in Contents' <=> k \in Contents
  BY <1>1, <1>2 DEF SameKept
<1> QED
  BY <1>3

\* The operation takes effect where the tree's code works on the treelet.
LEMMA TakesEffect ==
    ASSUME NEW U, NEW K, Known(U, K), KeptInv, KeptInv', NEW t \in Thread, Operate(t)
    PROVE  Abstract!TakeEffect(t)
<1>1. OpType /\ at[t] = "own" /\ Step(t)
  BY KnownParts DEF Operate, Step, Lookup
<1>2. \A u \in Thread : u # t => at'[u] = at[u]
  BY <1>1, OthersStay, KnownParts DEF Stays
<1>3. Phase(t) = "pending" /\ Phase(t)' = "done" /\ op' = op /\ key' = key /\ cur' = cur
  BY <1>1 DEF Operate, Goto, OpType, Phase, walkVars
<1>4. [u \in Thread |-> Phase(u)]' = [[u \in Thread |-> Phase(u)] EXCEPT ![t] = "done"]
  BY <1>2, <1>3, PhaseMoves
<1>5. PICK x : x = key[t]
  OBVIOUS
<1>6. \A k : (k \in Contents <=> Kept(k)) /\ (k \in Contents' <=> Kept(k)')
  BY DEF KeptInv
<1>7. /\ Kept(key[t]) <=> key[t] \in Items(cur[t])
      /\ Kept(key[t])' <=> key[t] \in Items(cur[t])'
      /\ \A k : k # key[t] => (Kept(k)' <=> Kept(k))
  BY OperateKept
<1>8. Kept(key[t])' <=> Kept(x)'
  BY <1>3, <1>5
<1>9. /\ x \in Contents <=> x \in Items(cur[t])
      /\ x \in Contents' <=> x \in Items(cur[t])'
      /\ \A k : k # x => (k \in Contents' <=> k \in Contents)
  BY <1>3, <1>5, <1>6, <1>7, <1>8
<1>10. cur[t][2] \in 1..Len(trees) /\ ShapeType
  <2>1. ~IsNode(cur[t])
    BY <1>1, OwnedSlot
  <2> QED  BY <2>1, CurCases, KnownParts
<1>11. Items(cur[t])' = trees'[cur[t][2]].items /\ Items(cur[t]) = trees[cur[t][2]].items
  BY <1>3 DEF Items
<1>12. CASE op[t] = "search"
  <2>1. res' = [res EXCEPT ![t] = x \in Items(cur[t])] /\ trees' = trees
    BY <1>5, <1>12 DEF Operate
  <2>2. Contents' = Contents
    <3>1. \A k : k \in Contents' <=> k \in Contents
      BY <1>9, <1>11, <2>1
    <3> QED  BY <3>1
  <2>3. (x \in Items(cur[t])) = (x \in Contents)
    BY <1>9
  <2> QED  BY <1>3, <1>4, <1>5, <1>12, <2>1, <2>2, <2>3 DEF Abstract!TakeEffect
<1>13. CASE op[t] = "insert"
  <2>1. /\ res' = [res EXCEPT ![t] = ~(x \in Items(cur[t]))]
        /\ trees' = [trees EXCEPT ![cur[t][2]].items = Items(cur[t]) \union {x}]
    BY <1>5, <1>13 DEF Operate, SetItems
  <2>2. x \in Items(cur[t])'
    BY <1>10, <1>11, <2>1 DEF ShapeType
  <2>3. Contents' = Contents \union {x}
    <3>1. \A k : k \in Contents' <=> k \in Contents \union {x}
      BY <1>9, <2>2
    <3> QED  BY <3>1
  <2>4. (~(x \in Items(cur[t]))) = (x \notin Contents)
    BY <1>9
  <2> QED  BY <1>3, <1>4, <1>5, <1>13, <2>1, <2>3, <2>4 DEF Abstract!TakeEffect
<1>14. CASE op[t] = "remove"
  <2>1. /\ res' = [res EXCEPT ![t] = x \in Items(cur[t])]
        /\ trees' = [trees EXCEPT ![cur[t][2]].items = Items(cur[t]) \ {x}]
    BY <1>5, <1>14 DEF Operate, SetItems
  <2>2. x \notin Items(cur[t])'
    BY <1>10, <1>11, <2>1 DEF ShapeType
  <2>3. Contents' = Contents \ {x}
    <3>1. \A k : k \in Contents' <=> k \in Contents \ {x}
      BY <1>9, <2>2
    <3> QED  BY <3>1
  <2>4. (x \in Items(cur[t])) = (x \in Contents)
    BY <1>9
  <2> QED  BY <1>3, <1>4, <1>5, <1>14, <2>1, <2>3, <2>4 DEF Abstract!TakeEffect
<1> QED
  BY <1>1, <1>12, <1>13, <1>14 DEF OpType

\* Every step is one of the set, or leaves what the set sees as it is.
LEMMA StepSimulates ==
    ASSUME NEW U, NEW K, Known(U, K), KeptInv, KeptInv', NEW t \in Thread, Invoke(t) \/ Step(t)
    PROVE  Abstract!Next \/ UNCHANGED Abstract!vars
<1>1. OpType /\ \A u \in Thread : u # t => at'[u] = at[u]
  BY OthersStay, KnownParts DEF Stays
<1>2. CASE Operate(t)
  BY <1>2, TakesEffect DEF Abstract!Next
<1>3. ASSUME ~Operate(t) PROVE Contents' = Contents
  <2>1. Quiet(t) \/ Rebuild(t)
    BY StepCases
  <2>2. SameKept
    BY <1>3, <2>1, QuietKept, RebuildKept
  <2> QED  BY <2>2, ContentsSame
<1>4. CASE Invoke(t)
  <2>1. Phase(t) = "idle" /\ Phase(t)' = "pending" /\ res' = res
    BY <1>1, <1>4 DEF Invoke, Goto, OpType, Phase
  <2>2. [u \in Thread |-> Phase(u)]' = [[u \in Thread |-> Phase(u)] EXCEPT ![t] = "pending"]
    BY <1>1, <2>1, PhaseMoves
  <2>3. \E o \in Abstract!Ops, k \in Key : op' = [op EXCEPT ![t] = o] /\ key' = [key EXCEPT ![t] = k]
    <3>1. Work[t] \subseteq Abstract!Ops
      BY DLTreeAssumption DEF Abstract!Ops
    <3> QED  BY <1>4, <3>1 DEF Invoke
  <2>4. ~Operate(t)
    BY <1>4 DEF Invoke, Operate
  <2>5. Abstract!Invoke(t)
    BY <1>3, <2>1, <2>2, <2>3, <2>4 DEF Abstract!Invoke
  <2> QED  BY <2>5 DEF Abstract!Next
<1>5. CASE Step(t) /\ ~Operate(t)
  <2>1. CASE Passes(t)
    <3>1. [u \in Thread |-> Phase(u)]' = [u \in Thread |-> Phase(u)]
      <4>1. \A u \in Thread : Phase(u)' = Phase(u)
        BY <1>1, <2>1 DEF Phase, Passes
      <4> QED  BY <4>1
    <3> QED  BY <1>3, <1>5, <2>1, <3>1 DEF Passes, Abstract!vars
  <2>2. CASE Returns(t)
    <3>1. [u \in Thread |-> Phase(u)]' = [[u \in Thread |-> Phase(u)] EXCEPT ![t] = "idle"]
      BY <1>1, <2>2, PhaseMoves DEF Returns
    <3>2. Abstract!Respond(t)
      BY <1>3, <1>5, <2>2, <3>1 DEF Returns, Abstract!Respond
    <3> QED  BY <3>2 DEF Abstract!Next
  <2> QED  BY <1>1, <1>5, <2>1, <2>2, StepPhases
<1> QED
  BY <1>2, <1>4, <1>5

\* At the start the set is empty and every thread is idle.
LEMMA InitSimulates == Init /\ KeptInv => Abstract!Init
<1> SUFFICES ASSUME Init, KeptInv PROVE Abstract!Init
  OBVIOUS
<1>1. /\ head = Tree(2) /\ nodes = <<>> /\ \A t \in Thread : at[t] = "idle" /\ v[t] = <<>>
      /\ trees = <<[locked |-> FALSE, items |-> {}], [locked |-> FALSE, items |-> {}]>>
  BY DEF Init
<1>2. Contents = {}
  <2>1. Items(head) = {} /\ \A e : e \notin Slots
    BY <1>1, ObjectCases DEF Items, Slots
  <2>2. \A t \in Thread : \A k : k \notin Range(v[t])
    BY <1>1 DEF Range
  <2>3. \A k : ~Kept(k)
    BY <2>1, <2>2 DEF Kept, InRoot, InLeaf, InVector
  <2> QED  BY <2>3 DEF KeptInv
<1>3. [t \in Thread |-> Phase(t)] = [t \in Thread |-> "idle"]
  BY <1>1 DEF Phase
<1>4. op \in [Thread -> Abstract!Ops] /\ key \in [Thread -> Key] /\ res = [t \in Thread |-> FALSE]
  <2>1. (CHOOSE k \in Key : TRUE) \in Key
    BY KeyType
  <2> QED  BY <2>1 DEF Init, Abstract!Ops
<1> QED
  BY <1>2, <1>3, <1>4 DEF Abstract!Init

\* The tree is a linearizable set, through any number of changes of its layout: search, insert
\* and remove take effect at one instant, on the treelet under its lock, and gathering,
\* building and freeing change nothing of what the set holds (getTreelet, enlarge_tree).
THEOREM Implements == Spec => ImplementsSet
<1>1. IInv => KeptInv
  BY InvariantKnows, ContentsKept
<1>2. Init => Abstract!Init
  BY <1>1, InitInv, InitSimulates
<1>3. ASSUME IInv, KeptInv, KeptInv', [Next]_vars PROVE [Abstract!Next]_(Abstract!vars)
  <2>1. CASE Next
    BY <1>3, <2>1, InvariantKnows, StepSimulates DEF Next
  <2>2. CASE UNCHANGED vars
    <3>1. /\ head' = head /\ nodes' = nodes /\ trees' = trees /\ v' = v
          /\ op' = op /\ key' = key /\ res' = res /\ at' = at
      BY <2>2 DEF vars, treeVars, opVars, changeVars
    <3>2. SameKept
      BY <3>1 DEF SameKept, Kept, InRoot, InLeaf, InVector, Items, Slots, Link
    <3>3. Contents' = Contents
      BY <1>3, <3>2, ContentsSame
    <3>4. [t \in Thread |-> Phase(t)]' = [t \in Thread |-> Phase(t)]
      BY <3>1 DEF Phase
    <3> QED  BY <3>1, <3>3, <3>4 DEF Abstract!vars
  <2> QED  BY <1>3, <2>1, <2>2
<1> QED
  BY <1>1, <1>2, <1>3, Invariance, PTL DEF Spec, ImplementsSet, Abstract!Spec

-----------------------------------------------------------------------------
(* The sum of the threads' counts *)

\* The element that the library's fold takes first, and the sum of the values of f.
Picked(s) == CHOOSE x \in s : TRUE
Total(f) == FoldFunction(LAMBDA a, b : a + b, 0, f)

\* h sums the values of f, for sets of at most n threads.
Sums(h, f, n) ==
    \A s \in SUBSET Thread :
        Cardinality(s) <= n => h[s] = IF s = {} THEN 0 ELSE f[Picked(s)] + h[s \ {Picked(s)}]

\* Sets of threads get smaller when one is taken away.
LEMMA ThreadSets ==
    ASSUME NEW s \in SUBSET Thread
    PROVE  /\ IsFiniteSet(s) /\ Cardinality(s) \in Nat /\ Cardinality(s) <= N
           /\ s # {} => /\ Picked(s) \in s /\ s \ {Picked(s)} \in SUBSET Thread
                        /\ Cardinality(s \ {Picked(s)}) = Cardinality(s) - 1
                        /\ Cardinality(s) > 0
<1>1. IsFiniteSet(Thread) /\ Cardinality(Thread) = N
  BY SlotsAssumption, FS_Interval DEF Thread
<1>2. IsFiniteSet(s) /\ Cardinality(s) <= N
  BY <1>1, FS_Subset
<1>3. Cardinality(s) \in Nat
  BY <1>2, FS_CardinalityType
<1>4. ASSUME s # {} PROVE Picked(s) \in s
  BY <1>4 DEF Picked
<1>5. ASSUME s # {} PROVE Cardinality(s \ {Picked(s)}) = Cardinality(s) - 1 /\ Cardinality(s) > 0
  <2>1. Cardinality(s \ {Picked(s)}) = Cardinality(s) - 1
    BY <1>2, <1>4, <1>5, FS_RemoveElement
  <2>2. Cardinality(s) # 0
    BY <1>2, <1>5, FS_EmptySet
  <2> QED  BY <1>3, <2>1, <2>2
<1> QED
  BY <1>2, <1>3, <1>4, <1>5

\* There is a function that sums: the least bound up to which there is none cannot be.
LEMMA SumExists ==
    ASSUME NEW f \in [Thread -> Int]
    PROVE  \E h \in [SUBSET Thread -> Int] : Sums(h, f, N)
<1> DEFINE Bad == {n \in Nat : ~\E h \in [SUBSET Thread -> Int] : Sums(h, f, n)}
<1>1. SUFFICES ASSUME Bad # {} PROVE FALSE
  <2>1. N \notin Bad => \E h \in [SUBSET Thread -> Int] : Sums(h, f, N)
    BY SlotsAssumption
  <2> QED  BY <2>1
<1>2. PICK n \in Bad : \A m \in Bad : n <= m
  <2>1. Bad \in SUBSET Nat
    OBVIOUS
  <2> HIDE DEF Bad
  <2> QED  BY <1>1, <2>1, LeastNatural
<1>3. n \in Nat /\ ~\E h \in [SUBSET Thread -> Int] : Sums(h, f, n)
  OBVIOUS
<1>4. CASE n = 0
  <2>1. PICK h : h = [s \in SUBSET Thread |-> 0]
    OBVIOUS
  <2>2. h \in [SUBSET Thread -> Int]
    BY <2>1
  <2>3. \A s \in SUBSET Thread : Cardinality(s) <= n => s = {} /\ h[s] = 0
    <3>1. ASSUME NEW s \in SUBSET Thread, Cardinality(s) <= 0 PROVE s = {}
      <4>1. Cardinality(s) \in Nat /\ (s # {} => Cardinality(s) > 0)
        BY ThreadSets
      <4> QED  BY <3>1, <4>1
    <3> QED  BY <1>4, <2>1, <3>1
  <2>4. Sums(h, f, n)
    BY <2>3 DEF Sums
  <2> QED  BY <1>3, <2>2, <2>4
<1>5. CASE n # 0
  <2>1. n - 1 \in Nat /\ n - 1 \notin Bad
    <3>1. n - 1 \in Nat /\ ~(n <= n - 1)
      BY <1>3, <1>5
    <3> HIDE DEF Bad
    <3> QED  BY <1>2, <3>1
  <2>2. PICK h \in [SUBSET Thread -> Int] : Sums(h, f, n - 1)
    BY <2>1
  <2>3. PICK g : g = [s \in SUBSET Thread |-> IF Cardinality(s) <= n - 1 THEN h[s]
                                              ELSE IF s = {} THEN 0 ELSE f[Picked(s)] + h[s \ {Picked(s)}]]
    OBVIOUS
  <2>4. ASSUME NEW s \in SUBSET Thread
        PROVE  /\ g[s] \in Int
               /\ Cardinality(s) <= n => g[s] = IF s = {} THEN 0 ELSE f[Picked(s)] + g[s \ {Picked(s)}]
    <3>1. CASE s = {}
      <4>1. Cardinality(s) = 0
        BY <3>1, FS_EmptySet
      <4>2. h[s] = 0
        BY <2>1, <2>2, <3>1, <4>1 DEF Sums
      <4> QED  BY <2>1, <2>3, <3>1, <4>1, <4>2
    <3>2. CASE s # {}
      <4>1. /\ Picked(s) \in Thread /\ s \ {Picked(s)} \in SUBSET Thread
            /\ Cardinality(s) \in Nat /\ Cardinality(s \ {Picked(s)}) = Cardinality(s) - 1
        BY <3>2, ThreadSets
      <4>2. f[Picked(s)] \in Int /\ h[s \ {Picked(s)}] \in Int /\ h[s] \in Int
        BY <2>2, <4>1
      <4>3. g[s] = f[Picked(s)] + h[s \ {Picked(s)}]
        <5>1. Cardinality(s) <= n - 1 => h[s] = f[Picked(s)] + h[s \ {Picked(s)}]
          BY <2>2, <3>2 DEF Sums
        <5> QED  BY <2>3, <3>2, <5>1
      <4>4. Cardinality(s) <= n => g[s \ {Picked(s)}] = h[s \ {Picked(s)}]
        <5>1. Cardinality(s) <= n => Cardinality(s \ {Picked(s)}) <= n - 1
          BY <1>3, <4>1
        <5> QED  BY <2>3, <4>1, <5>1
      <4> QED  BY <3>2, <4>2, <4>3, <4>4
    <3> QED  BY <3>1, <3>2
  <2>5. g \in [SUBSET Thread -> Int]
    BY <2>3, <2>4
  <2>6. Sums(g, f, n)
    BY <2>4 DEF Sums
  <2> QED  BY <1>3, <2>5, <2>6
<1> QED
  BY <1>4, <1>5

\* The library's sum is the value of such a function.
LEMMA TotalSums ==
    ASSUME NEW f \in [Thread -> Int]
    PROVE  \E h : Sums(h, f, N) /\ Total(f) = h[Thread]
<1>1. PICK h \in [SUBSET Thread -> Int] : Sums(h, f, N)
  BY SumExists
<1>2. h = [s \in SUBSET Thread |-> IF s = {} THEN 0 ELSE f[Picked(s)] + h[s \ {Picked(s)}]]
  <2>1. \A s \in SUBSET Thread : Cardinality(s) <= N
    BY ThreadSets
  <2> QED  BY <1>1, <2>1 DEF Sums
<1>3. PICK k : /\ k = CHOOSE g : g = [s \in SUBSET Thread |-> IF s = {} THEN 0 ELSE f[Picked(s)] + g[s \ {Picked(s)}]]
               /\ Total(f) = k[Thread]
  <2>1. DOMAIN f = Thread
    OBVIOUS
  <2> QED  BY <2>1 DEF Total, FoldFunction, FoldFunctionOnSet, MapThenFoldSet, Picked
<1>4. k = [s \in SUBSET Thread |-> IF s = {} THEN 0 ELSE f[Picked(s)] + k[s \ {Picked(s)}]]
  BY <1>2, <1>3
<1>5. Sums(k, f, N)
  BY <1>4 DEF Sums
<1> QED
  BY <1>3, <1>5

\* When one thread's count changes, so does the sum, by as much.
LEMMA TotalChanges ==
    ASSUME NEW f \in [Thread -> Int], NEW g \in [Thread -> Int], NEW t \in Thread,
           \A u \in Thread : u # t => g[u] = f[u]
    PROVE  Total(f) \in Int /\ Total(g) = Total(f) + (g[t] - f[t])
<1>1. PICK h : Sums(h, f, N) /\ Total(f) = h[Thread]
  BY TotalSums
<1>2. PICK k : Sums(k, g, N) /\ Total(g) = k[Thread]
  BY TotalSums
<1> DEFINE Agree(s) == h[s] \in Int /\ k[s] = h[s] + IF t \in s THEN g[t] - f[t] ELSE 0
           Bad == {n \in Nat : \E s \in SUBSET Thread : Cardinality(s) = n /\ ~Agree(s)}
<1>3. ASSUME Bad # {} PROVE FALSE
  <2>1. PICK n \in Bad : \A m \in Bad : n <= m
    <3>1. Bad \in SUBSET Nat
      OBVIOUS
    <3> HIDE DEF Bad
    <3> QED  BY <1>3, <3>1, LeastNatural
  <2>2. PICK s \in SUBSET Thread : Cardinality(s) = n /\ ~Agree(s)
    BY <2>1
  <2>3. CASE s = {}
    <3>1. Cardinality(s) <= N
      BY ThreadSets
    <3>2. h[s] = 0 /\ k[s] = 0 /\ t \notin s
      BY <1>1, <1>2, <2>3, <3>1 DEF Sums
    <3> QED  BY <2>2, <3>2
  <2>4. CASE s # {}
    <3> DEFINE p == Picked(s)
               r == s \ {p}
    <3>1. /\ p \in s /\ p \in Thread /\ r \in SUBSET Thread /\ Cardinality(s) \in Nat /\ Cardinality(s) <= N
          /\ Cardinality(r) = Cardinality(s) - 1 /\ Cardinality(s) > 0
      BY <2>4, ThreadSets
    <3>2. h[s] = f[p] + h[r] /\ k[s] = g[p] + k[r]
      BY <1>1, <1>2, <2>4, <3>1 DEF Sums
    <3>3. Agree(r)
      <4>1. n - 1 \in Nat /\ n - 1 \notin Bad
        BY <2>1, <2>2, <3>1
      <4> QED  BY <2>2, <3>1, <4>1
    <3>4. t \in r <=> t \in s /\ t # p
      OBVIOUS
    <3>5. f[p] \in Int /\ g[p] \in Int /\ f[t] \in Int /\ g[t] \in Int
      BY <3>1
    <3>6. p # t => g[p] = f[p]
      BY <3>1
    <3> HIDE DEF p, r
    <3>7. Agree(s)
      BY <3>1, <3>2, <3>3, <3>4, <3>5, <3>6
    <3> QED  BY <2>2, <3>7
  <2> QED  BY <2>3, <2>4
<1>4. Agree(Thread)
  <2>1. Thread \in SUBSET Thread /\ Cardinality(Thread) \in Nat
    BY ThreadSets
  <2>2. Cardinality(Thread) \notin Bad
    BY <1>3
  <2> QED  BY <2>1, <2>2
<1> QED
  BY <1>1, <1>2, <1>4

-----------------------------------------------------------------------------
(* What a step tells *)

\* Where a thread has told fuzzySize what it has counted.
Telling == {"limit", "limited", "enlarge", "enlarging", "shrink", "shrinking", "root", "newroot",
            "oldroot", "gather", "take", "drop", "build", "leaving"}

\* A step that tells nothing, and takes no effect in a treelet.
Silent(t) ==
    /\ fuzzySize' = fuzzySize /\ heuristic' = heuristic
    /\ at[t] \in Telling <=> at'[t] \in Telling
    /\ at[t] # "release" /\ at'[t] # "release"

\* A lookup is silent but for its effect and its release.
LEMMA LookupSilent ==
    ASSUME OpType, NEW t \in Thread, Lookup(t), ~Release(t), ~Operate(t)
    PROVE  Silent(t)
<1> USE DEF OpType, Silent, Goto, sizeVars, opVars, countVars, Telling
<1>1. CASE Start(t)
  BY <1>1 DEF Start
<1>2. CASE Choose(t)
  BY <1>2 DEF Choose
<1>3. CASE Hop(t)
  BY <1>3 DEF Hop
<1>4. CASE Acquire(t)
  BY <1>4 DEF Acquire
<1>5. CASE Accept(t)
  BY <1>5 DEF Accept
<1>6. CASE Refuse(t)
  BY <1>6 DEF Refuse
<1>7. CASE Retry(t)
  BY <1>7 DEF Retry
<1> QED
  BY <1>1, <1>2, <1>3, <1>4, <1>5, <1>6, <1>7 DEF Lookup

\* A layout change is silent until it returns.
LEMMA ChangeSilent ==
    ASSUME OpType, NEW t \in Thread, Change(t), ~Left(t)
    PROVE  Silent(t)
<1> USE DEF OpType, Silent, Goto, sizeVars, opVars, countVars, Telling
<1>1. CASE EnterChange(t)
  BY <1>1 DEF EnterChange
<1>2. CASE LeaveEarly(t)
  BY <1>2 DEF LeaveEarly
<1>3. CASE ShrinkByEnlarge(t)
  BY <1>3 DEF ShrinkByEnlarge
<1>4. CASE Enlarge(t)
  BY <1>4 DEF Enlarge
<1>5. CASE RootAcquire(t)
  BY <1>5 DEF RootAcquire
<1>6. CASE RootReplace(t)
  BY <1>6 DEF RootReplace
<1>7. CASE RootFree(t)
  BY <1>7 DEF RootFree
<1>8. CASE GatherNode(t)
  BY <1>8 DEF GatherNode
<1>9. CASE GatherAcquire(t)
  BY <1>9 DEF GatherAcquire
<1>10. CASE GatherTake(t)
  BY <1>10 DEF GatherTake
<1>11. CASE GatherFree(t)
  BY <1>11 DEF GatherFree
<1>12. CASE BuildNode(t)
  BY <1>12 DEF BuildNode
<1>13. CASE BuildChild(t)
  BY <1>13 DEF BuildChild
<1>14. CASE LeaveChange(t)
  BY <1>14 DEF LeaveChange
<1> QED
  BY <1>1, <1>2, <1>3, <1>4, <1>5, <1>6, <1>7, <1>8, <1>9, <1>10, <1>11, <1>12, <1>13, <1>14 DEF Change

\* What thread t has counted, told or not, after the step as before it.
Told(t) == fuzzySize' + Untold(t)' = fuzzySize + Untold(t)

\* Counts are numbers.
LEMMA UntoldType ==
    ASSUME OpType, CountType, NEW t \in Thread
    PROVE  /\ fuzzySize \in Int /\ heuristic[t] \in Int /\ Untold(t) \in Int
           /\ Untold(t) = IF at[t] \in Telling THEN 0
                          ELSE IF at[t] = "release" THEN heuristic[t] + Gain(t) ELSE heuristic[t]
<1>1. fuzzySize \in Int /\ heuristic[t] \in (-(Flush + 1))..Flush
  BY DEF CountType
<1>2. heuristic[t] \in Int
  BY <1>1, FlushType
<1>3. Gain(t) \in Int
  BY GainType
<1>4. Untold(t) = IF at[t] \in Telling THEN 0
                  ELSE IF at[t] = "release" THEN heuristic[t] + Gain(t) ELSE heuristic[t]
  BY DEF Untold, Telling
<1> QED
  BY <1>1, <1>2, <1>3, <1>4

\* Nothing is lost or told twice: at a release the gain goes to the thread's count, at a flush the
\* count goes to fuzzySize, and when that has been told the count is reset.
LEMMA ToldStep ==
    ASSUME OpType, CountType, OpType', CountType', NEW t \in Thread, Invoke(t) \/ Step(t), ~Operate(t)
    PROVE  Told(t)
<1>1. fuzzySize' \in Int /\ heuristic'[t] \in Int
  <2>1. fuzzySize' \in Int /\ heuristic'[t] \in (-(Flush + 1))..Flush
    BY DEF CountType
  <2> QED  BY <2>1, FlushType
<1>2. /\ fuzzySize \in Int /\ heuristic[t] \in Int /\ fuzzySize' \in Int /\ heuristic'[t] \in Int
      /\ Untold(t) = IF at[t] \in Telling THEN 0
                     ELSE IF at[t] = "release" THEN heuristic[t] + Gain(t) ELSE heuristic[t]
      /\ at'[t] # "release" => Untold(t)' = IF at'[t] \in Telling THEN 0 ELSE heuristic'[t]
      /\ Gain(t) \in Int
  <2>1. at'[t] # "release" => Untold(t)' = IF at'[t] \in Telling THEN 0 ELSE heuristic'[t]
    BY DEF Untold, Telling
  <2> QED  BY <1>1, <2>1, UntoldType, GainType
<1>3. ASSUME Silent(t) PROVE Told(t)
  BY <1>2, <1>3 DEF Silent, Told
<1>4. ASSUME at[t] \in Telling, FinishCount(t) PROVE Told(t)
  <2>1. fuzzySize' = fuzzySize /\ heuristic'[t] = 0 /\ at'[t] = "idle"
    BY <1>4 DEF FinishCount, Return, Goto, CountType, OpType
  <2> QED  BY <1>2, <1>4, <2>1 DEF Told, Telling
<1>5. CASE Invoke(t)
  <2>1. Silent(t)
    BY <1>5 DEF Invoke, Silent, Goto, OpType, sizeVars, Telling
  <2> QED  BY <1>3, <2>1
<1>6. CASE Lookup(t) /\ ~Release(t)
  BY <1>3, <1>6, LookupSilent
<1>7. CASE Release(t)
  <2>1. at[t] = "release" /\ fuzzySize' = fuzzySize /\ heuristic'[t] = heuristic[t] + Gain(t)
    BY <1>7 DEF Release, CountType
  <2>2. at'[t] \in {"flush", "idle"}
    BY <1>7 DEF Release, Return, Goto, OpType
  <2> QED  BY <1>2, <2>1, <2>2 DEF Told, Telling
<1>8. CASE FlushCount(t)
  <2>1. at[t] = "flush" /\ fuzzySize' = fuzzySize + heuristic[t] /\ at'[t] = "limit"
    BY <1>8 DEF FlushCount, Goto, OpType
  <2> QED  BY <1>2, <2>1 DEF Told, Telling
<1>9. CASE ReadLimit(t)
  <2>1. Silent(t)
    BY <1>9 DEF ReadLimit, Silent, Goto, OpType, sizeVars, Telling
  <2> QED  BY <1>3, <2>1
<1>10. CASE LimitRefused(t)
  <2>1. Silent(t)
    BY <1>10 DEF LimitRefused, Silent, Goto, OpType, sizeVars, countVars, Telling
  <2> QED  BY <1>3, <2>1
<1>11. CASE LimitAccepted(t)
  <2>1. at[t] = "limited"
    BY <1>11 DEF LimitAccepted
  <2>2. FinishCount(t) \/ Silent(t)
    BY <1>11, <2>1 DEF LimitAccepted, Silent, Goto, OpType, sizeVars, countVars, Telling
  <2> QED  BY <1>3, <1>4, <2>1, <2>2 DEF Telling
<1>12. CASE Change(t) /\ ~Left(t)
  BY <1>3, <1>12, ChangeSilent
<1>13. CASE Left(t)
  BY <1>4, <1>13 DEF Left, Telling
<1>14. CASE InsideLock(t)
  <2>1. /\ fuzzySize' = fuzzySize /\ heuristic' = heuristic /\ at' = at
        /\ Gain(t)' = Gain(t)
    BY <1>14 DEF InsideLock, sizeVars, opVars, Gain
  <2> QED  BY <2>1 DEF Told, Untold
<1> QED
  BY <1>5, <1>6, <1>7, <1>8, <1>9, <1>10, <1>11, <1>12, <1>13, <1>14 DEF Step, Count

\* The contents are finite.
LEMMA ContentsFinite ==
    ASSUME NEW U, NEW K, Known(U, K)
    PROVE  Contents \in SUBSET Key /\ IsFiniteSet(Contents) /\ Cardinality(Contents) \in Nat
<1>1. ShapeType /\ ChangeType /\ LinkInv
  BY KnownParts
<1>2. \A x \in Object : ~IsNode(x) => Items(x) \in SUBSET Key
  BY <1>1, ObjectCases, SlotParts DEF Items
<1>3. ASSUME NEW k, Kept(k) PROVE k \in Key
  <2>1. CASE InRoot(k)
    <3>1. head \in Object /\ ~IsNode(head)
      BY <1>1, <2>1, ObjectCases DEF InRoot, LinkInv, ShapeType
    <3> QED  BY <1>2, <2>1, <3>1 DEF InRoot
  <2>2. CASE InLeaf(k)
    BY <1>1, <1>2, <2>2, SlotParts DEF InLeaf
  <2>3. CASE InVector(k)
    <3>1. PICK u \in Thread : k \in Range(v[u])
      BY <2>3 DEF InVector
    <3>2. v[u] \in Seq(Key)
      BY <1>1 DEF ChangeType
    <3> QED  BY <3>1, <3>2 DEF Range
  <2> QED  BY <1>3, <2>1, <2>2, <2>3 DEF Kept
<1>4. Contents \in SUBSET Key
  BY <1>3, ContentsKept DEF KeptInv
<1>5. IsFiniteSet(Contents)
  BY <1>4, KeyType, FS_Subset
<1> QED
  BY <1>4, <1>5, FS_CardinalityType

\* Where an operation takes effect, its gain is the change of the size of the set.
LEMMA OperateCounts ==
    ASSUME NEW U, NEW K, Known(U, K), KeptInv, KeptInv', OpType', CountType',
           NEW t \in Thread, Operate(t)
    PROVE  /\ fuzzySize' = fuzzySize
           /\ Untold(t) \in Int /\ Untold(t)' \in Int /\ Cardinality(Contents) \in Nat
           /\ Cardinality(Contents') = Cardinality(Contents) + (Untold(t)' - Untold(t))
<1>1. OpType /\ CountType /\ at[t] = "own" /\ at'[t] = "release"
  BY KnownParts DEF Operate, Goto, OpType
<1>2. fuzzySize' = fuzzySize /\ heuristic' = heuristic /\ op' = op
  BY DEF Operate, sizeVars
<1>3. heuristic[t] \in Int /\ Untold(t) = heuristic[t]
  BY <1>1, UntoldType DEF Telling
<1>4. Untold(t)' = heuristic[t] + Gain(t)'
  BY <1>1, <1>2 DEF Untold
<1>5. PICK x \in Key : x = key[t]
  BY <1>1 DEF OpType
<1>6. IsFiniteSet(Contents) /\ Cardinality(Contents) \in Nat
  BY ContentsFinite
<1>7. /\ res'[t] \in BOOLEAN
      /\ Gain(t)' = IF ~res'[t] THEN 0
                    ELSE IF op[t] = "insert" THEN 1 ELSE IF op[t] = "remove" THEN -1 ELSE 0
  BY <1>1, <1>2 DEF OpType, Gain
<1>8. Abstract!TakeEffect(t)
  BY TakesEffect
<1>9. Gain(t)' \in Int /\ Cardinality(Contents') = Cardinality(Contents) + Gain(t)'
  <2>1. CASE op[t] = "search"
    <3>1. Contents' = Contents /\ Gain(t)' = 0
      BY <1>7, <1>8, <2>1 DEF Abstract!TakeEffect
    <3> QED  BY <1>6, <3>1
  <2>2. CASE op[t] = "insert"
    <3>1. Contents' = Contents \union {x} /\ res'[t] = (x \notin Contents)
      BY <1>1, <1>5, <1>8, <2>2 DEF Abstract!TakeEffect, OpType
    <3>2. Cardinality(Contents \union {x}) = IF x \in Contents THEN Cardinality(Contents) ELSE Cardinality(Contents) + 1
      BY <1>6, FS_AddElement
    <3>3. Gain(t)' = IF x \in Contents THEN 0 ELSE 1
      BY <1>7, <2>2, <3>1
    <3> QED  BY <1>6, <3>1, <3>2, <3>3
  <2>3. CASE op[t] = "remove"
    <3>1. Contents' = Contents \ {x} /\ res'[t] = (x \in Contents)
      BY <1>1, <1>5, <1>8, <2>3 DEF Abstract!TakeEffect, OpType
    <3>2. Cardinality(Contents \ {x}) = IF x \in Contents THEN Cardinality(Contents) - 1 ELSE Cardinality(Contents)
      BY <1>6, FS_RemoveElement
    <3>3. Gain(t)' = IF x \in Contents THEN -1 ELSE 0
      BY <1>7, <2>3, <3>1
    <3> QED  BY <1>6, <3>1, <3>2, <3>3
  <2> QED  BY <1>1, <2>1, <2>2, <2>3 DEF OpType
<1> QED
  BY <1>2, <1>3, <1>4, <1>6, <1>9

\* A step of t leaves what the others have not told.
LEMMA OthersUntold ==
    ASSUME TypeOK, NEW t \in Thread, Invoke(t) \/ Step(t), NEW u \in Thread, u # t
    PROVE  Untold(u)' = Untold(u)
<1>1. at'[u] = at[u] /\ res'[u] = res[u] /\ op'[u] = op[u] /\ heuristic'[u] = heuristic[u]
  BY OthersStay DEF Stays
<1>2. Gain(u)' = Gain(u)
  BY <1>1 DEF Gain
<1> QED
  BY <1>1, <1>2 DEF Untold

\* What the threads have not told, by thread.
Counts == [t \in Thread |-> Untold(t)]

\* CountIsExact, with names.
LEMMA ExactNamed == CountIsExact <=> Cardinality(Contents) = fuzzySize + Total(Counts)
BY DEF CountIsExact, Total, Counts, FoldFunction, FoldFunctionOnSet, MapThenFoldSet

\* Nothing has been counted at the start.
LEMMA InitExact == Init /\ IInv /\ KeptInv => CountIsExact
<1> SUFFICES ASSUME Init, IInv, KeptInv PROVE CountIsExact
  OBVIOUS
<1>1. Contents = {} /\ fuzzySize = 0
  BY InitSimulates DEF Abstract!Init, Init
<1>2. Counts = [t \in Thread |-> 0]
  BY DEF Counts, Untold, Init
<1>3. Cardinality(Contents) = 0
  BY <1>1, FS_EmptySet
<1>4. Total(Counts) = 0
  <2>1. PICK f : f = [t \in Thread |-> 0]
    OBVIOUS
  <2>2. f \in [Thread -> Int] /\ \A t \in Thread : f[t] = 0
    BY <2>1
  <2>3. PICK h : Sums(h, f, N) /\ Total(f) = h[Thread]
    BY <2>2, TotalSums
  <2> DEFINE Bad == {n \in Nat : \E s \in SUBSET Thread : Cardinality(s) = n /\ h[s] # 0}
  <2>4. ASSUME Bad # {} PROVE FALSE
    <3>1. PICK n \in Bad : \A m \in Bad : n <= m
      <4>1. Bad \in SUBSET Nat
        OBVIOUS
      <4> HIDE DEF Bad
      <4> QED  BY <2>4, <4>1, LeastNatural
    <3>2. PICK s \in SUBSET Thread : Cardinality(s) = n /\ h[s] # 0
      BY <3>1
    <3>3. s # {} /\ h[s] = f[Picked(s)] + h[s \ {Picked(s)}]
      BY <2>3, <3>2, ThreadSets DEF Sums
    <3>4. /\ Picked(s) \in Thread /\ s \ {Picked(s)} \in SUBSET Thread
          /\ Cardinality(s \ {Picked(s)}) = n - 1 /\ n - 1 \in Nat /\ ~(n <= n - 1)
      BY <3>2, <3>3, ThreadSets
    <3>5. h[s \ {Picked(s)}] = 0
      <4>1. n - 1 \notin Bad
        BY <3>1, <3>4
      <4> QED  BY <3>4, <4>1
    <3> QED  BY <2>2, <3>2, <3>3, <3>4, <3>5
  <2>5. h[Thread] = 0
    <3>1. Thread \in SUBSET Thread /\ Cardinality(Thread) \in Nat
      BY ThreadSets
    <3>2. Cardinality(Thread) \notin Bad
      BY <2>4
    <3> QED  BY <3>1, <3>2
  <2> QED  BY <1>2, <2>1, <2>3, <2>5
<1> QED
  BY <1>1, <1>3, <1>4, ExactNamed

\* Every step changes the size of the set as much as what has been counted.
LEMMA ExactStep ==
    ASSUME NEW U, NEW K, Known(U, K), KeptInv, KeptInv', OpType', CountType',
           Cardinality(Contents) = fuzzySize + Total(Counts), NEW t \in Thread, Invoke(t) \/ Step(t)
    PROVE  Cardinality(Contents)' = fuzzySize' + Total(Counts')
<1>1. TypeOK /\ OpType /\ CountType
  BY KnownParts
<1>2. \A u \in Thread : Untold(u) \in Int
  BY <1>1, UntoldType
<1>3. \A u \in Thread : u # t => Untold(u)' = Untold(u)
  BY <1>1, OthersUntold
<1>4. Untold(t)' \in Int
  <2>1. Gain(t)' \in Int
    BY DEF OpType, Gain
  <2>2. heuristic'[t] \in (-(Flush + 1))..Flush
    BY DEF CountType
  <2>3. heuristic'[t] \in Int
    BY <2>2, FlushType
  <2>4. Untold(t)' \in {0, heuristic'[t], heuristic'[t] + Gain(t)'}
    BY DEF Untold
  <2> QED  BY <2>1, <2>3, <2>4
<1>5. /\ Cardinality(Contents) \in Nat /\ fuzzySize \in Int /\ fuzzySize' \in Int /\ Untold(t)' \in Int
      /\ Cardinality(Contents') = Cardinality(Contents) + (fuzzySize' + Untold(t)' - (fuzzySize + Untold(t)))
  <2>1. CASE Operate(t)
    <3>1. fuzzySize' \in Int /\ fuzzySize \in Int
      BY <1>1 DEF CountType
    <3>2. /\ Untold(t) \in Int /\ Untold(t)' \in Int /\ Cardinality(Contents) \in Nat /\ fuzzySize' = fuzzySize
          /\ Cardinality(Contents') = Cardinality(Contents) + (Untold(t)' - Untold(t))
      BY <2>1, OperateCounts
    <3> QED  BY <3>1, <3>2
  <2>2. CASE ~Operate(t)
    <3>1. fuzzySize \in Int /\ fuzzySize' \in Int /\ Untold(t) \in Int
      BY <1>1, <1>2 DEF CountType
    <3>2. fuzzySize' + Untold(t)' = fuzzySize + Untold(t)
      BY <1>1, <2>2, ToldStep DEF Told
    <3>3. Quiet(t) \/ Rebuild(t)
      BY StepCases
    <3>4. SameKept
      BY <2>2, <3>3, QuietKept, RebuildKept
    <3>5. Contents' = Contents
      BY <3>4, ContentsSame
    <3>6. Cardinality(Contents) \in Nat
      BY ContentsFinite
    <3>7. Cardinality(Contents') = Cardinality(Contents)
      BY <3>5
    <3> QED  BY <1>4, <3>1, <3>2, <3>6, <3>7
  <2> QED  BY <2>1, <2>2
<1>6. PICK f, g : f = Counts /\ g = Counts'
  OBVIOUS
<1>7. f \in [Thread -> Int] /\ g \in [Thread -> Int] /\ \A u \in Thread : u # t => g[u] = f[u]
  BY <1>2, <1>3, <1>5, <1>6 DEF Counts
<1>8. f[t] = Untold(t) /\ g[t] = Untold(t)'
  BY <1>6 DEF Counts
<1>9. Total(f) \in Int /\ Total(g) = Total(f) + (g[t] - f[t])
  BY <1>7, TotalChanges
<1> QED
  BY <1>2, <1>5, <1>6, <1>8, <1>9

\* No gain is lost or told twice: fuzzySize and what the threads have counted and not told are
\* together the size of the set, however flushes and layout changes interleave (incSize, decSize).
THEOREM Exact == Spec => []CountIsExact
<1>1. IInv => KeptInv /\ OpType /\ CountType
  BY InvariantKnows, ContentsKept, KnownParts
<1>2. Init => CountIsExact
  BY <1>1, InitInv, InitExact
<1>3. ASSUME IInv, KeptInv, KeptInv', OpType', CountType', CountIsExact, [Next]_vars PROVE CountIsExact'
  <2>1. Cardinality(Contents) = fuzzySize + Total(Counts)
    BY <1>3, ExactNamed
  <2>2. Cardinality(Contents)' = fuzzySize' + Total(Counts')
    <3>1. CASE Next
      BY <1>3, <2>1, <3>1, InvariantKnows, ExactStep DEF Next
    <3>2. CASE UNCHANGED vars
      <4>1. /\ head' = head /\ nodes' = nodes /\ trees' = trees /\ v' = v /\ fuzzySize' = fuzzySize
            /\ op' = op /\ res' = res /\ at' = at /\ heuristic' = heuristic
        BY <3>2 DEF vars, treeVars, opVars, changeVars, sizeVars
      <4>2. SameKept
        BY <4>1 DEF SameKept, Kept, InRoot, InLeaf, InVector, Items, Slots, Link
      <4>3. Contents' = Contents
        BY <1>3, <4>2, ContentsSame
      <4>4. \A t \in Thread : Untold(t)' = Untold(t)
        BY <4>1 DEF Untold, Gain
      <4>5. Counts' = Counts
        BY <4>4 DEF Counts
      <4> QED  BY <2>1, <4>1, <4>3, <4>5
    <3> QED  BY <1>3, <3>1, <3>2
  <2> QED  BY <2>2 DEF CountIsExact, Total, Counts, FoldFunction, FoldFunctionOnSet, MapThenFoldSet
<1> QED
  BY <1>1, <1>2, <1>3, Invariance, PTL DEF Spec

===============================================================================
