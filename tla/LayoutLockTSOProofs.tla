------------------------- MODULE LayoutLockTSOProofs -------------------------
(***************************************************************************)
(* For any number of threads, changes and entries of a store buffer: no    *)
(* thread uses a treelet that a layout change has emptied, and two threads *)
(* never use one treelet, although every store reaches memory late.        *)
(*                                                                         *)
(* What counts is that a buffer is a queue.  The new head of a layout      *)
(* change is the first thing in it, before the releases of the treelet's   *)
(* lock and of the slots: whoever sees one of those free sees the new head.*)
(* Until then nobody finds a slot free, so that nobody clears its mark for *)
(* good.                                                                   *)
(***************************************************************************)
EXTENDS LayoutLockTSO, SequenceTheorems, TLAPS

Entry == Loc \X Nat

LEMMA Locations ==
    /\ <<"head", 1>> \in Loc
    /\ \A s \in Threads : <<"state", s>> \in Loc /\ <<"dirty", s>> \in Loc
    /\ \A x \in Treelet : <<"lock", x>> \in Loc
    /\ \A l \in Loc : \/ l = <<"head", 1>>
                      \/ \E s \in Threads : l = <<"state", s>> \/ l = <<"dirty", s>>
                      \/ \E x \in Treelet : l = <<"lock", x>>
  BY DEF Loc

LEMMA Different ==
    ASSUME NEW x, NEW y
    PROVE  /\ <<"lock", x>> = <<"lock", y>> <=> x = y
           /\ <<"state", x>> = <<"state", y>> <=> x = y
           /\ <<"dirty", x>> = <<"dirty", y>> <=> x = y
           /\ <<"lock", x>> # <<"state", y>> /\ <<"lock", x>> # <<"dirty", y>>
           /\ <<"state", x>> # <<"dirty", y>>
           /\ <<"head", 1>> \notin {<<"lock", x>>, <<"state", x>>, <<"dirty", x>>}
  OBVIOUS

LEMMA Numbers ==
    ASSUME TSOAssumption
    PROVE  /\ N \in Nat /\ MaxChange \in Nat /\ 1 \in Threads /\ 1 \in Treelet
           /\ \A s \in Threads : s \in Nat /\ 1 <= s /\ s <= N /\ (s # N => s + 1 \in Threads)
           /\ \A x \in Treelet : x \in Nat /\ (x <= MaxChange => x + 1 \in Treelet)
  BY DEF TSOAssumption, Threads, Treelet

-----------------------------------------------------------------------------
(* Buffers *)

LEMMA StoreBuffer ==
    ASSUME TypeOK, NEW t \in Threads, NEW l \in Loc, NEW v \in Nat, Store(t, l, v)
    PROVE  /\ mem' = mem
           /\ buf' \in [Threads -> Seq(Entry)]
           /\ \A u \in Threads \ {t} : buf'[u] = buf[u]
           /\ Len(buf[t]) \in Nat /\ Len(buf'[t]) = Len(buf[t]) + 1
           /\ \A k \in 1..Len(buf[t]) : buf'[t][k] = buf[t][k]
           /\ buf'[t][Len(buf[t]) + 1] = <<l, v>>
  <1>1. buf[t] \in Seq(Entry) /\ <<l, v>> \in Entry
    BY DEF TypeOK, Entry
  <1>2. buf' = [buf EXCEPT ![t] = Append(buf[t], <<l, v>>)] /\ mem' = mem
    BY DEF Store
  <1>3. /\ Append(buf[t], <<l, v>>) \in Seq(Entry)
        /\ Len(Append(buf[t], <<l, v>>)) = Len(buf[t]) + 1
        /\ \A k \in 1..Len(buf[t]) : Append(buf[t], <<l, v>>)[k] = buf[t][k]
        /\ Append(buf[t], <<l, v>>)[Len(buf[t]) + 1] = <<l, v>>
        /\ Len(buf[t]) \in Nat
    BY <1>1, AppendProperties, LenProperties
  <1>4. buf \in [Threads -> Seq(Entry)]
    BY DEF TypeOK, Entry
  <1> QED
    BY <1>2, <1>3, <1>4

LEMMA StoreWaits ==
    ASSUME TypeOK, NEW t \in Threads, NEW l \in Loc, NEW v \in Nat, Store(t, l, v)
    PROVE  /\ \A u \in Threads : \A m, w :
                  Waits(u, m, w)' <=> Waits(u, m, w) \/ (u = t /\ m = l /\ w = v)
           /\ \A u \in Threads : Publishes(u)' <=> Publishes(u) \/ (u = t /\ l = <<"head", 1>>)
  <1>0. /\ Len(buf[t]) \in Nat /\ Len(buf'[t]) = Len(buf[t]) + 1
        /\ \A k \in 1..Len(buf[t]) : buf'[t][k] = buf[t][k]
        /\ buf'[t][Len(buf[t]) + 1] = <<l, v>>
        /\ \A u \in Threads \ {t} : buf'[u] = buf[u]
    BY StoreBuffer
  <1>1. /\ \A k \in 1..Len(buf[t]) : k \in 1..Len(buf'[t])
        /\ \A k \in 1..Len(buf'[t]) : k \in 1..Len(buf[t]) \/ k = Len(buf[t]) + 1
        /\ Len(buf[t]) + 1 \in 1..Len(buf'[t])
        /\ <<l, v>>[1] = l
    BY <1>0
  <1>2. ASSUME NEW m, NEW w
        PROVE  Waits(t, m, w)' <=> Waits(t, m, w) \/ (m = l /\ w = v)
    <2>1. (m = l /\ w = v) <=> <<m, w>> = <<l, v>>
      OBVIOUS
    <2> QED
      BY <1>0, <1>1, <2>1, Zenon DEF Waits
  <1>3. Publishes(t)' <=> Publishes(t) \/ l = <<"head", 1>>
    BY <1>0, <1>1, Zenon DEF Publishes
  <1>4. \A u \in Threads \ {t} : Publishes(u)' <=> Publishes(u)
    BY <1>0 DEF Publishes
  <1>5. \A u \in Threads \ {t} : \A m, w : Waits(u, m, w)' <=> Waits(u, m, w)
    BY <1>0 DEF Waits
  <1> QED
    BY <1>2, <1>3, <1>4, <1>5

LEMMA StoreOwn ==
    ASSUME TypeOK, NEW t \in Threads, NEW l \in Loc, NEW v \in Nat, Store(t, l, v)
    PROVE  mem' = mem /\ \A m, w : Waits(t, m, w)' <=> Waits(t, m, w) \/ (m = l /\ w = v)
  <1>1. mem' = mem
    BY StoreBuffer
  <1>2. \A m, w : Waits(t, m, w)' <=> Waits(t, m, w) \/ (m = l /\ w = v)
    BY StoreWaits
  <1> QED
    BY <1>1, <1>2

LEMMA DrainBuffer ==
    ASSUME TypeOK, NEW t \in Threads, Drain(t)
    PROVE  /\ buf[t][1] \in Entry /\ 1 \in 1..Len(buf[t])
           /\ mem' = [mem EXCEPT ![buf[t][1][1]] = buf[t][1][2]]
           /\ buf' \in [Threads -> Seq(Entry)]
           /\ \A u \in Threads \ {t} : buf'[u] = buf[u]
           /\ Len(buf[t]) \in Nat /\ Len(buf'[t]) = Len(buf[t]) - 1
           /\ \A k \in 1..Len(buf'[t]) : buf'[t][k] = buf[t][k + 1]
  <1>1. buf[t] \in Seq(Entry) /\ buf[t] # <<>>
    BY DEF TypeOK, Entry, Drain
  <1>2. buf' = [buf EXCEPT ![t] = Tail(buf[t])]
        /\ mem' = [mem EXCEPT ![Head(buf[t])[1]] = Head(buf[t])[2]]
    BY DEF Drain
  <1>3. /\ Tail(buf[t]) \in Seq(Entry)
        /\ Len(Tail(buf[t])) = Len(buf[t]) - 1
        /\ \A k \in 1..Len(Tail(buf[t])) : Tail(buf[t])[k] = buf[t][k + 1]
        /\ Len(buf[t]) \in Nat \ {0}
    BY <1>1, HeadTailProperties, EmptySeq
  <1>4. Head(buf[t]) = buf[t][1] /\ buf[t][1] \in Entry
    BY <1>1, <1>3, ElementOfSeq, HeadTailProperties
  <1>5. buf \in [Threads -> Seq(Entry)]
    BY DEF TypeOK, Entry
  <1> QED
    BY <1>2, <1>3, <1>4, <1>5

\* A location that has been drained does not wait any more.
LEMMA DrainWaits ==
    ASSUME TypeOK, NEW t \in Threads, OrderOf(t), Drain(t)
    PROVE  /\ \A u \in Threads : \A m, w :
                  Waits(u, m, w)' <=> Waits(u, m, w) /\ (u = t => m # buf[t][1][1])
           /\ \A u \in Threads : Publishes(u)' <=> Publishes(u) /\ u # t
           /\ Publishes(t) => buf[t][1][1] = <<"head", 1>>
           /\ Waits(t, buf[t][1][1], buf[t][1][2])
  <1>0. /\ Len(buf[t]) \in Nat /\ 1 \in 1..Len(buf[t]) /\ Len(buf'[t]) = Len(buf[t]) - 1
        /\ \A k \in 1..Len(buf'[t]) : buf'[t][k] = buf[t][k + 1]
        /\ \A u \in Threads \ {t} : buf'[u] = buf[u]
        /\ buf[t][1] \in Entry
    BY DrainBuffer
  <1>1. ASSUME NEW m, NEW w
        PROVE  Waits(t, m, w)' <=> Waits(t, m, w) /\ m # buf[t][1][1]
    <2>1. ASSUME Waits(t, m, w)'
          PROVE  Waits(t, m, w) /\ m # buf[t][1][1]
      <3>1. PICK k \in 1..Len(buf'[t]) : buf'[t][k] = <<m, w>>
        BY <2>1 DEF Waits
      <3>2. k + 1 \in 1..Len(buf[t]) /\ buf[t][k + 1] = <<m, w>>
        BY <1>0, <3>1
      <3>3. buf[t][k + 1][1] # buf[t][1][1]
        BY <1>0, <3>2 DEF OrderOf
      <3> QED
        BY <3>2, <3>3 DEF Waits
    <2>2. ASSUME Waits(t, m, w), m # buf[t][1][1]
          PROVE  Waits(t, m, w)'
      <3>1. PICK k \in 1..Len(buf[t]) : buf[t][k] = <<m, w>>
        BY <2>2 DEF Waits
      <3>2. k # 1
        BY <2>2, <3>1
      <3>3. k - 1 \in 1..Len(buf'[t]) /\ (k - 1) + 1 = k
        BY <1>0, <3>1, <3>2
      <3>4. buf'[t][k - 1] = <<m, w>>
        BY <1>0, <3>1, <3>3
      <3> QED
        BY <3>3, <3>4 DEF Waits
    <2> QED
      BY <2>1, <2>2
  <1>2. Publishes(t) => buf[t][1][1] = <<"head", 1>>
    BY DEF Publishes, OrderOf
  <1>3. ~Publishes(t)'
    <2>1. SUFFICES ASSUME NEW k \in 1..Len(buf'[t]), buf'[t][k][1] = <<"head", 1>>
                   PROVE  FALSE
      BY DEF Publishes
    <2>2. k + 1 \in 1..Len(buf[t]) /\ buf[t][k + 1][1] = <<"head", 1>> /\ k + 1 # 1
      BY <1>0, <2>1
    <2> QED
      BY <2>2 DEF OrderOf
  <1>4. Waits(t, buf[t][1][1], buf[t][1][2])
    BY <1>0 DEF Waits, Entry
  <1>5. \A u \in Threads \ {t} : Publishes(u)' <=> Publishes(u)
    BY <1>0 DEF Publishes
  <1>6. \A u \in Threads \ {t} : \A m, w : Waits(u, m, w)' <=> Waits(u, m, w)
    BY <1>0 DEF Waits
  <1> QED
    BY <1>1, <1>2, <1>3, <1>4, <1>5, <1>6

\* What a buffer with known stores can hold.
LEMMA WaitsMay ==
    ASSUME BufferInv, NEW t \in Threads, NEW l, NEW v, Waits(t, l, v)
    PROVE  MayHold(t, <<l, v>>)
  BY DEF BufferInv, Waits

LEMMA PublishesMay ==
    ASSUME TypeOK, BufferInv, NEW t \in Threads, Publishes(t)
    PROVE  /\ Waits(t, <<"head", 1>>, mem[<<"head", 1>>] + 1)
           /\ mem[<<"head", 1>>] <= MaxChange
           /\ Leaving(t) \/ pc[t] = "free"
  <1>1. PICK k \in 1..Len(buf[t]) : buf[t][k][1] = <<"head", 1>>
    BY DEF Publishes
  <1>2. MayHold(t, buf[t][k])
    BY <1>1 DEF BufferInv
  <1> QED
    BY <1>1, <1>2 DEF MayHold, Waits

\* Control points where a thread has nothing in its buffer, and what follows.
Empty(t) ==
    \/ pc[t] \in {"check", "using", "reset", "clear", "redirty", "root", "gather", "publish"}
    \/ pc[t] = "wlock" /\ i[t] # 1

LEMMA EmptyBuffer ==
    ASSUME TypeOK, BufferInv, NEW t \in Threads, Empty(t)
    PROVE  Fence(t)
  <1>1. buf[t] \in Seq(Entry)
    BY DEF TypeOK, Entry
  <1>2. ASSUME NEW k \in 1..Len(buf[t])
        PROVE  FALSE
    <2>1. MayHold(t, buf[t][k])
      BY DEF BufferInv
    <2> QED
      BY <2>1 DEF MayHold, Empty, Leaving
  <1>3. Len(buf[t]) \in Nat
    BY <1>1, LenProperties
  <1>4. ~(Len(buf[t]) \in Nat \ {0})
    BY <1>2, <1>3
  <1> QED
    BY <1>1, <1>4, EmptySeq DEF Fence

LEMMA FenceWaits ==
    ASSUME NEW t \in Threads, Fence(t)
    PROVE  /\ ~Publishes(t) /\ \A l, v : ~Waits(t, l, v)
           /\ \A l : Load(t, l) = mem[l]
           /\ Len(buf[t]) = 0 /\ \A k : k \notin 1..Len(buf[t])
  <1>1. Len(buf[t]) = 0
    BY EmptySeq DEF Fence
  <1>2. \A k : k \notin 1..Len(buf[t])
    BY <1>1
  <1> QED
    BY <1>1, <1>2 DEF Publishes, Waits, Load, Pending

\* A thread sees its own new head before the others do.
LEMMA LoadOwnHead ==
    ASSUME TypeOK, BufferInv, NEW t \in Threads, Publishes(t)
    PROVE  /\ Load(t, <<"head", 1>>) = mem[<<"head", 1>>] + 1
           /\ mem[<<"head", 1>>] <= MaxChange
  <1> DEFINE l == <<"head", 1>>
  <1>1. PICK k \in 1..Len(buf[t]) : buf[t][k][1] = l
    BY DEF Publishes
  <1>2. k = 1 /\ 1 \in Pending(t, l) /\ \A j \in Pending(t, l) : j = 1
    BY <1>1 DEF BufferInv, OrderOf, Pending
  <1>3. (CHOOSE j \in Pending(t, l) : \A h \in Pending(t, l) : h <= j) = 1
    <2>1. \A h \in Pending(t, l) : h <= 1
      BY <1>2
    <2> QED
      BY <1>2, <2>1
  <1>4. Load(t, l) = buf[t][1][2]
    BY <1>2, <1>3, Zenon DEF Load
  <1>5. MayHold(t, buf[t][1]) /\ buf[t][1][1] = l
    BY <1>1, <1>2 DEF BufferInv
  <1> QED
    BY <1>4, <1>5 DEF MayHold

\* Else it sees what memory has.
LEMMA LoadHead ==
    ASSUME NEW t \in Threads, ~Publishes(t)
    PROVE  Load(t, <<"head", 1>>) = mem[<<"head", 1>>]
  BY DEF Publishes, Load, Pending

LEMMA LoadType ==
    ASSUME TSOAssumption, TypeOK, BufferInv, NEW t \in Threads
    PROVE  Load(t, <<"head", 1>>) \in Treelet
  BY LoadOwnHead, LoadHead, Numbers DEF TypeOK

-----------------------------------------------------------------------------
(* What each step changes *)

\* A step of t leaves the other threads and what they have stored alone.
Others(t) ==
    \A u \in Threads \ {t} :
        pc'[u] = pc[u] /\ i'[u] = i[u] /\ cur'[u] = cur[u] /\ buf'[u] = buf[u]

LEMMA GotoEffect ==
    ASSUME TypeOK, NEW t \in Threads, NEW p \in PCs, Goto(t, p)
    PROVE  /\ pc' \in [Threads -> PCs]
           /\ pc'[t] = p /\ \A u \in Threads \ {t} : pc'[u] = pc[u]
  BY DEF TypeOK, Goto

LEMMA LoopEffect ==
    ASSUME TSOAssumption, TypeOK, NEW t \in Threads, NEW p \in PCs, Loop(t, p)
    PROVE  /\ pc' \in [Threads -> PCs] /\ i' \in [Threads -> Threads]
           /\ \A u \in Threads \ {t} : pc'[u] = pc[u] /\ i'[u] = i[u]
           /\ \/ i[t] = N /\ pc'[t] = p /\ i'[t] = 1
              \/ i[t] # N /\ pc'[t] = pc[t] /\ i'[t] = i[t] + 1
  <1>1. pc \in [Threads -> PCs] /\ i \in [Threads -> Threads]
    BY DEF TypeOK
  <1>2. CASE i[t] = N
    BY <1>1, <1>2, Numbers DEF Loop, Goto
  <1>3. CASE i[t] # N
    <2>1. i' = [i EXCEPT ![t] = i[t] + 1] /\ pc' = pc
      BY <1>3 DEF Loop
    <2>2. i[t] + 1 \in Threads
      BY <1>1, <1>3, Numbers
    <2> QED
      BY <1>1, <1>3, <2>1, <2>2
  <1> QED
    BY <1>2, <1>3

LEMMA CASEffect ==
    ASSUME TypeOK, NEW t \in Threads, NEW l \in Loc, NEW old, NEW new \in Nat, CAS(t, l, old, new)
    PROVE  /\ Fence(t) /\ mem[l] = old /\ buf' = buf
           /\ mem' \in [Loc -> Nat] /\ mem'[l] = new
           /\ \A m \in Loc \ {l} : mem'[m] = mem[m]
  BY DEF TypeOK, CAS

\* A slot's loop is at a slot.
LEMMA Places ==
    ASSUME TSOAssumption, TypeOK, NEW t \in Threads
    PROVE  /\ <<"lock", cur[t]>> \in Loc /\ cur[t] \in Treelet
           /\ <<"state", i[t]>> \in Loc /\ <<"dirty", i[t]>> \in Loc /\ i[t] \in Threads
           /\ <<"dirty", t>> \in Loc /\ <<"head", 1>> \in Loc
           /\ 0 \in Nat /\ 1 \in Nat
  BY Locations DEF TypeOK

\* What a step of t stores, or what it changes in memory at once.
Stored(t) ==
    \/ \E s \in Threads, v \in {0, 1} : Store(t, <<"dirty", s>>, v)
    \/ Store(t, <<"lock", cur[t]>>, 0)
    \/ \E s \in Threads : Store(t, <<"state", s>>, 0)
    \/ Store(t, <<"head", 1>>, cur[t] + 1)

Swapped(t) ==
    \/ CAS(t, <<"lock", cur[t]>>, 0, 1)
    \/ CAS(t, <<"state", i[t]>>, 0, 1)

\* Every step of t keeps the memory and the buffers, stores, swaps or drains.
LEMMA Effects ==
    ASSUME TSOAssumption, TypeOK, NEW t \in Threads,
           StartLookup(t) \/ StartLayoutChange(t) \/ Step(t)
    PROVE  /\ (mem' = mem /\ buf' = buf) \/ Stored(t) \/ Swapped(t)
           /\ \A u \in Threads \ {t} : pc'[u] = pc[u] /\ i'[u] = i[u] /\ cur'[u] = cur[u]
           /\ pc' \in [Threads -> PCs] /\ i' \in [Threads -> Threads]
  <1> USE Places DEF PCs, Stored, Swapped
  <1>0. /\ pc \in [Threads -> PCs] /\ i \in [Threads -> Threads] /\ cur \in [Threads -> Treelet]
        /\ i[t] \in Threads
    BY DEF TypeOK
  <1>1. CASE StartLookup(t)
    BY <1>0, <1>1, GotoEffect DEF StartLookup
  <1>2. CASE StartLayoutChange(t)
    BY <1>0, <1>2, GotoEffect DEF StartLayoutChange
  <1>3. CASE Find(t)
    BY <1>0, <1>3, GotoEffect DEF Find
  <1>4. CASE Acquire(t)
    BY <1>0, <1>4, GotoEffect DEF Acquire
  <1>5. CASE Check(t)
    BY <1>0, <1>5, GotoEffect DEF Check
  <1>6. CASE ResetTest(t)
    BY <1>0, <1>6, GotoEffect DEF ResetTest
  <1>7. CASE ResetClear(t)
    BY <1>0, <1>7, GotoEffect DEF ResetClear
  <1>8. CASE ResetRecheck(t)
    BY <1>0, <1>8, GotoEffect DEF ResetRecheck
  <1>9. CASE ResetSet(t)
    BY <1>0, <1>9, GotoEffect DEF ResetSet
  <1>10. CASE Refused(t)
    BY <1>0, <1>10, GotoEffect DEF Refused
  <1>11. CASE FinishUsing(t)
    BY <1>0, <1>11, GotoEffect DEF FinishUsing
  <1>12. CASE WriteLockSlot(t)
    BY <1>0, <1>12, LoopEffect DEF WriteLockSlot
  <1>13. CASE SetDirty(t)
    BY <1>0, <1>13, LoopEffect DEF SetDirty
  <1>14. CASE FenceChange(t)
    BY <1>0, <1>14, GotoEffect DEF FenceChange
  <1>15. CASE LoadRoot(t)
    BY <1>0, <1>15, GotoEffect DEF LoadRoot
  <1>16. CASE Gather(t)
    BY <1>0, <1>16, GotoEffect DEF Gather
  <1>17. CASE Publish(t)
    BY <1>0, <1>17, GotoEffect DEF Publish
  <1>18. CASE Free(t)
    BY <1>0, <1>18, GotoEffect DEF Free
  <1>19. CASE WriteUnlockSlot(t)
    BY <1>0, <1>19, LoopEffect DEF WriteUnlockSlot
  <1> QED
    BY <1>1, <1>2, <1>3, <1>4, <1>5, <1>6, <1>7, <1>8, <1>9, <1>10, <1>11, <1>12, <1>13, <1>14,
       <1>15, <1>16, <1>17, <1>18, <1>19 DEF Step, Lookup, Change

\* Only a drain of t changes head, to the next treelet.
LEMMA HeadStays ==
    ASSUME TSOAssumption, TypeOK, NEW t \in Threads,
           StartLookup(t) \/ StartLayoutChange(t) \/ Step(t)
    PROVE  /\ mem' \in [Loc -> Nat] /\ mem'[<<"head", 1>>] = mem[<<"head", 1>>]
           /\ buf' \in [Threads -> Seq(Entry)]
           /\ \A u \in Threads \ {t} : buf'[u] = buf[u]
  <1>0. /\ mem \in [Loc -> Nat] /\ buf \in [Threads -> Seq(Entry)]
        /\ cur[t] \in Treelet /\ cur[t] + 1 \in Nat /\ 0 \in Nat /\ 1 \in Nat
    BY Numbers DEF TypeOK, Entry
  <1>1. CASE mem' = mem /\ buf' = buf
    BY <1>0, <1>1
  <1>2. CASE Stored(t)
    <2>1. PICK l \in Loc, v \in Nat : Store(t, l, v)
      BY <1>0, <1>2, Places, Locations DEF Stored
    <2> QED
      BY <1>0, <2>1, StoreBuffer
  <1>3. CASE Swapped(t)
    <2>1. PICK l \in Loc : l # <<"head", 1>> /\ CAS(t, l, 0, 1)
      BY <1>3, Places DEF Swapped
    <2> QED
      BY <1>0, <2>1, CASEffect, Locations
  <1> QED
    BY <1>1, <1>2, <1>3, Effects

LEMMA DrainHead ==
    ASSUME TSOAssumption, TypeOK, BufferInv, NEW t \in Threads, Drain(t)
    PROVE  /\ mem' \in [Loc -> Nat]
           /\ mem'[<<"head", 1>>] \in Treelet
           /\ Publishes(t) => mem'[<<"head", 1>>] = mem[<<"head", 1>>] + 1
           /\ ~Publishes(t) => mem'[<<"head", 1>>] = mem[<<"head", 1>>]
  <1> DEFINE l == buf[t][1][1]
             v == buf[t][1][2]
  <1>1. /\ 1 \in 1..Len(buf[t]) /\ l \in Loc /\ v \in Nat
        /\ mem' = [mem EXCEPT ![l] = v]
    BY DrainBuffer DEF Entry
  <1>2. MayHold(t, buf[t][1])
    BY <1>1 DEF BufferInv
  <1>3. mem \in [Loc -> Nat] /\ mem[<<"head", 1>>] \in Treelet
    BY DEF TypeOK
  <1>4. CASE l = <<"head", 1>>
    <2>1. v = mem[<<"head", 1>>] + 1 /\ mem[<<"head", 1>>] <= MaxChange
      BY <1>2, <1>4 DEF MayHold
    <2>2. Publishes(t)
      BY <1>1, <1>4 DEF Publishes
    <2> QED
      BY <1>1, <1>3, <1>4, <2>1, <2>2, Numbers
  <1>5. CASE l # <<"head", 1>>
    <2>1. ~Publishes(t)
      BY <1>5, DrainWaits DEF BufferInv
    <2> QED
      BY <1>1, <1>3, <1>5, <2>1, Locations
  <1> QED
    BY <1>4, <1>5

LEMMA TypeInductive ==
    ASSUME TSOAssumption, TypeOK, BufferInv, [Next]_vars
    PROVE  TypeOK'
  <1>0. /\ mem \in [Loc -> Nat] /\ mem[<<"head", 1>>] \in Treelet
        /\ buf \in [Threads -> Seq(Entry)]
        /\ pc \in [Threads -> PCs] /\ i \in [Threads -> Threads]
        /\ cur \in [Threads -> Treelet] /\ gathered \subseteq Treelet
    BY DEF TypeOK, Entry
  <1>1. CASE UNCHANGED vars
    BY <1>1 DEF TypeOK, vars
  <1>2. ASSUME NEW t \in Threads, Drain(t)
        PROVE  TypeOK'
    <2>1. pc' = pc /\ i' = i /\ cur' = cur /\ gathered' = gathered
      BY <1>2 DEF Drain
    <2> QED
      BY <1>0, <1>2, <2>1, DrainHead, DrainBuffer DEF TypeOK, Entry
  <1>3. ASSUME NEW t \in Threads, StartLookup(t) \/ StartLayoutChange(t) \/ Step(t)
        PROVE  TypeOK'
    <2>1. /\ mem' \in [Loc -> Nat] /\ mem'[<<"head", 1>>] = mem[<<"head", 1>>]
          /\ buf' \in [Threads -> Seq(Entry)]
          /\ pc' \in [Threads -> PCs] /\ i' \in [Threads -> Threads]
      BY <1>3, HeadStays, Effects
    <2>2. CASE Find(t) \/ LoadRoot(t)
      <3>1. cur' = [cur EXCEPT ![t] = Load(t, <<"head", 1>>)] /\ gathered' = gathered
        BY <2>2 DEF Find, LoadRoot
      <3> QED
        BY <1>0, <2>1, <3>1, LoadType DEF TypeOK, Entry
    <2>3. CASE Gather(t)
      <3>1. cur' = cur /\ gathered' = gathered \union {cur[t]}
        BY <2>3 DEF Gather
      <3> QED
        BY <1>0, <2>1, <3>1 DEF TypeOK, Entry
    <2>4. CASE ~(Find(t) \/ LoadRoot(t) \/ Gather(t))
      <3>1. cur' = cur /\ gathered' = gathered
        BY <1>3, <2>4 DEF Step, Lookup, Change, StartLookup, StartLayoutChange, Acquire, Check,
              ResetTest, ResetClear, ResetRecheck, ResetSet, Refused, FinishUsing, WriteLockSlot,
              SetDirty, FenceChange, Publish, Free, WriteUnlockSlot
      <3> QED
        BY <1>0, <2>1, <3>1 DEF TypeOK, Entry
    <2> QED
      BY <2>2, <2>3, <2>4
  <1> QED
    BY <1>1, <1>2, <1>3 DEF Next

LEMMA IndexInductive ==
    ASSUME TSOAssumption, TypeOK, IndexInv, [Next]_vars
    PROVE  IndexInv'
  <1> DEFINE AtFirst(t) == pc[t] \notin {"wlock", "dirtying", "wunlock"} => i[t] = 1
  <1>0. /\ \A t \in Threads : AtFirst(t)
        /\ pc \in [Threads -> PCs] /\ i \in [Threads -> Threads]
    BY DEF IndexInv, TypeOK
  <1>1. CASE UNCHANGED vars
    BY <1>1 DEF IndexInv, vars
  <1>2. ASSUME NEW t \in Threads, Drain(t)
        PROVE  IndexInv'
    BY <1>2 DEF IndexInv, Drain
  <1>3. ASSUME NEW t \in Threads, StartLookup(t) \/ StartLayoutChange(t) \/ Step(t)
        PROVE  IndexInv'
    <2>1. \A u \in Threads \ {t} : pc'[u] = pc[u] /\ i'[u] = i[u]
      BY <1>3, Effects
    <2>2. CASE WriteLockSlot(t) \/ SetDirty(t) \/ WriteUnlockSlot(t)
      <3>1. PICK p \in PCs : Loop(t, p) /\ pc[t] \in {"wlock", "dirtying", "wunlock"}
        BY <2>2 DEF WriteLockSlot, SetDirty, WriteUnlockSlot, PCs
      <3>2. AtFirst(t)'
        BY <3>1, LoopEffect
      <3> QED
        BY <1>0, <2>1, <3>2 DEF IndexInv
    <2>3. CASE ~(WriteLockSlot(t) \/ SetDirty(t) \/ WriteUnlockSlot(t))
      <3>1. i' = i /\ pc[t] \notin {"wlock", "dirtying", "wunlock"}
        BY <1>3, <2>3 DEF Step, Lookup, Change, StartLookup, StartLayoutChange, Find, Acquire, Check,
              ResetTest, ResetClear, ResetRecheck, ResetSet, Refused, FinishUsing,
              FenceChange, LoadRoot, Gather, Publish, Free
      <3> QED
        BY <1>0, <2>1, <3>1 DEF IndexInv
    <2> QED
      BY <2>2, <2>3
  <1> QED
    BY <1>1, <1>2, <1>3 DEF Next

-----------------------------------------------------------------------------
(* What the buffers hold *)

\* Nothing to the location l waits in the buffer of t.
Fresh(t, l) == \A k \in 1..Len(buf[t]) : buf[t][k][1] # l

\* What the buffer of t holds may stay there when t takes a step.
Holds(t, e) == \E k \in 1..Len(buf[t]) : buf[t][k] = e
Stay(t) == \A e : Holds(t, e) => MayHold(t, e)'

\* The stores of the other threads are allowed as long as head is the same.
LEMMA OthersMayHold ==
    ASSUME TSOAssumption, TypeOK, BufferInv, NEW t \in Threads,
           StartLookup(t) \/ StartLayoutChange(t) \/ Step(t),
           NEW u \in Threads \ {t}
    PROVE  (OrderOf(u) /\ \A k \in 1..Len(buf[u]) : MayHold(u, buf[u][k]))'
  <1>1. /\ pc'[u] = pc[u] /\ i'[u] = i[u] /\ buf'[u] = buf[u]
        /\ mem'[<<"head", 1>>] = mem[<<"head", 1>>]
    BY Effects, HeadStays
  <1>2. OrderOf(u)'
    BY <1>1 DEF BufferInv, OrderOf
  <1>3. ASSUME NEW k \in 1..Len(buf'[u])
        PROVE  MayHold(u, buf[u][k])'
    <2>1. MayHold(u, buf[u][k]) /\ buf'[u][k] = buf[u][k]
      BY <1>1 DEF BufferInv
    <2> QED
      BY <1>1, <2>1 DEF MayHold, Leaving
  <1> QED
    BY <1>2, <1>3

LEMMA KeepBuffer ==
    ASSUME TSOAssumption, TypeOK, BufferInv, NEW t \in Threads,
           StartLookup(t) \/ StartLayoutChange(t) \/ Step(t), buf' = buf, Stay(t)
    PROVE  BufferInv'
  <1>1. OrderOf(t)'
    BY DEF BufferInv, OrderOf
  <1>2. ASSUME NEW k \in 1..Len(buf'[t])
        PROVE  MayHold(t, buf[t][k])'
    <2> DEFINE e == buf'[t][k]
    <2>1. Holds(t, e)
      BY DEF Holds
    <2>2. \A d : d = e => MayHold(t, d)'
      BY <2>1 DEF Stay
    <2> QED
      BY <2>2
  <1> QED
    BY <1>1, <1>2, OthersMayHold DEF BufferInv

LEMMA AddToBuffer ==
    ASSUME TSOAssumption, TypeOK, BufferInv, NEW t \in Threads,
           StartLookup(t) \/ StartLayoutChange(t) \/ Step(t), Stay(t),
           NEW l \in Loc, NEW v \in Nat, Store(t, l, v),
           Fresh(t, l), l = <<"head", 1>> => Fence(t),
           \A e : e = <<l, v>> => MayHold(t, e)'
    PROVE  BufferInv'
  <1>1. /\ Len(buf[t]) \in Nat /\ Len(buf'[t]) = Len(buf[t]) + 1
        /\ \A k \in 1..Len(buf[t]) : buf'[t][k] = buf[t][k]
        /\ buf'[t][Len(buf[t]) + 1] = <<l, v>> /\ <<l, v>>[1] = l
    BY StoreBuffer
  <1>2. \A k \in 1..Len(buf'[t]) : k \in 1..Len(buf[t]) \/ k = Len(buf[t]) + 1
    BY <1>1
  <1>3. OrderOf(t)'
    <2>1. ASSUME NEW j \in 1..Len(buf'[t]), NEW k \in 1..Len(buf'[t]), buf'[t][j][1] = buf'[t][k][1]
          PROVE  j = k
      <3>1. j \in 1..Len(buf[t]) \/ j = Len(buf[t]) + 1
        BY <1>2
      <3>2. k \in 1..Len(buf[t]) \/ k = Len(buf[t]) + 1
        BY <1>2
      <3>3. \A h \in 1..Len(buf[t]) : buf'[t][h][1] # l
        BY <1>1 DEF Fresh
      <3>4. CASE j \in 1..Len(buf[t]) /\ k \in 1..Len(buf[t])
        BY <1>1, <2>1, <3>4 DEF BufferInv, OrderOf
      <3> QED
        BY <1>1, <2>1, <3>1, <3>2, <3>3, <3>4, Zenon
    <2>2. ASSUME NEW k \in 1..Len(buf'[t]), buf'[t][k][1] = <<"head", 1>>
          PROVE  k = 1
      <3>1. CASE k \in 1..Len(buf[t])
        BY <1>1, <2>2, <3>1 DEF BufferInv, OrderOf
      <3>2. CASE k = Len(buf[t]) + 1
        <4>1. Fence(t)
          BY <1>1, <2>2, <3>2, Zenon
        <4>2. Len(buf[t]) = 0
          BY <4>1, FenceWaits
        <4> QED
          BY <3>2, <4>2
      <3> QED
        BY <1>2, <3>1, <3>2
    <2> QED
      BY <2>1, <2>2 DEF OrderOf
  <1>4. ASSUME NEW k \in 1..Len(buf'[t])
        PROVE  MayHold(t, buf[t][k])'
    <2> DEFINE e == buf'[t][k]
    <2>1. Holds(t, e) \/ e = <<l, v>>
      BY <1>1, <1>2 DEF Holds
    <2>2. \A d : d = e => MayHold(t, d)'
      BY <2>1 DEF Stay
    <2> QED
      BY <2>2
  <1> QED
    BY <1>3, <1>4, OthersMayHold DEF BufferInv

LEMMA HoldsMay ==
    ASSUME BufferInv, NEW t \in Threads, NEW e, Holds(t, e)
    PROVE  MayHold(t, e)
  BY DEF BufferInv, Holds

LEMMA EmptyStays ==
    ASSUME NEW t \in Threads, Fence(t)
    PROVE  Stay(t) /\ \A l : Fresh(t, l)
  BY FenceWaits DEF Stay, Holds, Fresh

LEMMA KeepInductive ==
    ASSUME TSOAssumption, TypeOK, IndexInv, BufferInv, NEW t \in Threads,
           StartLookup(t) \/ StartLayoutChange(t) \/ Step(t), buf' = buf
    PROVE  BufferInv'
  <1>0. /\ pc \in [Threads -> PCs] /\ i \in [Threads -> Threads]
        /\ mem'[<<"head", 1>>] = mem[<<"head", 1>>]
    BY HeadStays DEF TypeOK
  <1>1. CASE Fence(t)
    BY <1>1, EmptyStays, KeepBuffer
  <1>2. CASE ~Fence(t)
    <2>1. \/ pc[t] = "idle" /\ pc'[t] = "find" /\ i' = i
          \/ pc[t] = "idle" /\ pc'[t] = "wlock" /\ i' = i
          \/ pc[t] = "find" /\ pc'[t] = "acquire" /\ i' = i
      <3>1. StartLookup(t) \/ StartLayoutChange(t) \/ Find(t)
        <4>1. ~Empty(t)
          BY <1>2, EmptyBuffer
        <4>2. ~(Acquire(t) \/ ResetRecheck(t) \/ WriteLockSlot(t) \/ FenceChange(t) \/ Gather(t))
          BY <1>2 DEF Acquire, ResetRecheck, WriteLockSlot, FenceChange, Gather, CAS
        <4>3. ~(Check(t) \/ ResetTest(t) \/ LoadRoot(t))
          BY <4>1 DEF Empty, Check, ResetTest, LoadRoot
        <4>4. ~(Stored(t))
          <5>1. \A l \in Loc, v \in Nat : ~Store(t, l, v)
            BY StoreBuffer
          <5>2. cur[t] \in Treelet /\ cur[t] + 1 \in Nat
            BY Numbers DEF TypeOK
          <5> QED
            BY <5>1, <5>2, Places, Locations DEF Stored
        <4>5. ~(ResetClear(t) \/ ResetSet(t) \/ Refused(t) \/ FinishUsing(t) \/ SetDirty(t)
                  \/ Publish(t) \/ Free(t) \/ WriteUnlockSlot(t))
          BY <4>4, Places DEF Stored, ResetClear, ResetSet, Refused, FinishUsing, SetDirty, Publish,
                Free, WriteUnlockSlot
        <4> QED
          BY <4>2, <4>3, <4>5 DEF Step, Lookup, Change
      <3> QED
        BY <1>0, <3>1, GotoEffect DEF StartLookup, StartLayoutChange, Find, PCs
    <2>2. pc[t] = "idle" => i[t] = 1
      BY DEF IndexInv
    <2>3. ASSUME NEW e, Holds(t, e)
          PROVE  MayHold(t, e)'
      <3>1. MayHold(t, e)
        BY <2>3, HoldsMay
      <3> QED
        BY <1>0, <2>1, <2>2, <3>1 DEF MayHold, Leaving
    <2> QED
      BY <2>3, KeepBuffer DEF Stay
  <1> QED
    BY <1>1, <1>2

LEMMA StoreInductive ==
    ASSUME TSOAssumption, TypeOK, IndexInv, BufferInv, HeadInv, NEW t \in Threads, Step(t), Stored(t)
    PROVE  BufferInv'
  <1> USE Places DEF PCs
  <1>0. /\ pc \in [Threads -> PCs] /\ i \in [Threads -> Threads] /\ cur \in [Threads -> Treelet]
        /\ mem[<<"head", 1>>] \in Treelet /\ mem'[<<"head", 1>>] = mem[<<"head", 1>>]
    BY HeadStays DEF TypeOK
  <1> cur[t] \in Nat /\ i[t] \in Nat /\ Threads \subseteq Nat
    BY Numbers
  <1>1. CASE Empty(t)
    <2>1. Fence(t)
      BY <1>1, EmptyBuffer
    <2>2. Stay(t) /\ \A l : Fresh(t, l)
      BY <2>1, EmptyStays
    <2>3. CASE ResetClear(t)
      <3>1. Store(t, <<"dirty", t>>, 0) /\ pc'[t] = "recheck"
        BY <2>3, GotoEffect DEF ResetClear
      <3>2. \A e : e = <<<<"dirty", t>>, 0>> => MayHold(t, e)'
        BY <3>1 DEF MayHold
      <3> QED
        BY <2>1, <2>2, <3>1, <3>2, AddToBuffer
    <2>4. CASE ResetSet(t)
      <3>1. Store(t, <<"dirty", t>>, 1) /\ pc'[t] = "refused"
        BY <2>4, GotoEffect DEF ResetSet
      <3>2. \A e : e = <<<<"dirty", t>>, 1>> => MayHold(t, e)'
        BY <3>1 DEF MayHold
      <3> QED
        BY <2>1, <2>2, <3>1, <3>2, AddToBuffer
    <2>5. CASE FinishUsing(t)
      <3>1. Store(t, <<"lock", cur[t]>>, 0) /\ pc'[t] = "idle"
        BY <2>5, GotoEffect DEF FinishUsing
      <3>2. \A e : e = <<<<"lock", cur[t]>>, 0>> => MayHold(t, e)'
        BY <1>0, <3>1 DEF MayHold, Leaving
      <3> QED
        BY <2>1, <2>2, <3>1, <3>2, AddToBuffer
    <2>6. CASE Publish(t)
      <3>1. Store(t, <<"head", 1>>, cur[t] + 1) /\ pc'[t] = "free"
        BY <2>6, GotoEffect DEF Publish
      <3>2. cur[t] = mem[<<"head", 1>>] /\ cur[t] <= MaxChange
        BY <2>6 DEF HeadInv, Publish
      <3>3. \A e : e = <<<<"head", 1>>, cur[t] + 1>> => MayHold(t, e)'
        BY <1>0, <3>1, <3>2 DEF MayHold
      <3> QED
        <4>1. cur[t] + 1 \in Nat
          OBVIOUS
        <4> QED
          BY <2>1, <2>2, <3>1, <3>3, <4>1, AddToBuffer, Zenon
    <2> QED
      <3>1. ~(Refused(t) \/ SetDirty(t) \/ Free(t) \/ WriteUnlockSlot(t))
        BY <1>1 DEF Empty, Refused, SetDirty, Free, WriteUnlockSlot
      <3>2. CASE ~(ResetClear(t) \/ ResetSet(t) \/ FinishUsing(t) \/ Publish(t))
        <4>1. buf' = buf
          BY <3>1, <3>2 DEF Step, Lookup, Change, Find, Acquire, Check, ResetTest, ResetRecheck,
                WriteLockSlot, FenceChange, LoadRoot, Gather, CAS
        <4> QED
          BY <4>1, KeepInductive
      <3> QED
        BY <2>3, <2>4, <2>5, <2>6, <3>2
  <1>2. CASE Refused(t)
    <2>1. Store(t, <<"lock", cur[t]>>, 0) /\ pc[t] = "refused" /\ pc'[t] = "find"
      BY <1>2, GotoEffect DEF Refused
    <2>2. ASSUME NEW e, Holds(t, e)
          PROVE  e[1] # <<"lock", cur[t]>> /\ MayHold(t, e)'
      <3>1. MayHold(t, e)
        BY <2>2, HoldsMay
      <3> QED
        BY <2>1, <3>1 DEF MayHold, Leaving
    <2>3. \A e : e = <<<<"lock", cur[t]>>, 0>> => MayHold(t, e)'
      BY <1>0, <2>1 DEF MayHold, Leaving
    <2> QED
      BY <2>1, <2>2, <2>3, AddToBuffer DEF Stay, Fresh, Holds
  <1>3. CASE SetDirty(t)
    <2>1. /\ Store(t, <<"dirty", i[t]>>, 1) /\ pc[t] = "dirtying"
          /\ \/ i[t] = N /\ pc'[t] = "fence" /\ i'[t] = 1
             \/ i[t] # N /\ pc'[t] = pc[t] /\ i'[t] = i[t] + 1
      BY <1>3, LoopEffect DEF SetDirty
    <2>2. ASSUME NEW e, Holds(t, e)
          PROVE  e[1] # <<"dirty", i[t]>> /\ MayHold(t, e)'
      <3>1. MayHold(t, e)
        BY <2>2, HoldsMay
      <3>2. PICK s \in Threads : e = <<<<"dirty", s>>, 1>> /\ s < i[t]
        BY <2>1, <3>1 DEF MayHold, Leaving
      <3>3. s < i[t] + 1 /\ s # i[t]
        BY <3>2
      <3> QED
        BY <2>1, <3>2, <3>3 DEF MayHold
    <2>3. \A e : e = <<<<"dirty", i[t]>>, 1>> => MayHold(t, e)'
      <3>1. i[t] < i[t] + 1
        OBVIOUS
      <3> QED
        BY <2>1, <3>1 DEF MayHold
    <2> QED
      BY <2>1, <2>2, <2>3, AddToBuffer DEF Stay, Fresh, Holds
  <1>4. CASE Free(t)
    <2>1. Store(t, <<"lock", cur[t]>>, 0) /\ pc[t] = "free" /\ pc'[t] = "wunlock"
      BY <1>4, GotoEffect DEF Free
    <2>2. ASSUME NEW e, Holds(t, e)
          PROVE  e[1] # <<"lock", cur[t]>> /\ MayHold(t, e)'
      <3>1. MayHold(t, e)
        BY <2>2, HoldsMay
      <3> QED
        BY <1>0, <2>1, <3>1 DEF MayHold, Leaving
    <2>3. \A e : e = <<<<"lock", cur[t]>>, 0>> => MayHold(t, e)'
      BY <1>0, <2>1 DEF MayHold, Leaving
    <2> QED
      BY <2>1, <2>2, <2>3, AddToBuffer DEF Stay, Fresh, Holds
  <1>5. CASE WriteUnlockSlot(t)
    <2>1. /\ Store(t, <<"state", i[t]>>, 0) /\ pc[t] = "wunlock"
          /\ \/ i[t] = N /\ pc'[t] = "idle" /\ i'[t] = 1
             \/ i[t] # N /\ pc'[t] = pc[t] /\ i'[t] = i[t] + 1
      BY <1>5, LoopEffect DEF WriteUnlockSlot
    <2>2. ASSUME NEW e, Holds(t, e)
          PROVE  e[1] # <<"state", i[t]>> /\ MayHold(t, e)'
      <3>1. MayHold(t, e)
        BY <2>2, HoldsMay
      <3>2. \A s \in Threads : s < i[t] => s < i[t] + 1 /\ s # i[t]
        OBVIOUS
      <3> QED
        BY <1>0, <2>1, <3>1, <3>2 DEF MayHold, Leaving
    <2>3. \A e : e = <<<<"state", i[t]>>, 0>> => MayHold(t, e)'
      <3>1. i[t] < i[t] + 1
        OBVIOUS
      <3> QED
        BY <2>1, <3>1 DEF MayHold, Leaving
    <2> QED
      BY <2>1, <2>2, <2>3, AddToBuffer DEF Stay, Fresh, Holds
  <1>6. CASE buf' = buf
    BY <1>6, KeepInductive
  <1> QED
    <2>1. CASE ResetClear(t) \/ ResetSet(t) \/ FinishUsing(t) \/ Publish(t)
      BY <1>1, <2>1 DEF Empty, ResetClear, ResetSet, FinishUsing, Publish
    <2>2. CASE Find(t) \/ Acquire(t) \/ Check(t) \/ ResetTest(t) \/ ResetRecheck(t) \/ WriteLockSlot(t)
                 \/ FenceChange(t) \/ LoadRoot(t) \/ Gather(t)
      BY <1>6, <2>2 DEF Find, Acquire, Check, ResetTest, ResetRecheck, WriteLockSlot, FenceChange,
            LoadRoot, Gather, CAS
    <2> QED
      BY <1>2, <1>3, <1>4, <1>5, <2>1, <2>2 DEF Step, Lookup, Change

\* No two threads have a new head on its way.
LEMMA OnePublishes ==
    ASSUME TSOAssumption, LockInv, HeadInv, NEW t \in Threads, NEW u \in Threads,
           Publishes(t), Publishes(u)
    PROVE  t = u
  BY Numbers DEF HeadInv, LockInv

LEMMA DrainInductive ==
    ASSUME TSOAssumption, TypeOK, BufferInv, LockInv, HeadInv, NEW t \in Threads, Drain(t)
    PROVE  BufferInv'
  <1>0. /\ Len(buf[t]) \in Nat /\ Len(buf'[t]) = Len(buf[t]) - 1
        /\ \A k \in 1..Len(buf'[t]) : buf'[t][k] = buf[t][k + 1]
        /\ \A u \in Threads \ {t} : buf'[u] = buf[u]
        /\ pc' = pc /\ i' = i
    BY DrainBuffer DEF Drain
  <1>1. \A k \in 1..Len(buf'[t]) : k + 1 \in 1..Len(buf[t]) /\ k + 1 # 1 /\ k \in Nat
    BY <1>0
  <1>2. ASSUME NEW u \in Threads
        PROVE  OrderOf(u)'
    <2>1. CASE u = t
      <3>1. ASSUME NEW j \in 1..Len(buf'[t]), NEW k \in 1..Len(buf'[t]), buf'[t][j][1] = buf'[t][k][1]
            PROVE  j = k
        <4>1. /\ j + 1 \in 1..Len(buf[t]) /\ k + 1 \in 1..Len(buf[t])
              /\ buf[t][j + 1][1] = buf[t][k + 1][1]
          BY <1>0, <1>1, <3>1
        <4>2. \A g, h \in 1..Len(buf[t]) : buf[t][g][1] = buf[t][h][1] => g = h
          BY DEF BufferInv, OrderOf
        <4>3. j + 1 = k + 1
          BY <4>1, <4>2, Zenon
        <4> QED
          BY <1>1, <4>3
      <3>2. \A k \in 1..Len(buf'[t]) : buf'[t][k][1] # <<"head", 1>>
        BY <1>0, <1>1 DEF BufferInv, OrderOf
      <3> QED
        BY <2>1, <3>1, <3>2 DEF OrderOf
    <2>2. CASE u # t
      BY <1>0, <2>2 DEF BufferInv, OrderOf
    <2> QED
      BY <2>1, <2>2
  <1>3. ASSUME NEW u \in Threads, NEW k \in 1..Len(buf'[u])
        PROVE  MayHold(u, buf[u][k])'
    <2> DEFINE e == buf'[u][k]
    <2>1. MayHold(u, e) /\ (u = t => e[1] # <<"head", 1>> \/ ~Publishes(t))
      <3>1. CASE u = t
        <4>1. e = buf[t][k + 1] /\ k + 1 \in 1..Len(buf[t]) /\ k + 1 # 1
          BY <1>0, <1>1, <3>1
        <4> QED
          BY <3>1, <4>1 DEF BufferInv, OrderOf
      <3>2. CASE u # t
        BY <1>0, <3>2 DEF BufferInv
      <3> QED
        BY <3>1, <3>2
    <2>2. CASE ~Publishes(t)
      <3>1. mem'[<<"head", 1>>] = mem[<<"head", 1>>]
        BY <2>2, DrainHead
      <3>2. \A d : d = e => MayHold(u, d)'
        BY <1>0, <2>1, <3>1 DEF MayHold, Leaving
      <3> QED
        BY <3>2
    <2>3. CASE Publishes(t)
      <3>1. e[1] # <<"head", 1>>
        <4>1. CASE u = t
          BY <2>1, <2>3, <4>1
        <4>2. CASE u # t
          <5>1. ~Publishes(u)
            BY <2>3, <4>2, OnePublishes
          <5> QED
            BY <1>0, <4>2, <5>1 DEF Publishes
        <4> QED
          BY <4>1, <4>2
      <3>2. \A d : d = e => MayHold(u, d)'
        BY <1>0, <2>1, <3>1 DEF MayHold, Leaving
      <3> QED
        BY <3>2
    <2> QED
      BY <2>2, <2>3
  <1> QED
    BY <1>2, <1>3 DEF BufferInv

LEMMA BufferInductive ==
    ASSUME TSOAssumption, TypeOK, IndexInv, BufferInv, LockInv, HeadInv, [Next]_vars
    PROVE  BufferInv'
  <1>1. CASE UNCHANGED vars
    BY <1>1 DEF vars, BufferInv, OrderOf, MayHold, Leaving
  <1>2. ASSUME NEW t \in Threads, StartLookup(t) \/ StartLayoutChange(t) \/ Step(t)
        PROVE  BufferInv'
    <2>1. CASE buf' = buf
      BY <1>2, <2>1, KeepInductive
    <2>2. CASE buf' # buf
      <3>1. Stored(t)
        BY <1>2, <2>2, Effects DEF Swapped, CAS
      <3>2. Step(t)
        BY <1>2, <2>2 DEF StartLookup, StartLayoutChange
      <3> QED
        BY <3>1, <3>2, StoreInductive
    <2> QED
      BY <2>1, <2>2
  <1> QED
    BY <1>1, <1>2, DrainInductive DEF Next

-----------------------------------------------------------------------------
(* Who has which lock *)

\* A step in which t takes x, or keeps what it has of it.
TreeletStep(t, x) ==
    /\ HasTreelet(t, x)' <=> HasTreelet(t, x) \/ (mem[<<"lock", x>>] = 0 /\ mem'[<<"lock", x>>] = 1)
    /\ \/ mem'[<<"lock", x>>] = mem[<<"lock", x>>]
       \/ mem[<<"lock", x>>] = 0 /\ mem'[<<"lock", x>>] = 1

SlotStep(t, s) ==
    /\ HasSlot(t, s)' <=> HasSlot(t, s) \/ (mem[<<"state", s>>] = 0 /\ mem'[<<"state", s>>] = 1)
    /\ \/ mem'[<<"state", s>>] = mem[<<"state", s>>]
       \/ mem[<<"state", s>>] = 0 /\ mem'[<<"state", s>>] = 1

LEMMA TakesTreelet ==
    ASSUME TSOAssumption, TypeOK, BufferInv, NEW t \in Threads,
           StartLookup(t) \/ StartLayoutChange(t) \/ Step(t), NEW x \in Treelet
    PROVE  TreeletStep(t, x)
  <1> USE DEF PCs
  <1> /\ <<"lock", cur[t]>> \in Loc /\ cur[t] \in Treelet
      /\ <<"state", i[t]>> \in Loc /\ <<"dirty", i[t]>> \in Loc /\ i[t] \in Threads
      /\ <<"dirty", t>> \in Loc /\ <<"head", 1>> \in Loc
      /\ 0 \in Nat /\ 1 \in Nat /\ cur[t] + 1 \in Nat
    BY Places, Numbers
  <1> <<"lock", x>> \in Loc
    BY Locations
  <1>0. /\ pc \in [Threads -> PCs] /\ i \in [Threads -> Threads] /\ cur \in [Threads -> Treelet]
    BY DEF TypeOK
  <1>1. CASE Acquire(t) \/ Gather(t)
    <2>1. /\ CAS(t, <<"lock", cur[t]>>, 0, 1) /\ cur' = cur
          /\ ~InTreelet(t) /\ InTreelet(t)'
      BY <1>1, GotoEffect DEF Acquire, Gather, InTreelet
    <2>2. /\ Fence(t) /\ mem[<<"lock", cur[t]>>] = 0 /\ mem'[<<"lock", cur[t]>>] = 1
          /\ \A m \in Loc \ {<<"lock", cur[t]>>} : mem'[m] = mem[m]
          /\ buf' = buf
      BY <2>1 DEF CAS, TypeOK
    <2>3. ~Waits(t, <<"lock", x>>, 0) /\ ~Waits(t, <<"lock", x>>, 0)'
      BY <2>2, FenceWaits DEF Waits
    <2> QED
      BY <2>1, <2>2, <2>3, Different DEF TreeletStep, HasTreelet
  <1>2. CASE WriteLockSlot(t)
    <2>1. /\ CAS(t, <<"state", i[t]>>, 0, 1) /\ cur' = cur
          /\ ~InTreelet(t) /\ ~InTreelet(t)'
      BY <1>2, LoopEffect DEF WriteLockSlot, InTreelet
    <2>2. buf' = buf /\ mem'[<<"lock", x>>] = mem[<<"lock", x>>]
      BY <2>1, CASEffect
    <2> QED
      BY <2>1, <2>2 DEF TreeletStep, HasTreelet, Waits
  <1>3. CASE Refused(t) \/ FinishUsing(t) \/ Free(t)
    <2>1. /\ Store(t, <<"lock", cur[t]>>, 0) /\ cur' = cur
          /\ InTreelet(t) /\ ~InTreelet(t)'
      BY <1>3, GotoEffect DEF Refused, FinishUsing, Free, InTreelet
    <2>2. /\ Waits(t, <<"lock", x>>, 0)' <=> Waits(t, <<"lock", x>>, 0) \/ cur[t] = x
          /\ mem' = mem
      <3>1. PICK l \in Loc : Store(t, l, 0) /\ (l = <<"lock", x>> <=> cur[t] = x)
        BY <2>1, Different
      <3>2. /\ \A m, w : Waits(t, m, w)' <=> Waits(t, m, w) \/ (m = l /\ w = 0)
            /\ mem' = mem
        BY <3>1, StoreOwn
      <3> QED
        BY <3>1, <3>2, Zenon
    <2> QED
      BY <2>1, <2>2 DEF TreeletStep, HasTreelet
  <1>4. CASE ResetClear(t) \/ ResetSet(t) \/ SetDirty(t) \/ Publish(t) \/ WriteUnlockSlot(t)
    <2>1. InTreelet(t)' <=> InTreelet(t)
      BY <1>4, GotoEffect, LoopEffect
         DEF ResetClear, ResetSet, SetDirty, Publish, WriteUnlockSlot, InTreelet
    <2>2. /\ cur' = cur
          /\ \E l \in Loc, v \in Nat : Store(t, l, v) /\ l # <<"lock", x>>
      BY <1>0, <1>4 DEF ResetClear, ResetSet, SetDirty, Publish, WriteUnlockSlot
    <2>3. mem' = mem /\ (Waits(t, <<"lock", x>>, 0)' <=> Waits(t, <<"lock", x>>, 0))
      BY <2>2, StoreWaits, StoreBuffer
    <2> QED
      BY <2>1, <2>2, <2>3 DEF TreeletStep, HasTreelet
  <1>5. CASE StartLookup(t) \/ StartLayoutChange(t) \/ Find(t) \/ Check(t) \/ ResetTest(t)
               \/ ResetRecheck(t) \/ FenceChange(t) \/ LoadRoot(t)
    <2>1. mem' = mem /\ buf' = buf
      BY <1>5 DEF StartLookup, StartLayoutChange, Find, Check, ResetTest, ResetRecheck, FenceChange,
            LoadRoot
    <2>2. /\ InTreelet(t)' <=> InTreelet(t)
          /\ InTreelet(t) => cur' = cur
      BY <1>5, GotoEffect DEF StartLookup, StartLayoutChange, Find, Check, ResetTest, ResetRecheck,
            FenceChange, LoadRoot, InTreelet
    <2> QED
      BY <2>1, <2>2 DEF TreeletStep, HasTreelet, Waits
  <1> QED
    BY <1>1, <1>2, <1>3, <1>4, <1>5 DEF Step, Lookup, Change

LEMMA TakesSlot ==
    ASSUME TSOAssumption, TypeOK, IndexInv, BufferInv, NEW t \in Threads,
           StartLookup(t) \/ StartLayoutChange(t) \/ Step(t), NEW s \in Threads
    PROVE  SlotStep(t, s)
  <1> USE DEF PCs
  <1> /\ <<"lock", cur[t]>> \in Loc /\ cur[t] \in Treelet
      /\ <<"state", i[t]>> \in Loc /\ <<"dirty", i[t]>> \in Loc /\ i[t] \in Threads
      /\ <<"dirty", t>> \in Loc /\ <<"head", 1>> \in Loc
      /\ 0 \in Nat /\ 1 \in Nat /\ cur[t] + 1 \in Nat
    BY Places, Numbers
  <1> /\ <<"state", s>> \in Loc /\ s \in Nat /\ 1 <= s /\ s <= N /\ N \in Nat
      /\ i[t] \in Nat /\ 1 <= i[t] /\ i[t] <= N
    BY Locations, Numbers
  <1>0. /\ pc \in [Threads -> PCs] /\ i \in [Threads -> Threads] /\ cur \in [Threads -> Treelet]
        /\ pc[t] \notin {"wlock", "dirtying", "wunlock"} => i[t] = 1
    BY DEF TypeOK, IndexInv
  <1>1. CASE WriteLockSlot(t)
    <2>1. /\ CAS(t, <<"state", i[t]>>, 0, 1) /\ pc[t] = "wlock"
          /\ \/ i[t] = N /\ pc'[t] = "dirtying" /\ i'[t] = 1
             \/ i[t] # N /\ pc'[t] = pc[t] /\ i'[t] = i[t] + 1
      BY <1>1, LoopEffect DEF WriteLockSlot
    <2>2. /\ Fence(t) /\ mem[<<"state", i[t]>>] = 0 /\ mem'[<<"state", i[t]>>] = 1
          /\ \A m \in Loc \ {<<"state", i[t]>>} : mem'[m] = mem[m]
          /\ buf' = buf
      BY <2>1 DEF CAS, TypeOK
    <2>3. ~Waits(t, <<"state", s>>, 0) /\ ~Waits(t, <<"state", s>>, 0)'
      BY <2>2, FenceWaits DEF Waits
    <2>4. HasSlot(t, s)' <=> s <= i[t]
      BY <2>1, <2>3 DEF HasSlot, InChange
    <2>5. HasSlot(t, s) <=> s < i[t]
      BY <2>1, <2>3 DEF HasSlot, InChange
    <2> QED
      BY <2>2, <2>4, <2>5, Different DEF SlotStep
  <1>2. CASE Acquire(t) \/ Gather(t)
    <2>1. /\ CAS(t, <<"lock", cur[t]>>, 0, 1) /\ i' = i
          /\ \/ pc[t] = "acquire" /\ pc'[t] = "check"
             \/ pc[t] = "gather" /\ pc'[t] = "publish"
      BY <1>2, GotoEffect DEF Acquire, Gather
    <2>2. mem'[<<"state", s>>] = mem[<<"state", s>>] /\ buf' = buf
      <3>1. buf' = buf /\ \A m \in Loc \ {<<"lock", cur[t]>>} : mem'[m] = mem[m]
        BY <2>1 DEF CAS, TypeOK
      <3> QED
        BY <3>1, Different
    <2> QED
      BY <2>1, <2>2 DEF SlotStep, HasSlot, InChange, Waits
  <1>3. CASE WriteUnlockSlot(t)
    <2>1. /\ Store(t, <<"state", i[t]>>, 0) /\ pc[t] = "wunlock"
          /\ \/ i[t] = N /\ pc'[t] = "idle" /\ i'[t] = 1
             \/ i[t] # N /\ pc'[t] = pc[t] /\ i'[t] = i[t] + 1
      BY <1>3, LoopEffect DEF WriteUnlockSlot
    <2>2. /\ Waits(t, <<"state", s>>, 0)' <=> Waits(t, <<"state", s>>, 0) \/ s = i[t]
          /\ mem' = mem
      <3>1. PICK l \in Loc : Store(t, l, 0) /\ (l = <<"state", s>> <=> s = i[t])
        BY <2>1, Different
      <3>2. /\ \A m, w : Waits(t, m, w)' <=> Waits(t, m, w) \/ (m = l /\ w = 0)
            /\ mem' = mem
        BY <3>1, StoreOwn
      <3> QED
        BY <3>1, <3>2, Zenon
    <2>3. HasSlot(t, s)' <=> i[t] < s \/ Waits(t, <<"state", s>>, 0)'
      BY <2>1 DEF HasSlot, InChange
    <2>4. HasSlot(t, s) <=> i[t] <= s \/ Waits(t, <<"state", s>>, 0)
      BY <2>1 DEF HasSlot, InChange
    <2> QED
      BY <2>2, <2>3, <2>4 DEF SlotStep
  <1>4. CASE Refused(t) \/ FinishUsing(t) \/ Free(t) \/ ResetClear(t) \/ ResetSet(t) \/ SetDirty(t)
               \/ Publish(t)
    <2>1. \E l \in Loc, v \in Nat : Store(t, l, v) /\ l # <<"state", s>>
      BY <1>0, <1>4 DEF Refused, FinishUsing, Free, ResetClear, ResetSet, SetDirty, Publish
    <2>2. mem' = mem /\ (Waits(t, <<"state", s>>, 0)' <=> Waits(t, <<"state", s>>, 0))
      <3>1. PICK l \in Loc, v \in Nat : Store(t, l, v) /\ l # <<"state", s>>
        BY <2>1
      <3>2. /\ \A m, w : Waits(t, m, w)' <=> Waits(t, m, w) \/ (m = l /\ w = v)
            /\ mem' = mem
        BY <3>1, StoreOwn
      <3> QED
        BY <3>1, <3>2, Zenon
    <2>3. HasSlot(t, s)' <=> HasSlot(t, s)
      BY <1>0, <1>4, <2>2, GotoEffect, LoopEffect DEF HasSlot, InChange, Refused, FinishUsing, Free,
            ResetClear, ResetSet, SetDirty, Publish
    <2> QED
      BY <2>2, <2>3 DEF SlotStep
  <1>5. CASE StartLookup(t) \/ StartLayoutChange(t) \/ Find(t) \/ Check(t) \/ ResetTest(t)
               \/ ResetRecheck(t) \/ FenceChange(t) \/ LoadRoot(t)
    <2>1. mem' = mem /\ buf' = buf /\ i' = i
      BY <1>5 DEF StartLookup, StartLayoutChange, Find, Check, ResetTest, ResetRecheck, FenceChange,
            LoadRoot
    <2>2. \/ pc[t] = "idle" /\ pc'[t] \in {"find", "wlock"}
          \/ pc[t] = "find" /\ pc'[t] = "acquire"
          \/ pc[t] = "check" /\ pc'[t] \in {"using", "reset"}
          \/ pc[t] = "reset" /\ pc'[t] \in {"refused", "clear"}
          \/ pc[t] = "recheck" /\ pc'[t] \in {"redirty", "refused"}
          \/ pc[t] = "fence" /\ pc'[t] = "root"
          \/ pc[t] = "root" /\ pc'[t] \in {"gather", "wunlock"}
      BY <1>5, GotoEffect DEF StartLookup, StartLayoutChange,
            Find, Check, ResetTest, ResetRecheck, FenceChange, LoadRoot
    <2>3. HasSlot(t, s)' <=> HasSlot(t, s)
      BY <1>0, <2>1, <2>2 DEF HasSlot, InChange, Waits
    <2> QED
      BY <2>1, <2>3 DEF SlotStep
  <1> QED
    BY <1>1, <1>2, <1>3, <1>4, <1>5 DEF Step, Lookup, Change

\* A drain gives up what memory shows free after it, and nothing else.
LEMMA DrainTreelet ==
    ASSUME TypeOK, BufferInv, NEW t \in Threads, Drain(t), NEW x \in Treelet
    PROVE  /\ HasTreelet(t, x)' => HasTreelet(t, x)
           /\ mem'[<<"lock", x>>] # mem[<<"lock", x>>] => HasTreelet(t, x) /\ ~HasTreelet(t, x)'
  <1> DEFINE l == buf[t][1][1]
             v == buf[t][1][2]
  <1>0. /\ 1 \in 1..Len(buf[t]) /\ l \in Loc /\ v \in Nat /\ buf[t][1] = <<l, v>>
        /\ mem' = [mem EXCEPT ![l] = v] /\ pc' = pc /\ cur' = cur
        /\ mem \in [Loc -> Nat] /\ <<"lock", x>> \in Loc
    BY DrainBuffer, Locations DEF Entry, Drain, TypeOK
  <1>1. /\ \A m, w : Waits(t, m, w)' <=> Waits(t, m, w) /\ m # l
        /\ Waits(t, l, v)
    BY DrainWaits DEF BufferInv
  <1>2. HasTreelet(t, x)' => HasTreelet(t, x)
    BY <1>0, <1>1 DEF HasTreelet, InTreelet
  <1>3. CASE l = <<"lock", x>>
    <2>1. v = 0 /\ Leaving(t)
      <3>1. MayHold(t, buf[t][1])
        BY <1>0 DEF BufferInv
      <3> QED
        BY <1>0, <1>3, <3>1 DEF MayHold
    <2>2. HasTreelet(t, x)
      BY <1>1, <1>3, <2>1 DEF HasTreelet
    <2>3. ~InTreelet(t)'
      BY <1>0, <2>1 DEF InTreelet, Leaving
    <2>4. ~Waits(t, <<"lock", x>>, 0)'
      BY <1>1, <1>3
    <2> QED
      BY <1>2, <2>2, <2>3, <2>4 DEF HasTreelet
  <1>4. CASE l # <<"lock", x>>
    BY <1>0, <1>2, <1>4
  <1> QED
    BY <1>3, <1>4

LEMMA DrainSlot ==
    ASSUME TSOAssumption, TypeOK, BufferInv, NEW t \in Threads, Drain(t), NEW s \in Threads
    PROVE  /\ HasSlot(t, s)' => HasSlot(t, s)
           /\ HasSlot(t, s) /\ ~HasSlot(t, s)' => Waits(t, buf[t][1][1], buf[t][1][2])
           /\ mem'[<<"state", s>>] # mem[<<"state", s>>] => HasSlot(t, s) /\ ~HasSlot(t, s)'
  <1> DEFINE l == buf[t][1][1]
             v == buf[t][1][2]
  <1>0. /\ 1 \in 1..Len(buf[t]) /\ l \in Loc /\ v \in Nat /\ buf[t][1] = <<l, v>>
        /\ mem' = [mem EXCEPT ![l] = v] /\ pc' = pc /\ i' = i
        /\ mem \in [Loc -> Nat]
    <2>1. pc' = pc /\ i' = i /\ mem \in [Loc -> Nat]
      BY DEF Drain, TypeOK
    <2>2. 1 \in 1..Len(buf[t]) /\ buf[t][1] \in Entry /\ mem' = [mem EXCEPT ![l] = v]
      BY DrainBuffer
    <2> QED
      BY <2>1, <2>2 DEF Entry
  <1> <<"state", s>> \in Loc
    BY Locations
  <1>1. /\ \A m, w : Waits(t, m, w)' <=> Waits(t, m, w) /\ m # l
        /\ Waits(t, l, v)
    BY DrainWaits DEF BufferInv
  <1>2. HasSlot(t, s)' => HasSlot(t, s)
    BY <1>0, <1>1 DEF HasSlot, InChange
  <1>3. CASE l = <<"state", s>>
    <2>1. v = 0 /\ Leaving(t) /\ (pc[t] = "wunlock" => s < i[t])
      <3>1. MayHold(t, buf[t][1])
        BY <1>0 DEF BufferInv
      <3> QED
        BY <1>0, <1>3, <3>1 DEF MayHold
    <2>2. HasSlot(t, s)
      BY <1>1, <1>3, <2>1 DEF HasSlot
    <2>3. ~InChange(t)' /\ ~(pc[t] = "wlock" /\ s < i[t])' /\ ~(pc[t] = "wunlock" /\ i[t] <= s)'
      <3>1. s \in Nat /\ 1 <= s /\ i[t] \in Nat
        BY Numbers, Places
      <3> QED
        BY <1>0, <2>1, <3>1 DEF InChange, Leaving
    <2>4. ~Waits(t, <<"state", s>>, 0)'
      BY <1>1, <1>3
    <2> QED
      BY <1>1, <1>2, <2>2, <2>3, <2>4 DEF HasSlot
  <1>4. CASE l # <<"state", s>>
    BY <1>0, <1>1, <1>2, <1>4
  <1> QED
    BY <1>3, <1>4

\* What the others have is not affected by a step of t.
LEMMA OthersHave ==
    ASSUME NEW t \in Threads, Others(t), NEW u \in Threads \ {t}
    PROVE  /\ \A l, v : Waits(u, l, v)' <=> Waits(u, l, v)
           /\ \A x \in Treelet : HasTreelet(u, x)' <=> HasTreelet(u, x)
           /\ \A s \in Threads : HasSlot(u, s)' <=> HasSlot(u, s)
           /\ Publishes(u)' <=> Publishes(u)
  <1>1. pc'[u] = pc[u] /\ i'[u] = i[u] /\ cur'[u] = cur[u] /\ buf'[u] = buf[u]
    BY DEF Others
  <1>2. \A l, v : Waits(u, l, v)' <=> Waits(u, l, v)
    BY <1>1 DEF Waits
  <1> QED
    BY <1>1, <1>2 DEF HasTreelet, HasSlot, InTreelet, InChange, Publishes

LEMMA StepOthers ==
    ASSUME TSOAssumption, TypeOK, NEW t \in Threads,
           StartLookup(t) \/ StartLayoutChange(t) \/ Step(t) \/ Drain(t)
    PROVE  Others(t)
  <1>1. CASE Drain(t)
    BY <1>1, DrainBuffer DEF Drain, Others
  <1>2. CASE ~Drain(t)
    BY <1>2, Effects, HeadStays DEF Others
  <1> QED
    BY <1>1, <1>2

LEMMA LockInductive ==
    ASSUME TSOAssumption, TypeOK, IndexInv, BufferInv, LockInv, [Next]_vars
    PROVE  LockInv'
  <1>1. CASE UNCHANGED vars
    BY <1>1 DEF vars, LockInv, HasTreelet, HasSlot, InTreelet, InChange, Waits
  <1>2. ASSUME NEW t \in Threads,
               StartLookup(t) \/ StartLayoutChange(t) \/ Step(t) \/ Drain(t)
        PROVE  LockInv'
    <2>1. \A u \in Threads \ {t} :
              /\ \A x \in Treelet : HasTreelet(u, x)' <=> HasTreelet(u, x)
              /\ \A s \in Threads : HasSlot(u, s)' <=> HasSlot(u, s)
      BY <1>2, StepOthers, OthersHave
    <2>2. ASSUME NEW x \in Treelet
          PROVE  /\ HasTreelet(t, x)' =>
                        \/ HasTreelet(t, x)
                        \/ mem[<<"lock", x>>] = 0 /\ mem'[<<"lock", x>>] = 1
                 /\ mem'[<<"lock", x>>] # mem[<<"lock", x>>] =>
                        \/ HasTreelet(t, x) /\ ~HasTreelet(t, x)'
                        \/ mem[<<"lock", x>>] = 0 /\ mem'[<<"lock", x>>] = 1
      BY <1>2, TakesTreelet, DrainTreelet DEF TreeletStep
    <2>3. ASSUME NEW s \in Threads
          PROVE  /\ HasSlot(t, s)' =>
                        \/ HasSlot(t, s)
                        \/ mem[<<"state", s>>] = 0 /\ mem'[<<"state", s>>] = 1
                 /\ mem'[<<"state", s>>] # mem[<<"state", s>>] =>
                        \/ HasSlot(t, s) /\ ~HasSlot(t, s)'
                        \/ mem[<<"state", s>>] = 0 /\ mem'[<<"state", s>>] = 1
      BY <1>2, TakesSlot, DrainSlot DEF SlotStep
    <2>4. ASSUME NEW u \in Threads, NEW w \in Threads, NEW x \in Treelet,
                 HasTreelet(u, x)', HasTreelet(w, x)'
          PROVE  u = w
      <3>1. ASSUME NEW o \in Threads \ {t}, HasTreelet(o, x), HasTreelet(t, x)'
            PROVE  FALSE
        <4>1. mem[<<"lock", x>>] # 0
          BY <3>1 DEF LockInv
        <4>2. HasTreelet(t, x)
          BY <2>2, <3>1, <4>1
        <4> QED
          BY <3>1, <4>2 DEF LockInv
      <3>2. CASE u = t \/ w = t
        BY <2>1, <2>4, <3>1, <3>2
      <3>3. CASE u # t /\ w # t
        BY <2>1, <2>4, <3>3 DEF LockInv
      <3> QED
        BY <3>2, <3>3
    <2>5. ASSUME NEW u \in Threads, NEW x \in Treelet, HasTreelet(u, x)'
          PROVE  mem'[<<"lock", x>>] = 1
      BY <2>1, <2>2, <2>5 DEF LockInv
    <2>6. ASSUME NEW u \in Threads, NEW w \in Threads, NEW s \in Threads,
                 HasSlot(u, s)', HasSlot(w, s)'
          PROVE  u = w
      <3>1. ASSUME NEW o \in Threads \ {t}, HasSlot(o, s), HasSlot(t, s)'
            PROVE  FALSE
        <4>1. mem[<<"state", s>>] # 0
          BY <3>1 DEF LockInv
        <4>2. HasSlot(t, s)
          BY <2>3, <3>1, <4>1
        <4> QED
          BY <3>1, <4>2 DEF LockInv
      <3>2. CASE u = t \/ w = t
        BY <2>1, <2>6, <3>1, <3>2
      <3>3. CASE u # t /\ w # t
        BY <2>1, <2>6, <3>3 DEF LockInv
      <3> QED
        BY <3>2, <3>3
    <2>7. ASSUME NEW u \in Threads, NEW s \in Threads, HasSlot(u, s)'
          PROVE  mem'[<<"state", s>>] = 1
      BY <2>1, <2>3, <2>7 DEF LockInv
    <2> QED
      BY <2>4, <2>5, <2>6, <2>7 DEF LockInv
  <1> QED
    BY <1>1, <1>2 DEF Next

-----------------------------------------------------------------------------
(* The new head *)

\* Only Publish puts a new head into a buffer, and no step but a drain takes it away.
LEMMA StepPublishes ==
    ASSUME TSOAssumption, TypeOK, NEW t \in Threads,
           StartLookup(t) \/ StartLayoutChange(t) \/ Step(t)
    PROVE  Publishes(t)' <=> Publishes(t) \/ Publish(t)
  <1> USE DEF PCs
  <1> /\ <<"lock", cur[t]>> \in Loc /\ <<"state", i[t]>> \in Loc /\ <<"dirty", i[t]>> \in Loc
      /\ <<"dirty", t>> \in Loc /\ <<"head", 1>> \in Loc
      /\ 0 \in Nat /\ 1 \in Nat /\ cur[t] + 1 \in Nat
    BY Places, Numbers
  <1>1. CASE Publish(t)
    <2>1. PICK l \in Loc, v \in Nat : l = <<"head", 1>> /\ Store(t, l, v)
      BY <1>1 DEF Publish
    <2> QED
      BY <1>1, <2>1, StoreWaits
  <1>2. CASE Refused(t) \/ FinishUsing(t) \/ Free(t) \/ ResetClear(t) \/ ResetSet(t) \/ SetDirty(t)
               \/ WriteUnlockSlot(t)
    <2>1. PICK l \in Loc, v \in Nat : l # <<"head", 1>> /\ Store(t, l, v)
      BY <1>2 DEF Refused, FinishUsing, Free, ResetClear, ResetSet, SetDirty, WriteUnlockSlot
    <2>2. pc[t] # "publish"
      BY <1>2 DEF Refused, FinishUsing, Free, ResetClear, ResetSet, SetDirty, WriteUnlockSlot
    <2> QED
      BY <2>1, <2>2, StoreWaits DEF Publish
  <1>3. CASE StartLookup(t) \/ StartLayoutChange(t) \/ Find(t) \/ Acquire(t) \/ Check(t) \/ ResetTest(t)
               \/ ResetRecheck(t) \/ WriteLockSlot(t) \/ FenceChange(t) \/ LoadRoot(t) \/ Gather(t)
    <2>1. buf' = buf /\ pc[t] # "publish"
      BY <1>3 DEF StartLookup, StartLayoutChange, Find, Acquire, Check, ResetTest, ResetRecheck,
            WriteLockSlot, FenceChange, LoadRoot, Gather, CAS
    <2> QED
      BY <2>1 DEF Publishes, Publish
  <1> QED
    BY <1>1, <1>2, <1>3 DEF Step, Lookup, Change

LEMMA PublishesHasSlots ==
    ASSUME TSOAssumption, TypeOK, IndexInv, BufferInv, HeadInv, [Next]_vars, NEW u \in Threads,
           NEW s \in Threads, Publishes(u)'
    PROVE  HasSlot(u, s)'
  <1>1. CASE UNCHANGED vars
    <2>1. Publishes(u) /\ (HasSlot(u, s)' <=> HasSlot(u, s))
      BY <1>1 DEF vars, Publishes, HasSlot, InChange, Waits
    <2> QED
      BY <2>1 DEF HeadInv
  <1>2. ASSUME NEW t \in Threads, StartLookup(t) \/ StartLayoutChange(t) \/ Step(t)
        PROVE  HasSlot(u, s)'
    <2>1. CASE u = t
      <3>1. Publishes(t) \/ Publish(t)
        BY <1>2, <2>1, StepPublishes
      <3>2. HasSlot(t, s)
        BY <3>1 DEF HeadInv, Publish, HasSlot, InChange
      <3> QED
        BY <1>2, <2>1, <3>2, TakesSlot DEF SlotStep
    <2>2. CASE u # t
      BY <1>2, <2>2, StepOthers, OthersHave DEF HeadInv
    <2> QED
      BY <2>1, <2>2
  <1>3. ASSUME NEW t \in Threads, Drain(t)
        PROVE  HasSlot(u, s)'
    <2>1. u # t /\ Publishes(u)
      BY <1>3, DrainWaits DEF BufferInv
    <2> QED
      BY <1>3, <2>1, StepOthers, OthersHave DEF HeadInv
  <1> QED
    BY <1>1, <1>2, <1>3 DEF Next

LEMMA GathersHead ==
    ASSUME TSOAssumption, TypeOK, BufferInv, LockInv, HeadInv, [Next]_vars, NEW u \in Threads,
           pc'[u] \in {"gather", "publish"}
    PROVE  cur'[u] = mem'[<<"head", 1>>] /\ cur'[u] <= MaxChange
  <1> USE DEF PCs
  <1>1. CASE UNCHANGED vars
    BY <1>1 DEF vars, HeadInv
  <1>2. ASSUME NEW t \in Threads, StartLookup(t) \/ StartLayoutChange(t) \/ Step(t)
        PROVE  cur'[u] = mem'[<<"head", 1>>] /\ cur'[u] <= MaxChange
    <2>1. mem'[<<"head", 1>>] = mem[<<"head", 1>>]
      BY <1>2, HeadStays
    <2>2. CASE u = t /\ LoadRoot(t)
      <3>1. Fence(t)
        BY <2>2, EmptyBuffer DEF Empty, LoadRoot
      <3>2. Load(t, <<"head", 1>>) = mem[<<"head", 1>>]
        BY <3>1, FenceWaits
      <3>3. cur'[t] = Load(t, <<"head", 1>>)
        BY <2>2 DEF LoadRoot, TypeOK
      <3>4. cur'[t] <= MaxChange
        BY <2>2, GotoEffect DEF LoadRoot
      <3> QED
        BY <2>1, <2>2, <3>2, <3>3, <3>4
    <2>3. CASE u = t /\ Gather(t)
      <3>1. cur' = cur /\ pc[t] = "gather"
        BY <2>3 DEF Gather
      <3> QED
        BY <2>1, <2>3, <3>1 DEF HeadInv
    <2>4. CASE u = t /\ ~LoadRoot(t) /\ ~Gather(t)
      <3>1. CASE WriteLockSlot(t) \/ SetDirty(t) \/ WriteUnlockSlot(t)
        BY <2>4, <3>1, LoopEffect DEF WriteLockSlot, SetDirty, WriteUnlockSlot
      <3>2. CASE ~(WriteLockSlot(t) \/ SetDirty(t) \/ WriteUnlockSlot(t))
        BY <1>2, <2>4, <3>2, GotoEffect DEF Step, Lookup, Change, StartLookup, StartLayoutChange,
              Find, Acquire, Check, ResetTest, ResetClear, ResetRecheck, ResetSet, Refused,
              FinishUsing, FenceChange, Publish, Free
      <3> QED
        BY <3>1, <3>2
    <2>5. CASE u # t
      BY <1>2, <2>1, <2>5, Effects DEF HeadInv
    <2> QED
      BY <2>2, <2>3, <2>4, <2>5
  <1>3. ASSUME NEW t \in Threads, Drain(t)
        PROVE  cur'[u] = mem'[<<"head", 1>>] /\ cur'[u] <= MaxChange
    <2>1. pc' = pc /\ cur' = cur
      BY <1>3 DEF Drain
    <2>2. ~Publishes(t)
      <3>1. CASE u = t
        BY <2>1, <3>1, EmptyBuffer, FenceWaits DEF Empty
      <3>2. CASE u # t
        <4>1. HasSlot(u, 1)
          BY <2>1 DEF HasSlot, InChange
        <4> QED
          BY <3>2, <4>1, Numbers DEF HeadInv, LockInv
      <3> QED
        BY <3>1, <3>2
    <2>3. mem'[<<"head", 1>>] = mem[<<"head", 1>>]
      BY <1>3, <2>2, DrainHead
    <2> QED
      BY <2>1, <2>3 DEF HeadInv
  <1> QED
    BY <1>1, <1>2, <1>3 DEF Next

\* The change that has emptied treelet x, when x is still what head tells.
Replaces(t) == pc[t] = "publish" \/ Publishes(t)

LEMMA GatheredStays ==
    ASSUME TSOAssumption, TypeOK, BufferInv, LockInv, HeadInv, [Next]_vars, NEW x \in gathered'
    PROVE  \/ x < mem'[<<"head", 1>>]
           \/ x = mem'[<<"head", 1>>] /\ \E t \in Threads : Replaces(t)'
  <1> USE DEF PCs
  <1>0. mem[<<"head", 1>>] \in Nat /\ gathered \subseteq Nat /\ cur \in [Threads -> Nat]
    BY Numbers DEF TypeOK
  <1>1. CASE UNCHANGED vars
    BY <1>1 DEF vars, HeadInv, Replaces, Publishes
  <1>2. ASSUME NEW t \in Threads, StartLookup(t) \/ StartLayoutChange(t) \/ Step(t)
        PROVE  \/ x < mem'[<<"head", 1>>]
               \/ x = mem'[<<"head", 1>>] /\ \E u \in Threads : Replaces(u)'
    <2>1. mem'[<<"head", 1>>] = mem[<<"head", 1>>]
      BY <1>2, HeadStays
    <2>2. CASE x \in gathered
      <3>1. ASSUME NEW u \in Threads, Replaces(u)
            PROVE  Replaces(u)'
        <4>1. CASE u # t
          BY <1>2, <3>1, <4>1, StepOthers, OthersHave DEF Replaces, Others
        <4>2. CASE u = t /\ pc[t] = "publish"
          <5>1. Publish(t)
            BY <1>2, <4>2 DEF Step, Lookup, Change, StartLookup, StartLayoutChange, Find, Acquire,
                  Check, ResetTest, ResetClear, ResetRecheck, ResetSet, Refused, FinishUsing,
                  WriteLockSlot, SetDirty, FenceChange, LoadRoot, Gather, Free, WriteUnlockSlot
          <5> QED
            BY <1>2, <4>2, <5>1, StepPublishes DEF Replaces
        <4>3. CASE u = t /\ Publishes(t)
          BY <1>2, <4>3, StepPublishes DEF Replaces
        <4> QED
          BY <3>1, <4>1, <4>2, <4>3 DEF Replaces
      <3> QED
        BY <2>1, <2>2, <3>1 DEF HeadInv, Replaces
    <2>3. CASE x \notin gathered
      <3>1. Gather(t)
        BY <1>2, <2>3 DEF Step, Lookup, Change, StartLookup, StartLayoutChange, Find, Acquire,
              Check, ResetTest, ResetClear, ResetRecheck, ResetSet, Refused, FinishUsing,
              WriteLockSlot, SetDirty, FenceChange, LoadRoot, Publish, Free, WriteUnlockSlot
      <3>2. x = cur[t] /\ pc[t] = "gather" /\ pc'[t] = "publish"
        BY <2>3, <3>1, GotoEffect DEF Gather
      <3> QED
        BY <2>1, <3>2 DEF HeadInv, Replaces
    <2> QED
      BY <2>2, <2>3
  <1>3. ASSUME NEW t \in Threads, Drain(t)
        PROVE  \/ x < mem'[<<"head", 1>>]
               \/ x = mem'[<<"head", 1>>] /\ \E u \in Threads : Replaces(u)'
    <2>1. pc' = pc /\ gathered' = gathered
      BY <1>3 DEF Drain
    <2>2. CASE Publishes(t)
      <3>1. mem'[<<"head", 1>>] = mem[<<"head", 1>>] + 1
        BY <1>3, <2>2, DrainHead
      <3> QED
        BY <1>0, <2>1, <3>1 DEF HeadInv
    <2>3. CASE ~Publishes(t)
      <3>1. mem'[<<"head", 1>>] = mem[<<"head", 1>>]
        BY <1>3, <2>3, DrainHead
      <3>2. \A u \in Threads : Replaces(u) => Replaces(u)'
        BY <1>3, <2>1, <2>3, StepOthers, OthersHave DEF Replaces
      <3> QED
        BY <2>1, <3>1, <3>2 DEF HeadInv, Replaces
    <2> QED
      BY <2>2, <2>3
  <1> QED
    BY <1>1, <1>2, <1>3 DEF Next

LEMMA HeadInductive ==
    ASSUME TSOAssumption, TypeOK, IndexInv, BufferInv, LockInv, HeadInv, [Next]_vars
    PROVE  HeadInv'
  BY PublishesHasSlots, GathersHead, GatheredStays DEF HeadInv, Replaces

-----------------------------------------------------------------------------
(* The marks *)

\* No step but a drain changes a flag or takes a store away.
LEMMA FlagStays ==
    ASSUME TSOAssumption, TypeOK, NEW t \in Threads,
           StartLookup(t) \/ StartLayoutChange(t) \/ Step(t), NEW s \in Threads
    PROVE  /\ mem'[<<"dirty", s>>] = mem[<<"dirty", s>>]
           /\ \A u \in Threads : \A l, v : Waits(u, l, v) => Waits(u, l, v)'
  <1> /\ <<"lock", cur[t]>> \in Loc /\ <<"state", i[t]>> \in Loc
      /\ <<"head", 1>> \in Loc /\ 0 \in Nat /\ 1 \in Nat /\ cur[t] \in Treelet
    BY Places
  <1> cur[t] + 1 \in Nat
    BY Numbers
  <1> \A u \in Threads : <<"dirty", u>> \in Loc /\ <<"state", u>> \in Loc
    BY Locations
  <1>1. CASE mem' = mem /\ buf' = buf
    BY <1>1 DEF Waits
  <1>2. CASE Stored(t)
    <2>1. PICK l \in Loc, v \in Nat : Store(t, l, v)
      BY <1>2 DEF Stored
    <2> QED
      BY <2>1, StoreBuffer, StoreWaits
  <1>3. CASE Swapped(t)
    <2>1. PICK l \in Loc : l # <<"dirty", s>> /\ CAS(t, l, 0, 1)
      BY <1>3 DEF Swapped
    <2> QED
      BY <2>1, CASEffect DEF Waits
  <1> QED
    BY <1>1, <1>2, <1>3, Effects

\* A store of 1 to a flag waits until the flag is set, and only a thread about to look at
\* its slot again clears its flag.
LEMMA DrainFlag ==
    ASSUME TSOAssumption, TypeOK, BufferInv, NEW t \in Threads, Drain(t), NEW s \in Threads
    PROVE  /\ Waits(t, <<"dirty", s>>, 1) =>
                  Waits(t, <<"dirty", s>>, 1)' \/ mem'[<<"dirty", s>>] = 1
           /\ mem[<<"dirty", s>>] = 1 =>
                  mem'[<<"dirty", s>>] = 1 \/ (t = s /\ pc[s] = "recheck")
  <1> DEFINE l == buf[t][1][1]
             v == buf[t][1][2]
             d == <<"dirty", s>>
  <1>0. /\ 1 \in 1..Len(buf[t]) /\ l \in Loc /\ v \in Nat /\ buf[t][1] = <<l, v>>
        /\ mem' = [mem EXCEPT ![l] = v]
        /\ mem \in [Loc -> Nat]
    BY DrainBuffer DEF Entry, TypeOK
  <1>1. /\ \A m, w : Waits(t, m, w)' <=> Waits(t, m, w) /\ m # l
        /\ Waits(t, l, v)
    BY DrainWaits DEF BufferInv
  <1>2. d \in Loc
    BY Locations
  <1>3. CASE l = d
    <2>1. mem'[d] = v
      BY <1>0, <1>2, <1>3
    <2>2. v = 1 \/ (v = 0 /\ t = s /\ pc[t] = "recheck")
      <3>1. MayHold(t, <<l, v>>)
        BY <1>1, WaitsMay
      <3> QED
        BY <1>3, <3>1 DEF MayHold
    <2>3. Waits(t, d, 1) => v = 1
      <3>1. ASSUME NEW k \in 1..Len(buf[t]), buf[t][k] = <<d, 1>>
            PROVE  v = 1
        <4>1. k = 1
          BY <1>0, <1>3, <3>1 DEF BufferInv, OrderOf
        <4> QED
          BY <1>0, <3>1, <4>1
      <3> QED
        BY <3>1 DEF Waits
    <2> QED
      BY <2>1, <2>2, <2>3
  <1>4. CASE l # d
    BY <1>0, <1>1, <1>2, <1>4
  <1> QED
    BY <1>3, <1>4

\* A mark stays, but for the clearing that is looked at again.
LEMMA MarkStays ==
    ASSUME TSOAssumption, TypeOK, BufferInv, [Next]_vars, NEW s \in Threads, Marked(s)
    PROVE  Marked(s)' \/ (pc[s] = "recheck" /\ pc'[s] = "recheck")
  <1>1. CASE UNCHANGED vars
    BY <1>1 DEF vars, Marked, Waits
  <1>2. ASSUME NEW t \in Threads, StartLookup(t) \/ StartLayoutChange(t) \/ Step(t)
        PROVE  Marked(s)'
    BY <1>2, FlagStays DEF Marked
  <1>3. ASSUME NEW t \in Threads, Drain(t)
        PROVE  Marked(s)' \/ (pc[s] = "recheck" /\ pc'[s] = "recheck")
    <2>1. pc' = pc
      BY <1>3 DEF Drain
    <2>2. t # s => (Waits(s, <<"dirty", s>>, 1)' <=> Waits(s, <<"dirty", s>>, 1))
      BY <1>3, StepOthers, OthersHave
    <2> QED
      BY <1>3, <2>1, <2>2, DrainFlag DEF Marked
  <1> QED
    BY <1>1, <1>2, <1>3 DEF Next

\* Thread s goes on seeing the change unless it finds its slot free.
LEMMA SeesStays ==
    ASSUME TSOAssumption, TypeOK, BufferInv, [Next]_vars, NEW s \in Threads, SeesChange(s),
           mem[<<"state", s>>] = 1
    PROVE  SeesChange(s)'
  <1> USE DEF PCs
  <1>1. CASE pc'[s] = "recheck" \/ pc'[s] = "redirty"
    BY <1>1 DEF SeesChange
  <1>2. CASE pc'[s] \notin {"recheck", "redirty"}
    <2>1. CASE Marked(s)
      BY <1>2, <2>1, MarkStays DEF SeesChange
    <2>2. CASE pc[s] \in {"recheck", "redirty"}
      <3>1. pc' # pc
        BY <1>2, <2>2
      <3>2. PICK t \in Threads : StartLookup(t) \/ StartLayoutChange(t) \/ Step(t)
        BY <3>1 DEF Next, vars, Drain
      <3>3. t = s
        BY <1>2, <2>2, <3>2, Effects
      <3>4. CASE pc[s] = "recheck"
        <4>1. ResetRecheck(s)
          BY <3>2, <3>3, <3>4 DEF Step, Lookup, Change, StartLookup, StartLayoutChange, Find,
                Acquire, Check, ResetTest, ResetClear, ResetSet, Refused, FinishUsing,
                WriteLockSlot, SetDirty, FenceChange, LoadRoot, Gather, Publish, Free,
                WriteUnlockSlot
        <4>2. Load(s, <<"state", s>>) = 1
          BY <4>1, FenceWaits DEF ResetRecheck
        <4>3. pc'[s] = "redirty"
          BY <4>1, <4>2, GotoEffect DEF ResetRecheck, isWriterActive
        <4> QED
          BY <1>2, <4>3
      <3>5. CASE pc[s] = "redirty"
        <4>1. ResetSet(s)
          BY <3>2, <3>3, <3>5 DEF Step, Lookup, Change, StartLookup, StartLayoutChange, Find,
                Acquire, Check, ResetTest, ResetClear, ResetRecheck, Refused, FinishUsing,
                WriteLockSlot, SetDirty, FenceChange, LoadRoot, Gather, Publish, Free,
                WriteUnlockSlot
        <4>2. PICK l \in Loc, v \in Nat : l = <<"dirty", s>> /\ v = 1 /\ Store(s, l, v)
          BY <4>1, Places DEF ResetSet
        <4>3. Waits(s, l, v)'
          BY <4>2, StoreWaits
        <4> QED
          BY <4>2, <4>3 DEF SeesChange, Marked
      <3> QED
        BY <2>2, <3>4, <3>5
    <2> QED
      BY <2>1, <2>2 DEF SeesChange
  <1> QED
    BY <1>1, <1>2

\* Thread t has stored its mark to slot s.
Tells(t, s) == Changes(t) \/ pc[t] = "fence" \/ (pc[t] = "dirtying" /\ s < i[t])

LEMMA TellsHasSlot ==
    ASSUME HeadInv, LockInv, NEW t \in Threads, NEW s \in Threads, Tells(t, s)
    PROVE  mem[<<"state", s>>] = 1
  <1>1. HasSlot(t, s)
    BY DEF HeadInv, Tells, Changes, HasSlot, InChange
  <1> QED
    BY <1>1 DEF LockInv

LEMMA StartsTelling ==
    ASSUME TSOAssumption, TypeOK, BufferInv, [Next]_vars, NEW t \in Threads, NEW s \in Threads,
           Tells(t, s)'
    PROVE  Tells(t, s) \/ (SetDirty(t) /\ s = i[t])
  <1> USE DEF PCs
  <1>1. CASE UNCHANGED vars
    <2>1. Publishes(t)' <=> Publishes(t)
      BY <1>1 DEF vars, Publishes
    <2> QED
      BY <1>1, <2>1 DEF vars, Tells, Changes
  <1>2. ASSUME NEW u \in Threads, StartLookup(u) \/ StartLayoutChange(u) \/ Step(u) \/ Drain(u), u # t
        PROVE  Tells(t, s)
    <2>1. pc'[t] = pc[t] /\ i'[t] = i[t] /\ (Publishes(t)' <=> Publishes(t))
      BY <1>2, StepOthers, OthersHave DEF Others
    <2> QED
      BY <2>1 DEF Tells, Changes
  <1>3. CASE Drain(t)
    <2>1. pc' = pc /\ i' = i /\ ~Publishes(t)'
      BY <1>3, DrainWaits DEF Drain, BufferInv
    <2> QED
      BY <2>1 DEF Tells, Changes
  <1>4. CASE StartLookup(t) \/ StartLayoutChange(t) \/ Step(t)
    <2>1. Publishes(t)' => Publishes(t) \/ pc[t] = "publish"
      BY <1>4, StepPublishes DEF Publish
    <2>2. s \in Nat /\ i[t] \in Nat /\ 1 <= s
      BY Places, Numbers
    <2>3. CASE WriteLockSlot(t)
      <3>1. pc[t] = "wlock" /\ (pc'[t] = "wlock" \/ (pc'[t] = "dirtying" /\ i'[t] = 1))
        BY <2>3, LoopEffect DEF WriteLockSlot
      <3> QED
        BY <2>1, <2>2, <3>1 DEF Tells, Changes
    <2>4. CASE SetDirty(t)
      <3>1. /\ pc[t] = "dirtying"
            /\ \/ i[t] = N /\ pc'[t] = "fence"
               \/ pc'[t] = "dirtying" /\ i'[t] = i[t] + 1
        BY <2>4, LoopEffect DEF SetDirty
      <3>2. s <= N
        BY Numbers
      <3> QED
        BY <2>1, <2>2, <2>4, <3>1, <3>2 DEF Tells, Changes
    <2>5. CASE WriteUnlockSlot(t)
      <3>1. pc[t] = "wunlock" /\ pc'[t] \in {"wunlock", "idle"}
        BY <2>5, LoopEffect DEF WriteUnlockSlot
      <3> QED
        BY <2>1, <3>1 DEF Tells, Changes
    <2>6. CASE FenceChange(t) \/ LoadRoot(t) \/ Gather(t) \/ Publish(t) \/ Free(t)
      BY <2>6 DEF Tells, Changes, FenceChange, LoadRoot, Gather, Publish, Free
    <2>7. CASE StartLookup(t) \/ StartLayoutChange(t) \/ Lookup(t)
      <3>1. pc'[t] \notin {"root", "gather", "publish", "free", "fence", "dirtying"}
        BY <2>7, GotoEffect DEF Lookup, StartLookup, StartLayoutChange, Find, Acquire, Check,
              ResetTest, ResetClear, ResetRecheck, ResetSet, Refused, FinishUsing
      <3> QED
        BY <2>1, <3>1 DEF Tells, Changes
    <2> QED
      BY <1>4, <2>3, <2>4, <2>5, <2>6, <2>7 DEF Step, Change
  <1> QED
    BY <1>1, <1>2, <1>3, <1>4 DEF Next

LEMMA MarksReach ==
    ASSUME TSOAssumption, TypeOK, BufferInv, LockInv, HeadInv, MarkInv, [Next]_vars,
           NEW t \in Threads, NEW s \in Threads, Tells(t, s)'
    PROVE  SeesChange(s)' \/ Waits(t, <<"dirty", s>>, 1)'
  <1>1. CASE Tells(t, s)
    <2>1. SeesChange(s) \/ Waits(t, <<"dirty", s>>, 1)
      BY <1>1 DEF MarkInv, Tells
    <2>2. CASE SeesChange(s)
      BY <1>1, <2>2, TellsHasSlot, SeesStays
    <2>3. CASE Waits(t, <<"dirty", s>>, 1)
      <3>1. CASE UNCHANGED vars
        BY <2>3, <3>1 DEF vars, Waits
      <3>2. ASSUME NEW u \in Threads, StartLookup(u) \/ StartLayoutChange(u) \/ Step(u)
            PROVE  Waits(t, <<"dirty", s>>, 1)'
        BY <2>3, <3>2, FlagStays
      <3>3. ASSUME NEW u \in Threads, Drain(u), u # t
            PROVE  Waits(t, <<"dirty", s>>, 1)'
        BY <2>3, <3>3, StepOthers, OthersHave
      <3>4. ASSUME Drain(t)
            PROVE  Waits(t, <<"dirty", s>>, 1)' \/ SeesChange(s)'
        BY <2>3, <3>4, DrainFlag DEF SeesChange, Marked
      <3> QED
        BY <3>1, <3>2, <3>3, <3>4 DEF Next
    <2> QED
      BY <2>1, <2>2, <2>3
  <1>2. CASE SetDirty(t) /\ s = i[t]
    <2>1. PICK l \in Loc, v \in Nat : l = <<"dirty", s>> /\ v = 1 /\ Store(t, l, v)
      BY <1>2, Places DEF SetDirty
    <2>2. Waits(t, l, v)'
      BY <2>1, StoreWaits
    <2> QED
      BY <2>1, <2>2
  <1> QED
    BY <1>1, <1>2, StartsTelling

\* While its change is under way, the treelet gathered last is looked up by marked threads.
LEMMA GatheredMarked ==
    ASSUME TSOAssumption, TypeOK, BufferInv, HeadInv, MarkInv, NEW t \in Threads,
           pc[t] \in {"gather", "publish"} \/ Publishes(t),
           NEW s \in Threads \ {t}, pc[s] \notin {"recheck", "redirty"}
    PROVE  Marked(s)
  <1>1. SeesChange(s) \/ Waits(t, <<"dirty", s>>, 1)
    BY DEF MarkInv, Changes
  <1>2. ~Waits(t, <<"dirty", s>>, 1)
    <2>1. CASE pc[t] \in {"gather", "publish"}
      BY <2>1, EmptyBuffer, FenceWaits DEF Empty
    <2>2. CASE Publishes(t)
      <3>1. Leaving(t) \/ pc[t] = "free"
        BY <2>2, PublishesMay
      <3>2. ~MayHold(t, <<<<"dirty", s>>, 1>>)
        BY <3>1 DEF MayHold, Leaving
      <3> QED
        BY <3>2, WaitsMay
    <2> QED
      BY <2>1, <2>2
  <1> QED
    BY <1>1, <1>2 DEF SeesChange

LEMMA FoundMarked ==
    ASSUME TSOAssumption, TypeOK, BufferInv, LockInv, HeadInv, MarkInv, [Next]_vars,
           NEW s \in Threads, pc'[s] \in {"acquire", "check"}, cur'[s] \in gathered'
    PROVE  Marked(s)'
  <1> USE DEF PCs
  <1>0. /\ mem[<<"head", 1>>] \in Nat
        /\ \A x \in gathered : \/ x < mem[<<"head", 1>>]
                               \/ /\ x = mem[<<"head", 1>>]
                                  /\ \E t \in Threads : pc[t] = "publish" \/ Publishes(t)
    BY Numbers DEF HeadInv, TypeOK
  <1>1. SUFFICES Marked(s) /\ pc'[s] # "recheck"
    BY <1>1, MarkStays
  <1>2. CASE Find(s)
    <2>1. /\ pc[s] = "find" /\ gathered' = gathered
          /\ cur'[s] = Load(s, <<"head", 1>>)
      BY <1>2 DEF Find, TypeOK
    <2>2. CASE Publishes(s)
      <3>1. Load(s, <<"head", 1>>) = mem[<<"head", 1>>] + 1
        BY <2>2, LoadOwnHead
      <3> QED
        BY <1>0, <2>1, <3>1
    <2>3. CASE ~Publishes(s)
      <3>1. Load(s, <<"head", 1>>) = mem[<<"head", 1>>]
        BY <2>3, LoadHead
      <3>2. PICK t \in Threads : pc[t] = "publish" \/ Publishes(t)
        BY <1>0, <2>1, <3>1
      <3>3. t # s
        BY <2>1, <2>3, <3>2
      <3> QED
        BY <2>1, <3>2, <3>3, GatheredMarked
    <2> QED
      BY <2>2, <2>3
  <1>3. CASE ~Find(s)
    <2>1. pc[s] \in {"acquire", "check"} /\ cur'[s] = cur[s]
      <3>1. CASE UNCHANGED vars
        BY <3>1 DEF vars
      <3>2. ASSUME NEW t \in Threads, Drain(t)
            PROVE  pc[s] \in {"acquire", "check"} /\ cur'[s] = cur[s]
        BY <3>2 DEF Drain
      <3>3. ASSUME NEW t \in Threads, t # s, StartLookup(t) \/ StartLayoutChange(t) \/ Step(t)
            PROVE  pc[s] \in {"acquire", "check"} /\ cur'[s] = cur[s]
        BY <3>3, Effects
      <3>4. ASSUME StartLookup(s) \/ StartLayoutChange(s) \/ Step(s)
            PROVE  pc[s] \in {"acquire", "check"} /\ cur'[s] = cur[s]
        <4>1. Acquire(s)
          <5>1. ~(WriteLockSlot(s) \/ SetDirty(s) \/ WriteUnlockSlot(s))
            BY LoopEffect DEF WriteLockSlot, SetDirty, WriteUnlockSlot
          <5>2. ~(StartLookup(s) \/ StartLayoutChange(s) \/ Check(s) \/ ResetTest(s) \/ ResetClear(s)
                    \/ ResetRecheck(s) \/ ResetSet(s) \/ Refused(s) \/ FinishUsing(s))
            BY GotoEffect DEF StartLookup, StartLayoutChange, Check, ResetTest, ResetClear,
                  ResetRecheck, ResetSet, Refused, FinishUsing
          <5>3. ~(FenceChange(s) \/ LoadRoot(s) \/ Gather(s) \/ Publish(s) \/ Free(s))
            BY GotoEffect DEF FenceChange, LoadRoot, Gather, Publish, Free
          <5> QED
            BY <1>3, <3>4, <5>1, <5>2, <5>3 DEF Step, Lookup, Change
        <4> QED
          BY <4>1 DEF Acquire
      <3> QED
        BY <3>1, <3>2, <3>3, <3>4 DEF Next
    <2>2. CASE cur[s] \in gathered
      BY <2>1, <2>2 DEF MarkInv
    <2>3. CASE cur[s] \notin gathered
      <3>1. PICK t \in Threads : Gather(t)
        <4>1. gathered' # gathered
          BY <2>1, <2>3
        <4>2. PICK t \in Threads : StartLookup(t) \/ StartLayoutChange(t) \/ Step(t)
          BY <4>1 DEF Next, vars, Drain
        <4>3. Gather(t)
          BY <4>1, <4>2 DEF Step, Lookup, Change, StartLookup, StartLayoutChange, Find, Acquire,
                Check, ResetTest, ResetClear, ResetRecheck, ResetSet, Refused, FinishUsing,
                WriteLockSlot, SetDirty, FenceChange, LoadRoot, Publish, Free, WriteUnlockSlot
        <4> QED
          BY <4>3
      <3>2. pc[t] = "gather" /\ t # s
        BY <2>1, <3>1 DEF Gather
      <3> QED
        BY <2>1, <3>2, GatheredMarked
    <2> QED
      BY <2>1, <2>2, <2>3
  <1> QED
    BY <1>2, <1>3

LEMMA MarkInductive ==
    ASSUME TSOAssumption, TypeOK, BufferInv, LockInv, HeadInv, MarkInv, [Next]_vars
    PROVE  MarkInv'
  BY MarksReach, FoundMarked DEF MarkInv, Tells

-----------------------------------------------------------------------------
(* The two properties *)

\* Who is let through has seen its flag clear in memory, so that the treelet it has is not
\* being gathered; nor will it be before its lock is free.
LEMMA UsesInductive ==
    ASSUME TSOAssumption, TypeOK, BufferInv, LockInv, MarkInv, UsesLiveTreelet, [Next]_vars
    PROVE  UsesLiveTreelet'
  <1> USE DEF PCs
  <1> SUFFICES ASSUME NEW s \in Threads, pc'[s] = "using"
               PROVE  cur'[s] \notin gathered'
    BY DEF UsesLiveTreelet
  <1>1. CASE UNCHANGED vars
    BY <1>1 DEF vars, UsesLiveTreelet
  <1>2. ASSUME NEW t \in Threads, Drain(t)
        PROVE  cur'[s] \notin gathered'
    BY <1>2 DEF Drain, UsesLiveTreelet
  <1>3. ASSUME NEW t \in Threads, t # s, StartLookup(t) \/ StartLayoutChange(t) \/ Step(t)
        PROVE  cur'[s] \notin gathered'
    <2>1. pc[s] = "using" /\ cur'[s] = cur[s] /\ cur[s] \in Treelet
      BY <1>3, Effects, Places
    <2>2. CASE Gather(t)
      <3>1. mem[<<"lock", cur[t]>>] = 0 /\ gathered' = gathered \union {cur[t]}
        BY <2>2 DEF Gather, CAS
      <3>2. HasTreelet(s, cur[s])
        BY <2>1 DEF HasTreelet, InTreelet
      <3>3. cur[t] # cur[s]
        BY <2>1, <3>1, <3>2 DEF LockInv
      <3> QED
        BY <2>1, <3>1, <3>3 DEF UsesLiveTreelet
    <2>3. CASE ~Gather(t)
      <3>1. gathered' = gathered
        BY <1>3, <2>3 DEF Step, Lookup, Change, StartLookup, StartLayoutChange, Find, Acquire,
              Check, ResetTest, ResetClear, ResetRecheck, ResetSet, Refused, FinishUsing,
              WriteLockSlot, SetDirty, FenceChange, LoadRoot, Publish, Free, WriteUnlockSlot
      <3> QED
        BY <2>1, <3>1 DEF UsesLiveTreelet
    <2> QED
      BY <2>2, <2>3
  <1>4. ASSUME StartLookup(s) \/ StartLayoutChange(s) \/ Step(s)
        PROVE  cur'[s] \notin gathered'
    <2>1. Check(s)
      <3>1. ~(WriteLockSlot(s) \/ SetDirty(s) \/ WriteUnlockSlot(s))
        BY LoopEffect DEF WriteLockSlot, SetDirty, WriteUnlockSlot
      <3>2. ~(StartLookup(s) \/ StartLayoutChange(s) \/ Find(s) \/ Acquire(s) \/ ResetTest(s)
                \/ ResetClear(s) \/ ResetRecheck(s) \/ ResetSet(s) \/ Refused(s) \/ FinishUsing(s))
        BY GotoEffect DEF StartLookup, StartLayoutChange, Find, Acquire, ResetTest, ResetClear,
              ResetRecheck, ResetSet, Refused, FinishUsing
      <3>3. ~(FenceChange(s) \/ LoadRoot(s) \/ Gather(s) \/ Publish(s) \/ Free(s))
        BY GotoEffect DEF FenceChange, LoadRoot, Gather, Publish, Free
      <3> QED
        BY <1>4, <3>1, <3>2, <3>3 DEF Step, Lookup, Change
    <2>2. /\ pc[s] = "check" /\ cur' = cur /\ gathered' = gathered
          /\ Load(s, <<"dirty", s>>) = 0
      BY <2>1, GotoEffect DEF Check
    <2>3. Fence(s)
      BY <2>2, EmptyBuffer DEF Empty
    <2>4. ~Marked(s)
      BY <2>2, <2>3, FenceWaits DEF Marked
    <2> QED
      BY <2>2, <2>4 DEF MarkInv
  <1> QED
    BY <1>1, <1>2, <1>3, <1>4 DEF Next

LEMMA LockedMutex ==
    ASSUME TypeOK, LockInv
    PROVE  TreeletMutex
  BY DEF TypeOK, LockInv, HasTreelet, InTreelet, TreeletMutex

LEMMA StartsInvariant ==
    ASSUME TSOAssumption, Init
    PROVE  IInv
  <1>1. /\ mem = [l \in Loc |-> IF l[1] = "head" THEN 1 ELSE 0]
        /\ buf = [t \in Threads |-> <<>>]
        /\ pc = [t \in Threads |-> "idle"]
        /\ i = [t \in Threads |-> 1]
        /\ cur = [t \in Threads |-> 1]
        /\ gathered = {}
    BY DEF Init
  <1>2. mem[<<"head", 1>>] = 1
    BY <1>1, Locations
  <1>3. TypeOK
    <2>1. <<>> \in Seq(Loc \X Nat)
      BY EmptySeq
    <2>2. mem \in [Loc -> Nat]
      BY <1>1
    <2> QED
      BY <1>1, <1>2, <2>1, <2>2, Numbers DEF TypeOK, PCs
  <1>4. ASSUME NEW t \in Threads
        PROVE  /\ ~Publishes(t) /\ \A l, v : ~Waits(t, l, v)
               /\ \A k : k \notin 1..Len(buf[t])
    BY <1>1, FenceWaits DEF Fence
  <1>5. IndexInv /\ BufferInv
    BY <1>1, <1>4 DEF IndexInv, BufferInv, OrderOf
  <1>6. \A t \in Threads : /\ pc[t] = "idle"
                           /\ \A x \in Treelet : ~HasTreelet(t, x)
                           /\ \A s \in Threads : ~HasSlot(t, s)
    BY <1>1, <1>4 DEF HasTreelet, HasSlot, InTreelet, InChange
  <1>7. LockInv /\ HeadInv
    BY <1>1, <1>4, <1>6 DEF LockInv, HeadInv
  <1>8. MarkInv
    BY <1>1, <1>4, <1>6 DEF MarkInv, Changes
  <1>9. UsesLiveTreelet /\ TreeletMutex
    BY <1>1, <1>6 DEF UsesLiveTreelet, TreeletMutex
  <1> QED
    BY <1>3, <1>5, <1>7, <1>8, <1>9 DEF IInv

LEMMA StaysInvariant ==
    ASSUME TSOAssumption, IInv, [Next]_vars
    PROVE  IInv'
  <1>1. /\ TypeOK /\ IndexInv /\ BufferInv /\ LockInv /\ HeadInv /\ MarkInv
        /\ UsesLiveTreelet
    BY DEF IInv
  <1>2. TypeOK' /\ IndexInv' /\ BufferInv'
    BY <1>1, TypeInductive, IndexInductive, BufferInductive
  <1>3. LockInv' /\ HeadInv' /\ MarkInv'
    BY <1>1, LockInductive, HeadInductive, MarkInductive
  <1>4. UsesLiveTreelet'
    BY <1>1, UsesInductive
  <1>5. TypeOK' /\ LockInv' => TreeletMutex'
    BY LockedMutex, PTL
  <1> QED
    BY <1>2, <1>3, <1>4, <1>5 DEF IInv

\* The inductive invariant, for any number of threads, layout changes and entries of a buffer.
THEOREM Invariance ==
    ASSUME TSOAssumption
    PROVE  Spec => []IInv
  BY StartsInvariant, StaysInvariant, PTL DEF Spec

\* A thread that finishRead has let through is not at work on a treelet that enlarge_tree or
\* consolidateRoot has emptied.
THEOREM UsesLive ==
    ASSUME TSOAssumption
    PROVE  Spec => []UsesLiveTreelet
  <1>1. IInv => UsesLiveTreelet
    BY DEF IInv
  <1> QED
    BY <1>1, Invariance, PTL

\* tatas_acquire and the plain store of tatas_release keep treelets for one thread at a time.
THEOREM Mutex ==
    ASSUME TSOAssumption
    PROVE  Spec => []TreeletMutex
  <1>1. IInv => TreeletMutex
    BY DEF IInv
  <1> QED
    BY <1>1, Invariance, PTL
=============================================================================
