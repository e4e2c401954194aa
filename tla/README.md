# A TLA+ verification project for LayoutLock

The repository holds the *layout lock* and the *Dynamic-Layout tree* (DLTree), a concurrent set
built on it, next to a copy of the OPTIK branch of the ASCYLIB library of concurrent data
structures, against which the tree is measured. This directory has TLA+ models of the repository's
own algorithms and of most families of the library's, configurations that check them with TLC, and
proofs checked by TLAPS.

## 1. The system

### 1.1 Components, their state and their operations

Sources are under `src/DLTree/`.

| component | source | state | operations | model |
|---|---|---|---|---|
| layout lock | `src/bst-cohen/llock.h` (`LayoutLock_DefaultImpl_`, `ScalableRWLock`) | a slot (`state`) and a flag (`dirty`) per thread, each on its own cache line | `startRead`/`finishRead`, `startWrite`/`finishWrite`, `startLayoutChange`/`finishLayoutChange` | `LayoutLock`, `LayoutLockHistory`, `LayoutLockTSO`; `LayoutLockProofs`, `LayoutLockTSOProofs` |
| readers-writer layout lock | same file, `LayoutRWLOCK` | the slots | the same | `LayoutRWLock`, `LayoutRWLockProofs` |
| sequence lock | `src/bst-seqlock-cohen/llock.h` (`SeqLock`) | a version and a lock word | the same, no write sections | `SeqLock`, `SeqLockProofs` |
| counting readers-writer locks | `src/bst-cohen/llock.h` (`ScalarRPRWLockImpl_`, `ScalarWPRWLockImpl_`) | a count of readers (-1: a writer), a count of waiting writers | `read_lock`, `read_unlock`, `write_lock`, `write_unlock` | `ScalarRWLock`, `MCLocksProofs` |
| Dynamic-Layout tree | `src/bst-cohen/layoutTree.hpp` (`layoutTree`) | `head`, backbone nodes with 16 children, treelets, `fuzzySize`, `enlargeWhen`, `shrinkWhen`, `backboneSize`, a private count per thread | `search`, `insert`, `remove`; `enlarge_tree`, `shrink_tree` | `SetSpec`, `DLTree`, `DLTreeProofs`, `Backbone` |
| treelets | `globalLockTree.hpp`, `noLockTree.hpp`, `common/locks.hpp` | a binary search tree with the first key inline, and a test-and-set lock | `search`, `insert`, `remove`, `build`, `addItems`, `acquire`, `release` | `Treelet` (the tree), `DLTree` (the lock) |
| OPTIK locks | `include/optik.h` | a version that is odd (or has a lock bit) while locked | `lock`, `trylock_version`, `lock_version`, `unlock`, `revert` | `OptikLock`, `OptikLockProofs` |
| other locks | `include/lock_if.h`, `include/mcs.h`, `src/clh.c`, `src/htlock.c` | a word, tickets, queues of nodes | `LOCK`, `TRYLOCK`, `UNLOCK` | `LockSpec`, `SpinLock`, `McsLock`, `ClhLock`, `HticketLock`, `MCLocksProofs` |
| stacks and queues | `src/stack-*`, `src/queue-*` | linked nodes, `top`, `head`, `tail`, locks, elimination arrays | `insert`, `delete` | `BufferSpec`, `Stack`, `Queue`, `Ssmem` |
| linked lists | `src/linkedlist-*` | sorted nodes with marks, locks or versions | `find`, `insert`, `delete` | `IntervalSetSpec`, `OptikList`, `MarkedList`, `LockedList` |
| array maps | `src/map-*` | an array of keys and values and a lock | `contains`, `insert`, `remove` | `ArrayMap` |
| hash tables | `src/hashtable-*` | segments of chains that are replaced when they fill; or arrays of the lists above | `get`, `put`, `rem` | `SegmentTable` |
| skip lists, priority queues | `src/skiplist-*`, `src/priorityqueue-*` | towers of nodes | `find`, `insert`, `delete`, `deleteMin` | `SkipList`, `FraserSkip`, `PrioritySpec` |
| other search trees | `src/bst-*` | nodes with versioned locks, flagged edges or update words | `search`, `insert`, `remove` | `BstTk`, `BstAravind`, `BstEllen` |
| memory | `src/ssalloc.c`, `external/` | time stamps, sets of freed nodes | `alloc`, `free` | `Ssmem` |
| drivers | `src/*/test_simple.c` | | | not modelled; they are the clients of the models |

### 1.2 How they interact

`layoutTree` calls the layout lock around everything that looks at the backbone:

1. `getTreelet` opens a *read section*, walks from `head` through nodes (`asmsearch` picks a child)
   to a treelet, takes the treelet's lock, and only then asks `finishRead` whether the section can be
   trusted. If not it releases the treelet and starts over. No lock is held on the way down.
2. `search`, `insert` and `remove` then work in the treelet under its lock and release it.
3. `insert` and `remove` count privately (`sizeHeuristic`). A count that is due is added to
   `fuzzySize` and compared, in another read section, with `enlargeWhen` or `shrinkWhen`.
4. `enlarge_tree` makes a *layout change*: it looks again whether it is still needed, gathers the
   keys of all treelets in order, taking each treelet's lock (`gatherAll`), frees the treelets,
   rewrites the separators of all nodes and adds a level of nodes with new treelets (`buildFromV`).
5. Inside the lock, `startLayoutChange` takes all slots one at a time and then marks every thread
   dirty; `finishRead` looks at its own thread's flag only, and `resetDirty` clears it unless a
   change is running.

The DLTree does not use write sections: they are for operations that must exclude layout changes
without an optimistic section. The models of the locks have them all the same.

The three copies of the tree (`bst-cohen`, `bst-rwcohen`, `bst-seqlock-cohen`) differ in the lock
they use, so the locks are checked to implement one abstract specification, `LayoutLockSpec`.

The structures of ASCYLIB stand side by side. Each is built on the locks of `lock_if.h` or on the
OPTIK locks (a macro of the build chooses which), or on compare-and-swap alone, and, when built with
`GC`, on ssmem, which gives memory out again. The hash tables are arrays of the lists and the maps.

### 1.3 What is hard, and what makes each component correct

* **Layout lock.** A flag may be cleared at the moment a change sets it. Correct: a change excludes
  other changes and write sections; a read section that a change overlapped, in whatever part, is
  refused; a refused section is accepted in the end; changers do not deadlock on the slots.
* **Memory order.** The x86 store buffer lets the store of a flag pass the load of a slot. Correct:
  with the code's fences and locked instructions, no thread works in a treelet that the layout
  change has taken.
* **DLTree.** Readers walk a backbone that is being rewritten, end at an old treelet, at an emptied
  one or at `NULL_TREE`. Correct: the tree is a linearizable set; a thread works only in the treelet
  its key belongs to; after any sequence of enlargements the backbone leads to every key; the count
  of keys is exact however flushes and changes interleave; operations return.
* **Backbone.** Separators are the last keys to the left of a cut, cuts are rounded quotients, and
  short vectors make equal or missing separators. Correct: the search in heap order arrives at the
  part of the vector a key is in.
* **Treelets.** Removing the inline first key has several cases. Correct: each operation does to the
  set of keys what a set would.
* **Sequence lock.** The version wraps around, and its release is a CAS inside an `assert`. Correct: a
  read section that is accepted was overlapped by no change, as long as fewer than half of all
  versions go by during one section.
* **Counting readers-writer locks.** A reader's CAS starts from a count that is out of date. Correct:
  the count always tells who is inside; readers that keep coming do not starve writers.
* **OPTIK locks.** Correct: locking with a version succeeds only if no critical section has taken
  place since the version was noted, also across waiting and reverting.
* **Other locks.** A hand-over may meet a thread that has announced itself but not linked its node
  (MCS), a node may be used again while its last reader still spins on it (CLH), a local ticket may
  be drawn while the lock leaves the socket (hierarchical). Correct: one thread inside, in the order
  of arrival where the lock is fair, and no hand-over lost.
* **Stacks and queues.** Tails that lag, nodes that come back at the same address (ABA), exchanges
  that are withdrawn while they are accepted. Correct: a linearizable LIFO stack or FIFO queue, and
  no access to a node that has been given out again.
* **Lists, skip lists, trees, tables, maps.** Updates work with nodes that they have found without
  locks, walks pass over removed nodes, others help. Correct: a linearizable set; no update loses a
  node or links one behind a removed one (`IsWhole`, `RemovedIsFrozen`); every removed node is given
  back by one thread and not while the structure leads to it (`FreedOnce`); operations that get into
  each other's way return in the end (`AllReturn`); a value belongs to the key it was asked for.

The list of hazards, each at the line where it bites and with the properties that would catch it, is
in `PROJECT.json`.

## 2. The modules

Shared-memory steps are atomic at the granularity of one access to a location other threads write,
except where a comment says otherwise: what a thread does to its own variables, or to objects
nobody else can reach yet, is merged into the access it follows. A loop that spins until a CAS or a
test succeeds is an action enabled when it does; the failed attempts change nothing.

### 2.1 Locks

* `LayoutLockSpec`: what a layout lock promises. `mode[t]` is the section a thread is in and
  `valid[t]` says that no layout change has overlapped its read section. `EndRead` (that is,
  `finishRead` returning true) needs `valid[t]`; refusing is always allowed.
* `Slots`: the number of threads and the states of their slots, for the two modules that have slots.
* `LayoutLock`: `LayoutLock_DefaultImpl_` over `ScalableRWLock`. `state[s]` and `dirty[s]` are the
  arrays of the code; `pc[t]` is the place in the lock's code, `i[t]` the loop index. The four
  actions of `resetDirty` are its two tests and its two stores. The client is left open.
* `LayoutLockHistory`: adds the most general client (any thread opens any section at any time) and
  the history variable `valid`, the properties, the inductive invariant `IInv`, and the refinement
  `ImplementsSpec`.
* `LayoutLockTSO`: the same lock with a store buffer per thread (x86-TSO), together with the part of
  the tree that depends on the order of its accesses: a reader that walks to a treelet and acquires
  it, a changer that takes the treelet away, publishes another and frees the old one. `Load`,
  `Store`, `Fence`, `CAS` and `Drain` are the memory; the actions are those of the code, with a fence
  only where the code has `__sync_synchronize` or a locked instruction.
* `LayoutRWLock`: `LayoutRWLOCK`. A read section holds the thread's own slot, so `finishRead`
  returns true unconditionally; the refinement shows that it may.
* `SeqLock`: `version` has `Versions` values (2^32 in the code) and wraps around. The history variable `lag` counts the
  changes that overlap a read section; the bound `Lag` keeps it below half of `Versions`, the number of all
  versions, which is what the lock relies on.
* `ScalarRWLock`: both counting locks. A reader's load of the count and its CAS are separate
  actions; `Clamp` is the code's replacement of a negative count by 0.
* `LockSpec`: one thread inside; with `fifo`, threads enter in the order in which they came.
* `SpinLock` (test-and-set, test-and-test-and-set, ticket), `McsLock`, `ClhLock`, `HticketLock`: the
  locks of `lock_if.h`. Tickets wrap around. In the hierarchical lock threads are on two sockets and
  pass the lock along `LocalTickets` local tickets before it leaves the socket.
* `OptikLock`: the three kinds of the lock (integer, ticket, separate), with versions that do not wrap
  around, and how the callers use them: with locks that wait, or with trylocks, reverts and deletions. `noted[t]` is the version a
  thread has read, `changed[t]` the history variable that says whether a critical section has taken
  place since.
* `MCLocks`: all of these locks but `LayoutLock`, in one run. `MCLocksProofs` proves what the run
  checks, but for liveness.

### 2.2 The tree

* `SetSpec`: a linearizable set: an operation is invoked, takes effect at one point, and returns what
  it found there.
* `DLTree`: the tree over `LayoutLock`. `at[t]` is the place in the tree's code; actions that call the
  lock are conjunctions with the lock's actions. A node is its separators and children, a treelet its
  set of keys and its lock; freed objects stay in `nodes` and `trees`, because readers may still be
  there. `free_treelet` leaves the key in the treelet's root field, so a freed treelet holds one
  arbitrary key of those it had. The recursions of `gatherAll` and `buildFromV` are a stack of tasks,
  `todo[t]`: a call for a node is replaced by the calls for its children or by the turns of the loop
  over the treelets of a leaf (`Below`). The last section of the module is the inductive invariant.
* `MCDLTree`: the workloads of the runs.
* `Backbone`: the arithmetic of `constructBigNode`, `expandLeafBigNode` and `asmsearch` at its real
  size, `B = 2^L = 16`: a walk of a search key down a backbone built over a vector of keys.
* `Treelet`: `noLockTree.hpp` and the inline first key of `globalLockTree`, as recursive functions on
  tree values.

### 2.3 Stacks and queues

* `BufferSpec`: a linearizable queue or stack. A deletion that finds nothing may take effect at any
  instant at which the buffer was empty (`empty[t]`); on a stack an insertion and a deletion may take
  effect together, which is what elimination does.
* `Queue`: the queues differ in how they insert (under a lock, by CAS, under an OPTIK lock whose
  version is the one noted) and how they delete (five ways); a program of the library is a pair of
  these, built with `GC` (the default: freed nodes come back) or without (`NoGC`). With `GC`, five of
  them read a value from a node that may have come back by then (section 6). So that the rest of
  these queues is checked as they are built, the history variable `took[t]` has the value that the
  node had when the thread moved the head to it, and that is what the deletion counts as returning.
* `Stack`: Treiber's, with a lock, with an OPTIK lock, and with elimination (`stack-optik2`, whose
  header says that it does not work properly; see section 5).
* `Ssmem`: the allocator as its header describes it: a freed node is given out again by the thread
  that freed it once the time stamps of all threads have moved. It makes ABA possible in the models,
  and reads of freed nodes visible (`ReadsLive`).
* `MCBuffers`: all of these and `LayoutLockTSO` in one run. `MCBuffersProofs` proves of the run what
  `LayoutLockTSOProofs` does.

### 2.4 Sets

* `IntervalSetSpec`: the same set as `SetSpec` for structures whose read-only operations (searches,
  updates that fail) take effect at an instant that is known only later: a walk that is on a removed
  node sees the list as it was. For operations on one key this can be said without looking ahead:
  `seen[t]` has what the answer would have been at each instant since the call, and an operation that
  changes nothing may return any of them. Operations that change the set take effect where they
  change it, as in `SetSpec`; one CAS may complete the removals of several keys (`Update(T)`). Where
  `full`, as the array maps may be, an insertion may be refused (`Refuse`).
* `OptikList`: each load of `next` and of `lock` is a step of its own; so are the two locking CASes,
  the linking or unlinking store, and the release.
* `MarkedList`: the three lists in which a removal marks the node's pointer (Harris, Michael, and the
  optimised Harris list). `LockedList`: the seven lists with locks, from one lock for the list to
  hand-over-hand locking and the lazy lists; a build is a record of what differs.
* `BstTk`: each node has a lock for each edge, whose version and ticket share a word.
  `BstAravind`: edges with a flag and a tag. `BstEllen`: inner nodes with an update word that points
  to a record from which any thread can finish the operation; `stack[t]` is what a thread that helps
  has left to do.
* `SkipList`: towers of up to `LevelMax` levels with a lock for each node. `FraserSkip`: the lock-free
  towers of Fraser and of Herlihy and others, and the priority queue of Lotan and Shavit on the
  latter. `PrioritySpec` is what that queue promises: a deletion takes a key that is there, and passes
  over at most as many smaller keys (of those that were there all the time) as there are other
  deletions in progress.
* `ArrayMap`: an array of keys and values under an OPTIK lock or a lock. `SegmentTable`: a hash table whose segment is replaced
  by a larger one while others are in it.
* `MCSets`: all of these, `Treelet` and `Backbone` in one run. Each of the concurrent modules has
  its own properties under the same names; `MCSets` asks that of the structure the first state has
  chosen. The variables that not all of them have are called `x1` to `x9` there, which keeps the
  states small.

## 3. The runs

Runs that pass:

| run | module, configuration | what it shows |
|---|---|---|
| `layout_lock` | `LayoutLockHistory`, 3 threads | `ChangeExcludes`, `OverlappedIsDirty`, the inductive invariant `IInv`, `ImplementsSpec`; with fairness `RetryEnds`, `SomeChangeStarts` |
| `locks` | `MCLocks`, 3 threads on every other lock | a thread inside is alone, and in order where the lock is fair (`ImplementsLock`); a layout lock keeps its promise (`ImplementsLayoutLock`, `ReadersExclude`); versions and counts tell the truth (`SuccessMeansUnchanged`, `VersionTellsChange`, `CountTellsInside`); the inductive invariants of all of them (`IInv`); with fairness `AllEnter` of the fair locks, `SomeEnters` of the others, `SomeWriterEnters`, `RetryEnds`, `SomeChangeStarts` |
| `tree` | `MCDLTree`, 2 threads with 2 operations each of every kind, 2 keys, `B = 2` | the inductive invariant `IInv`, `OwnsLiveTreelet`, `KeysAreRouted`, `BackboneIsFull`, `CountIsExact`, `ImplementsSet` |
| `dltree_live` | `MCDLTree`, the same threads, operations and keys, with fairness | `AllReturnOrStuck` |
| `sets` | `MCSets`, 2 threads on every list, tree, skip list, map and table, on the priority queue, on a treelet and on the backbone | `ImplementsSet`, `ImplementsPriorityQueue`, `IsWhole`, `RemovedIsFrozen`, `FreedOnce`, `ReturnsBoundValue`; of the sequential parts `ItemsAreSorted`, `ActsAsSet`, `PartHoldsKey`, `SearchCounts`; with fairness `AllReturn` |
| `buffers` | `MCBuffers`, 3 threads on every queue and stack; `LayoutLockTSO`, 3 threads, 2 changes, buffers of 3 | `ImplementsBuffer`, of the queues and of Treiber's, the locked and the OPTIK stack as built with `GC`, of five queues also without; `UsesLiveTreelet`, `TreeletMutex` |

Runs that end with a violation (section 6):

| run | module | property |
|---|---|---|
| `dltree_shrink` | `MCDLTree`, one thread inserts, one removes, with fairness | `AllReturn` |
| `skip_fraser` | `FraserSkip`, Fraser's list | `FreedIsUnlinked` |
| `lists_pugh` | `LockedList`, Pugh's list as it is built by default | `AnswersAreTrue` |
| `bst_aravind` | `BstAravind` | `RemovalIsReported` |
| `buffers_reuse` | `MCBuffers`, Michael and Scott's lock-free queue over ssmem | `ReadsLive` |
| `optik_separate` | `OptikLock`, the separate kind | `VersionIsCurrent` |

### Bounds and why they are enough

* Three threads in the lock runs: a changer that is giving back slots, a second one that is taking
  them, and a reader or writer whose slot lies between the two; in a queue lock one that is inside,
  one that waits and one that has announced itself only. For all these locks the proofs of section 4
  cover every number of threads.
* `locks`: tickets wrap around at `Wrap = 4`, versions of the sequence lock at `Versions = 8`, with at most
  `Lag = 3` changes during a read section; `LocalTickets = 2` make the hierarchical lock leave its
  socket after one hand-over, and `Floor` bounds its count of local tickets from below. The OPTIK
  locks have `MaxOps = 4` critical sections, so a version can be noted, superseded twice and compared.
* `LayoutLockTSO`: two changes, so that a mark left by the first can be cleared during the second;
  no thread has more than three plain stores pending.
* `DLTree`: `B = 2` and `Flush = EnlargeFirst = 1` make the first inserted key enlarge the tree and
  the second enlarge it again, so that all of `consolidateRoot`, `gatherAll`, `buildFromV` and both
  early exits happen within two operations per thread. What depends on the real size of nodes is in
  `Backbone`. `Word = 2^16` stands for the conversion of an `int` to `unsigned`.
* `Backbone`: up to 48 keys are three per child, so that all remainders modulo 16 and vectors shorter
  than a node occur at every level, with three levels (`MaxDepth`).
* `Treelet`: five keys give every case of a removal, with a subtree of the successor that must be kept.
* `sets`: every structure starts with any set of its keys, so the operations of a run meet structures
  that earlier ones have built. Two keys give a head, a first and a last node, so that a removal's
  predecessor can be the other thread's victim. Three operations (`MarkedOps`, `LockedOps`, `OptikOps`, `TkOps`,
  `MapOps`) let a node be removed and its key inserted again while a walk is on it; where an operation
  is long, two (`AravindOps`, `EllenOps`, `SkipOps`, `FraserOps`, `TableOps`) are one of
  each thread, interleaved in every way, or two of one after the other. The tree of Natarajan and
  Mittal has three keys, so that a CAS can take out a chain; the table has three, in segments that
  begin with one bucket (`Capacity = 1`) and are replaced when they hold more than `LoadFactor = 3`
  allows, which rehashes chains of two nodes. `LevelMax = 2` gives low and high towers side by side.
* `buffers`: up to two elements at the start and up to four operations between three threads, as one
  of the programs in `MCBuffers` says: enough for a tail that lags while it is helped and passed, and
  for a node that is freed and comes back. `Spots = {1}` is the elimination array with one place.
* What wraps around is the version of the sequence lock and the tickets of the ticket locks. The
  versions of `OptikLock`, `BstTk`, `OptikList`, `ArrayMap`, `SegmentTable`, `Queue` and `Stack` are
  numbers without an end: in the code they have 32 or 64 bits (16 in `bst-tk`), so that it takes as many
  critical sections, while one thread has a version noted, for it to come back.
* Two cases in which the code is wrong are left out by assumptions on the constants, and no run
  or proof says anything about them: half of all versions of the sequence lock going by during one
  read section (`2 * Lag < Versions`), and more threads on a socket than local tickets of the
  hierarchical lock and one (`HticketAssumption`, section 5).

`LayoutLock` and the locks of `MCLocks` run for ever. In `sets`, `tree` and `dltree_live` the number
of operations is bounded, and the models stop when all of them have returned: so do the runs with
`CHECK_DEADLOCK FALSE`. `AllReturn` of `MCSets` can therefore say that all threads are idle in the end.

### Fairness

Each thread is weakly fair inside an operation: the operating system keeps running it. Nobody is
obliged to open a section or to invoke an operation; sections that are open are closed, because the
code in them is finite. (In `DLTree` the threads also invoke the operations of their finite workload.)
Nothing else is assumed in any module, in particular nothing of locks without a queue:
whoever waits for one gets it only if it stays free. Of such locks only `SomeEnters` is asked.

This matters for the tree. The lock of a treelet (`tatas_acquire`) is a test-and-set lock without a
queue, and `getTreelet` takes it before it asks `finishRead`; so a reader that a layout change refuses
takes and releases it again and again, and the change that needs the treelet may find it taken each
time it looks. `AllReturn` of `DLTree` names this one exception: either all operations return, or
some change waits at a treelet for ever while some reader takes that treelet, is refused and gives it
back infinitely often (`Starves`). Removals add the change that waits for itself (`Stuck`, section 6),
and run `dltree_live` shows that there is no other way for an operation not to return
(`AllReturnOrStuck`). Neither exception can be left out: without `Starves` the run ends in the cycle just
described, without `Stuck` in that of `dltree_shrink`.

## 4. The proofs

TLC explores the small instances of section 3; the theorems hold for every number of threads and
every value of the other constants that the assumptions allow. A module `XProofs` extends the module
`X` it proves about. `MCLocksProofs` and `MCBuffersProofs` bring the results to the specifications
the runs check, so that the theorem and the run are about the same formula.

| theorem | statement |
|---|---|
| `LayoutLockProofs!Invariance`, `TypeCorrect` | `IInv` and `TypeOK` are invariants of the layout lock |
| `LayoutLockProofs!ChangeRunsAlone`, `OverlapIsSeen` | `Spec => []ChangeExcludes`, `Spec => []OverlappedIsDirty` |
| `LayoutLockProofs!Implements` | `Spec => ImplementsSpec`: the layout lock implements `LayoutLockSpec` |
| `LayoutRWLockProofs!Invariance`, `TypeCorrect`, `ChangeRunsAlone`, `Implements` | the same for the readers-writer lock |
| `SeqLockProofs!Invariance`, `VersionTells`, `Implements` | the same for the sequence lock, through every wrap-around of the version |
| `OptikLockProofs!Invariance`, `SuccessTells` | `SuccessMeansUnchanged` for the three kinds of the OPTIK lock, with reverts and deletions |
| `LayoutLockTSOProofs!Invariance`, `UsesLive`, `Mutex` | under store buffers no section uses a treelet that a change has taken, and one thread at a time uses a treelet |
| `MCLocksProofs!Invariance` | `IInv` of run `locks`: the inductive invariants of all its locks |
| `MCLocksProofs!RWLockExcludes`, `SeqLockTells`, `OptikTells`, `ScalarTells` | the other four invariants of the run |
| `MCLocksProofs!LocksImplement` | `ImplementsLock`: every lock implements `LockSpec`; the ticket, MCS and CLH locks in order of arrival |
| `MCLocksProofs!Refinement` | `ImplementsLayoutLock`: the sections of the sequence lock and of the readers-writer lock implement `LayoutLockSpec` |
| `DLTreeProofs!Invariance` | `IInv` of the Dynamic-Layout tree |
| `DLTreeProofs!OwnsLive`, `Routed` | `Spec => []OwnsLiveTreelet`, `Spec => []KeysAreRouted` |
| `DLTreeProofs!Implements` | `Spec => ImplementsSet`: the tree implements `SetSpec` |
| `DLTreeProofs!Exact` | `Spec => []CountIsExact`: no gain is lost or told twice |
| `MCBuffersProofs!Invariance`, `LookupIsLive`, `LookupExcludes` | `UsesLiveTreelet` and `TreeletMutex` of run `buffers` |

### 4.1 What is assumed of the constants

`SlotsAssumption` is `N > 0`. `SeqLockAssumption`: an even number of versions, and fewer than half as
many changes during one read section: with 2^32 versions, a reader would have to be held up for 2^31
layout changes. `SpinLockAssumption` and `HticketAssumption`: more ticket numbers than threads (32
bits in the code); for the hierarchical lock also at most `LocalTickets + 1` threads on a socket,
which the lock needs (section 5). `McsLockAssumption` and `ClhLockAssumption`: `NULL` and the node
that the lock is made with are no thread's. `OptikLockAssumption` and `TSOAssumption` give types only:
`MaxOps`, `MaxChange` and `BufMax` are any numbers. `DLTreeAssumption`: keys are positive (0 is
`INVALID_KEY_SMALL`), finitely many, as machine integers are, and there is one; nodes have at least
two children; the threshold of a flush and the first limit are positive. Nothing is assumed of the
workload, the number of operations or how often the tree is enlarged. TLC evaluates all of them in the runs.

### 4.2 The inductive invariants, and why they are needed

TLC checks each of them as well: `IInv` in the runs `layout_lock`, `locks` and `tree`. That of
`LayoutLockTSO` (`MCBuffers!IInv`) holds of run `buffers` too; it is left out of the configuration
because it makes the run several times as long.

*Layout lock.* `OverlappedIsDirty` is not inductive: that a flag is set says nothing about whether
it is about to be cleared. `IInv` adds three facts.
`SlotInv` says who holds each slot: `Holds(w, s)` is the set of slots a changer has taken and not
given back, as its place in the loops determines it; a slot is `ReaderActive` exactly in its own
thread's write section, `WriterActive` exactly if some changer holds it, and no two changers hold the
same slot. A changer that has all the slots is therefore alone. `DirtyInv` says that while a change
runs (and, for the threads its loop has passed, before) every thread is marked or is inside
`resetDirty` between its clearing of the flag and its second look at the slot, where the slot is
`WriterActive` and so the flag will be set again. A thread in a read section is not inside
`resetDirty`, so it is marked. `IndexInv` says the loop of `write_unlock` starts at the first slot.
Each action preserves each part; `finishLayoutChange` and the stores of `resetDirty` are the cases
that need the parts together.

*Readers-writer lock.* The part about slots, with read sections holding their slot as well;
`ValidInv` then says every open read section is valid, so `finishRead` may say so.

*Layout lock with store buffers.* The facts about slots and flags are no longer about memory: a
thread that has stored a release still holds the lock for all the others. `BufferInv` says what a
buffer can hold at each place of its thread, that no location is in it twice and that the new head
comes first. `HasTreelet` and `HasSlot` of `LockInv` are the locks with those releases counted in.
`HeadInv`: until the new head is in memory, its changer has all the slots, also after it has left the
change; so whoever finds a slot or the treelet free sees the new head, because a buffer is a queue.
`MarkInv` is `DirtyInv` with flags that may still be on their way, and says that a reader on a
treelet that is being emptied is marked.

*Sequence lock.* `LockInv` and `VersionInv`: one changer, and the version is odd while it changes.
`LagInv` relates what a reader noted to the version through all wrap-arounds: the version is ahead
by `Moved(t)`, twice the number of changes overlapped (less one that is in progress), modulo
`Versions`. As that is less than `Versions`, equality means that nothing was overlapped.

*OPTIK locks.* `SuccessMeansUnchanged` needs to know how far behind the version everything noted is.
`HoldInv`: who holds the lock, of the three representations. `TicketInv`: the tickets drawn are
different and not yet served. `NotedInv`: what a thread has noted is at most `Base`, the version with
the lock bit away, and less if the structure has changed since; only a version that is not behind can
be locked with. An odd version can come back after a revert, so the bound for noted versions has to
be one higher for the integer kind. `UsageInv` keeps the calls of a thread to those of its build.

*Counting locks.* `CountTellsInside` is inductive with the types; the proof is about cardinalities:
each step moves one thread between the sets that are counted.

*Locks on one word, and the ticket lock.* `Ahead(n)` is the distance of ticket `n` from the one
that is served, modulo `Wrap`. `TicketInv` says that the k-th thread in line is k tickets away
(one less while the lock is free), and the ticket to draw is just behind the line. Tickets are then
different because the line is shorter than `Wrap`; that the thread served is the first of the line is
the refinement of the fifo order.

*MCS lock.* The queue is the holder followed by the line. `QueueInv` says of each thread and the next
that the link is there exactly when the latter has made it, and that the flag of the latter is
up from before then; when nobody holds the lock, the first of the line is the one whose flag is down.
`LastInv`: the lock points to the end of that queue, or to nobody.

*CLH lock.* `NodeInv`: threads never share a node, although each leaves with that of its predecessor.
`QueueInv` adds the node that is no thread's: the one the thread inside has looked at, or, when
nobody is inside, the one in front of the line. Nobody spins on it, so it can be used again.

*Hierarchical ticket lock.* Local tickets count down and are dealt again, so the invariant says for
which sockets they are in use (`Open`), and that those drawn and not served are the numbers from
`Bottom` to below `Top`, each drawn once (`LocalInv`). `HoldInv` says that the lock is with one thread
or on its way within one socket. `DealInv` keeps a socket from dealing again while it passes the
lock on: its part about `refill` is where the bound on the threads of a socket is used. `GlobalInv`
is the ticket lock's argument without the order, which the lock does not promise.

The lemmas `ApartType`, `ApartDrawn` and `ApartServed`, which say what drawing and serving do to
distances modulo `Wrap`, are shared by the two locks with tickets; `LineAppend`, `LineTail` and
`LineLength`, about a line of threads without repetition, by the three fair locks.

*Dynamic-Layout tree.* That an accepted thread owns a treelet of the tree depends on everything the
layout change does meanwhile, so `IInv` has to say what a backbone that is half rewritten looks like.
`ControlInv` and `SlotInv` bring the argument of the layout lock: one thread at a time rebuilds, and
while it does every other thread is marked or about to be marked again. `TreeletInv`: a treelet's
lock is taken while a thread has it, and by that thread alone. `LinkInv`, `LeafInv` and `ChangeInv` are the shape of
the backbone: nothing but `NULL_TREE` is linked twice, the children of a node are all nodes or all
treelets (except while the leaves are expanded), the vector is sorted, and a treelet that has been
taken is not linked any more. The rest of the invariant says that there are a set `U`, the nodes to which
the recursion has still to come, and a function `K`, the keys whose walk comes to each node. `CoverInv`:
every slot with work left belongs to a node of `U` or is a task of the stack, and there is one task for
it. `KeyInv`: a walk takes each key of `K[n]` to the child for it, different ends of the walks have
different keys, and a treelet holds keys that walks lead to only. `GatherInv`: what has been
gathered is below everything that is still to be gathered, which is why the vector is sorted
without sorting it. `BuildInv`: each task's part of the vector is for keys that walks lead to its
place, and no key of the vector is left out. `WalkInv`: a walk that will be accepted, being unmarked, is
where its key leads; a change can only move it by marking it first.

`U` and `K` cannot be computed from the state without recursion, so they are quantified in the
invariant, and each step of a layout change gives the new ones: `Divided` when a node gets new separators,
`Handed` when a new node takes the place of `NULL_TREE`. The lemma behind both is `SeparatorsLead`:
with the separators of `constructBigNode` the search goes to child `c` for exactly the keys of the
`c`-th part of a sorted vector, for every length, rounding and number of children. All other steps, the "quiet"
ones, leave `U` and `K` alone; an insertion or removal in a treelet is one of them, and needs that the owned
treelet is where the key leads. What is reachable, and where a route ends, is iteration along the
children: an iteration that never ended would visit ever younger nodes, of which there are finitely
many. Where an induction is needed it goes by the least counterexample (`LeastNatural`, from the
library's `WFMin`), which takes no operator as a parameter.

`CountIsExact` sums over the threads with the library's fold, a recursive function on the subsets of
`Thread`. `SumExists` shows that it exists and `TotalChanges` that it changes by as much as one thread's
count does, both by the least counterexample in the number of threads. What remains is about one step:
one that takes effect changes the size of the contents by the gain it has not told (`OperateCounts`,
from the refinement's `TakesEffect`), and every other step leaves the contents, and `fuzzySize` and the
thread's untold count together, as they were (`ToldStep`).

### 4.3 The refinements

Each refinement shows that the abstract phases or modes of the first state are those of the
abstract `Init`, and that a step changes them as an abstract action does or not at all. `MoveRefines`
does this once for the locks: a thread starts waiting, enters (alone, and first in line if the lock
is fair), or leaves. The invariants supply the two side conditions. For `LayoutLockSpec`
it is that `finishRead` says true only of a valid section, and that changes and write sections open
only when they may.

For `SetSpec` the abstract contents are the keys of all treelets that are reachable and of all vectors.
`ContentsKept` says that under `IInv` these are the keys in linked treelets (`Kept`), which needs no
reachability; then `Operate` is the abstract `TakeEffect`, because the treelet it works on is the
only place where its key can be (`Sole`), and every step of a layout change moves keys between treelets
and vector without losing one: `GatherTakeStep`, `BuildChildStep`, `RootReplaceKept`, and
`LeaveChangeStep`, where the vector is dropped and every key of it is in a treelet.

### 4.4 What is only model-checked

Liveness under fairness (`AllEnter`, `SomeEnters`, `SomeWriterEnters`, `RetryEnds`,
`SomeChangeStarts`, `AllReturn`, `AllReturnOrStuck`) and what depends on `ENABLED` are outside the prover's reach. So is
induction over data: `Treelet` and `Backbone` compute recursively, and `ItemsAreSorted`, `ActsAsSet`,
`PartHoldsKey` and `SearchCounts` stay with TLC. (That the parts of one node hold their keys is proved, as
`SeparatorsLead`; `Backbone` asks it of the search in heap order through several levels.) `BackboneIsFull`
of `DLTree` counts the leaves level by level, and stays with TLC too.
Not proved, but only for lack of the work: the invariants and refinements of the library's stacks, queues and sets (`ImplementsBuffer`, `IsWhole`, `RemovedIsFrozen`, `FreedOnce`,
`ReturnsBoundValue`, `ImplementsSet` of `MCSets`, `ImplementsPriorityQueue`).

## 5. Observations

* The fence at the end of `resetDirty` (`llock.h:227`) is needed: without it the model with store
  buffers lets a reader use a treelet that is being taken away. The fence that ends
  `startLayoutChange` (`llock.h:245`) turned out not to be needed on x86 for the properties checked
  here, because the changer's next relevant step is the locked instruction that acquires a treelet.
* The order in `getTreelet`, first the treelet's lock and then `finishRead`, is what makes the
  verdict of `finishRead` last: a layout change that starts later waits for the treelet's lock in
  `gatherAll`. `OwnsLiveTreelet` fails when the verdict is ignored, and `TreeletMutex`, under
  store buffers, when the treelet's lock is taken by a plain store.
* The same order lets readers keep a layout change waiting: a reader that will be refused takes the
  treelet's lock all the same, and the lock is not fair (section 3, Fairness).
* `stack-optik2` has the words "DOES NOT work properly" in its header (`stack-optik.c:6`), which it
  shares with `stack-optik1`, from which it was copied. They do not say what is wrong, and the model finds
  no answer that a stack would not give (`ImplementsBuffer`). What can be seen in the code is that all calls
  of `ssmem_free` are commented out (lines 75, 91, 123, 141, 150 and 154), so that no node is ever
  given back, and that a deletion whose offer was taken spins until a value other than 0 appears in it
  (line 142), so that 0 must not be inserted. `stack-optik1` returns 1 in place of the value and is not modelled.
* The release of the sequence lock is an expression inside `assert` (`llock.h:311`). A build with
  `NDEBUG` never releases it; the mutant `releaseLock_NDEBUG` shows what happens then.
* Several deletions read the value of a node they have already given back (`bst_tk.c:111-115`,
  `concurrent_hash_map2.c:449-453`, the tree of Natarajan and Mittal, the queues). With a thread
  that reads before its next call to the allocator this is what ssmem allows for the thread's own
  node; it is another thread's node in the queues (section 6).
* A segment of the hash table that has been replaced keeps its lock for ever; threads that wait for
  it must load the segment again between two attempts, which they do.
* `bst_delete` of `bst_ellen.c` gives the grandparent's old update word back without a test
  (line 252), as `bst_insert` has one (line 197): it hands a NULL to `ssmem_free` when that word was
  never set.
* `skiplist-optik`'s deletion answers 0 once the node is being unlinked (`skiplist-optik.c:236-238`),
  while searches and insertions treat it as present until then (lines 118-122 and 173-183). The
  module is not modelled; a model of it should ask for linearizability first.
* The test of `succ->marked` in skiplist-herlihy_lb's insertion (`herlihy.c:220`) is not needed for
  the properties checked here: a mutant without it passes.
* In `fraser_insert`, `succ->next` (`fraser.c:239`) lacks an index, so it is compared with something
  that is no node; the CAS that follows it fails and the search is repeated, which is harmless.
  In skiplist-herlihy_lf `new->next[i]` is not brought up to date after the search of a retry, so
  nodes linked in the meantime drop out of the upper level: slower, but the set is not changed.
* `deleteMin` of the queue of Lotan and Shavit claims a node by marking it while other deletions
  pass it, so it may return a key that is not the smallest; `PrioritySpec` says by how much.
* The hierarchical ticket lock gives out the next local tickets of a socket when a thread draws -1
  and finds `localp->cur` at `NB_TICKETS_LOCAL` (`htlock.c:422`), which it is also from when the local
  tickets are provided until the lock is first passed on. With `LocalTickets + 2` threads on one
  socket a ticket that is in use is given out again: TLC, run on five threads with one local ticket
  and without the assumption, finds two threads inside after 16 steps. With the code's 128
  local tickets it takes 130 threads on a socket; with at most 129 (`HticketAssumption`) the lock is
  proved correct. `Floor` stands for the limit of the count of those who draw below 0.

## 6. Findings

1. *A layout change inside a layout change* (`layoutTree.hpp:235`, run `dltree_shrink`).
   `shrink_tree` calls `enlarge_tree` while it holds the layout lock. `enlarge_tree` begins with
   `startLayoutChange`, which spins on the first slot, set to `kWriterActive` by the thread itself:
   the operation never returns, and neither does any later layout change. No reader starves it: the
   property allows for that. In the trace the tree is
   enlarged, and a removal brings the count down to `shrinkWhen`. With the real constants a thread
   tells its count to `fuzzySize` in portions of 200, so it takes a tree that has been enlarged (one
   portion is more than `enlargeWhen` = 16) and a thread whose own count then falls below -200; the
   drivers, which keep the size constant on average, do not meet it. The copies in `bst-rwcohen`
   (line 205) and `bst-seqlock-cohen` (line 231) assert instead of making the call.
2. *A node that is linked after it was freed* (`fraser.c:242`, run `skip_fraser`). A removal marks
   the pointers of the node, searches once so that it is unlinked, and gives the node back. The
   insertion of the same node may have tested its pointer at an upper level before the mark and link
   it there after that search. `fraser.c:161` says "2. Mark forward pointers, then search will remove
   the node". skiplist-herlihy_lf has the same order.
3. *Deletions that miss a key* (`pugh.c:81`, run `lists_pugh`). With `PUGH_RO_FAIL`, the default, the
   deletion reloads `pred->next` after its walk and gives up if the key there is another one; but
   `pred` may have been removed, or a smaller key inserted, since. The key was there all the time.
4. *A value of another leaf* (`bst-aravind.c:211`, run `bst_aravind`). `bst_remove` takes its answer
   from the leaf its latest seek ended at; once another thread has helped to take its own leaf out,
   that is another leaf, and the answer may be 0 (as if the key had not been there) or another key's
   value. `IntervalSetSpec` holds of the sets of keys; the answers to such removals are left out there.
5. *A value read from a node another thread may have freed* (`queue-ms.c:104`, run `buffers_reuse`).
   The deletion frees the old head, which moves its time stamp on, and then reads `next->val`; the
   dummy `next` may be freed by the next deletion and be given out again before the read. The four queues
   over OPTIK locks have the same order, and TLC finds the same of each when it takes the place of
   `MsLf` in `QueueBuildsGC`; built without `GC`, and for `queue-ms_hybrid`, which reads first, it finds nothing.
6. *Locked with a stale version* (`optik.h:802`, run `optik_separate`). In the separate kind
   `optik_lock_version` compares a version that was read before the CAS on the lock. The ticket and
   integer kinds compare what the CAS itself replaced.

## 7. Not modelled, and why

* *Of the tree:* `layoutTree::build(level, first)` above level 0, `consolidate`, `consolidateAll`,
  `backboneGetTreelet`, and the recursive `build(i, first)` of the treelets: no set operation calls
  them. The driver constructs `layoutTree(0)`, and `build(0, 0)` gives one treelet over the key 0,
  which is the mark of an empty one: `Init` of `DLTree`. `size`, `print` and the statistics are output.
* *Of the layout lock:* `ThreadsNum` beyond 64 and `setup` for threads that end: the slot arrays are
  of fixed size and numbers are not given back; the models give every thread a slot. `NoLock`,
  `NoLockM`, `DisabledLock` are baselines that do nothing. Overflow of `(i*2+1)*delta*len` in
  `constructBigNode` needs some 10^8 keys.
* *Memory reclamation:* a freed treelet is emptied but never recycled (the TODO of `free_treelet`,
  `layoutTree.hpp:183`), so `DLTree` keeps it. ssmem is a binary library of which the repository has
  the header only; `Ssmem` models that, for stacks and queues. In the modules of the sets a freed node
  stays as it was: what is asked there is that nobody gives a node back twice or while it is linked.
  `ssalloc` is a bump allocator that never gives memory out twice.
* *Variants of the library's structures:* the lists with a per-thread cache of nodes, the
  copy-on-write list, `stack-optik1`, `queue-optik3`, `4` and `5`, `queue-hybrid`, `skiplist-pugh`,
  `skiplist-optik` and its variants, the spray lists, and the trees of Howley and Jones, of Drachsler
  and of Bronson. `concurrent_hash_map.c` is not built.
* *Everything else under `src/DLTree`:* the vendored library of atomic operations, the drivers (one
  or more for every structure, of some 600 lines each), plotting scripts, the sequential versions,
  the barrier of the drivers, and the copies of the tree in `bst-rwcohen`, `bst-seqlock-cohen` and
  `bst-seqlock-cohen/curr`, which repeat `bst-cohen` but for the lock. These are most of the lines of
  the repository: the map covers most of the tree and the locks and the operations of the structures
  named in section 1, but that is a small part of all lines, and will stay one.

## 8. Plan

Written so far: everything in section 2. What is left, in this order:

1. Proofs. `BackboneIsFull` of the tree, over the invariant of `DLTreeProofs`; then `RemovedIsFrozen`
   of `OptikList` and `LockedList`, and `ImplementsBuffer` for the stacks.
2. `skiplist-pugh` and `skiplist-optik` (see section 5) over `IntervalSetSpec`.
3. `queue-optik4` and `queue-optik5`, whose arrays are replaced while others use them, and
   `queue-optik3`.
4. The trees of Howley and Jones and of Drachsler; the copy-on-write list.
5. The spray lists: what they promise is a distribution, so the model can ask only that a deletion
   returns a key that was there, once.
