-------------------------------- MODULE Slots --------------------------------
\* The array state_ of a ScalableRWLock (src/DLTree/src/bst-cohen/llock.h), which the two
\* layout locks over it share: who has a slot, and what a slot can say.
EXTENDS Naturals

\* enum State: nobody has the slot (kInactive), its own thread has it for a read_lock
\* (kReaderActive), or some thread's write_lock has taken it (kWriterActive).
SlotStates == {"Inactive", "ReaderActive", "WriterActive"}

\* maxNumberOfThreads_, the length of state_ in slots and the bound of the lock's loops.
CONSTANT N

\* setup hands the slots out in order, so a thread and its slot have one number: from 0 in
\* the code, from 1 here.  Each slot has got its thread.
Thread == 1..N

\* An array in C++ has at least one element.
ASSUME SlotsAssumption == 1 <= N /\ N \in Nat
=============================================================================
