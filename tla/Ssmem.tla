-------------------------------- MODULE Ssmem --------------------------------
(***************************************************************************)
(* The memory that the queues and the stacks free and allocate again       *)
(* (built with GC): libssmem, of which the repository has the interface    *)
(* (src/DLTree/external/include/ssmem.h) and a binary.  Every thread has a *)
(* time stamp, which its ssmem_free increments (SSMEM_TS_INCR_ON), and a   *)
(* set of freed nodes.  A full set gets the time stamps of all threads;    *)
(* its nodes may be allocated again, by the same thread, when all of them  *)
(* have been incremented since: no thread then holds a reference taken     *)
(* before the node was freed.                                              *)
(*                                                                         *)
(* Bound: a set holds one node (SSMEM_GC_FREE_SET_SIZE is 507), and a node *)
(* that may be reused is: what a reused node can harm happens early.       *)
(***************************************************************************)
EXTENDS Naturals, Sequences

VARIABLES
    nodes,   \* every node ever allocated
    ts,      \* ts[t]: the time stamp of t, if t has subscribed (ssmem_gc_thread_init)
    limbo    \* limbo[t]: the nodes freed by t, with the time stamps of that moment

\* Mutant: a node is reused whatever the other threads may hold.
Reusable_AtOnce(t) == {e \in limbo[t] : TRUE}

Reusable(t) == {e \in limbo[t] : \A u \in DOMAIN ts : ts[u] > e.stamp[u]}

\* ssmem_alloc: a node becomes n, which its caller writes before it publishes it.
Alloc(t, n, id) ==
    IF Reusable(t) = {}
      THEN /\ id = Len(nodes) + 1
           /\ nodes' = Append(nodes, n)
           /\ UNCHANGED <<ts, limbo>>
      ELSE LET e == CHOOSE e \in Reusable(t) : TRUE
           IN /\ id = e.node
              /\ nodes' = [nodes EXCEPT ![id] = n]
              /\ limbo' = [limbo EXCEPT ![t] = @ \ {e}]
              /\ UNCHANGED ts

\* ssmem_free; without GC the node is given up.
Free(t, id, gc) ==
    IF gc
      THEN /\ limbo' = [limbo EXCEPT ![t] = @ \union {[node |-> id, stamp |-> ts]}]
           /\ ts' = [ts EXCEPT ![t] = @ + 1]
      ELSE UNCHANGED <<ts, limbo>>
=============================================================================
