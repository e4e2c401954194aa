------------------------------ MODULE MCDLTree ------------------------------
(* Workloads and small sizes for the Dynamic-Layout tree. *)
EXTENDS DLTree

\* Every thread invokes everything.
AllWork == [t \in Thread |-> {"search", "insert", "remove"}]

\* One thread fills the tree, the others empty it.
ShrinkWork == [t \in Thread |-> IF t = 1 THEN {"insert"} ELSE {"remove"}]
=============================================================================
