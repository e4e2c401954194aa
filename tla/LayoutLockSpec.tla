--------------------------- MODULE LayoutLockSpec ---------------------------
(***************************************************************************)
(* What a layout lock promises its clients, whatever implements it.        *)
(*                                                                         *)
(* A layout lock guards a data structure whose layout is changed rarely    *)
(* and read all the time.  It has three kinds of sections:                 *)
(*   - read sections, optimistic: finishRead tells whether the section may *)
(*     be trusted; one that overlapped a layout change must not be;        *)
(*   - write sections, which exclude layout changes but not one another;   *)
(*   - layout changes, which exclude write sections and one another.       *)
(*                                                                         *)
(* The three implementations (LayoutLock_DefaultImpl_, LayoutRWLOCK and    *)
(* SeqLock in the llock.h files) are modelled in modules of their own,     *)
(* and each is checked to implement this one.                              *)
(***************************************************************************)
CONSTANT Thread

VARIABLES
    mode,   \* the section each thread is in
    valid   \* valid[t]: no layout change overlaps the read section t is in

vars == <<mode, valid>>

Modes == {"out", "reading",
          "refused",   \* finishRead has returned false, the client starts over
          "writing", "changing"}

TypeOK ==
    /\ mode \in [Thread -> Modes]
    /\ valid \in [Thread -> BOOLEAN]

NoChanger == \A u \in Thread : mode[u] # "changing"
NoWriter  == \A u \in Thread : mode[u] # "writing"

Init ==
    /\ mode = [t \in Thread |-> "out"]
    /\ valid = [t \in Thread |-> FALSE]

\* A section that starts during a layout change is not valid to begin with.
BeginRead(t) ==
    /\ mode[t] \in {"out", "refused"}
    /\ mode' = [mode EXCEPT ![t] = "reading"]
    /\ valid' = [valid EXCEPT ![t] = NoChanger]

\* finishRead returns true: only a valid section may end this way.
EndRead(t) ==
    /\ mode[t] = "reading"
    /\ valid[t]
    /\ mode' = [mode EXCEPT ![t] = "out"]
    /\ valid' = [valid EXCEPT ![t] = FALSE]

\* finishRead returns false: allowed of any section.
RefuseRead(t) ==
    /\ mode[t] = "reading"
    /\ mode' = [mode EXCEPT ![t] = "refused"]
    /\ valid' = [valid EXCEPT ![t] = FALSE]

BeginWrite(t) ==
    /\ mode[t] = "out"
    /\ NoChanger
    /\ mode' = [mode EXCEPT ![t] = "writing"]
    /\ UNCHANGED valid

EndWrite(t) ==
    /\ mode[t] = "writing"
    /\ mode' = [mode EXCEPT ![t] = "out"]
    /\ UNCHANGED valid

\* A layout change invalidates every read section in progress.
BeginChange(t) ==
    /\ mode[t] = "out"
    /\ NoChanger
    /\ NoWriter
    /\ mode' = [mode EXCEPT ![t] = "changing"]
    /\ valid' = [u \in Thread |-> FALSE]

EndChange(t) ==
    /\ mode[t] = "changing"
    /\ mode' = [mode EXCEPT ![t] = "out"]
    /\ UNCHANGED valid

Next ==
    \E t \in Thread :
        \/ BeginRead(t) \/ EndRead(t) \/ RefuseRead(t)
        \/ BeginWrite(t) \/ EndWrite(t)
        \/ BeginChange(t) \/ EndChange(t)

Spec == Init /\ [][Next]_vars
=============================================================================
