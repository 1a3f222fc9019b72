----------------------------- MODULE MCMsgQueue -----------------------------
(***************************************************************************)
(* Instances of MsgQueue for TLC.                                          *)
(***************************************************************************)
EXTENDS MsgQueue

CONSTANTS r, s, i, b1, b2

\* The owner and the sender have one priority, as hidd and usbd.
MCInitPriority == [t \in Task |-> IF t = i THEN 1 ELSE 0]
MCInitTick == [t \in Task |-> 1]

=============================================================================
