------------------------------ MODULE MCSched ------------------------------
(***************************************************************************)
(* Instances of Sched for TLC.                                             *)
(***************************************************************************)
EXTENDS Sched

CONSTANTS a, b, c, i

\* b and c share a priority, a is above them, idle below.
MCInitPriority == [t \in Task |-> CASE t = i -> 2 [] t = a -> 0 [] OTHER -> 1]
\* Everybody but idle on one priority.
MCSamePriority == [t \in Task |-> IF t = i THEN 1 ELSE 0]
MCInitTick == [t \in Task |-> IF t = b THEN 2 ELSE 1]

=============================================================================
