------------------------------ MODULE MCMutex ------------------------------
(***************************************************************************)
(* Instances of Mutex for TLC.                                             *)
(***************************************************************************)
EXTENDS Mutex

CONSTANTS a, b, c, i

\* Everybody but idle on one priority, as the tasks usbd and hidd.
MCSamePriority == [t \in Task |-> IF t = i THEN 1 ELSE 0]
\* a is more urgent than b.
MCInitPriority == [t \in Task |-> CASE t = i -> 2 [] t = a -> 0 [] OTHER -> 1]
MCInitTick == [t \in Task |-> 1]

=============================================================================
