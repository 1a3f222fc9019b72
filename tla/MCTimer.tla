------------------------------ MODULE MCTimer ------------------------------
(***************************************************************************)
(* An instance of WkTimer: three timers, two of them of one priority.      *)
(***************************************************************************)
EXTENDS WkTimer

CONSTANTS x, y, z

MCPriority == [t \in Timer |-> IF t = x THEN 1 ELSE 2]

=============================================================================
