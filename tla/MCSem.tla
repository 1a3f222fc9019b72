------------------------------- MODULE MCSem -------------------------------
(***************************************************************************)
(* Instances of Sem for TLC.                                               *)
(***************************************************************************)
EXTENDS Sem

CONSTANTS a, b, c, i

\* a is the most urgent, b and c are equals, idle is below them.
MCInitPriority == [t \in Task |-> CASE t = i -> 2 [] t = a -> 0 [] OTHER -> 1]
MCInitTick == [t \in Task |-> 1]

=============================================================================
