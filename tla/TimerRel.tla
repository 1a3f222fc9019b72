------------------------------ MODULE TimerRel ------------------------------
(***************************************************************************)
(* What kernel/timer.c promises its users: timers count down together, and *)
(* each tick serves the first one when it has run out.  This is the timer  *)
(* list as Sched uses it; WkTimer shows that the timer code, which keeps   *)
(* absolute 64-bit ticks, implements it.                                   *)
(***************************************************************************)
EXTENDS TimerOps

CONSTANT InitTicks    \* values init_tick is set to

VARIABLES
  tm,       \* the timers, see TimerOps
  phase     \* "run", or "check" between run_tick++ and timer_check

vars == <<tm, phase>>

Init == tm = TimerInit /\ phase = "run"

\* timer_ctrl and timer_start, by a task or a handler.
Start(t, n) == tm' = timer_start(tm, t, n) /\ UNCHANGED phase

\* timer_stop, timer_remove or timer_delete.
Stop(t) == t \in Armed(tm) /\ tm' = timer_stop(tm, t) /\ UNCHANGED phase

Count == phase = "run" /\ tm' = run_tick(tm) /\ phase' = "check"

Check ==
  /\ phase = "check" /\ phase' = "run"
  /\ tm' = IF HeadIsDue(tm) THEN timer_stop(tm, Head(tm.list)) ELSE tm

Next ==
  \/ \E t \in Timer : Stop(t) \/ \E n \in InitTicks : Start(t, n)
  \/ Count \/ Check

Spec == Init /\ [][Next]_vars

=============================================================================
