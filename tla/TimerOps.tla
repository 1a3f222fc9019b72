------------------------------ MODULE TimerOps ------------------------------
(***************************************************************************)
(* The timers embedded in the task structs (kernel/timer.c), as operators  *)
(* on a record with the fields                                             *)
(*   list  system_timer_list, the soonest timer first                      *)
(*   lave  get_lave_tick of every listed timer: the ticks that are left    *)
(*         until it is due, 0 once it is.  (A timer that is due but not    *)
(*         served yet keeps 0: timeout_tick < run_tick gives a difference  *)
(*         beyond TIMER_TICK_MAX, which get_lave_tick turns into 0.)       *)
(***************************************************************************)
EXTENDS Lists

CONSTANTS
  Timer,           \* timers, named by the task that embeds them
  TimerPriority    \* the priority field of each timer

ASSUME TimerOpsAssumption == TimerPriority \in [Timer -> Nat]

TimerType == [list : Seq(Timer), lave : [Timer -> Nat]]

TimerInit == [list |-> <<>>, lave |-> [t \in Timer |-> 0]]

Armed(tm) == ToSet(tm.list)

\* timer_remove, timer_stop and timer_delete.
timer_stop(tm, t) == [list |-> ListDel(tm.list, t), lave |-> [tm.lave EXCEPT ![t] = 0]]

\* list_for_each_entry of timer_start: the first listed timer that is due
\* later, or at the same tick with a larger priority number, else the head.
FirstLater(tm, l, t, n) ==
  Min({i \in 1..Len(l) :
         \/ tm.lave[l[i]] > n
         \/ tm.lave[l[i]] = n /\ TimerPriority[l[i]] > TimerPriority[t]}
      \cup {Len(l) + 1})

\* timer_start after timer_ctrl(CMD_TIMER_SET_TICK, n).
timer_start(tm, t, n) ==
  LET l == ListDel(tm.list, t)
  IN  [list |-> ListAddBefore(l, FirstLater(tm, l, t, n), t),
       lave |-> [tm.lave EXCEPT ![t] = n]]

\* run_tick++, as the listed timers see it.
run_tick(tm) ==
  [tm EXCEPT !.lave = [t \in Timer |-> IF tm.lave[t] = 0 THEN 0 ELSE tm.lave[t] - 1]]

\* Mutant: due one tick early, and never afterwards.
due_at_one(tm) == tm.list # <<>> /\ tm.lave[Head(tm.list)] = 1

\* timer_check looks at the first timer only.
HeadIsDue(tm) == tm.list # <<>> /\ tm.lave[Head(tm.list)] = 0

=============================================================================
