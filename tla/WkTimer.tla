------------------------------ MODULE WkTimer ------------------------------
(***************************************************************************)
(* The timer list of kernel/timer.c with its absolute ticks: run_tick is a *)
(* uint64_t counter and every listed timer has a timeout_tick.             *)
(***************************************************************************)
EXTENDS TimerOps

CONSTANTS
  U64Max,       \* WK_U64_MAX
  TickMax,      \* TIMER_TICK_MAX, the largest init_tick
  InitTicks,    \* values init_tick is set to
  Horizon       \* bound: run_tick stops there

ASSUME WkTimerAssumption ==
  /\ TickMax \in Nat /\ U64Max \in Nat /\ TickMax < U64Max
  /\ Horizon \in 0..U64Max
  /\ InitTicks \subseteq 1..TickMax

VARIABLES
  list,           \* system_timer_list
  timeout_tick,   \* of each timer; 0 while it is not listed
  run,            \* run_tick
  phase           \* "run", or "check" between run_tick++ and timer_check

vars == <<list, timeout_tick, run, phase>>

TypeOK ==
  /\ list \in Seq(Timer) /\ NoDup(list)
  /\ timeout_tick \in [Timer -> 0..U64Max]
  /\ run \in 0..U64Max
  /\ phase \in {"run", "check"}

Init ==
  /\ list = <<>>
  /\ timeout_tick = [t \in Timer |-> 0]
  /\ run = 0
  /\ phase = "run"

-----------------------------------------------------------------------------
\* Mutant: a timer that is overdue counts as if it had just been started.
lave_overdue_waits(tt) == IF tt >= run THEN tt - run ELSE run - tt

\* The ticks left until timeout_tick tt, in 64-bit arithmetic.
get_lave_tick(tt) ==
  IF tt >= run THEN tt - run
  ELSE LET lave == U64Max - run + tt
       IN  IF lave > TickMax THEN 0 ELSE lave

\* timeout_tick of a timer started now.
TimeoutTick(n) == IF U64Max - run >= n THEN run + n ELSE n - (U64Max - run)

\* Mutant: always at the end of the list.
start_last(t, n) ==
  /\ list' = ListAddTail(ListDel(list, t), t)
  /\ timeout_tick' = [timeout_tick EXCEPT ![t] = TimeoutTick(n)]
  /\ UNCHANGED <<run, phase>>

\* timer_ctrl(CMD_TIMER_SET_TICK, n) and timer_start.
Start(t, n) ==
  LET l == ListDel(list, t)
      new == get_lave_tick(TimeoutTick(n))
      old(i) == get_lave_tick(timeout_tick[l[i]])
      Before(i) == \/ old(i) < new
                   \/ old(i) = new /\ TimerPriority[l[i]] <= TimerPriority[t]
      pos == Min({i \in 1..Len(l) : ~Before(i)} \cup {Len(l) + 1})
  IN  /\ list' = ListAddBefore(l, pos, t)
      /\ timeout_tick' = [timeout_tick EXCEPT ![t] = TimeoutTick(n)]
      /\ UNCHANGED <<run, phase>>

timer_remove(t) ==
  /\ list' = ListDel(list, t)
  /\ timeout_tick' = [timeout_tick EXCEPT ![t] = 0]

Stop(t) == t \in ToSet(list) /\ timer_remove(t) /\ UNCHANGED <<run, phase>>

\* The first part of system_beat_processing.
Count ==
  /\ phase = "run" /\ phase' = "check"
  /\ run < Horizon
  /\ run' = IF run < U64Max THEN run + 1 ELSE 0
  /\ UNCHANGED <<list, timeout_tick>>

\* Mutant: the first timer is served whether it is due or not.
head_listed == list # <<>>

HeadTimedOut == list # <<>> /\ get_lave_tick(timeout_tick[Head(list)]) = 0

\* timer_check: one timer at most, and only the first.
Check ==
  /\ phase = "check" /\ phase' = "run"
  /\ IF HeadTimedOut THEN timer_remove(Head(list)) ELSE UNCHANGED <<list, timeout_tick>>
  /\ UNCHANGED run

Next ==
  \/ \E t \in Timer : Stop(t) \/ \E n \in InitTicks : Start(t, n)
  \/ Count \/ Check

Spec == Init /\ [][Next]_vars

-----------------------------------------------------------------------------
\* The timer list is a countdown: while run_tick does not wrap, the absolute
\* ticks and their 64-bit comparisons behave like timers that lose one tick
\* at every tick (kernel/timer.c:56-70, 118-153).
Lave == [t \in Timer |-> IF t \in ToSet(list) THEN get_lave_tick(timeout_tick[t]) ELSE 0]
Rel == INSTANCE TimerRel WITH tm <- [list |-> list, lave |-> Lave]
Countdown == Rel!Spec

\* Serving one timer per tick delays timers that are due together, but the
\* last of n is served n - 1 ticks late at the most, however they are
\* restarted meanwhile (kernel/timer.c:197-203): outside the handler, no
\* listed timer is that late.
BoundedLateness ==
  \A t \in ToSet(list) :
    run - timeout_tick[t] < Cardinality(Timer) - (IF phase = "check" THEN 0 ELSE 1)

\* timer_check serves a timer not before its tick, and none before one that
\* is due earlier (kernel/timer.c:198-202).
ServeStep ==
  phase = "check" /\ phase' = "run" =>
    \A t \in ToSet(list) \ ToSet(list') :
      /\ timeout_tick[t] <= run
      /\ \A u \in ToSet(list) : timeout_tick[t] <= timeout_tick[u]
ServedInOrder == [][ServeStep]_vars

=============================================================================
