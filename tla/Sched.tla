------------------------------- MODULE Sched -------------------------------
(***************************************************************************)
(* Tasks, scheduler and system tick of the kernel running together:        *)
(* kernel/sch.c, kernel/task.c, kernel/clk.c, the task timers of           *)
(* kernel/timer.c and the idle task of init/system.c.                      *)
(*                                                                         *)
(* A step is a stretch of code that runs with interrupts off.  Thread code *)
(* runs only while no handler is active; interrupts may strike between any *)
(* two steps.  The SysTick handler has the lowest interrupt priority, so   *)
(* it is three steps (count, yield, check the timers) with other handlers  *)
(* between them; a device handler is one step, whose only effect here is   *)
(* to wake a task.                                                         *)
(***************************************************************************)
EXTENDS SchOps, TimerOps

CONSTANTS
  Idle,         \* the idle task, of the least urgent priority
  InitTick,     \* init_tick: the time slice of each task
  SleepTicks,   \* durations tasks sleep for
  MaxNest       \* bound: how deep tasks nest sch_lock

\* A task's timer is embedded in its struct and takes its priority when the
\* task is created.
ASSUME SchedAssumption ==
  /\ Timer = Task /\ TimerPriority = InitPriority
  /\ Idle \in Task
  /\ InitTick \in [Task -> Nat \ {0}]
  /\ SleepTicks \subseteq Nat \ {0}
  /\ MaxNest \in Nat

VARIABLES
  sch,      \* the scheduler's state, see SchOps
  tm,       \* the task timers, see TimerOps
  slice,    \* remaining_tick of each task
  flag,     \* whether a task's flag holds -ETIMEDOUT
  pc,       \* where each task is: in its own code or inside a kernel call
  tick,     \* the next part of the SysTick handler, "idle" outside of it
  victim    \* the closed task the idle task is freeing, or NoTask

vars == <<sch, tm, slice, flag, pc, tick, victim>>

\* "switch", "hung", "slept" and "exit" stand before the switch_task call at
\* the end of a kernel function, "clear" behind the one of task_sleep.
\* "enlist" is where sem_get and mutex_lock have put the task on a wait list
\* and enabled interrupts, but not called task_hang yet; "late" is the same
\* place once somebody has already woken the task there.
PC == {"user", "enlist", "late", "switch", "hung", "slept", "exit", "clear"}
BeforeSwitch == {"switch", "hung", "slept", "exit"}
Window == {"enlist", "late"}

TypeOK ==
  /\ sch \in SchType
  /\ tm \in TimerType
  /\ slice \in [Task -> Nat \ {0}]
  /\ flag \in [Task -> BOOLEAN]
  /\ pc \in [Task -> PC]
  /\ tick \in {"idle", "yield", "timers"}
  /\ victim \in Task \cup {NoTask}

Init ==
  /\ sch = SchInit
  /\ tm = TimerInit
  /\ slice = InitTick
  /\ flag = [t \in Task |-> FALSE]
  /\ pc = [t \in Task |-> "user"]
  /\ tick = "idle"
  /\ victim = NoTask

-----------------------------------------------------------------------------
\* The CPU executes main() up to sch_start, the code of a task, or neither.
Booting == sch.cur = NoTask
InTask(t) == sch.cur = t /\ tick = "idle"
InApp(t) == InTask(t) /\ t # Idle /\ pc[t] = "user"
InCode == Booting \/ \E t \in Task : InApp(t)

\* task_create by the boot code or a task.
TaskCreate(t) ==
  /\ InCode
  /\ sch.status[t] = "none"
  /\ sch' = [sch EXCEPT !.status[t] = "suspend", !.prio[t] = InitPriority[t]]
  /\ slice' = [slice EXCEPT ![t] = InitTick[t]]
  /\ flag' = [flag EXCEPT ![t] = FALSE]
  /\ pc' = [pc EXCEPT ![t] = "user"]
  /\ UNCHANGED <<tm, tick, victim>>

\* task_ready on a new task; switch_task follows unless still booting.
TaskReady(t) ==
  /\ InCode
  /\ sch.status[t] = "suspend"
  /\ sch' = add_task_to_ready_list(sch, t)
  /\ pc' = IF Booting THEN pc ELSE [pc EXCEPT ![sch.cur] = "switch"]
  /\ UNCHANGED <<tm, slice, flag, tick, victim>>

\* sch_start, once idle_task_init has readied the idle task.
Start ==
  /\ Booting
  /\ sch.status[Idle] = "ready"
  /\ sch' = sch_start(sch)
  /\ UNCHANGED <<tm, slice, flag, pc, tick, victim>>

\* A task's function returns into task_exit, which calls task_del on it.
TaskExit(t) ==
  /\ InApp(t) /\ sch.nest = 0
  /\ sch' = delete(sch, t)
  /\ tm' = timer_stop(tm, t)
  /\ pc' = [pc EXCEPT ![t] = "exit"]
  /\ UNCHANGED <<slice, flag, tick, victim>>

\* A task puts itself on the wait list of a semaphore or mutex.
TaskEnlist(t) ==
  /\ InApp(t) /\ sch.nest = 0
  /\ pc' = [pc EXCEPT ![t] = "enlist"]
  /\ UNCHANGED <<sch, tm, slice, flag, tick, victim>>

\* At a task_hang call, behind a wait list or, in msg_q_recv, without one.
AtHang(t) == InTask(t) /\ t # Idle /\ pc[t] \in {"user"} \cup Window

\* Mutant: the caller of task_hang forgets switch_task.
hang_no_switch(t) ==
  /\ AtHang(t) /\ sch.nest = 0
  /\ sch' = hang(sch, t)
  /\ tm' = timer_stop(tm, t)
  /\ pc' = [pc EXCEPT ![t] = "user"]
  /\ UNCHANGED <<slice, flag, tick, victim>>

\* A task hangs itself, as sem_get, mutex_lock and msg_q_recv do, also when
\* it has been woken since it went on the wait list.
TaskHang(t) ==
  /\ AtHang(t) /\ sch.nest = 0
  /\ sch' = hang(sch, t)
  /\ tm' = timer_stop(tm, t)
  /\ pc' = [pc EXCEPT ![t] = "hung"]
  /\ UNCHANGED <<slice, flag, tick, victim>>

\* task_sleep: task_hang and timer_start in one critical section.
TaskSleep(t, n) ==
  /\ InApp(t) /\ sch.nest = 0
  /\ sch' = hang(sch, t)
  /\ tm' = timer_start(timer_stop(tm, t), t, n)
  /\ pc' = [pc EXCEPT ![t] = "slept"]
  /\ UNCHANGED <<slice, flag, tick, victim>>

\* Who can be resumed: a waiting task, and one that is on a wait list but not
\* waiting yet (task_resume logs it and goes on).
Resumable(u) ==
  /\ u # Idle
  /\ \/ sch.status[u] = "wait"
     \/ sch.status[u] \in Runnable /\ pc[u] = "enlist"

\* The waker takes the task off the wait list.
Woken(u) == [pc EXCEPT ![u] = IF @ = "enlist" THEN "late" ELSE @]

\* Mutant: no switch_task after the resume.
wake_no_switch(t, u) ==
  /\ InApp(t) /\ Resumable(u)
  /\ sch' = resume(sch, u)
  /\ tm' = timer_stop(tm, u)
  /\ pc' = Woken(u)
  /\ UNCHANGED <<slice, flag, tick, victim>>

\* A task resumes another one with interrupts off, as sem_send does.
TaskWake(t, u) ==
  /\ InApp(t) /\ Resumable(u)
  /\ sch' = resume(sch, u)
  /\ tm' = timer_stop(tm, u)
  /\ pc' = [Woken(u) EXCEPT ![t] = "switch"]
  /\ UNCHANGED <<slice, flag, tick, victim>>

\* A kernel call that changes nothing here ends in switch_task as well, such
\* as sem_send without a waiter.
TaskSwitch(t) ==
  /\ InApp(t)
  /\ pc' = [pc EXCEPT ![t] = "switch"]
  /\ UNCHANGED <<sch, tm, slice, flag, tick, victim>>

SchLock(t) ==
  /\ InApp(t) /\ sch.nest < MaxNest
  /\ sch' = [sch EXCEPT !.nest = @ + 1]
  /\ UNCHANGED <<tm, slice, flag, pc, tick, victim>>

SchUnlock(t) ==
  /\ InApp(t) /\ sch.nest > 0
  /\ sch' = [sch EXCEPT !.nest = @ - 1]
  /\ pc' = IF sch.nest = 1 THEN [pc EXCEPT ![t] = "switch"] ELSE pc
  /\ UNCHANGED <<tm, slice, flag, tick, victim>>

\* The switch_task call that ends a kernel function.
CallSwitch(t) ==
  /\ InTask(t) /\ pc[t] \in BeforeSwitch
  /\ sch' = switch_task(sch)
  /\ pc' = [pc EXCEPT ![t] = CASE pc[t] = "slept" -> "clear"
                               [] pc[t] = "exit"  -> "exit"
                               [] OTHER           -> "user"]
  /\ UNCHANGED <<tm, slice, flag, tick, victim>>

\* The end of task_sleep: the timeout mark is taken away.
ClearFlag(t) ==
  /\ InTask(t) /\ pc[t] = "clear"
  /\ flag' = [flag EXCEPT ![t] = FALSE]
  /\ pc' = [pc EXCEPT ![t] = "user"]
  /\ UNCHANGED <<sch, tm, slice, tick, victim>>

\* Mutant: the closed task stays on the list.
pop_keeps_node ==
  /\ InTask(Idle) /\ pc[Idle] = "user"
  /\ victim = NoTask /\ sch.close # <<>>
  /\ victim' = Head(sch.close)
  /\ UNCHANGED <<sch, tm, slice, flag, pc, tick>>

\* The idle task takes the first closed task off close_task_list ...
IdlePop ==
  /\ InTask(Idle) /\ pc[Idle] = "user"
  /\ victim = NoTask /\ sch.close # <<>>
  /\ victim' = Head(sch.close)
  /\ sch' = Unlink(sch, Head(sch.close))
  /\ UNCHANGED <<tm, slice, flag, pc, tick>>

\* ... and frees its stack and memory.
IdleFree ==
  /\ InTask(Idle) /\ pc[Idle] = "user"
  /\ victim # NoTask
  /\ sch' = SetStatus(sch, victim, "none")
  /\ victim' = NoTask
  /\ UNCHANGED <<tm, slice, flag, pc, tick>>

-----------------------------------------------------------------------------
\* Mutant: remaining_tick is not set again when it runs out.
tick_no_reload ==
  /\ ~Booting /\ tick = "idle"
  /\ tm' = run_tick(tm)
  /\ slice' = [slice EXCEPT ![sch.cur] = @ - 1]
  /\ tick' = IF slice[sch.cur] = 1 THEN "yield" ELSE "timers"
  /\ UNCHANGED <<sch, flag, pc, victim>>

\* system_beat_processing counts the tick and the current task's slice ...
TickCount ==
  /\ ~Booting /\ tick = "idle"
  /\ tm' = run_tick(tm)
  /\ slice' = [slice EXCEPT ![sch.cur] = IF @ = 1 THEN InitTick[sch.cur] ELSE @ - 1]
  /\ tick' = IF slice[sch.cur] = 1 THEN "yield" ELSE "timers"
  /\ UNCHANGED <<sch, flag, pc, victim>>

\* ... calls task_yield_cpu when the slice is used up ...
TickYield ==
  /\ tick = "yield"
  /\ sch' = task_yield_cpu(sch)
  /\ tick' = "timers"
  /\ UNCHANGED <<tm, slice, flag, pc, victim>>

\* Mutant: the callback does not unlink the task first.
timeout_no_unlink ==
  /\ tick = "timers"
  /\ tick' = "idle"
  /\ IF HeadIsDue(tm)
       THEN LET t == Head(tm.list)
            IN  /\ tm' = timer_stop(tm, t)
                /\ flag' = [flag EXCEPT ![t] = TRUE]
                /\ sch' = switch_task(add_task_to_ready_list(sch, t))
       ELSE UNCHANGED <<tm, flag, sch>>
  /\ UNCHANGED <<slice, pc, victim>>

\* ... and calls timer_check, which serves at most one timer: the timeout
\* callback puts the task back on the ready list.
TickTimers ==
  /\ tick = "timers"
  /\ tick' = "idle"
  /\ IF HeadIsDue(tm)
       THEN LET t == Head(tm.list)
            IN  /\ tm' = timer_stop(tm, t)
                /\ flag' = [flag EXCEPT ![t] = TRUE]
                /\ sch' = switch_task(add_task_to_ready_list(Unlink(sch, t), t))
       ELSE UNCHANGED <<tm, flag, sch>>
  /\ UNCHANGED <<slice, pc, victim>>

\* Mutant: the timer of the resumed task keeps running.
isr_wake_keeps_timer(t) ==
  /\ ~Booting
  /\ Resumable(t) \/ (t # Idle /\ sch.status[t] = "running")
  /\ sch' = switch_task(resume(sch, t))
  /\ pc' = Woken(t)
  /\ UNCHANGED <<tm, slice, flag, tick, victim>>

\* A device handler wakes a task: sem_send whoever is on the wait list,
\* msg_q_send a queue owner that is not in the ready state, the running task
\* included.
IsrWake(t) ==
  /\ ~Booting
  /\ Resumable(t) \/ (t # Idle /\ sch.status[t] = "running")
  /\ sch' = switch_task(resume(sch, t))
  /\ tm' = timer_stop(tm, t)
  /\ pc' = Woken(t)
  /\ UNCHANGED <<slice, flag, tick, victim>>

\* A device handler that wakes nobody but calls switch_task: it may take the
\* CPU from a task that has hung itself and not called switch_task yet.
IsrSwitch ==
  /\ ~Booting
  /\ sch' = switch_task(sch)
  /\ UNCHANGED <<tm, slice, flag, pc, tick, victim>>

-----------------------------------------------------------------------------
Tick == TickCount \/ TickYield \/ TickTimers

TaskStep(t) ==
  \/ TaskExit(t) \/ TaskEnlist(t) \/ TaskHang(t)
  \/ \E n \in SleepTicks : TaskSleep(t, n)
  \/ \E u \in Task : TaskWake(t, u)
  \/ TaskSwitch(t) \/ SchLock(t) \/ SchUnlock(t)
  \/ CallSwitch(t) \/ ClearFlag(t)

Next ==
  \/ Start \/ Tick
  \/ \E t \in Task : TaskCreate(t) \/ TaskReady(t) \/ TaskStep(t) \/ IsrWake(t)
  \/ IdlePop \/ IdleFree \/ IsrSwitch

Spec == Init /\ [][Next]_vars

\* The steps that take a kernel function on to its end.
GoOn(t) == CallSwitch(t) \/ ClearFlag(t) \/ (pc[t] \in Window /\ TaskHang(t))

(***************************************************************************)
(* The boot code brings up the idle task and starts the scheduler.         *)
(* SysTick keeps firing and its handler ends.  Kernel functions go on to   *)
(* their end and sch_lock is given back when thread code gets the CPU      *)
(* again and again: handlers interrupt thread code but leave it time       *)
(* between them, hence strong fairness.  Nothing obliges a task to make    *)
(* any other call.                                                         *)
(***************************************************************************)
Fairness ==
  /\ WF_vars(TaskCreate(Idle)) /\ WF_vars(TaskReady(Idle)) /\ WF_vars(Start)
  /\ WF_vars(Tick)
  /\ SF_vars(\E t \in Task : GoOn(t))
  /\ SF_vars(\E t \in Task : SchUnlock(t))

FairSpec == Spec /\ Fairness

-----------------------------------------------------------------------------
\* The ready lists, close_task_list and the task states agree after every
\* critical section, whatever interrupts came between: a task is queued
\* once, where its priority says, exactly when it is ready or running, and
\* only the current task is running (kernel/sch.c, kernel/task.c).
QueuesExact == ListsExact(sch) /\ CloseExact(sch) /\ OneRunning(sch)

\* Bit p of the ready bitmap is set exactly when priority p has a ready task
\* (doc/kernel/sch.md:11), so switch_task never picks from an empty list.
BitmapIsExact == BitmapExact(sch)

\* While a task executes its own code and the scheduler is not locked, it is
\* the first task of the most urgent non-empty list (doc/kernel/sch.md:5):
\* no wake-up by a task, handler or timer leaves a better task waiting.
HighestRuns ==
  \A t \in Task : sch.cur = t /\ pc[t] \in {"user", "clear"} \cup Window
                      /\ sch.nest = 0 => HeadRuns(sch)

\* A task that hung itself, sleeps or has exited does not get past the
\* switch_task call of that kernel function until it has been woken: what
\* executes task code is on a ready list (callers of task_hang rely on it).
NoRunWhileBlocked ==
  \A t \in Task : sch.cur = t /\ pc[t] \in {"user", "switch", "clear"} \cup Window
                    => sch.status[t] \in Runnable

\* The assertion of the timeout callback (kernel/task.c:45): a listed task
\* timer belongs to a task that waits, so the callback never moves a ready,
\* running or closed task.
TimeoutFindsWaiter == \A t \in Armed(tm) : sch.status[t] = "wait"

\* The idle task frees the memory only of a task that has left the CPU for
\* good: closed, not current and on no list (init/system.c:33-36).
ReaperSafe ==
  victim # NoTask =>
    /\ sch.status[victim] = "close" /\ sch.cur # victim
    /\ victim \notin ToSet(sch.close)
    /\ \A p \in Prio : victim \notin ToSet(sch.ready[p])

\* b stands behind a on ready list l.
Ahead(l, a, b) == \E i, j \in DOMAIN l : i < j /\ l[i] = a /\ l[j] = b

\* Tasks of one priority are served first come, first served: a task that
\* becomes ready queues up behind the others, and a task gets behind another
\* one only by going to the tail of the list itself (when its slice ends or it
\* is woken again), so preempted tasks keep their places.
FifoStep ==
  \A p \in Prio : \A a, b \in Task :
    /\ a # b
    /\ a \in ToSet(sch.ready[p]) \cap ToSet(sch'.ready[p])
    /\ b \in ToSet(sch'.ready[p])
    => /\ b \notin ToSet(sch.ready[p]) => Ahead(sch'.ready[p], a, b)
       /\ Ahead(sch.ready[p], a, b)
            => Ahead(sch'.ready[p], a, b) \/ Last(sch'.ready[p]) = a
FifoService == [][FifoStep]_vars

\* From sch_lock to sch_unlock no wake-up, time slice or timer takes the CPU
\* away from the task that locked the scheduler (doc/kernel/sch.md:51).
LockPins == [][sch.nest > 0 => sch'.cur = sch.cur]_vars

\* A sleeping task wakes up: each timer gets to the head of the list and is
\* served although timer_check serves one timer per tick.
SleepersWake ==
  \A t \in Task : (t \in Armed(tm)) ~> (t \notin Armed(tm))

\* Round robin (doc/kernel/sch.md:6): among tasks of one priority, with none
\* more urgent, a ready task gets the CPU.
RoundRobin ==
  \A t \in Task \ {Idle} : (sch.status[t] = "ready") ~> (sch.cur = t)

=============================================================================
