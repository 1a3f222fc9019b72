------------------------------- MODULE SchOps -------------------------------
(***************************************************************************)
(* The scheduler and the task primitives of kernel/sch.c and kernel/task.c *)
(* as operators on the scheduler's state, a record with the fields         *)
(*   ready   ready_task_list[]: one FIFO list of tasks per priority        *)
(*   mask    ready_task_priority_group: the set of priorities whose bit is *)
(*           set                                                           *)
(*   close   close_task_list: exited tasks the idle task has yet to free   *)
(*   status  status of every task struct                                   *)
(*   prio    current_priority of every task struct                         *)
(*   cur     current_task, NoTask until sch_start                          *)
(*   nest    scheduler_lock_nest                                           *)
(* Every C function below runs with interrupts off, so each operator is    *)
(* one indivisible step; the modules that use them put interrupts between  *)
(* two such steps.  context_switch only pends PendSV, so "the CPU runs     *)
(* cur" holds as soon as no handler is active.                             *)
(***************************************************************************)
EXTENDS Lists

CONSTANTS
  Task,          \* task structs
  NoTask,        \* the null pointer
  MaxPriority,   \* MAX_PRIORITY; 0 is the most urgent priority
  InitPriority   \* init_priority each task is created with

ASSUME SchOpsAssumption ==
  /\ NoTask \notin Task
  /\ MaxPriority \in Nat \ {0}
  /\ InitPriority \in [Task -> 0..(MaxPriority - 1)]

Prio == 0..(MaxPriority - 1)

\* enum task_status; "none" is a struct that is not allocated.
Status == {"none", "suspend", "ready", "running", "wait", "close"}
Runnable == {"ready", "running"}

SchType ==
  [ready  : [Prio -> Seq(Task)], mask : SUBSET Prio, close : Seq(Task),
   status : [Task -> Status],    prio : [Task -> Prio],
   cur    : Task \cup {NoTask},  nest : Nat]

\* sch_init, and the lists of task.c, before any task exists.
SchInit ==
  [ready  |-> [p \in Prio |-> <<>>],       mask |-> {},  close |-> <<>>,
   status |-> [t \in Task |-> "none"],     prio |-> InitPriority,
   cur    |-> NoTask,                      nest |-> 0]

\* offset_mask: the bit of the bitmap that belongs to the task.  It is set
\* once, when the task is created, and does not follow current_priority.
OffsetMask(t) == {InitPriority[t]}

-----------------------------------------------------------------------------
\* list_del(&task->list): the node is on one ready list, on close_task_list
\* or on none; the bitmap is left alone.
Unlink(k, t) ==
  [k EXCEPT !.ready = [p \in Prio |-> ListDel(k.ready[p], t)],
            !.close = ListDel(k.close, t)]

SetStatus(k, t, s) == [k EXCEPT !.status[t] = s]

\* Mutant: new arrivals go to the head of the list.
add_at_head(k, t) ==
  [k EXCEPT !.status[t] = "ready",
            !.ready[k.prio[t]] = <<t>> \o k.ready[k.prio[t]],
            !.mask = k.mask \cup OffsetMask(t)]

add_task_to_ready_list(k, t) ==
  [k EXCEPT !.status[t] = "ready",
            !.ready[k.prio[t]] = ListAddTail(k.ready[k.prio[t]], t),
            !.mask = k.mask \cup OffsetMask(t)]

\* Mutant: the bit is cleared although the list is not empty.
del_always_clears(k, t) ==
  [Unlink(k, t) EXCEPT !.mask = k.mask \ OffsetMask(t)]

del_task_to_ready_list(k, t) ==
  LET u == Unlink(k, t)
  IN  [u EXCEPT !.mask = IF u.ready[k.prio[t]] = <<>>
                           THEN k.mask \ OffsetMask(t)
                           ELSE k.mask]

\* The task switch_task picks: the head of the list of the first set bit.
NextTask(k) == Head(k.ready[Min(k.mask)])

\* There is one: otherwise switch_task makes the list head itself, no task
\* struct at all, the current task.
PickIsTask(k) == k.mask # {} /\ k.ready[Min(k.mask)] # <<>>

\* Mutant: the lock count is not tested.
switch_ignores_lock(k) ==
  LET to == NextTask(k)
  IN  [k EXCEPT !.cur = to,
                !.status = [t \in Task |->
                   IF t = to THEN "running"
                   ELSE IF t = k.cur /\ k.status[t] = "running" THEN "ready"
                   ELSE k.status[t]]]

\* switch_task: nothing while the scheduler is locked; otherwise the picked
\* task becomes current, and the task it replaces, if it was running, ready.
switch_task(k) ==
  IF k.nest # 0 THEN k
  ELSE LET to == NextTask(k)
       IN  [k EXCEPT !.cur = to,
                     !.status = [t \in Task |->
                        IF t = to THEN "running"
                        ELSE IF t = k.cur /\ k.status[t] = "running" THEN "ready"
                        ELSE k.status[t]]]

sch_start(k) ==
  [k EXCEPT !.cur = NextTask(k), !.status[NextTask(k)] = "running"]

-----------------------------------------------------------------------------
\* The part of task_hang, task_resume and task_del that concerns the
\* scheduler (their callers stop the task's timer in the same step).
hang(k, t) == del_task_to_ready_list(SetStatus(k, t, "wait"), t)

\* Mutant of resume: the node is not unlinked first.
resume_linked(k, t) == add_task_to_ready_list(SetStatus(k, t, "wait"), t)

resume(k, t) == add_task_to_ready_list(Unlink(SetStatus(k, t, "wait"), t), t)

delete(k, t) ==
  LET d == IF k.status[t] \in Runnable THEN del_task_to_ready_list(k, t) ELSE k
  IN  [d EXCEPT !.status[t] = "close", !.close = ListAddTail(d.close, t)]

\* Mutant: the task is not taken off its old list.
set_prio_linked(k, t, p) == add_task_to_ready_list([k EXCEPT !.prio[t] = p], t)

\* task_set_prio: whatever its state, the task becomes ready at the tail of
\* the list of its new priority.
task_set_prio(k, t, p) ==
  add_task_to_ready_list([del_task_to_ready_list(k, t) EXCEPT !.prio[t] = p], t)

\* Mutant: the task keeps its place.
yield_in_place(k) == switch_task(k)

\* task_yield_cpu: a running task goes to the tail of its list.
task_yield_cpu(k) ==
  LET t == k.cur
      p == k.prio[t]
  IN  IF k.status[t] = "running" /\ \E q \in Prio : t \in ToSet(k.ready[q])
        THEN switch_task([Unlink(k, t) EXCEPT
                            !.ready[p] = ListAddTail(ListDel(k.ready[p], t), t)])
        ELSE k

-----------------------------------------------------------------------------
(***************************************************************************)
(* What the scheduler's state has to satisfy between two of its functions. *)
(***************************************************************************)

\* A task is on the list of its priority, once, exactly when it is ready or
\* running, and on no other ready list.
ListsExact(k) ==
  \A p \in Prio :
    /\ NoDup(k.ready[p])
    /\ \A t \in Task : t \in ToSet(k.ready[p]) <=>
                         k.status[t] \in Runnable /\ k.prio[t] = p

\* A bit is set exactly when the list of its priority is not empty
\* (doc/kernel/sch.md:11).
BitmapExact(k) == k.mask = {p \in Prio : k.ready[p] # <<>>}

\* close_task_list holds the closed tasks, once each, and nothing else.
CloseExact(k) ==
  /\ NoDup(k.close)
  /\ \A t \in ToSet(k.close) : k.status[t] = "close"

\* Nobody but the current task is in the running state.
OneRunning(k) == \A t \in Task : k.status[t] = "running" => t = k.cur

\* The current task is the one switch_task would pick, and is running.
HeadRuns(k) == /\ k.mask # {}
               /\ k.cur = NextTask(k)
               /\ k.status[k.cur] = "running"

=============================================================================
