------------------------------- MODULE Mutex -------------------------------
(***************************************************************************)
(* A mutex (kernel/mutex.c) with its priority inheritance (task_ctrl of    *)
(* kernel/task.c) on the running kernel, locked and unlocked by tasks.     *)
(*                                                                         *)
(* mutex_lock queues the task and enables interrupts before task_hang;     *)
(* mutex_unlock names the next owner and enables interrupts before         *)
(* task_resume.  That one writes the status with interrupts on, unlinks    *)
(* the task with interrupts off, enables them and adds it to its ready     *)
(* list.  Each of these stretches is a step.                               *)
(***************************************************************************)
EXTENDS Sched

CONSTANTS
  User,         \* tasks that lock the mutex
  QueueOwner    \* tasks a device handler resumes by msg_q_send

ASSUME MutexAssumption ==
  /\ User \cup QueueOwner \subseteq Task \ {Idle}

VARIABLES
  lock,    \* struct mutex: count, owner, wait_list
  at,      \* where each task is: "in" from the return of mutex_lock
           \* up to the call of mutex_unlock
  heir,    \* the task that a task_resume in progress is called with
  disturbed \* history: a task has been made ready by somebody else while a
           \* task_resume was on its way to it, or without the mutex while it
           \* waited for it

mutexVars == <<vars, lock, at, heir, disturbed>>

\* "mark", "unlink" and "add" stand before the three stretches of task_resume.
Resuming == {"mark", "unlink", "add"}
At == {"out", "listed", "asleep", "in"} \cup Resuming

MutexTypeOK ==
  /\ lock \in [count : 0..1, owner : Task \cup {NoTask}, wait_list : Seq(Task)]
  /\ at \in [Task -> At]
  /\ heir \in [Task -> Task \cup {NoTask}]
  /\ disturbed \in BOOLEAN

\* __mutex_init
MutexInit ==
  /\ Init
  /\ lock = [count |-> 1, owner |-> NoTask, wait_list |-> <<>>]
  /\ at = [t \in Task |-> "out"]
  /\ heir = [t \in Task |-> NoTask]
  /\ disturbed = FALSE

\* t, or a handler if t is NoTask, readies u although another task is about
\* to, or although u waits in mutex_lock and has not been given the mutex.
Meddles(t, u) ==
  \/ \E v \in Task \ {t} : heir[v] = u
  \/ at[u] = "asleep" /\ lock.owner # u
Disturbs(t, u) == disturbed' = (disturbed \/ Meddles(t, u))

-----------------------------------------------------------------------------
\* Mutant: the count is not tested.
acquire_any(t) ==
  /\ InApp(t) /\ t \in User /\ at[t] = "out"
  /\ lock' = [lock EXCEPT !.count = 0, !.owner = t]
  /\ at' = [at EXCEPT ![t] = "in"]
  /\ UNCHANGED <<vars, heir, disturbed>>

\* mutex_lock, and mutex_try_lock, of a mutex that is free.
Acquire(t) ==
  /\ InApp(t) /\ t \in User /\ at[t] = "out"
  /\ lock.count = 1
  /\ lock' = [lock EXCEPT !.count = 0, !.owner = t]
  /\ at' = [at EXCEPT ![t] = "in"]
  /\ UNCHANGED <<vars, heir, disturbed>>

\* A task waits in front of the first waiter that is more urgent.
WaitPlace(l, t) ==
  Min({i \in DOMAIN l : sch.prio[t] > sch.prio[l[i]]} \cup {Len(l) + 1})

\* The owner gets the priority of a more urgent waiter.
Outranks(k, t) == k.prio[t] < k.prio[lock.owner]
Inherit(k, t) ==
  IF Outranks(k, t) THEN task_set_prio(k, lock.owner, k.prio[t]) ELSE k

\* mutex_lock of a mutex that is taken, up to task_hang.
Enqueue(t) ==
  /\ InApp(t) /\ t \in User /\ at[t] = "out"
  /\ lock.count = 0
  /\ LET l == ListDel(lock.wait_list, t)
     IN  lock' = [lock EXCEPT !.wait_list = ListAddBefore(l, WaitPlace(l, t), t)]
  /\ sch' = Inherit(sch, t)
  /\ pc' = [pc EXCEPT ![t] = "enlist"]
  /\ at' = [at EXCEPT ![t] = "listed"]
  /\ IF Outranks(sch, t) THEN Disturbs(t, lock.owner) ELSE UNCHANGED disturbed
  /\ UNCHANGED <<tm, slice, flag, tick, victim, heir>>

LockHang(t) ==
  /\ at[t] = "listed" /\ TaskHang(t)
  /\ at' = [at EXCEPT ![t] = "asleep"]
  /\ UNCHANGED <<lock, heir, disturbed>>

\* mutex_lock returns behind switch_task, without a look at the mutex.
LockReturn(t) ==
  /\ InApp(t) /\ at[t] = "asleep"
  /\ at' = [at EXCEPT ![t] = "in"]
  /\ UNCHANGED <<vars, lock, heir, disturbed>>

\* mutex_unlock by a task that does not own the mutex returns.
UnlockOther(t) ==
  /\ InApp(t) /\ t \in User /\ at[t] \in {"in", "out"} /\ lock.owner # t
  /\ at' = [at EXCEPT ![t] = "out"]
  /\ UNCHANGED <<vars, lock, heir, disturbed>>

\* mutex_unlock without waiters: the owner gets its priority back, which puts
\* it, ready, at the tail of its list; switch_task is not called.
UnlockFree(t) ==
  /\ InApp(t) /\ at[t] = "in" /\ lock.owner = t
  /\ lock.wait_list = <<>>
  /\ lock' = [lock EXCEPT !.count = 1, !.owner = NoTask]
  /\ sch' = task_set_prio(sch, t, InitPriority[t])
  /\ at' = [at EXCEPT ![t] = "out"]
  /\ UNCHANGED <<tm, slice, flag, pc, tick, victim, heir, disturbed>>

\* mutex_unlock with waiters: the first one, which stays on the wait list,
\* becomes the owner.
UnlockHand(t) ==
  /\ InApp(t) /\ at[t] = "in" /\ lock.owner = t
  /\ lock.wait_list # <<>>
  /\ lock' = [lock EXCEPT !.owner = Head(lock.wait_list)]
  /\ sch' = task_set_prio(sch, t, InitPriority[t])
  /\ heir' = [heir EXCEPT ![t] = Head(lock.wait_list)]
  /\ at' = [at EXCEPT ![t] = "mark"]
  /\ UNCHANGED <<tm, slice, flag, pc, tick, victim, disturbed>>

\* task_resume of heir[t]: whatever its status is, it becomes WAIT ...
ResumeMark(t) ==
  /\ InApp(t) /\ at[t] = "mark"
  /\ sch' = SetStatus(sch, heir[t], "wait")
  /\ at' = [at EXCEPT ![t] = "unlink"]
  /\ Disturbs(t, heir[t])
  /\ UNCHANGED <<tm, slice, flag, pc, tick, victim, lock, heir>>

\* ... it is taken off the list it is on and its timer stopped, whatever its
\* status is by then ...
ResumeUnlink(t) ==
  /\ InApp(t) /\ at[t] = "unlink"
  /\ sch' = Unlink(sch, heir[t])
  /\ tm' = timer_stop(tm, heir[t])
  /\ pc' = Woken(heir[t])
  /\ at' = [at EXCEPT ![t] = "add"]
  /\ Disturbs(t, heir[t])
  /\ UNCHANGED <<slice, flag, tick, victim, lock, heir>>

Linked(u) == \E p \in Prio : u \in ToSet(sch.ready[p])

\* ... and added to the ready list; switch_task follows.  To add a task that is
\* on a list again would tear the list, and what follows is undefined.
ResumeAdd(t) ==
  /\ InApp(t) /\ at[t] = "add" /\ ~Linked(heir[t])
  /\ sch' = add_task_to_ready_list(sch, heir[t])
  /\ pc' = [pc EXCEPT ![t] = "switch"]
  /\ at' = [at EXCEPT ![t] = "out"]
  /\ heir' = [heir EXCEPT ![t] = NoTask]
  /\ Disturbs(t, heir[t])
  /\ UNCHANGED <<tm, slice, flag, tick, victim, lock>>

\* switch_task behind the wake-up of u finds a task.
Finds(u) == PickIsTask(add_task_to_ready_list(Unlink(sch, u), u))

\* A message for a task that is not ready, from a device handler.
IsrPost(u) ==
  /\ Finds(u)
  /\ u \in QueueOwner /\ sch.status[u] # "ready"
  /\ IsrWake(u)
  /\ Disturbs(NoTask, u)
  /\ UNCHANGED <<lock, at, heir>>

\* Tasks sleep between their uses of the mutex.
Sleep(t) ==
  /\ at[t] = "out" /\ \E n \in SleepTicks : TaskSleep(t, n)
  /\ UNCHANGED <<lock, at, heir, disturbed>>

\* The kernel's own steps.  What follows a switch_task that finds the list of
\* the first set bit empty is undefined: there it is not called.
KernelStep ==
  /\ \/ Booting /\ (Start \/ \E t \in Task : TaskCreate(t) \/ TaskReady(t))
     \/ PickIsTask(sch) /\ (IsrSwitch \/ \E t \in Task : CallSwitch(t))
     \/ (Linked(sch.cur) => PickIsTask(sch)) /\ TickYield
     \/ (HeadIsDue(tm) => Finds(Head(tm.list))) /\ TickTimers
     \/ TickCount \/ \E t \in Task : ClearFlag(t)
  /\ UNCHANGED <<lock, at, heir, disturbed>>

MutexStep(t) ==
  \/ Acquire(t) \/ Enqueue(t) \/ LockHang(t) \/ LockReturn(t)
  \/ UnlockOther(t) \/ UnlockFree(t) \/ UnlockHand(t)
  \/ ResumeMark(t) \/ ResumeUnlink(t) \/ ResumeAdd(t) \/ Sleep(t)

MutexNext == KernelStep \/ \E t \in Task : MutexStep(t) \/ IsrPost(t)

MutexSpec == MutexInit /\ [][MutexNext]_mutexVars

-----------------------------------------------------------------------------
\* Who has come back from mutex_lock and not called mutex_unlock owns the
\* mutex, so two tasks are never between the two calls at once
\* (kernel/mutex.c:40).
Excludes == \A t \in Task : at[t] = "in" => lock.owner = t /\ lock.count = 0

\* It does so until somebody readies a task that another one is resuming or
\* that waits for the mutex, as a message for a queue owner may do
\* (kernel/msg_queue.c:141); a task that was woken between mutex_lock's two
\* halves, preempted there or handed the mutex before it hung does not
\* (kernel/mutex.c:69-71).
InsideOwns == disturbed \/ Excludes

\* A task that has called mutex_unlock does not own the mutex any more
\* (kernel/mutex.c:92).
OutsideOwnsNot == \A t \in Task : at[t] = "out" => lock.owner # t

\* Whatever strikes between the three stretches of a task_resume, where the
\* status of the task may be anything (kernel/task.c:255-268), the lists of all
\* others agree with their states, and no task is on a list twice or on one of
\* another priority.
Resumed == {heir[t] : t \in {u \in Task : at[u] \in {"unlink", "add"}}}
OthersInPlace ==
  /\ \A p \in Prio :
       /\ NoDup(sch.ready[p])
       /\ \A t \in ToSet(sch.ready[p]) : sch.prio[t] = p
       /\ \A t \in Task \ Resumed :
            t \in ToSet(sch.ready[p]) <=> sch.status[t] \in Runnable /\ sch.prio[t] = p
  /\ CloseExact(sch) /\ OneRunning(sch)

\* A task that is about to be added to a ready list is on none: a list holds the
\* ready tasks in a chain, each of them once (doc/kernel/sch.md:14).
AddsUnlinked == \A t \in Task : InApp(t) /\ at[t] = "add" => ~Linked(heir[t])

\* switch_task, which any handler may call at any time, finds a task behind
\* the first bit of the bitmap (doc/kernel/sch.md:11).
SwitchFindsTask == ~Booting => PickIsTask(sch)

=============================================================================
