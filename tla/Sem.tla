-------------------------------- MODULE Sem --------------------------------
(***************************************************************************)
(* A semaphore (kernel/sem.c) on the running kernel: tasks get units, with *)
(* or without a timeout, tasks and device handlers send them.              *)
(*                                                                         *)
(* sem_get tests the count with interrupts on and then, in a critical      *)
(* section each, either takes a unit or goes on the wait list and hangs    *)
(* itself; sem_get_timeout starts its timer in one more.  An interrupt may *)
(* strike between any two of these steps.  Every caller in the tree sends  *)
(* one unit at a time (sem_send_one).                                      *)
(***************************************************************************)
EXTENDS Sched

CONSTANTS
  Consumer,    \* tasks that get units
  Sender,      \* tasks that send units
  Timeouts,    \* the timeouts passed to sem_get_timeout
  Untimed,     \* whether tasks call sem_get as well
  CountMod,    \* count is a uint8_t: it wraps at 2^8
  MaxSends,    \* bound: the number of units sent
  MaxTaken     \* bound: no get is begun once so many have succeeded

ASSUME SemAssumption ==
  /\ Consumer \cup Sender \subseteq Task \ {Idle}
  /\ Timeouts \subseteq Nat \ {0}
  /\ Untimed \in BOOLEAN
  /\ CountMod \in Nat \ {0, 1}
  /\ MaxSends \in Nat /\ MaxTaken \in Nat

VARIABLES
  count,        \* sem->count
  wait_list,    \* sem->wait_list
  at,           \* where each task is inside sem_get or sem_get_timeout
  sent, taken   \* history: the units sent, and taken by a get that succeeded

semVars == <<vars, count, wait_list, at, sent, taken>>

\* "take" and "insert" follow the test of the count, "listed" is in the
\* window before task_hang, "arm" before the start of the timer; "asleep"
\* (sem_get) and "timed" (sem_get_timeout) reach up to the code behind
\* switch_task, and "cleanup" is where the timeout was noticed.
At == {"out", "take", "insert", "listed", "arm", "asleep", "timed", "cleanup"}

SemTypeOK ==
  /\ count \in 0..(CountMod - 1)
  /\ wait_list \in Seq(Consumer)
  /\ at \in [Task -> At]
  /\ sent \in 0..MaxSends
  /\ taken \in Nat

SemInit ==
  /\ Init
  /\ count = 0 /\ wait_list = <<>>
  /\ at = [t \in Task |-> "out"]
  /\ sent = 0 /\ taken = 0

-----------------------------------------------------------------------------
\* The test of the count, with interrupts on.
GetTest(t) ==
  /\ InApp(t) /\ t \in Consumer /\ at[t] = "out" /\ taken < MaxTaken
  /\ at' = [at EXCEPT ![t] = IF count > 0 THEN "take" ELSE "insert"]
  /\ UNCHANGED <<vars, count, wait_list, sent, taken>>

\* Mutant: the unit is not taken off the count.
take_keeps_count(t) ==
  /\ InApp(t) /\ at[t] = "take"
  /\ taken' = taken + 1
  /\ at' = [at EXCEPT ![t] = "out"]
  /\ UNCHANGED <<vars, count, wait_list, sent>>

\* count-- whatever happened to the count since the test.
GetTake(t) ==
  /\ InApp(t) /\ at[t] = "take"
  /\ count' = (count + CountMod - 1) % CountMod
  /\ taken' = taken + 1
  /\ at' = [at EXCEPT ![t] = "out"]
  /\ UNCHANGED <<vars, wait_list, sent>>

\* __sem_get goes in front of the first waiter that is more urgent.
WaitPlace(l, t) ==
  Min({i \in DOMAIN l : sch.prio[t] > sch.prio[l[i]]} \cup {Len(l) + 1})

GetEnlist(t) ==
  /\ at[t] = "insert" /\ TaskEnlist(t)
  /\ LET l == ListDel(wait_list, t)
     IN  wait_list' = ListAddBefore(l, WaitPlace(l, t), t)
  /\ at' = [at EXCEPT ![t] = "listed"]
  /\ UNCHANGED <<count, sent, taken>>

\* task_hang, whether or not a unit has arrived in the window.
GetHang(t) ==
  /\ at[t] = "listed" /\ TaskHang(t)
  /\ \/ Untimed /\ at' = [at EXCEPT ![t] = "asleep"]
     \/ Timeouts # {} /\ at' = [at EXCEPT ![t] = "arm"]
  /\ UNCHANGED <<count, wait_list, sent, taken>>

\* timer_start of sem_get_timeout, in a critical section of its own.
GetArm(t, n) ==
  /\ InTask(t) /\ at[t] = "arm"
  /\ tm' = timer_start(tm, t, n)
  /\ at' = [at EXCEPT ![t] = "timed"]
  /\ UNCHANGED <<sch, slice, flag, pc, tick, victim, count, wait_list, sent, taken>>

\* Mutant: the flag is not looked at.
return_ignores_flag(t) ==
  /\ InApp(t) /\ at[t] \in {"asleep", "timed"}
  /\ at' = [at EXCEPT ![t] = "out"]
  /\ taken' = taken + 1
  /\ UNCHANGED <<vars, count, wait_list, sent>>

\* Behind switch_task: sem_get returns; sem_get_timeout looks at the flag.
GetReturn(t) ==
  /\ InApp(t)
  /\ \/ at[t] = "asleep"
     \/ at[t] = "timed" /\ ~flag[t]
  /\ at' = [at EXCEPT ![t] = "out"]
  /\ taken' = taken + 1
  /\ UNCHANGED <<vars, count, wait_list, sent>>

GetTimedOut(t) ==
  /\ InApp(t) /\ at[t] = "timed" /\ flag[t]
  /\ at' = [at EXCEPT ![t] = "cleanup"]
  /\ UNCHANGED <<vars, count, wait_list, sent, taken>>

\* Mutant: the waiter stays on the list.
cleanup_keeps_node(t) ==
  /\ InApp(t) /\ at[t] = "cleanup"
  /\ flag' = [flag EXCEPT ![t] = FALSE]
  /\ at' = [at EXCEPT ![t] = "out"]
  /\ UNCHANGED <<sch, tm, slice, pc, tick, victim, count, wait_list, sent, taken>>

\* -ETIMEDOUT is returned.
GetCleanup(t) ==
  /\ InApp(t) /\ at[t] = "cleanup"
  /\ flag' = [flag EXCEPT ![t] = FALSE]
  /\ wait_list' = ListDel(wait_list, t)
  /\ at' = [at EXCEPT ![t] = "out"]
  /\ UNCHANGED <<sch, tm, slice, pc, tick, victim, count, sent, taken>>

-----------------------------------------------------------------------------
\* sem_send without a waiter adds a unit.
AddUnit == count' = (count + 1) % CountMod /\ UNCHANGED wait_list

\* sem_send hands its unit to the first waiter u, the count stays.
HandUnit(u) ==
  /\ wait_list # <<>> /\ u = Head(wait_list)
  /\ wait_list' = Tail(wait_list)
  /\ UNCHANGED count

\* Mutant: no switch_task behind the resume.
send_no_switch(t) ==
  /\ InApp(t) /\ t \in Sender /\ at[t] = "out"
  /\ sent < MaxSends /\ sent' = sent + 1
  /\ \/ \E u \in Consumer :
          /\ HandUnit(u)
          /\ sch' = resume(sch, u)
          /\ tm' = timer_stop(tm, u)
          /\ pc' = Woken(u)
          /\ UNCHANGED <<slice, flag, tick, victim>>
     \/ wait_list = <<>> /\ AddUnit /\ TaskSwitch(t)
  /\ UNCHANGED <<at, taken>>

\* sem_send by a task; the switch_task at its end is CallSwitch.
TaskSend(t) ==
  /\ InApp(t) /\ t \in Sender /\ at[t] = "out"
  /\ sent < MaxSends /\ sent' = sent + 1
  /\ \/ \E u \in Consumer :
          /\ HandUnit(u)
          /\ sch' = resume(sch, u)
          /\ tm' = timer_stop(tm, u)
          /\ pc' = [Woken(u) EXCEPT ![t] = "switch"]
          /\ UNCHANGED <<slice, flag, tick, victim>>
     \/ wait_list = <<>> /\ AddUnit /\ TaskSwitch(t)
  /\ UNCHANGED <<at, taken>>

\* sem_send by a device handler.
IsrSend ==
  /\ ~Booting
  /\ sent < MaxSends /\ sent' = sent + 1
  /\ \/ \E u \in Consumer :
          /\ HandUnit(u)
          /\ sch' = switch_task(resume(sch, u))
          /\ tm' = timer_stop(tm, u)
          /\ pc' = Woken(u)
          /\ UNCHANGED <<slice, flag, tick, victim>>
     \/ wait_list = <<>> /\ AddUnit /\ IsrSwitch
  /\ UNCHANGED <<at, taken>>

\* The kernel's own steps; a task before timer_start has yet to get to the
\* switch_task call.
KernelStep ==
  /\ \/ Booting /\ (Start \/ \E t \in Task : TaskCreate(t) \/ TaskReady(t))
     \/ Tick
     \/ \E t \in Task : at[t] # "arm" /\ CallSwitch(t)
  /\ UNCHANGED <<count, wait_list, at, sent, taken>>

GetStep(t) ==
  \/ GetTest(t) \/ GetTake(t) \/ GetEnlist(t) \/ GetHang(t)
  \/ \E n \in Timeouts : GetArm(t, n)
  \/ GetReturn(t) \/ GetTimedOut(t) \/ GetCleanup(t)

SemNext ==
  \/ KernelStep \/ IsrSend
  \/ \E t \in Task : GetStep(t) \/ TaskSend(t)

SemSpec == SemInit /\ [][SemNext]_semVars

-----------------------------------------------------------------------------
\* Units on their way: handed to a consumer whose get has not returned yet.
InGet(t) == at[t] \in {"listed", "arm", "asleep", "timed", "cleanup"}
Granted == {t \in Consumer : InGet(t) /\ t \notin ToSet(wait_list)}

\* Every unit sent is in the count, on its way to one consumer or taken by
\* one, up to the wrap of the uint8_t, whatever strikes between the test of
\* the count and the step that relies on it.  (Of gets without a timeout: a
\* timed-out waiter that is still listed swallows a unit.)
Conserved ==
  (count + taken + Cardinality(Granted)) % CountMod = sent % CountMod

\* With one consumer a get never succeeds without a unit, in spite of
\* timeouts, timers that fire late and marks of earlier timeouts: the count
\* cannot wrap below 0 and no unit is spent twice.
NoUnitMade ==
  count + taken + Cardinality({t \in Granted : ~flag[t]}) <= sent

\* Who is on the wait list is inside a get of this semaphore and listed
\* once: sem_send never resumes a task that has returned and waits for
\* something else (the list_del behind a timeout, kernel/sem.c:107).
WaitersInside ==
  /\ NoDup(wait_list)
  /\ \A t \in ToSet(wait_list) : InGet(t)

\* What the timeout callback asserts when timer_check calls it
\* (kernel/task.c:45): the task of the timer that is due waits.
CallbackFindsWaiter ==
  tick = "timers" /\ HeadIsDue(tm) => sch.status[Head(tm.list)] = "wait"

=============================================================================
